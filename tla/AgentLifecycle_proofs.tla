------------------------ MODULE AgentLifecycle_proofs ------------------------
(***************************************************************************)
(* Proofs about AgentLifecycle, for every set of process ids, every        *)
(* timeout, with and without agents started outside systemd, and with and  *)
(* without starved goroutines.                                             *)
(***************************************************************************)
EXTENDS AgentLifecycle, TLAPS

StartingUp == {"dead", "begin", "env", "datadir", "open"}
Unwinding == {"clear", "mclose", "mclosing", "exit"}

(* Where the time of a stop is spent.  Unless goroutines are starved, an   *)
(* agent that has served hands the database to the closing goroutine       *)
(* before any time passes, so the deferred close finds nothing to wait for.*)
BoundOK(a) ==
    /\ a.pc \in StartingUp \cup {"liveness", "serve"} => a.waited = 0
    /\ a.served /\ a.pc # "serve" => a.closer # "none"
    /\ ~Starvation /\ a.served =>
         /\ a.waited <= ShutdownTimeout
         /\ a.closer = "start" => a.waited = 0 /\ a.pc = "shutwait"
         /\ a.pc \in Unwinding => ~a.handle /\ a.pc # "mclosing"

(* What is true of one agent, whatever its stage: who still holds the      *)
(* database, who closes it, and what start-up has not done yet.            *)
AgentOK(a) ==
    /\ a \in AgentRec
    /\ a.closes <= 1
    /\ a.handle => a.dbOpen /\ a.closes = 0
    /\ a.dbOpen => a.handle \/ a.closer = "closing" \/ a.pc = "mclosing"
    /\ a.pc \in StartingUp => ~a.dbOpen /\ a.closes = 0
    /\ a.pc \in StartingUp \cup {"liveness", "serve"} => a.closer = "none"
    /\ a.pc \in StartingUp \cup {"liveness"} => ~a.served
    /\ a.pc \in {"mclosing", "exit"} => ~a.handle
    /\ a.pc = "mclosing" => a.closer # "closing"
    /\ a.pc \in Unwinding /\ a.closer \in {"start", "closing"} => a.timedOut
    /\ a.closer \in {"closing", "done", "doneErr"} => ~a.handle
    /\ BoundOK(a)

(* The PID file no longer names an agent that has cleared its liveness.    *)
FileOK ==
    \A p \in Pid : ag[p].served /\ ag[p].pc \in Unwinding \ {"clear"} /\ pidFile = p
                     => ag[p].kept

(* The variables that AgentOK does not speak of have their types.          *)
RestOK ==
    /\ procs \in [Pid -> OtherNames \cup {AgentName, "none"}]
    /\ pidFile \in Pid \cup {None}
    /\ svc \in [state : {"stopped", "running", "stopping", "restart"},
                main : Pid \cup {None}]
    /\ starts \in 0..MaxStarts
    /\ killed \in BOOLEAN /\ (~Starvation => ~killed)
    /\ check \in CheckRec
    /\ watch \in [up : BOOLEAN, any : BOOLEAN]

LifeInv ==
    /\ ag \in [Pid -> AgentRec]
    /\ \A p \in Pid : AgentOK(ag[p])
    /\ FileOK
    /\ RestOK

------------------------------------------------------------------------------
(* Lemmas.                                                                 *)

(* An agent that is not there satisfies AgentOK, and so does one that has  *)
(* just been launched.                                                     *)
LEMMA DeadOK == AgentOK(Dead) /\ AgentOK([Dead EXCEPT !.pc = "begin"])
<1>1. AgentOK(Dead)
  BY DEF AgentOK, BoundOK, Dead, AgentRec, Stages, StartingUp, Unwinding
<1>2. ASSUME NEW d \in AgentRec, AgentOK(d), d.pc = "dead"
      PROVE  AgentOK([d EXCEPT !.pc = "begin"])
  BY <1>2 DEF AgentOK, BoundOK, AgentRec, Stages, StartingUp, Unwinding
<1>3. Dead \in AgentRec /\ Dead.pc = "dead"
  BY <1>1 DEF AgentOK, Dead
<1> QED BY <1>1, <1>2, <1>3

(* Watching a check keeps the type of its history.                         *)
LEMMA WatchOK ==
  ASSUME RestOK, Watching \/ WatchFromNow
  PROVE  watch' \in [up : BOOLEAN, any : BOOLEAN]
<1>1. AgentsUp \in BOOLEAN /\ AgentsAny \in BOOLEAN
  BY DEF AgentsUp, AgentsAny
<1>2. AgentsUp' \in BOOLEAN /\ AgentsAny' \in BOOLEAN
  BY DEF AgentsUp, AgentsAny
<1>3. watch.up \in BOOLEAN /\ watch.any \in BOOLEAN
  BY DEF RestOK
<1>4. watch \in [up : BOOLEAN, any : BOOLEAN]
  BY DEF RestOK
<1>5. ASSUME NEW u \in BOOLEAN, NEW v \in BOOLEAN
      PROVE  [up |-> u, any |-> v] \in [up : BOOLEAN, any : BOOLEAN]
  OBVIOUS
<1>6. CASE WatchFromNow
  BY <1>1, <1>5, <1>6 DEF WatchFromNow
<1>7. CASE Watching /\ check.pc = "idle"
  BY <1>4, <1>7 DEF Watching
<1>8. CASE Watching /\ check.pc # "idle"
  <2>1. watch' = [up |-> watch.up /\ AgentsUp', any |-> watch.any \/ AgentsAny']
    BY <1>8 DEF Watching
  <2>2. (watch.up /\ AgentsUp') \in BOOLEAN /\ (watch.any \/ AgentsAny') \in BOOLEAN
    BY Zenon
  <2> HIDE DEF AgentsUp, AgentsAny
  <2> QED BY <2>1, <2>2, <1>5
<1> QED BY <1>6, <1>7, <1>8, Zenon

(* A step that changes one agent, keeping AgentOK of it, and that touches  *)
(* the PID file only in a way FileOK allows.                               *)
LEMMA OneAgent ==
  ASSUME LifeInv, NEW p \in Pid, NEW a, ag' = [ag EXCEPT ![p] = a], AgentOK(a),
         pidFile' \in {pidFile, None} \/ (pidFile' = p /\ a.pc = "serve"),
         a.served /\ a.pc \in Unwinding \ {"clear"} /\ pidFile' = p => a.kept
  PROVE  /\ ag' \in [Pid -> AgentRec]
         /\ \A q \in Pid : AgentOK(ag'[q])
         /\ FileOK'
         /\ pidFile' \in Pid \cup {None}
<1>1. a \in AgentRec
  BY DEF AgentOK
<1>2. ag' \in [Pid -> AgentRec] /\ ag'[p] = a /\ \A q \in Pid \ {p} : ag'[q] = ag[q]
  BY <1>1 DEF LifeInv
<1>3. \A q \in Pid : AgentOK(ag'[q])
  BY <1>2 DEF LifeInv
<1>4. FileOK'
  <2> SUFFICES ASSUME NEW q \in Pid, ag'[q].served,
                      ag'[q].pc \in Unwinding \ {"clear"}, pidFile' = q
               PROVE  ag'[q].kept
    BY DEF FileOK
  <2>1. CASE q = p
    BY <2>1, <1>2
  <2>2. CASE q # p
    <3>1. pidFile = q
      BY <2>2, LifecycleAssumption
    <3> QED BY <2>2, <3>1, <1>2 DEF LifeInv, FileOK
  <2> QED BY <2>1, <2>2
<1> QED BY <1>2, <1>3, <1>4 DEF LifeInv, RestOK

(* A process that ends leaves nothing of its agent in memory.              *)
LEMMA GoneInv ==
  ASSUME LifeInv, NEW p \in Pid, Gone(p), Watching,
         killed' \in BOOLEAN, ~Starvation => ~killed',
         NEW ok \in BOOLEAN, SvcAfter(p, ok)
  PROVE  LifeInv'
<1>1. ag' = [ag EXCEPT ![p] = Dead] /\ AgentOK(Dead) /\ pidFile' = pidFile
  BY DeadOK DEF Gone
<1>2. Dead.pc = "dead"
  BY DEF Dead
<1>3. /\ ag' \in [Pid -> AgentRec] /\ \A q \in Pid : AgentOK(ag'[q])
      /\ FileOK' /\ pidFile' \in Pid \cup {None}
  BY <1>1, <1>2, OneAgent DEF Unwinding
<1>4. watch' \in [up : BOOLEAN, any : BOOLEAN]
  BY WatchOK DEF LifeInv
<1>5. svc' \in [state : {"stopped", "running", "stopping", "restart"},
                main : Pid \cup {None}]
  BY DEF SvcAfter, LifeInv, RestOK
<1>6. procs' \in [Pid -> OtherNames \cup {AgentName, "none"}]
  BY DEF Gone, LifeInv, RestOK
<1> QED BY <1>3, <1>4, <1>5, <1>6 DEF LifeInv, RestOK, Gone

(* A stop signal changes nothing but the context of the agent it reaches.  *)
LEMMA StopInv ==
  ASSUME LifeInv, NEW p \in Pid, ag' = [ag EXCEPT ![p].stop = TRUE], Watching,
         UNCHANGED <<procs, pidFile, starts, killed, check>>,
         svc' = svc \/ svc' \in [state : {"stopped", "running", "stopping", "restart"},
                                 main : Pid \cup {None}]
  PROVE  LifeInv'
<1> DEFINE b == [ag[p] EXCEPT !.stop = TRUE]
<1>0. /\ ag[p] \in AgentRec /\ AgentOK(ag[p]) /\ ag \in [Pid -> AgentRec]
      /\ RestOK /\ FileOK
  BY DEF LifeInv
<1>1. ag' = [ag EXCEPT ![p] = b]
  OBVIOUS
<1>2. AgentOK(b)
  BY <1>0 DEF AgentOK, BoundOK, AgentRec
<1>3. b.served /\ b.pc \in Unwinding \ {"clear"} /\ pidFile' = p => b.kept
  BY <1>0 DEF FileOK, AgentRec
<1>4. watch' \in [up : BOOLEAN, any : BOOLEAN]
  BY <1>0, WatchOK
<1> HIDE DEF b
<1>5. /\ ag' \in [Pid -> AgentRec] /\ \A q \in Pid : AgentOK(ag'[q])
      /\ FileOK' /\ pidFile' \in Pid \cup {None}
  BY <1>1, <1>2, <1>3, OneAgent
<1> QED BY <1>0, <1>4, <1>5 DEF LifeInv, RestOK

(* The stages of Run and of the closing goroutine: each changes one agent. *)
LEMMA AgentStepInv ==
  ASSUME LifeInv, NEW p \in Pid,
         AgentStep(p) \/ MainClose(p) \/ CloserStep(p) \/ Tick(p)
  PROVE  LifeInv'
<1> DEFINE a == ag[p]
           b == ag'[p]
<1>0. /\ a \in AgentRec /\ AgentOK(a) /\ ag \in [Pid -> AgentRec]
      /\ RestOK /\ FileOK /\ pidFile \in Pid \cup {None}
  BY DEF LifeInv, RestOK
<1>1. CASE Begin(p)
  <2>1. /\ ag' = [ag EXCEPT ![p] = b]
        /\ b = [a EXCEPT !.pc = IF a.stop THEN "exit" ELSE "env"]
    BY <1>0, <1>1 DEF Begin, At
  <2>2. AgentOK(b)
    BY <1>0, <1>1, <2>1, LifecycleAssumption
       DEF Begin, At, AgentOK, BoundOK, AgentRec, Stages,
           StartingUp, Unwinding
  <2>3. /\ pidFile' \in {pidFile, None} \/ (pidFile' = p /\ b.pc = "serve")
        /\ b.served /\ b.pc \in Unwinding \ {"clear"} /\ pidFile' = p => b.kept
    BY <1>0, <1>1, <2>1, LifecycleAssumption
       DEF Begin, At, AgentOK, AgentRec, FileOK, StartingUp, Unwinding
  <2>4. /\ UNCHANGED <<procs, svc, starts, killed, check>>
        /\ watch' \in [up : BOOLEAN, any : BOOLEAN]
    BY <1>0, <1>1, WatchOK DEF Begin, At
  <2> HIDE DEF a, b
  <2> QED BY <1>0, <2>1, <2>2, <2>3, <2>4, OneAgent DEF LifeInv, RestOK
<1>2. CASE ValidateEnvironment(p)
  <2>1. /\ ag' = [ag EXCEPT ![p] = b]
        /\ \/ b = [a EXCEPT !.pc = "datadir"]
           \/ b = [a EXCEPT !.pc = "exit", !.failed = TRUE]
    BY <1>0, <1>2 DEF ValidateEnvironment, At
  <2>2. AgentOK(b)
    BY <1>0, <1>2, <2>1, LifecycleAssumption
       DEF ValidateEnvironment, At, AgentOK, BoundOK, AgentRec, Stages,
           StartingUp, Unwinding
  <2>3. /\ pidFile' \in {pidFile, None} \/ (pidFile' = p /\ b.pc = "serve")
        /\ b.served /\ b.pc \in Unwinding \ {"clear"} /\ pidFile' = p => b.kept
    BY <1>0, <1>2, <2>1, LifecycleAssumption
       DEF ValidateEnvironment, At, AgentOK, AgentRec, FileOK, StartingUp, Unwinding
  <2>4. /\ UNCHANGED <<procs, svc, starts, killed, check>>
        /\ watch' \in [up : BOOLEAN, any : BOOLEAN]
    BY <1>0, <1>2, WatchOK DEF ValidateEnvironment, At
  <2> HIDE DEF a, b
  <2> QED BY <1>0, <2>1, <2>2, <2>3, <2>4, OneAgent DEF LifeInv, RestOK
<1>3. CASE PrepareDataDir(p)
  <2>1. /\ ag' = [ag EXCEPT ![p] = b]
        /\ \/ b = [a EXCEPT !.pc = "open"]
           \/ b = [a EXCEPT !.pc = "exit", !.failed = ~a.stop]
    BY <1>0, <1>3 DEF PrepareDataDir, At, Interrupted
  <2>2. AgentOK(b)
    BY <1>0, <1>3, <2>1, LifecycleAssumption
       DEF PrepareDataDir, At, Interrupted, AgentOK, BoundOK, AgentRec, Stages,
           StartingUp, Unwinding
  <2>3. /\ pidFile' \in {pidFile, None} \/ (pidFile' = p /\ b.pc = "serve")
        /\ b.served /\ b.pc \in Unwinding \ {"clear"} /\ pidFile' = p => b.kept
    BY <1>0, <1>3, <2>1, LifecycleAssumption
       DEF PrepareDataDir, At, Interrupted, AgentOK, AgentRec, FileOK, StartingUp, Unwinding
  <2>4. /\ UNCHANGED <<procs, svc, starts, killed, check>>
        /\ watch' \in [up : BOOLEAN, any : BOOLEAN]
    BY <1>0, <1>3, WatchOK DEF PrepareDataDir, At, Interrupted
  <2> HIDE DEF a, b
  <2> QED BY <1>0, <2>1, <2>2, <2>3, <2>4, OneAgent DEF LifeInv, RestOK
<1>4. CASE OpenStorage(p)
  <2>1. /\ ag' = [ag EXCEPT ![p] = b]
        /\ \/ b = [a EXCEPT !.pc = "liveness", !.handle = TRUE, !.dbOpen = TRUE]
           \/ b = [a EXCEPT !.pc = "exit", !.failed = ~a.stop]
    BY <1>0, <1>4 DEF OpenStorage, At, Interrupted
  <2>2. AgentOK(b)
    BY <1>0, <1>4, <2>1, LifecycleAssumption
       DEF OpenStorage, At, Interrupted, AgentOK, BoundOK, AgentRec, Stages,
           StartingUp, Unwinding
  <2>3. /\ pidFile' \in {pidFile, None} \/ (pidFile' = p /\ b.pc = "serve")
        /\ b.served /\ b.pc \in Unwinding \ {"clear"} /\ pidFile' = p => b.kept
    BY <1>0, <1>4, <2>1, LifecycleAssumption
       DEF OpenStorage, At, Interrupted, AgentOK, AgentRec, FileOK, StartingUp, Unwinding
  <2>4. /\ UNCHANGED <<procs, svc, starts, killed, check>>
        /\ watch' \in [up : BOOLEAN, any : BOOLEAN]
    BY <1>0, <1>4, WatchOK DEF OpenStorage, At, Interrupted
  <2> HIDE DEF a, b
  <2> QED BY <1>0, <2>1, <2>2, <2>3, <2>4, OneAgent DEF LifeInv, RestOK
<1>5. CASE RecordLiveness(p)
  <2>1. /\ ag' = [ag EXCEPT ![p] = b]
        /\ \/ b = [a EXCEPT !.pc = "serve", !.served = TRUE]
           \/ b = [a EXCEPT !.pc = "mclose", !.failed = TRUE]
    BY <1>0, <1>5 DEF RecordLiveness, WritePIDFile, At
  <2>2. AgentOK(b)
    BY <1>0, <1>5, <2>1, LifecycleAssumption
       DEF RecordLiveness, WritePIDFile, At, AgentOK, BoundOK, AgentRec, Stages,
           StartingUp, Unwinding
  <2>3. /\ pidFile' \in {pidFile, None} \/ (pidFile' = p /\ b.pc = "serve")
        /\ b.served /\ b.pc \in Unwinding \ {"clear"} /\ pidFile' = p => b.kept
    BY <1>0, <1>5, <2>1, LifecycleAssumption DEF RecordLiveness, WritePIDFile, At,
       AgentOK, AgentRec, FileOK, StartingUp, Unwinding
  <2>4. /\ UNCHANGED <<procs, svc, starts, killed, check>>
        /\ watch' \in [up : BOOLEAN, any : BOOLEAN]
    BY <1>0, <1>5, WatchOK DEF RecordLiveness, WritePIDFile, At
  <2> HIDE DEF a, b
  <2> QED BY <1>0, <2>1, <2>2, <2>3, <2>4, OneAgent DEF LifeInv, RestOK
<1>6. CASE ServeStop(p)
  <2>1. /\ ag' = [ag EXCEPT ![p] = b]
        /\ b = [a EXCEPT !.pc = "shutwait", !.closer = "start"]
    BY <1>0, <1>6 DEF ServeStop, At
  <2>2. AgentOK(b)
    BY <1>0, <1>6, <2>1, LifecycleAssumption
       DEF ServeStop, At, AgentOK, BoundOK, AgentRec, Stages,
           StartingUp, Unwinding
  <2>3. /\ pidFile' \in {pidFile, None} \/ (pidFile' = p /\ b.pc = "serve")
        /\ b.served /\ b.pc \in Unwinding \ {"clear"} /\ pidFile' = p => b.kept
    BY <1>0, <1>6, <2>1, LifecycleAssumption
       DEF ServeStop, At, AgentOK, AgentRec, FileOK, StartingUp, Unwinding
  <2>4. /\ UNCHANGED <<procs, svc, starts, killed, check>>
        /\ watch' \in [up : BOOLEAN, any : BOOLEAN]
    BY <1>0, <1>6, WatchOK DEF ServeStop, At
  <2> HIDE DEF a, b
  <2> QED BY <1>0, <2>1, <2>2, <2>3, <2>4, OneAgent DEF LifeInv, RestOK
<1>7. CASE ShutdownDone(p)
  <2>1. /\ ag' = [ag EXCEPT ![p] = b]
        /\ b = [a EXCEPT !.pc = "clear", !.failed = (a.closer = "doneErr")]
    BY <1>0, <1>7 DEF ShutdownDone, At
  <2>2. AgentOK(b)
    BY <1>0, <1>7, <2>1, LifecycleAssumption
       DEF ShutdownDone, At, AgentOK, BoundOK, AgentRec, Stages,
           StartingUp, Unwinding
  <2>3. /\ pidFile' \in {pidFile, None} \/ (pidFile' = p /\ b.pc = "serve")
        /\ b.served /\ b.pc \in Unwinding \ {"clear"} /\ pidFile' = p => b.kept
    BY <1>0, <1>7, <2>1, LifecycleAssumption
       DEF ShutdownDone, At, AgentOK, AgentRec, FileOK, StartingUp, Unwinding
  <2>4. /\ UNCHANGED <<procs, svc, starts, killed, check>>
        /\ watch' \in [up : BOOLEAN, any : BOOLEAN]
    BY <1>0, <1>7, WatchOK DEF ShutdownDone, At
  <2> HIDE DEF a, b
  <2> QED BY <1>0, <2>1, <2>2, <2>3, <2>4, OneAgent DEF LifeInv, RestOK
<1>8. CASE ShutdownTimedOut(p)
  <2>1. /\ ag' = [ag EXCEPT ![p] = b]
        /\ b = [a EXCEPT !.pc = "clear", !.failed = TRUE, !.timedOut = TRUE]
    BY <1>0, <1>8 DEF ShutdownTimedOut, At
  <2>2. AgentOK(b)
    BY <1>0, <1>8, <2>1, LifecycleAssumption
       DEF ShutdownTimedOut, At, AgentOK, BoundOK, AgentRec, Stages,
           StartingUp, Unwinding
  <2>3. /\ pidFile' \in {pidFile, None} \/ (pidFile' = p /\ b.pc = "serve")
        /\ b.served /\ b.pc \in Unwinding \ {"clear"} /\ pidFile' = p => b.kept
    BY <1>0, <1>8, <2>1, LifecycleAssumption
       DEF ShutdownTimedOut, At, AgentOK, AgentRec, FileOK, StartingUp, Unwinding
  <2>4. /\ UNCHANGED <<procs, svc, starts, killed, check>>
        /\ watch' \in [up : BOOLEAN, any : BOOLEAN]
    BY <1>0, <1>8, WatchOK DEF ShutdownTimedOut, At
  <2> HIDE DEF a, b
  <2> QED BY <1>0, <2>1, <2>2, <2>3, <2>4, OneAgent DEF LifeInv, RestOK
<1>9. CASE ClearLiveness(p)
  <2>1. /\ ag' = [ag EXCEPT ![p] = b]
        /\ \/ b = [a EXCEPT !.pc = "mclose"]
           \/ b = [a EXCEPT !.pc = "mclose", !.kept = TRUE]
    BY <1>0, <1>9 DEF ClearLiveness, RemovePIDFile, At
  <2>2. AgentOK(b)
    BY <1>0, <1>9, <2>1, LifecycleAssumption
       DEF ClearLiveness, RemovePIDFile, At, AgentOK, BoundOK, AgentRec, Stages,
           StartingUp, Unwinding
  <2>3. /\ pidFile' \in {pidFile, None} \/ (pidFile' = p /\ b.pc = "serve")
        /\ b.served /\ b.pc \in Unwinding \ {"clear"} /\ pidFile' = p => b.kept
    BY <1>0, <1>9, <2>1, LifecycleAssumption DEF ClearLiveness, RemovePIDFile, At,
       AgentOK, AgentRec, FileOK, StartingUp, Unwinding
  <2>4. /\ UNCHANGED <<procs, svc, starts, killed, check>>
        /\ watch' \in [up : BOOLEAN, any : BOOLEAN]
    BY <1>0, <1>9, WatchOK DEF ClearLiveness, RemovePIDFile, At
  <2> HIDE DEF a, b
  <2> QED BY <1>0, <2>1, <2>2, <2>3, <2>4, OneAgent DEF LifeInv, RestOK
<1>10. CASE MainSwap(p)
  <2>1. /\ ag' = [ag EXCEPT ![p] = b]
        /\ \/ b = [a EXCEPT !.pc = "mclosing", !.handle = FALSE, !.closes = a.closes + 1]
           \/ b = [a EXCEPT !.pc = "exit"]
    BY <1>0, <1>10 DEF MainSwap, At
  <2>2. AgentOK(b)
    BY <1>0, <1>10, <2>1, LifecycleAssumption
       DEF MainSwap, At, AgentOK, BoundOK, AgentRec, Stages,
           StartingUp, Unwinding
  <2>3. /\ pidFile' \in {pidFile, None} \/ (pidFile' = p /\ b.pc = "serve")
        /\ b.served /\ b.pc \in Unwinding \ {"clear"} /\ pidFile' = p => b.kept
    BY <1>0, <1>10, <2>1, LifecycleAssumption
       DEF MainSwap, At, AgentOK, AgentRec, FileOK, StartingUp, Unwinding
  <2>4. /\ UNCHANGED <<procs, svc, starts, killed, check>>
        /\ watch' \in [up : BOOLEAN, any : BOOLEAN]
    BY <1>0, <1>10, WatchOK DEF MainSwap, At
  <2> HIDE DEF a, b
  <2> QED BY <1>0, <2>1, <2>2, <2>3, <2>4, OneAgent DEF LifeInv, RestOK
<1>11. CASE MainClose(p)
  <2>1. /\ ag' = [ag EXCEPT ![p] = b]
        /\ b = [a EXCEPT !.pc = "exit", !.dbOpen = FALSE]
    BY <1>0, <1>11 DEF MainClose, At
  <2>2. AgentOK(b)
    BY <1>0, <1>11, <2>1, LifecycleAssumption
       DEF MainClose, At, AgentOK, BoundOK, AgentRec, Stages,
           StartingUp, Unwinding
  <2>3. /\ pidFile' \in {pidFile, None} \/ (pidFile' = p /\ b.pc = "serve")
        /\ b.served /\ b.pc \in Unwinding \ {"clear"} /\ pidFile' = p => b.kept
    BY <1>0, <1>11, <2>1, LifecycleAssumption
       DEF MainClose, At, AgentOK, AgentRec, FileOK, StartingUp, Unwinding
  <2>4. /\ UNCHANGED <<procs, svc, starts, killed, check>>
        /\ watch' \in [up : BOOLEAN, any : BOOLEAN]
    BY <1>0, <1>11, WatchOK DEF MainClose, At
  <2> HIDE DEF a, b
  <2> QED BY <1>0, <2>1, <2>2, <2>3, <2>4, OneAgent DEF LifeInv, RestOK
<1>12. CASE CloserSwap(p)
  <2>1. /\ ag' = [ag EXCEPT ![p] = b]
        /\ \/ b = [a EXCEPT !.closer = "closing", !.handle = FALSE, !.closes = a.closes + 1]
           \/ b = [a EXCEPT !.closer = "done"]
    BY <1>0, <1>12 DEF CloserSwap
  <2>2. AgentOK(b)
    BY <1>0, <1>12, <2>1, LifecycleAssumption
       DEF CloserSwap, AgentOK, BoundOK, AgentRec, Stages,
           StartingUp, Unwinding
  <2>3. /\ pidFile' \in {pidFile, None} \/ (pidFile' = p /\ b.pc = "serve")
        /\ b.served /\ b.pc \in Unwinding \ {"clear"} /\ pidFile' = p => b.kept
    BY <1>0, <1>12, <2>1, LifecycleAssumption
       DEF CloserSwap, AgentOK, AgentRec, FileOK, StartingUp, Unwinding
  <2>4. /\ UNCHANGED <<procs, svc, starts, killed, check>>
        /\ watch' \in [up : BOOLEAN, any : BOOLEAN]
    BY <1>0, <1>12, WatchOK DEF CloserSwap
  <2> HIDE DEF a, b
  <2> QED BY <1>0, <2>1, <2>2, <2>3, <2>4, OneAgent DEF LifeInv, RestOK
<1>13. CASE CloserClose(p)
  <2>1. /\ ag' = [ag EXCEPT ![p] = b]
        /\ \/ b = [a EXCEPT !.closer = "done", !.dbOpen = FALSE]
           \/ b = [a EXCEPT !.closer = "doneErr", !.dbOpen = FALSE]
    BY <1>0, <1>13 DEF CloserClose
  <2>2. AgentOK(b)
    BY <1>0, <1>13, <2>1, LifecycleAssumption
       DEF CloserClose, AgentOK, BoundOK, AgentRec, Stages,
           StartingUp, Unwinding
  <2>3. /\ pidFile' \in {pidFile, None} \/ (pidFile' = p /\ b.pc = "serve")
        /\ b.served /\ b.pc \in Unwinding \ {"clear"} /\ pidFile' = p => b.kept
    BY <1>0, <1>13, <2>1, LifecycleAssumption
       DEF CloserClose, AgentOK, AgentRec, FileOK, StartingUp, Unwinding
  <2>4. /\ UNCHANGED <<procs, svc, starts, killed, check>>
        /\ watch' \in [up : BOOLEAN, any : BOOLEAN]
    BY <1>0, <1>13, WatchOK DEF CloserClose
  <2> HIDE DEF a, b
  <2> QED BY <1>0, <2>1, <2>2, <2>3, <2>4, OneAgent DEF LifeInv, RestOK
<1>14. CASE Tick(p)
  <2>1. /\ ag' = [ag EXCEPT ![p] = b]
        /\ b = [a EXCEPT !.waited = a.waited + 1]
    BY <1>0, <1>14 DEF Tick
  <2>2. AgentOK(b)
    BY <1>0, <1>14, <2>1, LifecycleAssumption
       DEF Tick, AgentOK, BoundOK, AgentRec, Stages,
           StartingUp, Unwinding
  <2>3. /\ pidFile' \in {pidFile, None} \/ (pidFile' = p /\ b.pc = "serve")
        /\ b.served /\ b.pc \in Unwinding \ {"clear"} /\ pidFile' = p => b.kept
    BY <1>0, <1>14, <2>1, LifecycleAssumption
       DEF Tick, AgentOK, AgentRec, FileOK, StartingUp, Unwinding
  <2>4. /\ UNCHANGED <<procs, svc, starts, killed, check>>
        /\ watch' \in [up : BOOLEAN, any : BOOLEAN]
    BY <1>0, <1>14, WatchOK DEF Tick
  <2> HIDE DEF a, b
  <2> QED BY <1>0, <2>1, <2>2, <2>3, <2>4, OneAgent DEF LifeInv, RestOK
<1>15. CASE Exit(p)
  <2>1. (~a.failed) \in BOOLEAN /\ killed' \in BOOLEAN /\ (~Starvation => ~killed')
    BY <1>0, <1>15 DEF Exit, AgentRec, RestOK
  <2>2. Gone(p) /\ Watching /\ SvcAfter(p, ~a.failed)
    BY <1>15 DEF Exit
  <2> QED BY <2>1, <2>2, GoneInv
<1> QED
  BY <1>1, <1>2, <1>3, <1>4, <1>5, <1>6, <1>7, <1>8, <1>9,
     <1>10, <1>11, <1>12, <1>13, <1>14, <1>15
  DEF AgentStep, CloserStep

(* Starts, stops and crashes, of agents and of other programs.             *)
LEMMA EnvironmentInv ==
  ASSUME LifeInv, NEW p \in Pid, SvcKill(p) \/ Environment(p)
  PROVE  LifeInv'
<1>0. /\ ag[p] \in AgentRec /\ AgentOK(ag[p]) /\ ag \in [Pid -> AgentRec]
      /\ RestOK /\ FileOK /\ pidFile \in Pid \cup {None} /\ killed \in BOOLEAN
  BY DEF LifeInv, RestOK
<1>1. CASE SvcKill(p)
  <2>1. killed' \in BOOLEAN
    BY <1>0, <1>1 DEF SvcKill, AgentRec
  <2>2. ~Starvation => ~killed'
    BY <1>0, <1>1, LifecycleAssumption DEF SvcKill, AgentOK, BoundOK, AgentRec, RestOK
  <2> QED BY <1>1, <2>1, <2>2, GoneInv DEF SvcKill
<1>2. CASE Crash(p)
  BY <1>0, <1>2, GoneInv DEF Crash, RestOK
<1>3. ASSUME Launch(p), Watching,
             svc' \in [state : {"stopped", "running", "stopping", "restart"},
                       main : Pid \cup {None}]
      PROVE  LifeInv'
  <2> DEFINE b == [Dead EXCEPT !.pc = "begin"]
  <2>1. ag' = [ag EXCEPT ![p] = b] /\ AgentOK(b) /\ pidFile' = pidFile
    BY <1>3, DeadOK DEF Launch
  <2>2. b.pc = "begin"
    BY DEF Dead
  <2> HIDE DEF b
  <2>3. /\ ag' \in [Pid -> AgentRec] /\ \A q \in Pid : AgentOK(ag'[q])
        /\ FileOK' /\ pidFile' \in Pid \cup {None}
    BY <2>1, <2>2, OneAgent DEF Unwinding
  <2>4. watch' \in [up : BOOLEAN, any : BOOLEAN]
    BY <1>0, <1>3, WatchOK
  <2>5. procs' \in [Pid -> OtherNames \cup {AgentName, "none"}] /\ starts' \in 0..MaxStarts
    BY <1>0, <1>3, LifecycleAssumption DEF Launch, RestOK
  <2> QED BY <1>0, <1>3, <2>3, <2>4, <2>5 DEF LifeInv, RestOK, Launch
<1>4. CASE SvcStart(p)
  BY <1>3, <1>4 DEF SvcStart
<1>5. CASE ManualStart(p)
  BY <1>0, <1>3, <1>5 DEF ManualStart, RestOK
<1>6. CASE ManualStop(p)
  BY <1>6, StopInv DEF ManualStop
<1>7. CASE OtherExit(p) \/ \E n \in OtherNames : OtherStart(p, n)
  <2>1. watch' \in [up : BOOLEAN, any : BOOLEAN]
    BY <1>0, <1>7, WatchOK DEF OtherExit, OtherStart
  <2>2. procs' \in [Pid -> OtherNames \cup {AgentName, "none"}]
    BY <1>0, <1>7 DEF OtherExit, OtherStart, RestOK
  <2> QED BY <1>0, <1>7, <2>1, <2>2 DEF OtherExit, OtherStart, LifeInv, RestOK, FileOK
<1> QED BY <1>1, <1>2, <1>4, <1>5, <1>6, <1>7 DEF Environment

(* A stop of the service, whether its main process is there or not.        *)
LEMMA SvcStopInv ==
  ASSUME LifeInv, SvcStop
  PROVE  LifeInv'
<1>0. RestOK
  BY DEF LifeInv
<1>1. svc' \in [state : {"stopped", "running", "stopping", "restart"},
                main : Pid \cup {None}]
  BY <1>0 DEF SvcStop, RestOK
<1>2. watch' \in [up : BOOLEAN, any : BOOLEAN]
  BY <1>0, WatchOK DEF SvcStop
<1>3. CASE ag' = ag
  BY <1>0, <1>1, <1>2, <1>3 DEF SvcStop, LifeInv, RestOK, FileOK
<1>4. CASE ag' = [ag EXCEPT ![svc.main].stop = TRUE]
  <2>1. CASE svc.main \in Pid
    BY <2>1, <1>1, <1>4, StopInv DEF SvcStop
  <2>2. CASE svc.main \notin Pid
    <3>1. ag' = ag
      BY <2>2, <1>4 DEF LifeInv
    <3> QED BY <3>1, <1>3
  <2> QED BY <2>1, <2>2
<1> QED BY <1>3, <1>4 DEF SvcStop

(* The three reads of a status check.                                      *)
LEMMA CheckInv ==
  ASSUME LifeInv, CheckStep
  PROVE  LifeInv'
<1>0. RestOK /\ UNCHANGED <<procs, ag, pidFile, svc, starts, killed>>
  BY DEF LifeInv, CheckStep, ReadPIDFile, ProcessAlive, ProcessName
<1>1. check' \in CheckRec
  <2>0. check \in CheckRec /\ pidFile \in Pid \cup {None}
    BY <1>0 DEF RestOK
  <2>1. ASSUME NEW r \in {"none", "running", "stopped", "unknown"},
               NEW q \in Pid \cup {None},
               NEW n \in BOOLEAN, NEW c \in {"idle", "alive", "name"}
        PROVE  [pc |-> c, pid |-> q, named |-> n, result |-> r] \in CheckRec
    BY DEF CheckRec
  <2>2. CASE ReadPIDFile
    BY <2>0, <2>1, <2>2 DEF ReadPIDFile, Report
  <2>3. check.pid \in Pid \cup {None} /\ [check EXCEPT !.pc = "name"] \in CheckRec
    BY <2>0 DEF CheckRec
  <2>4. CASE ProcessAlive
    BY <2>1, <2>3, <2>4 DEF ProcessAlive, Report
  <2>5. CASE ProcessName
    BY <2>1, <2>3, <2>5 DEF ProcessName, Report
  <2> QED BY <2>2, <2>4, <2>5 DEF CheckStep
<1>2. watch' \in [up : BOOLEAN, any : BOOLEAN]
  BY <1>0, WatchOK DEF CheckStep, ReadPIDFile, ProcessAlive, ProcessName
<1> QED BY <1>0, <1>1, <1>2 DEF LifeInv, RestOK, FileOK

(* LifeInv is inductive.                                                   *)
THEOREM LifecycleInvariant == Spec => []LifeInv
<1>1. Init => LifeInv
  <2> SUFFICES ASSUME Init PROVE LifeInv
    OBVIOUS
  <2>1. AgentOK(Dead) /\ Dead \in AgentRec
    BY DeadOK DEF AgentOK
  <2>2. Dead.pc = "dead"
    BY DEF Dead
  <2>3. ag \in [Pid -> AgentRec] /\ \A p \in Pid : ag[p] = Dead
    BY <2>1 DEF Init
  <2>4. FileOK
    BY <2>2, <2>3 DEF FileOK, Unwinding
  <2>5. RestOK
    <3>1. check \in CheckRec
      BY DEF Init, CheckRec
    <3>2. watch \in [up : BOOLEAN, any : BOOLEAN]
      BY DEF Init
    <3>3. starts \in 0..MaxStarts
      BY LifecycleAssumption DEF Init
    <3>4. svc \in [state : {"stopped", "running", "stopping", "restart"},
                   main : Pid \cup {None}]
      BY DEF Init
    <3> QED BY <3>1, <3>2, <3>3, <3>4 DEF Init, RestOK
  <2> QED BY <2>1, <2>3, <2>4, <2>5 DEF LifeInv
<1>2. LifeInv /\ [Next]_vars => LifeInv'
  <2> SUFFICES ASSUME LifeInv, [Next]_vars PROVE LifeInv'
    OBVIOUS
  <2>1. CASE UNCHANGED vars
    BY <2>1 DEF vars, LifeInv, RestOK, FileOK
  <2>2. CASE Next
    BY <2>2, AgentStepInv, EnvironmentInv, SvcStopInv, CheckInv DEF Next
  <2> QED BY <2>1, <2>2
<1> QED BY <1>1, <1>2, PTL DEF Spec

(* The types, at every step of every schedule.                             *)
THEOREM TypeCorrect == Spec => []TypeOK
<1>1. LifeInv => TypeOK
  BY DEF LifeInv, RestOK, TypeOK
<1> QED BY <1>1, LifecycleInvariant, PTL

(* closeStorage (agent.go): "exactly one caller ever closes the handle",   *)
(* however the deferred close and the goroutine of shutdown interleave.    *)
THEOREM OneCloser == Spec => []SingleCloser
<1>1. LifeInv => SingleCloser
  BY DEF LifeInv, AgentOK, SingleCloser
<1> QED BY <1>1, LifecycleInvariant, PTL

(* Run (agent.go): whatever stage failed, what start-up acquired has been  *)
(* released when Run returns, except what a timed-out close still holds.   *)
THEOREM NothingLeft == Spec => []ExitLeavesNothing
<1>1. LifeInv => ExitLeavesNothing
  BY DEF LifeInv, AgentOK, FileOK, ExitLeavesNothing, Unwinding
<1> QED BY <1>1, LifecycleInvariant, PTL

(* shutdown (agent.go) against TimeoutStopSec: when runnable goroutines    *)
(* are scheduled, systemd never kills an agent that had served, even if    *)
(* closing the database hangs for ever.                                    *)
THEOREM StopIsBounded == ~Starvation => (Spec => []NoSigkillAfterService)
<1>1. ~Starvation /\ LifeInv => NoSigkillAfterService
  BY DEF LifeInv, RestOK, NoSigkillAfterService
<1> SUFFICES ASSUME ~Starvation PROVE Spec => []NoSigkillAfterService
  OBVIOUS
<1>2. LifeInv => NoSigkillAfterService
  BY <1>1
<1> QED BY <1>2, LifecycleInvariant, PTL

------------------------------------------------------------------------------
(* What status and doctor report.                                          *)

Serving == {"serve", "shutwait"}

(* The process table shows the agents and nobody else under their name.    *)
ProcsOK == \A p \in Pid : procs[p] = AgentName <=> Alive(p)

(* systemd alone runs one agent, which it knows, and while that agent      *)
(* serves the PID file names it.                                           *)
OneOK ==
    /\ \A p \in Pid : Alive(p) => svc.main = p /\ svc.state \in {"running", "stopping"}
    /\ \A p \in Pid : ag[p].pc \in Serving => pidFile = p

(* An agent that has served since a check began is the one it looks at,    *)
(* and what the check then says follows.                                   *)
CheckOK ==
    /\ check.pc # "idle" => check.pid \in Pid /\ check.result = "none"
    /\ check.pc # "idle" /\ watch.up => ag[check.pid].pc \in Serving

StatusInv == LifeInv /\ ProcsOK /\ OneOK /\ CheckOK /\ StatusTrue

(* The history of a check, step by step.                                   *)
LEMMA Watched ==
  ASSUME Watching
  PROVE  /\ check.pc = "idle" => watch' = watch
         /\ check.pc # "idle" => /\ watch'.up => watch.up /\ AgentsUp'
                                 /\ AgentsAny' => watch'.any
<1>1. ASSUME NEW u, NEW v, NEW w, w = [up |-> u, any |-> v]
      PROVE  w.up = u /\ w.any = v
  BY <1>1
<1>2. check.pc = "idle" => watch' = watch
  BY DEF Watching
<1>3. ASSUME check.pc # "idle"
      PROVE  /\ watch'.up = (watch.up /\ AgentsUp')
             /\ watch'.any = (watch.any \/ AgentsAny')
  <2>1. watch' = [up |-> watch.up /\ AgentsUp', any |-> watch.any \/ AgentsAny']
    BY <1>3 DEF Watching
  <2> QED BY <1>1, <2>1
<1> QED BY <1>2, <1>3, Zenon

LEMMA WatchedFromNow ==
  ASSUME WatchFromNow
  PROVE  watch'.up => AgentsUp
<1>1. ASSUME NEW u, NEW v, NEW w, w = [up |-> u, any |-> v]
      PROVE  w.up = u
  BY <1>1
<1>2. watch'.up = AgentsUp
  BY <1>1 DEF WatchFromNow
<1> QED BY <1>2, Zenon

(* A stage of Run or of its goroutine ends no process and starts none, and *)
(* only the agent that writes the PID file begins to serve.                *)
LEMMA StageSteps ==
  ASSUME LifeInv, NEW p \in Pid,
         AgentStep(p) \/ MainClose(p) \/ CloserStep(p) \/ Tick(p), ~Exit(p)
  PROVE  /\ UNCHANGED <<procs, svc, check>> /\ Watching
         /\ \A q \in Pid \ {p} : ag'[q] = ag[q]
         /\ Alive(p) /\ Alive(p)'
         /\ ag'[p].pc \in Serving =>
              pidFile' = p \/ (ag[p].pc \in Serving /\ UNCHANGED pidFile)
<1> USE DEF Alive, Serving
<1>0. ag \in [Pid -> AgentRec] /\ AgentOK(ag[p])
  BY DEF LifeInv
<1>1. CASE Begin(p)
  BY <1>0, <1>1 DEF Begin, At, AgentRec
<1>2. CASE ValidateEnvironment(p)
  BY <1>0, <1>2 DEF ValidateEnvironment, At, AgentRec
<1>3. CASE PrepareDataDir(p)
  BY <1>0, <1>3 DEF PrepareDataDir, Interrupted, At, AgentRec
<1>4. CASE OpenStorage(p)
  BY <1>0, <1>4 DEF OpenStorage, Interrupted, At, AgentRec
<1>5. CASE RecordLiveness(p)
  BY <1>0, <1>5 DEF RecordLiveness, WritePIDFile, At, AgentRec
<1>6. CASE ServeStop(p)
  BY <1>0, <1>6 DEF ServeStop, At, AgentRec
<1>7. CASE ShutdownDone(p)
  BY <1>0, <1>7 DEF ShutdownDone, At, AgentRec
<1>8. CASE ShutdownTimedOut(p)
  BY <1>0, <1>8 DEF ShutdownTimedOut, At, AgentRec
<1>9. CASE ClearLiveness(p)
  BY <1>0, <1>9 DEF ClearLiveness, At, AgentRec
<1>10. CASE MainSwap(p)
  BY <1>0, <1>10 DEF MainSwap, At, AgentRec
<1>11. CASE MainClose(p)
  BY <1>0, <1>11 DEF MainClose, At, AgentRec
<1>12. CASE CloserStep(p)
  <2>1. ag[p].pc # "dead"
    BY <1>0, <1>12 DEF CloserStep, CloserSwap, CloserClose, AgentOK, StartingUp
  <2>2. CASE CloserSwap(p)
    BY <1>0, <2>1, <2>2 DEF CloserSwap, AgentRec
  <2>3. CASE CloserClose(p)
    BY <1>0, <2>1, <2>3 DEF CloserClose, AgentRec
  <2> QED BY <1>12, <2>2, <2>3 DEF CloserStep
<1>13. CASE Tick(p)
  BY <1>0, <1>13 DEF Tick, AgentRec
<1> QED BY <1>1, <1>2, <1>3, <1>4, <1>5, <1>6, <1>7, <1>8, <1>9, <1>10, <1>11, <1>12, <1>13
        DEF AgentStep

(* A step that is not one of the check's: what the check has seen stays    *)
(* true if no agent begins to serve where another one did before.          *)
LEMMA NotOfCheck ==
  ASSUME CheckOK, OneOK, StatusTrue, Watching, UNCHANGED check,
         \A p \in Pid : ag'[p].pc \in Serving => Alive(p)
  PROVE  CheckOK' /\ StatusTrue'
<1>1. CASE check.pc = "idle"
  <2>1. watch' = watch
    BY <1>1, Watched
  <2> QED BY <1>1, <2>1 DEF CheckOK, StatusTrue
<1>2. CASE check.pc # "idle"
  <2>1. watch'.up => watch.up /\ AgentsUp'
    BY <1>2, Watched
  <2>2. check.pid \in Pid /\ check.result = "none"
    BY <1>2 DEF CheckOK
  <2>3. ASSUME watch'.up
        PROVE  ag'[check.pid].pc \in Serving
    <3>1. PICK q \in Pid : ag'[q].pc \in Serving
      BY <2>1, <2>3 DEF AgentsUp, Serving
    <3>2. ag[check.pid].pc \in Serving
      BY <1>2, <2>1, <2>3 DEF CheckOK
    <3>3. Alive(q) /\ Alive(check.pid)
      BY <3>1, <3>2 DEF Alive, Serving
    <3>4. q = check.pid
      BY <2>2, <3>3 DEF OneOK
    <3> QED BY <3>1, <3>4
  <2> QED BY <1>2, <2>2, <2>3 DEF CheckOK, StatusTrue
<1> QED BY <1>1, <1>2

(* The three reads.                                                        *)
LEMMA CheckStatus ==
  ASSUME StatusInv, CheckStep, "infrapilot" \notin OtherNames
  PROVE  CheckOK' /\ StatusTrue'
<1>0. /\ UNCHANGED <<procs, ag, pidFile>> /\ check \in CheckRec
      /\ procs \in [Pid -> OtherNames \cup {AgentName, "none"}]
      /\ pidFile \in Pid \cup {None}
  BY DEF StatusInv, LifeInv, RestOK, CheckStep, ReadPIDFile, ProcessAlive, ProcessName
<1>1. CASE ReadPIDFile
  <2>1. ASSUME NEW p \in Pid, ag[p].pc \in Serving
        PROVE  pidFile = p
    BY <2>1 DEF StatusInv, OneOK
  <2>2. watch'.up => \E p \in Pid : ag[p].pc \in Serving
    BY <1>1, WatchedFromNow DEF ReadPIDFile, AgentsUp, Serving
  <2>3. CASE pidFile = None
    <3>1. check'.pc = "idle" /\ check'.result = "stopped"
      BY <1>1, <2>3 DEF ReadPIDFile, Report
    <3>2. ~watch'.up
      BY <2>1, <2>2, <2>3, LifecycleAssumption
    <3> QED BY <3>1, <3>2 DEF CheckOK, StatusTrue
  <2>4. CASE pidFile # None
    <3>1. \/ check'.pc = "alive" /\ check'.pid = pidFile /\ check'.result = "none"
          \/ check'.pc = "idle" /\ check'.result = "unknown"
      BY <1>1, <2>4 DEF ReadPIDFile, Report
    <3> QED BY <1>0, <2>1, <2>2, <2>4, <3>1 DEF CheckOK, StatusTrue
  <2> QED BY <2>3, <2>4
<1>2. ASSUME check.pc # "idle", Watching
      PROVE  /\ check.pid \in Pid
             /\ watch'.up => ag[check.pid].pc \in Serving /\ procs[check.pid] = AgentName
             /\ procs[check.pid] = AgentName => watch'.any
  <2>1. check.pid \in Pid /\ (watch.up => ag[check.pid].pc \in Serving)
    BY <1>2 DEF StatusInv, CheckOK
  <2>2. procs[check.pid] = AgentName <=> Alive(check.pid)
    BY <2>1 DEF StatusInv, ProcsOK
  <2>3. (watch'.up => watch.up) /\ (AgentsAny' => watch'.any)
    BY <1>2, Watched
  <2>4. Alive(check.pid) => AgentsAny'
    BY <1>0, <2>1 DEF AgentsAny, Alive
  <2>5. ag[check.pid].pc \in Serving => Alive(check.pid)
    BY DEF Alive, Serving
  <2> QED BY <2>1, <2>2, <2>3, <2>4, <2>5
<1>3. CASE ProcessAlive
  <2>1. check.pc # "idle" /\ Watching
    BY <1>3 DEF ProcessAlive
  <2>2. CASE procs[check.pid] = "none"
    <3>1. check'.pc = "idle" /\ check'.result = "stopped"
      BY <1>3, <2>2 DEF ProcessAlive, Report
    <3>2. ~watch'.up
      BY <1>2, <2>1, <2>2 DEF AgentName
    <3> QED BY <3>1, <3>2 DEF CheckOK, StatusTrue
  <2>3. CASE procs[check.pid] # "none"
    <3>1. check'.pc = "name" /\ check'.pid = check.pid /\ check'.result = "none"
      BY <1>0, <1>3, <2>1, <2>3 DEF ProcessAlive, CheckRec, StatusInv, CheckOK
    <3> QED BY <1>0, <1>2, <2>1, <3>1 DEF CheckOK, StatusTrue
  <2> QED BY <2>2, <2>3
<1>4. CASE ProcessName
  <2>1. check.pc # "idle" /\ Watching
    BY <1>4 DEF ProcessName
  <2>2. CASE Report("running", check.pid, FALSE)
    BY <2>2 DEF Report, CheckOK, StatusTrue
  <2>3. CASE /\ procs[check.pid] # "none"
             /\ Report(IF NameAccepted(procs[check.pid]) THEN "running" ELSE "stopped",
                       check.pid, TRUE)
    <3>1. NameAccepted(procs[check.pid]) <=> procs[check.pid] = AgentName
      BY <1>0, <1>2, <2>1 DEF NameAccepted, AgentName
    <3>2. CASE procs[check.pid] = AgentName
      <4>1. check'.pc = "idle" /\ check'.result = "running"
        BY <2>3, <3>1, <3>2 DEF Report
      <4> QED BY <1>2, <2>1, <3>2, <4>1 DEF CheckOK, StatusTrue
    <3>3. CASE procs[check.pid] # AgentName
      <4>1. check'.pc = "idle" /\ check'.result = "stopped"
        BY <2>3, <3>1, <3>3 DEF Report
      <4> QED BY <1>2, <2>1, <3>3, <4>1 DEF CheckOK, StatusTrue
    <3> QED BY <3>2, <3>3
  <2> QED BY <1>4, <2>2, <2>3 DEF ProcessName
<1> QED BY <1>1, <1>3, <1>4 DEF CheckStep

(* Every step of a host on which systemd alone starts agents.              *)
LEMMA StatusNext ==
  ASSUME StatusInv, Next, ~Manual, "infrapilot" \notin OtherNames
  PROVE  ProcsOK' /\ OneOK' /\ CheckOK' /\ StatusTrue'
<1>0. /\ LifeInv /\ ProcsOK /\ OneOK /\ CheckOK /\ StatusTrue
      /\ ag \in [Pid -> AgentRec] /\ procs \in [Pid -> OtherNames \cup {AgentName, "none"}]
      /\ svc \in [state : {"stopped", "running", "stopping", "restart"}, main : Pid \cup {None}]
  BY DEF StatusInv, LifeInv, RestOK
<1>a. Dead.pc = "dead" /\ [Dead EXCEPT !.pc = "begin"].pc = "begin"
  BY DEF Dead
<1>1. ASSUME NEW p \in Pid,
             AgentStep(p) \/ MainClose(p) \/ CloserStep(p) \/ Tick(p), ~Exit(p)
      PROVE  ProcsOK' /\ OneOK' /\ CheckOK' /\ StatusTrue'
  <2>1. /\ UNCHANGED <<procs, svc, check>> /\ Watching
        /\ \A q \in Pid \ {p} : ag'[q] = ag[q]
        /\ Alive(p) /\ Alive(p)'
        /\ ag'[p].pc \in Serving =>
             pidFile' = p \/ (ag[p].pc \in Serving /\ UNCHANGED pidFile)
    BY <1>0, <1>1, StageSteps
  <2>2. \A q \in Pid : Alive(q)' <=> Alive(q)
    BY <2>1 DEF Alive
  <2>3. ProcsOK'
    BY <1>0, <2>1, <2>2 DEF ProcsOK
  <2>4. \A q \in Pid : Alive(q) => q = p
    BY <1>0, <2>1 DEF OneOK
  <2>5. \A q \in Pid : ag'[q].pc \in Serving => Alive(q)
    BY <2>2 DEF Alive, Serving
  <2>6. OneOK'
    BY <1>0, <2>1, <2>2, <2>4, <2>5 DEF OneOK
  <2> QED BY <1>0, <2>1, <2>3, <2>5, <2>6, NotOfCheck
<1>2. ASSUME NEW p \in Pid, Gone(p), Watching, NEW ok \in BOOLEAN, SvcAfter(p, ok)
      PROVE  ProcsOK' /\ OneOK' /\ CheckOK' /\ StatusTrue'
  <2>1. /\ procs'[p] = "none" /\ ag'[p] = Dead
        /\ \A q \in Pid \ {p} : procs'[q] = procs[q] /\ ag'[q] = ag[q]
        /\ UNCHANGED <<pidFile, check>>
    BY <1>0, <1>2 DEF Gone
  <2>2. \A q \in Pid \ {p} : Alive(q) => svc' = svc
    BY <1>0, <1>2 DEF SvcAfter, OneOK
  <2>3. ProcsOK'
    BY <1>0, <1>a, <2>1 DEF ProcsOK, Alive, AgentName
  <2>4. OneOK'
    BY <1>0, <1>a, <2>1, <2>2 DEF OneOK, Alive, Serving
  <2>5. \A q \in Pid : ag'[q].pc \in Serving => Alive(q)
    BY <1>a, <2>1 DEF Alive, Serving
  <2> QED BY <1>0, <1>2, <2>1, <2>3, <2>4, <2>5, NotOfCheck
<1>3. ASSUME NEW p \in Pid, SvcStart(p)
      PROVE  ProcsOK' /\ OneOK' /\ CheckOK' /\ StatusTrue'
  <2>1. \A q \in Pid : ~Alive(q)
    BY <1>0, <1>3 DEF SvcStart, OneOK
  <2>2. /\ procs'[p] = AgentName /\ ag'[p].pc = "begin"
        /\ \A q \in Pid \ {p} : procs'[q] = procs[q] /\ ag'[q] = ag[q]
        /\ UNCHANGED <<pidFile, check>> /\ Watching
        /\ svc'.main = p /\ svc'.state = "running"
    BY <1>0, <1>3, <1>a DEF SvcStart, Launch
  <2>3. ProcsOK'
    BY <1>0, <2>2 DEF ProcsOK, Alive
  <2>4. \A q \in Pid : ag'[q].pc \notin Serving
    BY <2>1, <2>2 DEF Alive, Serving
  <2>5. OneOK'
    BY <2>1, <2>2, <2>4 DEF OneOK, Alive
  <2> QED BY <1>0, <2>2, <2>3, <2>4, <2>5, NotOfCheck
<1>4. ASSUME NEW p \in Pid, OtherExit(p) \/ \E n \in OtherNames : OtherStart(p, n)
      PROVE  ProcsOK' /\ OneOK' /\ CheckOK' /\ StatusTrue'
  <2>1. UNCHANGED <<ag, svc, pidFile, check>> /\ Watching
    BY <1>4 DEF OtherExit, OtherStart
  <2>2. /\ procs[p] # AgentName /\ procs'[p] # AgentName
        /\ \A q \in Pid \ {p} : procs'[q] = procs[q]
    BY <1>0, <1>4, LifecycleAssumption DEF OtherExit, OtherStart, AgentName
  <2>3. ProcsOK' /\ OneOK'
    BY <1>0, <2>1, <2>2 DEF ProcsOK, OneOK, Alive
  <2>4. \A q \in Pid : ag'[q].pc \in Serving => Alive(q)
    BY <2>1 DEF Alive, Serving
  <2> QED BY <1>0, <2>1, <2>3, <2>4, NotOfCheck
<1>5. CASE SvcStop
  <2>1. /\ \A q \in Pid : ag'[q].pc = ag[q].pc
        /\ UNCHANGED <<procs, pidFile, check>> /\ Watching
        /\ svc'.main = svc.main
        /\ \/ svc'.state = "stopping"
           \/ svc.state = "restart"
    BY <1>0, <1>5 DEF SvcStop, AgentRec
  <2>2. ProcsOK' /\ OneOK'
    BY <1>0, <2>1 DEF ProcsOK, OneOK, Alive
  <2>3. \A q \in Pid : ag'[q].pc \in Serving => Alive(q)
    BY <2>1 DEF Alive, Serving
  <2> QED BY <1>0, <2>1, <2>2, <2>3, NotOfCheck
<1>6. CASE CheckStep
  <2>1. UNCHANGED <<procs, ag, pidFile, svc>>
    BY <1>6 DEF CheckStep, ReadPIDFile, ProcessAlive, ProcessName
  <2>2. ProcsOK' /\ OneOK'
    BY <1>0, <2>1 DEF ProcsOK, OneOK, Alive
  <2> QED BY <1>6, <2>2, CheckStatus
<1>7. ASSUME NEW p \in Pid, Exit(p)
      PROVE  ProcsOK' /\ OneOK' /\ CheckOK' /\ StatusTrue'
  <2>1. (~ag[p].failed) \in BOOLEAN
    BY <1>0 DEF AgentRec
  <2> QED BY <1>2, <1>7, <2>1 DEF Exit
<1>8. ASSUME NEW p \in Pid, Crash(p) \/ SvcKill(p)
      PROVE  ProcsOK' /\ OneOK' /\ CheckOK' /\ StatusTrue'
  BY <1>2, <1>8 DEF Crash, SvcKill
<1> QED BY <1>1, <1>3, <1>4, <1>5, <1>6, <1>7, <1>8
        DEF Next, Environment, ManualStart, ManualStop

(* CheckProcess (process.go), called by status and doctor: however its     *)
(* three reads fall between the steps of a restart, and whoever gets the   *)
(* number of a stale PID file, "stopped" is not said of an agent that      *)
(* served throughout, nor "running", with a name read, of another program, *)
(* if systemd alone starts agents and no other program has the name        *)
(* "infrapilot", which the prefix test accepts.                            *)
THEOREM StatusHonest ==
  ~Manual /\ "infrapilot" \notin OtherNames => (Spec => []StatusTrue)
<1> SUFFICES ASSUME ~Manual, "infrapilot" \notin OtherNames
             PROVE  Spec => []StatusTrue
  OBVIOUS
<1>1. Init => ProcsOK /\ OneOK /\ CheckOK /\ StatusTrue
  <2> SUFFICES ASSUME Init
               PROVE  ProcsOK /\ OneOK /\ CheckOK /\ StatusTrue
    OBVIOUS
  <2>1. \A p \in Pid : ag[p].pc = "dead" /\ procs[p] = "none"
    BY DEF Init, Dead
  <2>2. check.pc = "idle" /\ check.result = "none"
    BY DEF Init
  <2> QED BY <2>1, <2>2 DEF ProcsOK, OneOK, CheckOK, StatusTrue, Alive, AgentName, Serving
<1>2. StatusInv /\ LifeInv' /\ [Next]_vars => StatusInv'
  <2>1. StatusInv /\ UNCHANGED vars => ProcsOK' /\ OneOK' /\ CheckOK' /\ StatusTrue'
    BY DEF StatusInv, vars, ProcsOK, OneOK, CheckOK, StatusTrue, Alive
  <2> QED BY <2>1, StatusNext DEF StatusInv
<1>3. Init /\ LifeInv => StatusInv
  BY <1>1 DEF StatusInv
<1>4. StatusInv => StatusTrue
  BY DEF StatusInv
<1> QED BY <1>2, <1>3, <1>4, LifecycleInvariant, PTL DEF Spec
==============================================================================
