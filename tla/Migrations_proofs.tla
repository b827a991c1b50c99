-------------------------- MODULE Migrations_proofs --------------------------
(***************************************************************************)
(* Proofs about Migrations, for any number of processes and any binaries,  *)
(* with and without faults and crashes.                                    *)
(***************************************************************************)
EXTENDS Migrations, TLAPS

(* What a process knows of the ledger, however old its reads are: rows are *)
(* never removed, and the loop is never past a migration not recorded.     *)
ReadsOK ==
    \A p \in Proc :
      /\ proc[p].applied \subseteq ledger
      /\ proc[p].m # 0
      /\ \A w \in Nat \ {0} : w < proc[p].m => w \in ledger

(* Between the ledger row and COMMIT a process holds the write lock, so    *)
(* nobody records the migration it is about to record.                     *)
LockOK ==
    \A p \in Proc : proc[p].pc = "commit" => writer = p /\ proc[p].m \notin ledger

(* An open handle is on a database with every migration the binary knows.  *)
HandleOK ==
    \A p \in Proc : proc[p].pc = "open" =>
      \A w \in Nat \ {0} : w <= proc[p].bin => w \in ledger

(* Downward closure, and history agreeing with the ledger.                 *)
LedgerOK ==
    /\ schema = ledger
    /\ \A v \in ledger : \A w \in Nat \ {0} : w < v => w \in ledger
    /\ \A r \in runs : r[1] \in ledger

MigInv == TypeOK /\ ReadsOK /\ LockOK /\ HandleOK /\ LedgerOK /\ AppliedOnce

------------------------------------------------------------------------------
(* A step of p that leaves the database alone: what is to be shown of p's  *)
(* new record and of the write lock.                                       *)
LEMMA OneProcess ==
  ASSUME MigInv, NEW p \in Proc, NEW r \in ProcRec,
         proc' = [proc EXCEPT ![p] = r],
         UNCHANGED <<hasLedger, ledger, schema, runs>>,
         r.applied \subseteq ledger, r.m # 0,
         \A w \in Nat \ {0} : w < r.m => w \in ledger,
         r.pc = "commit" => writer' = p /\ r.m \notin ledger,
         r.pc = "open" => \A w \in Nat \ {0} : w <= r.bin => w \in ledger,
         writer' \in Proc \cup {None},
         \A q \in Proc \ {p} : proc[q].pc = "commit" => writer' = writer
  PROVE  MigInv'
<1>1. /\ proc \in [Proc -> ProcRec]
      /\ proc'[p] = r
      /\ \A q \in Proc \ {p} : proc'[q] = proc[q]
  BY DEF MigInv, TypeOK
<1>2. TypeOK'
  BY <1>1 DEF MigInv, TypeOK
<1>3. ReadsOK'
  BY <1>1 DEF MigInv, ReadsOK
<1>4. LockOK'
  BY <1>1 DEF MigInv, LockOK
<1>5. HandleOK'
  BY <1>1 DEF MigInv, HandleOK
<1>6. LedgerOK' /\ AppliedOnce'
  BY DEF MigInv, LedgerOK, AppliedOnce
<1> QED BY <1>2, <1>3, <1>4, <1>5, <1>6 DEF MigInv

(* A failed Open keeps what was read and gives the lock back.              *)
LEMMA FailInv ==
  ASSUME MigInv, NEW p \in Proc, NEW why \in {"newer", "conflict", "fault"}, Fail(p, why)
  PROVE  MigInv'
<1> DEFINE r == [proc[p] EXCEPT !.pc = "failed", !.why = why]
<1>1. proc \in [Proc -> ProcRec] /\ proc[p] \in ProcRec
  BY DEF MigInv, TypeOK
<1>2. /\ r \in ProcRec /\ r.pc = "failed"
      /\ r.applied = proc[p].applied /\ r.m = proc[p].m /\ r.bin = proc[p].bin
  BY <1>1 DEF ProcRec
<1>3. proc' = [proc EXCEPT ![p] = r]
  BY <1>1 DEF Fail
<1>4. r.applied \subseteq ledger /\ r.m # 0 /\ \A w \in Nat \ {0} : w < r.m => w \in ledger
  BY <1>2 DEF MigInv, ReadsOK
<1>5. /\ writer' \in Proc \cup {None}
      /\ \A q \in Proc \ {p} : proc[q].pc = "commit" => writer' = writer
  BY DEF MigInv, TypeOK, LockOK, Fail
<1> HIDE DEF r
<1> QED BY <1>2, <1>3, <1>4, <1>5, OneProcess DEF Fail

(* A process that is taken down, open or in the middle, loses its lock.    *)
LEMMA StopInv ==
  ASSUME MigInv, NEW p \in Proc, Stop(p)
  PROVE  MigInv'
<1> DEFINE r == [proc[p] EXCEPT !.pc = "down", !.why = "none"]
<1>1. proc \in [Proc -> ProcRec] /\ proc[p] \in ProcRec
  BY DEF MigInv, TypeOK
<1>2. /\ r \in ProcRec /\ r.pc = "down"
      /\ r.applied = proc[p].applied /\ r.m = proc[p].m /\ r.bin = proc[p].bin
  BY <1>1 DEF ProcRec
<1>3. proc' = [proc EXCEPT ![p] = r]
  BY <1>1 DEF Stop
<1>4. r.applied \subseteq ledger /\ r.m # 0 /\ \A w \in Nat \ {0} : w < r.m => w \in ledger
  BY <1>2 DEF MigInv, ReadsOK
<1>5. /\ writer' \in Proc \cup {None}
      /\ \A q \in Proc \ {p} : proc[q].pc = "commit" => writer' = writer
  BY DEF MigInv, TypeOK, LockOK, Stop
<1> HIDE DEF r
<1> QED BY <1>2, <1>3, <1>4, <1>5, OneProcess DEF Stop

(* A start begins with nothing read.                                       *)
LEMMA StartInv ==
  ASSUME MigInv, NEW p \in Proc, NEW b \in Binaries, Start(p, b)
  PROVE  MigInv'
<1> DEFINE r == [pc |-> "ensure", bin |-> b, applied |-> {}, m |-> 1,
                 stale |-> FALSE, why |-> "none"]
<1>1. /\ r \in ProcRec /\ r.pc = "ensure" /\ r.applied = {} /\ r.m = 1
  BY DEF ProcRec
<1>2. proc' = [proc EXCEPT ![p] = r] /\ writer' = writer /\ writer \in Proc \cup {None}
  BY DEF Start, MigInv, TypeOK
<1>3. \A w \in Nat \ {0} : w < r.m => w \in ledger
  BY <1>1
<1>4. UNCHANGED <<hasLedger, ledger, schema, runs>>
  BY DEF Start
<1>5. r.applied \subseteq ledger /\ r.m # 0 /\ r.pc # "commit" /\ r.pc # "open"
  BY <1>1
<1> HIDE DEF r
<1> QED BY <1>1, <1>2, <1>3, <1>4, <1>5, OneProcess

------------------------------------------------------------------------------
(* The two steps that write: the ledger table, which concerns no row ...   *)
LEMMA EnsureLedgerInv ==
  ASSUME MigInv, NEW p \in Proc, EnsureLedger(p)
  PROVE  MigInv'
<1>1. proc \in [Proc -> ProcRec]
  BY DEF MigInv, TypeOK
<1>2. \A q \in Proc : /\ proc'[q] \in ProcRec
                      /\ proc'[q].applied = proc[q].applied /\ proc'[q].m = proc[q].m
                      /\ proc'[q].bin = proc[q].bin
                      /\ proc'[q].pc \in {"commit", "open"} => proc'[q].pc = proc[q].pc
  <2>1. proc[p] \in ProcRec /\ proc'[p] = [proc[p] EXCEPT !.pc = "applied"]
    BY <1>1 DEF EnsureLedger
  <2>2. ASSUME NEW q \in Proc, q # p
        PROVE  \E b \in BOOLEAN : proc[q] \in ProcRec /\ proc'[q] = [proc[q] EXCEPT !.stale = b]
    <3>1. proc[q] \in ProcRec
      BY <1>1
    <3>2. (proc[q].stale \/ (~hasLedger /\ InTx(q))) \in BOOLEAN
      OBVIOUS
    <3> QED BY <2>2, <3>1, <3>2 DEF EnsureLedger
  <2>3. /\ proc'[p] \in ProcRec /\ proc'[p].pc = "applied"
        /\ proc'[p].applied = proc[p].applied /\ proc'[p].m = proc[p].m
        /\ proc'[p].bin = proc[p].bin
    BY <2>1 DEF ProcRec
  <2>4. ASSUME NEW q \in Proc, q # p
        PROVE  /\ proc'[q] \in ProcRec /\ proc'[q].pc = proc[q].pc
               /\ proc'[q].applied = proc[q].applied /\ proc'[q].m = proc[q].m
               /\ proc'[q].bin = proc[q].bin
    <3>1. PICK b \in BOOLEAN : proc[q] \in ProcRec /\ proc'[q] = [proc[q] EXCEPT !.stale = b]
      BY <2>2, <2>4
    <3> QED BY <3>1 DEF ProcRec
  <2> QED BY <2>3, <2>4
<1>3. proc' \in [Proc -> ProcRec]
  BY <1>2 DEF EnsureLedger
<1>4. UNCHANGED <<ledger, schema, runs, writer>> /\ hasLedger' \in BOOLEAN
  BY DEF EnsureLedger
<1>5. TypeOK'
  BY <1>3, <1>4 DEF MigInv, TypeOK
<1>6. ReadsOK' /\ LockOK' /\ HandleOK'
  BY <1>2, <1>4 DEF MigInv, ReadsOK, LockOK, HandleOK
<1>7. LedgerOK' /\ AppliedOnce'
  BY <1>4 DEF MigInv, LedgerOK, AppliedOnce
<1> QED BY <1>5, <1>6, <1>7 DEF MigInv

(* ... and COMMIT, which adds the one row nobody else can be adding.       *)
LEMMA ApplyCommitInv ==
  ASSUME MigInv, NEW p \in Proc, ApplyCommit(p)
  PROVE  MigInv'
<1> DEFINE m == proc[p].m
<1>1. proc \in [Proc -> ProcRec] /\ m \in Nat \ {0} /\ m \notin ledger /\ writer = p
  BY DEF MigInv, TypeOK, ReadsOK, LockOK, ApplyCommit, ProcRec
<1>2. /\ ledger' = ledger \cup {m} /\ schema' = schema \cup {m}
      /\ runs' = runs \cup {<<m, p>>}
      /\ writer' = None /\ hasLedger' = hasLedger
  BY DEF ApplyCommit
<1>3. \A q \in Proc \ {p} :
        /\ proc'[q] \in ProcRec
        /\ proc'[q].applied = proc[q].applied /\ proc'[q].m = proc[q].m
        /\ proc'[q].bin = proc[q].bin /\ proc'[q].pc = proc[q].pc
  BY <1>1 DEF ApplyCommit, ProcRec
<1>4. /\ proc'[p] \in ProcRec /\ proc'[p].pc = "loop"
      /\ proc'[p].m = m + 1 /\ proc'[p].applied = proc[p].applied
  <2>1. proc[p] \in ProcRec /\ m + 1 \in Nat
    BY <1>1
  <2>2. proc'[p] = [proc[p] EXCEPT !.pc = "loop", !.m = m + 1]
    BY DEF ApplyCommit
  <2> HIDE DEF m
  <2> QED BY <2>1, <2>2 DEF ProcRec
<1>5. TypeOK'
  <2>1. proc' \in [Proc -> ProcRec]
    BY <1>3, <1>4 DEF ApplyCommit
  <2>2. ledger' \subseteq Nat \ {0} /\ schema' \subseteq Nat \ {0}
    BY <1>1, <1>2 DEF MigInv, TypeOK
  <2>3. runs' \subseteq (Nat \ {0}) \X Proc
    BY <1>1, <1>2 DEF MigInv, TypeOK
  <2> QED BY <1>2, <2>1, <2>2, <2>3 DEF MigInv, TypeOK
<1>6. ReadsOK'
  <2>1. \A w \in Nat \ {0} : w < m + 1 => w \in ledger'
    BY <1>1, <1>2 DEF MigInv, ReadsOK
  <2>2. proc'[p].applied \subseteq ledger' /\ m + 1 # 0
    BY <1>1, <1>2, <1>4 DEF MigInv, ReadsOK
  <2>3. \A q \in Proc \ {p} : /\ proc'[q].applied \subseteq ledger' /\ proc'[q].m # 0
                              /\ \A w \in Nat \ {0} : w < proc'[q].m => w \in ledger'
    BY <1>2, <1>3 DEF MigInv, ReadsOK
  <2> QED BY <1>4, <2>1, <2>2, <2>3 DEF ReadsOK
<1>7. LockOK'
  <2>1. \A q \in Proc \ {p} : proc[q].pc # "commit"
    BY <1>1 DEF MigInv, LockOK
  <2> QED BY <1>3, <1>4, <2>1 DEF LockOK
<1>8. HandleOK'
  BY <1>2, <1>3, <1>4 DEF MigInv, HandleOK
<1>9. LedgerOK'
  <2>1. \A v \in ledger' : \A w \in Nat \ {0} : w < v => w \in ledger'
    BY <1>1, <1>2 DEF MigInv, ReadsOK, LedgerOK
  <2>2. \A r \in runs' : r[1] \in ledger'
    BY <1>2 DEF MigInv, LedgerOK
  <2> QED BY <1>2, <2>1, <2>2 DEF MigInv, LedgerOK
<1>10. AppliedOnce'
  BY <1>1, <1>2 DEF MigInv, LedgerOK, AppliedOnce
<1> QED BY <1>5, <1>6, <1>7, <1>8, <1>9, <1>10 DEF MigInv

------------------------------------------------------------------------------
(* The remaining steps of Open change one process and perhaps the lock:    *)
(* first, what it reads from the ledger.                                   *)
LEMMA AppliedVersionsInv ==
  ASSUME MigInv, NEW p \in Proc, AppliedVersions(p)
  PROVE  MigInv'
<1> DEFINE r == [proc[p] EXCEPT !.pc = "current", !.applied = ledger]
<1>1. proc \in [Proc -> ProcRec] /\ proc[p] \in ProcRec /\ ledger \subseteq Nat
  BY DEF MigInv, TypeOK
<1>2. r \in ProcRec /\ r.pc = "current" /\ r.applied = ledger /\ r.m = proc[p].m
  BY <1>1 DEF ProcRec
<1>3. proc' = [proc EXCEPT ![p] = r] /\ UNCHANGED <<hasLedger, ledger, schema, runs, writer>>
  BY <1>1 DEF AppliedVersions
<1>4. r.m # 0 /\ (\A w \in Nat \ {0} : w < r.m => w \in ledger) /\ writer \in Proc \cup {None}
  BY <1>2 DEF MigInv, ReadsOK, TypeOK
<1> HIDE DEF r
<1> QED BY <1>2, <1>3, <1>4, OneProcess

(* CurrentVersion fails on a newer schema or goes on with nothing changed. *)
LEMMA CurrentVersionInv ==
  ASSUME MigInv, NEW p \in Proc, CurrentVersion(p)
  PROVE  MigInv'
<1>1. CASE Fail(p, "newer")
  BY <1>1, FailInv
<1>2. CASE /\ proc' = [proc EXCEPT ![p].pc = "loop"]
           /\ UNCHANGED <<hasLedger, ledger, schema, runs, writer>>
  <2> DEFINE r == [proc[p] EXCEPT !.pc = "loop"]
  <2>1. proc \in [Proc -> ProcRec] /\ proc[p] \in ProcRec
    BY DEF MigInv, TypeOK
  <2>2. r \in ProcRec /\ r.pc = "loop" /\ r.applied = proc[p].applied /\ r.m = proc[p].m
    BY <2>1 DEF ProcRec
  <2>3. proc' = [proc EXCEPT ![p] = r]
    BY <1>2, <2>1
  <2>4. /\ r.applied \subseteq ledger /\ r.m # 0 /\ writer \in Proc \cup {None}
        /\ \A w \in Nat \ {0} : w < r.m => w \in ledger
    BY <2>2 DEF MigInv, ReadsOK, TypeOK
  <2> HIDE DEF r
  <2> QED BY <1>2, <2>2, <2>3, <2>4, OneProcess
<1> QED BY <1>1, <1>2 DEF CurrentVersion

(* The loop skips what it read as applied, opens, or begins a migration.   *)
LEMMA MigrateLoopInv ==
  ASSUME MigInv, NEW p \in Proc, MigrateLoop(p)
  PROVE  MigInv'
<1>1. /\ proc \in [Proc -> ProcRec] /\ proc[p] \in ProcRec /\ writer \in Proc \cup {None}
      /\ proc[p].bin \in Nat /\ proc[p].m \in Nat /\ proc[p].pc = "loop"
      /\ proc[p].applied \subseteq ledger /\ proc[p].m # 0
      /\ \A w \in Nat \ {0} : w < proc[p].m => w \in ledger
  BY MigrationAssumption DEF MigInv, TypeOK, ReadsOK, ProcRec, MigrateLoop
<1>2. UNCHANGED <<hasLedger, ledger, schema, runs, writer>>
  BY DEF MigrateLoop
<1>3. CASE proc[p].m > proc[p].bin /\ proc' = [proc EXCEPT ![p].pc = "open"]
  <2> DEFINE r == [proc[p] EXCEPT !.pc = "open"]
  <2>1. /\ r \in ProcRec /\ r.pc = "open" /\ r.bin = proc[p].bin
        /\ r.applied = proc[p].applied /\ r.m = proc[p].m
    BY <1>1 DEF ProcRec
  <2>2. proc' = [proc EXCEPT ![p] = r]
    BY <1>1, <1>3
  <2>3. \A w \in Nat \ {0} : w <= r.bin => w \in ledger
    BY <1>1, <1>3, <2>1
  <2> HIDE DEF r
  <2> QED BY <1>1, <1>2, <2>1, <2>2, <2>3, OneProcess
<1>4. CASE proc[p].m \in proc[p].applied /\ proc' = [proc EXCEPT ![p].m = @ + 1]
  <2> DEFINE r == [proc[p] EXCEPT !.m = @ + 1]
  <2>1. /\ r \in ProcRec /\ r.pc = "loop" /\ r.applied = proc[p].applied
        /\ r.m = proc[p].m + 1
    BY <1>1 DEF ProcRec
  <2>2. proc' = [proc EXCEPT ![p] = r]
    BY <1>1, <1>4
  <2>3. r.m # 0 /\ \A w \in Nat \ {0} : w < r.m => w \in ledger
    BY <1>1, <1>4, <2>1
  <2> HIDE DEF r
  <2> QED BY <1>1, <1>2, <2>1, <2>2, <2>3, OneProcess
<1> QED BY <1>3, <1>4 DEF MigrateLoop

(* The first write of a migration takes the lock.                          *)
LEMMA ApplyExecInv ==
  ASSUME MigInv, NEW p \in Proc, ApplyExec(p)
  PROVE  MigInv'
<1> DEFINE r == [proc[p] EXCEPT !.pc = "record", !.stale = FALSE]
<1>1. proc \in [Proc -> ProcRec] /\ proc[p] \in ProcRec
  BY DEF MigInv, TypeOK
<1>2. r \in ProcRec /\ r.pc = "record" /\ r.applied = proc[p].applied /\ r.m = proc[p].m
  BY <1>1 DEF ProcRec
<1>3. proc' = [proc EXCEPT ![p] = r] /\ UNCHANGED <<hasLedger, ledger, schema, runs>>
  BY <1>1 DEF ApplyExec
<1>4. /\ r.applied \subseteq ledger /\ r.m # 0
      /\ \A w \in Nat \ {0} : w < r.m => w \in ledger
  BY <1>2 DEF MigInv, ReadsOK
<1>5. /\ writer' \in Proc \cup {None}
      /\ \A q \in Proc \ {p} : proc[q].pc = "commit" => writer' = writer
  BY MigrationAssumption DEF MigInv, TypeOK, LockOK, ApplyExec
<1> HIDE DEF r
<1> QED BY <1>2, <1>3, <1>4, <1>5, OneProcess

(* The ledger row goes in only if nobody else has committed it.            *)
LEMMA ApplyRecordInv ==
  ASSUME MigInv, NEW p \in Proc, ApplyRecord(p)
  PROVE  MigInv'
<1>1. CASE RowConflict(p)
  BY <1>1, FailInv DEF ApplyRecord
<1>2. CASE ~RowConflict(p)
  <2> DEFINE r == [proc[p] EXCEPT !.pc = "commit"]
  <2>1. proc \in [Proc -> ProcRec] /\ proc[p] \in ProcRec
    BY DEF MigInv, TypeOK
  <2>2. r \in ProcRec /\ r.pc = "commit" /\ r.applied = proc[p].applied /\ r.m = proc[p].m
    BY <2>1 DEF ProcRec
  <2>3. /\ proc' = [proc EXCEPT ![p] = r] /\ writer' = p
        /\ UNCHANGED <<hasLedger, ledger, schema, runs>>
    BY <1>2, <2>1 DEF ApplyRecord
  <2>4. /\ r.applied \subseteq ledger /\ r.m # 0
        /\ \A w \in Nat \ {0} : w < r.m => w \in ledger
    BY <2>2 DEF MigInv, ReadsOK
  <2>5. r.m \notin ledger /\ writer \in {p, None}
    BY <1>2, <2>2 DEF RowConflict
  <2>6. \A q \in Proc \ {p} : proc[q].pc # "commit"
    BY <2>5, MigrationAssumption DEF MigInv, LockOK
  <2> HIDE DEF r
  <2> QED BY <2>2, <2>3, <2>4, <2>5, <2>6, OneProcess
<1> QED BY <1>1, <1>2

------------------------------------------------------------------------------
(* MigInv is an inductive invariant of the specification.                  *)
THEOREM MigrationInvariant == Spec => []MigInv
<1>1. Init => MigInv
  <2> SUFFICES ASSUME Init PROVE MigInv
    OBVIOUS
  <2>1. PICK c \in [Proc -> {[pc |-> "down", bin |-> b, applied |-> {}, m |-> 1,
                              stale |-> FALSE, why |-> "none"] : b \in Binaries}] : proc = c
    BY DEF Init
  <2>2. \A p \in Proc : /\ proc[p] \in ProcRec /\ proc[p].pc = "down"
                        /\ proc[p].applied = {} /\ proc[p].m = 1
    <3> SUFFICES ASSUME NEW p \in Proc
                 PROVE  /\ proc[p] \in ProcRec /\ proc[p].pc = "down"
                        /\ proc[p].applied = {} /\ proc[p].m = 1
      OBVIOUS
    <3>1. PICK b \in Binaries : proc[p] = [pc |-> "down", bin |-> b, applied |-> {}, m |-> 1,
                                          stale |-> FALSE, why |-> "none"]
      BY <2>1
    <3> QED BY <3>1 DEF ProcRec
  <2>3. TypeOK
    BY <2>1, <2>2 DEF Init, TypeOK
  <2>4. ReadsOK /\ LockOK /\ HandleOK
    BY <2>2 DEF ReadsOK, LockOK, HandleOK
  <2>5. LedgerOK /\ AppliedOnce
    BY DEF Init, LedgerOK, AppliedOnce
  <2> QED BY <2>3, <2>4, <2>5 DEF MigInv
<1>2. MigInv /\ [Next]_vars => MigInv'
  <2> SUFFICES ASSUME MigInv, [Next]_vars PROVE MigInv'
    OBVIOUS
  <2>1. ASSUME NEW p \in Proc, NEW b \in Binaries, Start(p, b) PROVE MigInv'
    BY <2>1, StartInv
  <2>2. ASSUME NEW p \in Proc, Migrate(p) PROVE MigInv'
    BY <2>2, EnsureLedgerInv, AppliedVersionsInv, CurrentVersionInv, MigrateLoopInv,
       ApplyExecInv, ApplyRecordInv, ApplyCommitInv DEF Migrate
  <2>3. ASSUME NEW p \in Proc, Fault(p) PROVE MigInv'
    BY <2>3, FailInv DEF Fault
  <2>4. ASSUME NEW p \in Proc, Stop(p) PROVE MigInv'
    BY <2>4, StopInv
  <2>5. CASE UNCHANGED vars
    BY <2>5 DEF MigInv, TypeOK, ReadsOK, LockOK, HandleOK, LedgerOK, AppliedOnce, vars
  <2> QED BY <2>1, <2>2, <2>3, <2>4, <2>5 DEF Next
<1> QED BY <1>1, <1>2, PTL DEF Spec

(* Every variable of the migration model keeps its type.                   *)
THEOREM TypeCorrect == Spec => []TypeOK
<1>1. MigInv => TypeOK
  BY DEF MigInv
<1> QED BY <1>1, MigrationInvariant, PTL

(* No migration is committed twice, however many processes start at once.  *)
THEOREM CommittedOnce == Spec => []AppliedOnce
<1>1. MigInv => AppliedOnce
  BY DEF MigInv
<1> QED BY <1>1, MigrationInvariant, PTL

(* The ledger has no gap, whoever fails or crashes where.                  *)
THEOREM NoGap == Spec => []LedgerContiguous
<1>1. MigInv => LedgerContiguous
  <2> SUFFICES ASSUME MigInv, NEW v \in ledger, NEW w \in 1..v PROVE w \in ledger
    BY DEF LedgerContiguous
  <2>1. v \in Nat \ {0} /\ w \in Nat \ {0} /\ w <= v
    BY DEF MigInv, TypeOK
  <2> QED BY <2>1 DEF MigInv, LedgerOK
<1> QED BY <1>1, MigrationInvariant, PTL

(* Every migration is committed once, and after those it builds upon.      *)
THEOREM LedgerIsSound == Spec => []LedgerSound
<1> QED BY CommittedOnce, NoGap, PTL DEF LedgerSound

(* What Open returns is a database with every migration the binary knows,  *)
(* and no migration is half there.                                         *)
THEOREM OpenComplete == Spec => []OpenIsMigrated
<1>1. MigInv => OpenIsMigrated
  <2> SUFFICES ASSUME MigInv PROVE OpenIsMigrated
    OBVIOUS
  <2>1. ASSUME NEW p \in Proc, proc[p].pc = "open", NEW w \in 1..proc[p].bin
        PROVE  w \in ledger
    <3>1. proc[p].bin \in Nat
      BY MigrationAssumption DEF MigInv, TypeOK, ProcRec
    <3> QED BY <2>1, <3>1 DEF MigInv, HandleOK
  <2> QED BY <2>1 DEF MigInv, LedgerOK, OpenIsMigrated
<1> QED BY <1>1, MigrationInvariant, PTL
==============================================================================
