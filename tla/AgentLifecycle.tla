--------------------------- MODULE AgentLifecycle ----------------------------
(***************************************************************************)
(* The life of infrapilot-agent processes: start-up and shutdown of        *)
(* Agent.Run, the closing goroutine of Agent.shutdown, the PID file that   *)
(* is the only trace of a running agent, the supervisor that starts, stops *)
(* and restarts the service, and the three-step check by which the CLI     *)
(* (status, doctor) finds out whether an agent is running.                 *)
(*                                                                         *)
(* Time is counted only where the code waits for it: Tick passes one unit  *)
(* while a close of the database is pending, and a due shutdown timer      *)
(* fires before the next unit.  Everything else takes no time.  The        *)
(* heartbeat changes nothing and is left out; the signing bridge started   *)
(* by serve shares nothing with the rest of the process.                   *)
(***************************************************************************)
EXTENDS Naturals, FiniteSets

CONSTANTS
    Pid,              \* process ids of the host
    None,             \* no process id
    OtherNames,       \* command names of other programs that come and go
    Manual,           \* TRUE: agents may also be started outside systemd
    Starvation,       \* TRUE: a runnable goroutine may be kept off the CPU
    ShutdownTimeout,  \* agent.shutdown_timeout
    TimeoutStop,      \* TimeoutStopSec of the unit
    MaxStarts         \* StartLimitBurst of the unit; also bounds manual starts

AgentName == "infrapilot-agent"

ASSUME LifecycleAssumption ==
    /\ None \notin Pid
    /\ Manual \in BOOLEAN /\ Starvation \in BOOLEAN
    /\ AgentName \notin OtherNames /\ "none" \notin OtherNames
    /\ ShutdownTimeout \in Nat \ {0} /\ TimeoutStop \in Nat /\ MaxStarts \in Nat
    \* config.go: "systemd's TimeoutStopSec must exceed this."
    /\ ShutdownTimeout < TimeoutStop

VARIABLES
    procs,    \* process table: the command name behind each pid, or "none"
    ag,       \* per pid: the agent running there
    pidFile,  \* content of agent.pid, or None
    svc,      \* the unit: [state, main]
    starts,   \* agents started so far
    killed,   \* history: agents systemd had to SIGKILL after they had served
    check,    \* one CLI status check: [pc, pid, named, result]
    watch     \* history of the check under way: [up, any]

vars == <<procs, ag, pidFile, svc, starts, killed, check, watch>>

Stages == {"dead", "begin", "env", "datadir", "open", "liveness", "serve",
           "shutwait", "clear", "mclose", "mclosing", "exit"}

AgentRec == [pc : Stages,
             stop : BOOLEAN,         \* the signal context is cancelled
             served : BOOLEAN,       \* start-up was completed
             handle : BOOLEAN,       \* a.db is set
             dbOpen : BOOLEAN,       \* the database is open
             closer : {"none", "start", "closing", "done", "doneErr"},
             closes : Nat,           \* callers that went on to db.Close
             failed : BOOLEAN,       \* Run returns an error
             timedOut : BOOLEAN,     \* shutdown stopped waiting
             kept : BOOLEAN,         \* clearLiveness could not remove the file
             waited : Nat]           \* time spent closing

Dead == [pc |-> "dead", stop |-> FALSE, served |-> FALSE, handle |-> FALSE,
         dbOpen |-> FALSE, closer |-> "none", closes |-> 0, failed |-> FALSE,
         timedOut |-> FALSE, kept |-> FALSE, waited |-> 0]

CheckRec == [pc : {"idle", "alive", "name"}, pid : Pid \cup {None},
             named : BOOLEAN, result : {"none", "running", "stopped", "unknown"}]

Alive(p) == ag[p].pc # "dead"
AgentsUp == \E p \in Pid : ag[p].pc \in {"serve", "shutwait"}
AgentsAny == \E p \in Pid : Alive(p)

(* One type invariant for the process table, the agents, the unit and the  *)
(* check.                                                                  *)
TypeOK ==
    /\ procs \in [Pid -> OtherNames \cup {AgentName, "none"}]
    /\ ag \in [Pid -> AgentRec]
    /\ pidFile \in Pid \cup {None}
    /\ svc \in [state : {"stopped", "running", "stopping", "restart"},
                main : Pid \cup {None}]
    /\ starts \in 0..MaxStarts
    /\ killed \in BOOLEAN
    /\ check \in CheckRec
    /\ watch \in [up : BOOLEAN, any : BOOLEAN]

Init ==
    /\ procs = [p \in Pid |-> "none"]
    /\ ag = [p \in Pid |-> Dead]
    /\ pidFile = None
    /\ svc = [state |-> "stopped", main |-> None]
    /\ starts = 0
    /\ killed = FALSE
    /\ check = [pc |-> "idle", pid |-> None, named |-> FALSE, result |-> "none"]
    /\ watch = [up |-> FALSE, any |-> FALSE]

\* While a check is under way: was an agent serving all the time, and was
\* there an agent at any time?
Watching ==
    watch' = IF check.pc = "idle" THEN watch
             ELSE [up |-> watch.up /\ AgentsUp', any |-> watch.any \/ AgentsAny']

WatchFromNow == watch' = [up |-> AgentsUp, any |-> AgentsAny]

------------------------------------------------------------------------------
(* Agent.Run, one action per stage.  `At` is the frame of a stage of p.    *)

At(p, stage) == ag[p].pc = stage /\ UNCHANGED <<procs, svc, starts, killed, check>>

Interrupted_lost(p) ==               \* mutant: the error ends in no stage of Run
    ag' = [ag EXCEPT ![p].pc = "interrupted", ![p].failed = ~ag[p].stop]

\* A start-up stage failed: stopping() turns the error into a clean exit
\* when the context is already cancelled.
Interrupted(p) == ag' = [ag EXCEPT ![p].pc = "exit", ![p].failed = ~ag[p].stop]

Begin(p) ==
    /\ At(p, "begin")
    /\ ag' = [ag EXCEPT ![p].pc = IF ag[p].stop THEN "exit" ELSE "env"]
    /\ UNCHANGED pidFile
    /\ Watching

ValidateEnvironment(p) ==
    /\ At(p, "env")
    /\ \/ ag' = [ag EXCEPT ![p].pc = "datadir"]
       \/ ag' = [ag EXCEPT ![p].pc = "exit", ![p].failed = TRUE]
    /\ UNCHANGED pidFile
    /\ Watching

PrepareDataDir(p) ==
    /\ At(p, "datadir")
    /\ ag' = [ag EXCEPT ![p].pc = "open"] \/ Interrupted(p)
    /\ UNCHANGED pidFile
    /\ Watching

OpenStorage(p) ==
    /\ At(p, "open")
    /\ \/ ag' = [ag EXCEPT ![p].pc = "liveness", ![p].handle = TRUE, ![p].dbOpen = TRUE]
       \/ Interrupted(p)
    /\ UNCHANGED pidFile
    /\ Watching

RecordLiveness_unwritten(p) ==       \* mutant: serving without a PID file
    /\ At(p, "liveness")
    /\ ag' = [ag EXCEPT ![p].pc = "serve", ![p].served = TRUE]
    /\ UNCHANGED pidFile
    /\ Watching

RecordLiveness_leaks(p) ==           \* mutant: the failure skips the deferred close
    /\ At(p, "liveness")
    /\ ag' = [ag EXCEPT ![p].pc = "exit", ![p].failed = TRUE]
    /\ UNCHANGED pidFile
    /\ Watching

\* Written aside and renamed, so the file changes at once or not at all.
WritePIDFile(p) == pidFile' = p

\* A failure to record liveness unwinds through the deferred closeStorage.
RecordLiveness(p) ==
    /\ At(p, "liveness")
    /\ \/ /\ WritePIDFile(p)
          /\ ag' = [ag EXCEPT ![p].pc = "serve", ![p].served = TRUE]
       \/ /\ ag' = [ag EXCEPT ![p].pc = "mclose", ![p].failed = TRUE]
          /\ UNCHANGED pidFile
    /\ Watching

ServeStop_deaf(p) ==                 \* mutant: serve never selects ctx.Done
    /\ At(p, "serve")
    /\ ag[p].stop
    /\ UNCHANGED <<ag, pidFile>>
    /\ Watching

ServeStop_inline(p) ==               \* mutant: no goroutine, closeStorage unbounded
    /\ At(p, "serve")
    /\ ag[p].stop
    /\ ag' = [ag EXCEPT ![p].pc = "clear"]
    /\ UNCHANGED pidFile
    /\ Watching

\* serve sees the cancelled context and calls shutdown, which starts the
\* closing goroutine and waits for it or for the timer.
ServeStop(p) ==
    /\ At(p, "serve")
    /\ ag[p].stop
    /\ ag' = [ag EXCEPT ![p].pc = "shutwait", ![p].closer = "start"]
    /\ UNCHANGED pidFile
    /\ Watching

ShutdownDone(p) ==
    /\ At(p, "shutwait")
    /\ ag[p].closer \in {"done", "doneErr"}
    /\ ag' = [ag EXCEPT ![p].pc = "clear", ![p].failed = (ag[p].closer = "doneErr")]
    /\ UNCHANGED pidFile
    /\ Watching

ShutdownTimedOut(p) ==
    /\ At(p, "shutwait")
    /\ ag[p].waited >= ShutdownTimeout
    /\ ag' = [ag EXCEPT ![p].pc = "clear", ![p].failed = TRUE, ![p].timedOut = TRUE]
    /\ UNCHANGED pidFile
    /\ Watching

\* Whatever file is there is removed; there may be none.
RemovePIDFile == pidFile' = None

\* Deferred clearLiveness: a failure to remove the file is only logged.
ClearLiveness(p) ==
    /\ At(p, "clear")
    /\ \/ /\ RemovePIDFile
          /\ ag' = [ag EXCEPT ![p].pc = "mclose"]
       \/ /\ pidFile # None
          /\ ag' = [ag EXCEPT ![p].pc = "mclose", ![p].kept = TRUE]
          /\ UNCHANGED pidFile
    /\ Watching

\* Deferred closeStorage: the swap of a.db under a.mu ...
MainSwap(p) ==
    /\ At(p, "mclose")
    /\ ag' = IF ag[p].handle
               THEN [ag EXCEPT ![p].pc = "mclosing", ![p].handle = FALSE,
                               ![p].closes = @ + 1]
               ELSE [ag EXCEPT ![p].pc = "exit"]
    /\ UNCHANGED pidFile
    /\ Watching

\* ... and db.Close outside it; the result is dropped.
MainClose(p) ==
    /\ At(p, "mclosing")
    /\ ag' = [ag EXCEPT ![p].pc = "exit", ![p].dbOpen = FALSE]
    /\ UNCHANGED pidFile
    /\ Watching

------------------------------------------------------------------------------
(* The goroutine of shutdown: the same closeStorage, concurrently.         *)

CloserSwap_keeps(p) ==               \* mutant: a.db is not set to nil
    /\ ag[p].closer = "start"
    /\ ag[p].handle
    /\ ag' = [ag EXCEPT ![p].closer = "closing", ![p].closes = @ + 1]
    /\ UNCHANGED <<procs, pidFile, svc, starts, killed, check>>
    /\ Watching

CloserSwap(p) ==
    /\ ag[p].closer = "start"
    /\ ag' = IF ag[p].handle
               THEN [ag EXCEPT ![p].closer = "closing", ![p].handle = FALSE,
                               ![p].closes = @ + 1]
               ELSE [ag EXCEPT ![p].closer = "done"]
    /\ UNCHANGED <<procs, pidFile, svc, starts, killed, check>>
    /\ Watching

CloserClose(p) ==
    /\ ag[p].closer = "closing"
    /\ \/ ag' = [ag EXCEPT ![p].closer = "done", ![p].dbOpen = FALSE]
       \/ ag' = [ag EXCEPT ![p].closer = "doneErr", ![p].dbOpen = FALSE]
    /\ UNCHANGED <<procs, pidFile, svc, starts, killed, check>>
    /\ Watching

\* One unit of time goes by while a close is under way or, on a starved
\* host, before it begins.  A due timer fires first, and nobody waits longer
\* than the supervisor does.
Tick(p) ==
    /\ \/ /\ ag[p].pc = "shutwait" /\ ag[p].waited < ShutdownTimeout
          /\ \/ ag[p].closer = "closing"
             \/ Starvation /\ ag[p].closer = "start"
       \/ ag[p].pc = "mclosing" /\ ag[p].waited < TimeoutStop
    /\ ag' = [ag EXCEPT ![p].waited = @ + 1]
    /\ UNCHANGED <<procs, pidFile, svc, starts, killed, check>>
    /\ Watching

------------------------------------------------------------------------------
(* Processes, signals and the supervisor (external to src/, modelled from  *)
(* the unit file: Restart=on-failure, TimeoutStopSec, StartLimitBurst).    *)

Launch(p) ==
    /\ procs[p] = "none"
    /\ starts < MaxStarts
    /\ starts' = starts + 1
    /\ procs' = [procs EXCEPT ![p] = AgentName]
    /\ ag' = [ag EXCEPT ![p] = [Dead EXCEPT !.pc = "begin"]]
    /\ UNCHANGED <<pidFile, killed, check>>

SvcStart(p) ==
    /\ svc.state \in {"stopped", "restart"}
    /\ Launch(p)
    /\ svc' = [state |-> "running", main |-> p]
    /\ Watching

ManualStart(p) ==
    /\ Manual
    /\ Launch(p)
    /\ UNCHANGED svc
    /\ Watching

\* systemctl stop: SIGTERM to the main process.
SvcStop ==
    /\ \/ /\ svc.state = "running"
          /\ svc' = [svc EXCEPT !.state = "stopping"]
          /\ ag' = [ag EXCEPT ![svc.main].stop = TRUE]
       \/ /\ svc.state = "restart"                \* waiting for RestartSec
          /\ svc' = [svc EXCEPT !.state = "stopped"]
          /\ UNCHANGED ag
    /\ UNCHANGED <<procs, pidFile, starts, killed, check>>
    /\ Watching

\* A stop signal to an agent that systemd did not start.
ManualStop(p) ==
    /\ Manual /\ Alive(p) /\ svc.main # p
    /\ ag' = [ag EXCEPT ![p].stop = TRUE]
    /\ UNCHANGED <<procs, pidFile, svc, starts, killed, check>>
    /\ Watching

\* What the unit does when its main process is gone.
SvcAfter(p, ok) ==
    svc' = IF svc.main # p THEN svc
           ELSE [state |-> IF svc.state = "stopping" \/ ok THEN "stopped" ELSE "restart",
                 main |-> None]

Gone(p) ==
    /\ procs' = [procs EXCEPT ![p] = "none"]
    /\ ag' = [ag EXCEPT ![p] = Dead]
    /\ UNCHANGED <<pidFile, starts, check>>

\* main returns: the process ends, with any goroutine still running.
Exit(p) ==
    /\ ag[p].pc = "exit"
    /\ Gone(p)
    /\ SvcAfter(p, ~ag[p].failed)
    /\ UNCHANGED killed
    /\ Watching

\* A crash, or a SIGKILL from anywhere but the stop timeout.
Crash(p) ==
    /\ Alive(p)
    /\ Gone(p)
    /\ SvcAfter(p, FALSE)
    /\ UNCHANGED killed
    /\ Watching

\* TimeoutStopSec has passed since SIGTERM.
SvcKill(p) ==
    /\ svc.state = "stopping" /\ svc.main = p
    /\ ag[p].waited >= TimeoutStop
    /\ Gone(p)
    /\ SvcAfter(p, FALSE)
    /\ killed' = (killed \/ ag[p].served)
    /\ Watching

\* Other programs come and go, and may be given a pid an agent had.
OtherStart(p, n) ==
    /\ procs[p] = "none"
    /\ procs' = [procs EXCEPT ![p] = n]
    /\ UNCHANGED <<ag, pidFile, svc, starts, killed, check>>
    /\ Watching

OtherExit(p) ==
    /\ procs[p] \in OtherNames
    /\ procs' = [procs EXCEPT ![p] = "none"]
    /\ UNCHANGED <<ag, pidFile, svc, starts, killed, check>>
    /\ Watching

------------------------------------------------------------------------------
(* system.CheckProcess, called by status and doctor: three reads.          *)

Report(r, pid, named) == check' = [pc |-> "idle", pid |-> pid, named |-> named, result |-> r]

ReadPIDFile ==
    /\ check.pc = "idle"
    /\ \/ pidFile = None /\ Report("stopped", None, FALSE)
       \/ /\ pidFile # None
          /\ \/ check' = [pc |-> "alive", pid |-> pidFile, named |-> FALSE, result |-> "none"]
             \/ Report("unknown", None, FALSE)          \* not readable
    /\ UNCHANGED <<procs, ag, pidFile, svc, starts, killed>>
    /\ WatchFromNow

ProcessAlive ==
    /\ check.pc = "alive"
    /\ IF procs[check.pid] = "none"
         THEN Report("stopped", check.pid, FALSE)
         ELSE check' = [check EXCEPT !.pc = "name"]
    /\ UNCHANGED <<procs, ag, pidFile, svc, starts, killed>>
    /\ Watching

NameAccepted_any(n) == TRUE          \* mutant: liveness alone is believed

\* strings.HasPrefix(expectedName, name): of the names here, the agent's own
\* (the kernel keeps 15 characters of it) and "infrapilot" are prefixes.
NameAccepted(n) == n \in {AgentName, "infrapilot"}

\* ProcessName is "" when /proc cannot be read or the process has gone; then
\* the recorded process is trusted.
ProcessName ==
    /\ check.pc = "name"
    /\ \/ Report("running", check.pid, FALSE)
       \/ /\ procs[check.pid] # "none"
          /\ Report(IF NameAccepted(procs[check.pid]) THEN "running" ELSE "stopped",
                    check.pid, TRUE)
    /\ UNCHANGED <<procs, ag, pidFile, svc, starts, killed>>
    /\ Watching

------------------------------------------------------------------------------
AgentStep(p) ==
    \/ Begin(p) \/ ValidateEnvironment(p) \/ PrepareDataDir(p) \/ OpenStorage(p)
    \/ RecordLiveness(p) \/ ServeStop(p) \/ ShutdownDone(p) \/ ShutdownTimedOut(p)
    \/ ClearLiveness(p) \/ MainSwap(p) \/ Exit(p)

CloserStep(p) == CloserSwap(p) \/ CloserClose(p)

Environment(p) ==
    \/ SvcStart(p) \/ ManualStart(p) \/ ManualStop(p) \/ Crash(p)
    \/ \E n \in OtherNames : OtherStart(p, n)
    \/ OtherExit(p)

CheckStep == ReadPIDFile \/ ProcessAlive \/ ProcessName

Next ==
    \/ \E p \in Pid : \/ AgentStep(p) \/ MainClose(p) \/ CloserStep(p)
                      \/ Tick(p) \/ SvcKill(p) \/ Environment(p)
    \/ SvcStop
    \/ CheckStep

Spec == Init /\ [][Next]_vars

(* The Go scheduler runs every runnable goroutine, timers fire and systemd *)
(* enforces TimeoutStopSec.  A close of the database may hang for ever: no *)
(* fairness is assumed of CloserClose and MainClose.                       *)
Fairness ==
    \A p \in Pid : /\ WF_vars(AgentStep(p))
                   /\ WF_vars(CloserSwap(p))
                   /\ WF_vars(Tick(p))
                   /\ WF_vars(SvcKill(p))

FairSpec == Spec /\ Fairness

------------------------------------------------------------------------------
(* Properties.                                                             *)

(* closeStorage: "exactly one caller ever closes the handle", although the *)
(* deferred call of Run can race the goroutine shutdown left behind.       *)
SingleCloser == \A p \in Pid : ag[p].closes <= 1

(* Run: "a failure halfway through leaves nothing behind".  Whatever stage *)
(* failed, a Run that is about to return has closed the database, unless   *)
(* shutdown gave up waiting for the goroutine that does, and the PID file  *)
(* it wrote does not name it any more, unless removing it failed.          *)
ExitLeavesNothing ==
    \A p \in Pid : ag[p].pc = "exit" =>
      /\ ag[p].dbOpen => ag[p].timedOut /\ ag[p].closer = "closing"
      /\ ag[p].served /\ pidFile = p => ag[p].kept

(* shutdown: "Bounding it means systemd never has to escalate to SIGKILL   *)
(* during an orderly stop", even if the close never returns, provided the  *)
(* closing goroutine gets to run before the timer fires.                   *)
NoSigkillAfterService == ~killed

(* CheckProcess makes three reads that may straddle a restart.  What       *)
(* `status` calls stopped was not serving throughout the check, when       *)
(* systemd alone starts agents; what it calls running, with a name that    *)
(* could be read, was an agent at some moment of the check, and not        *)
(* another program that got the number of a stale PID file.                *)
StatusTrue ==
    /\ check.result = "stopped" => ~watch.up
    /\ check.result = "running" /\ check.named => watch.any

(* A stop of the service ends, even when closing the database hangs.       *)
StopCompletes == svc.state = "stopping" ~> svc.state = "stopped"
==============================================================================
