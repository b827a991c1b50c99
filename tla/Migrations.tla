----------------------------- MODULE Migrations ------------------------------
(***************************************************************************)
(* Schema migration at start-up (storage.Open, DB.Migrate).  The agent,    *)
(* the web process and every `infrapilot sk` command open the same SQLite  *)
(* file read-write and each of them migrates it, possibly at the same time *)
(* and, around an update, with binaries that know different schemas.       *)
(*                                                                         *)
(* SQLite is external: one writer at a time; a deferred transaction takes  *)
(* its snapshot at its first statement; a statement that turns a reading   *)
(* transaction into a writing one fails at once when its snapshot is out   *)
(* of date or another connection is writing.  A first statement that       *)
(* writes waits for the lock instead, at most busy_timeout.                *)
(***************************************************************************)
EXTENDS Naturals, FiniteSets

CONSTANTS
    Proc,      \* processes that open the database read-write
    None,      \* no process
    Binaries,  \* SchemaVersion() of the binaries in circulation
    Faults     \* TRUE: a step may fail for outside reasons, a process may crash

ASSUME MigrationAssumption ==
    /\ None \notin Proc
    /\ Binaries \subseteq Nat \ {0} /\ Binaries # {}
    /\ Faults \in BOOLEAN

VARIABLES
    hasLedger,  \* table schema_migrations exists
    ledger,     \* its rows: the recorded versions
    schema,     \* versions whose tables exist
    runs,       \* history: <<version, process>> of every committed migration
    writer,     \* the connection that holds the write lock, or None
    proc        \* per process: where its Open is and what it has read

vars == <<hasLedger, ledger, schema, runs, writer, proc>>

ProcRec == [pc : {"down", "ensure", "applied", "current", "loop", "record",
                  "commit", "open", "failed"},
            bin : Binaries,             \* what this binary knows
            applied : SUBSET Nat,       \* appliedVersions
            m : Nat,                    \* the migration the loop is at
            stale : BOOLEAN,            \* a commit outdated its snapshot
            why : {"none", "newer", "conflict", "fault"}]

(* One type invariant.                                                     *)
TypeOK ==
    /\ hasLedger \in BOOLEAN
    /\ ledger \subseteq Nat \ {0} /\ schema \subseteq Nat \ {0}
    /\ runs \subseteq (Nat \ {0}) \X Proc
    /\ writer \in Proc \cup {None}
    /\ proc \in [Proc -> ProcRec]

Init ==
    /\ hasLedger = FALSE
    /\ ledger = {} /\ schema = {} /\ runs = {}
    /\ writer = None
    /\ proc \in [Proc -> {[pc |-> "down", bin |-> b, applied |-> {}, m |-> 1,
                           stale |-> FALSE, why |-> "none"] : b \in Binaries}]

InTx(p) == proc[p].pc \in {"record", "commit"}

\* The end of a failed Open: the deferred Rollback gives the lock back.
Fail(p, reason) ==
    /\ proc' = [proc EXCEPT ![p].pc = "failed", ![p].why = reason]
    /\ writer' = IF writer = p THEN None ELSE writer
    /\ UNCHANGED <<hasLedger, ledger, schema, runs>>

------------------------------------------------------------------------------
\* A process is started, or started again by its supervisor.
Start_zeroBased(p, b) ==             \* mutant: indices are taken for versions
    /\ proc[p].pc \in {"down", "failed"}
    /\ proc' = [proc EXCEPT ![p] = [pc |-> "ensure", bin |-> b, applied |-> {}, m |-> 0,
                                    stale |-> FALSE, why |-> "none"]]
    /\ UNCHANGED <<hasLedger, ledger, schema, runs, writer>>

Start_afterLedger(p, b) ==           \* mutant: ensureLedger is taken for migration 1
    /\ proc[p].pc \in {"down", "failed"}
    /\ proc' = [proc EXCEPT ![p] = [pc |-> "ensure", bin |-> b, applied |-> {}, m |-> 2,
                                    stale |-> FALSE, why |-> "none"]]
    /\ UNCHANGED <<hasLedger, ledger, schema, runs, writer>>

Start(p, b) ==
    /\ proc[p].pc \in {"down", "failed"}
    /\ proc' = [proc EXCEPT ![p] = [pc |-> "ensure", bin |-> b, applied |-> {}, m |-> 1,
                                    stale |-> FALSE, why |-> "none"]]
    /\ UNCHANGED <<hasLedger, ledger, schema, runs, writer>>

\* ensureLedger: CREATE TABLE IF NOT EXISTS, which writes only if it must.
EnsureLedger(p) ==
    /\ proc[p].pc = "ensure"
    /\ hasLedger \/ writer = None
    /\ hasLedger' = TRUE
    /\ proc' = [q \in Proc |->
                  IF q = p THEN [proc[p] EXCEPT !.pc = "applied"]
                  ELSE [proc[q] EXCEPT !.stale = @ \/ (~hasLedger /\ InTx(q))]]
    /\ UNCHANGED <<ledger, schema, runs, writer>>

AppliedVersions_none(p) ==           \* mutant: the rows are not collected
    /\ proc[p].pc = "applied"
    /\ proc' = [proc EXCEPT ![p].pc = "current"]
    /\ UNCHANGED <<hasLedger, ledger, schema, runs, writer>>

AppliedVersions(p) ==
    /\ proc[p].pc = "applied"
    /\ proc' = [proc EXCEPT ![p].pc = "current", ![p].applied = ledger]
    /\ UNCHANGED <<hasLedger, ledger, schema, runs, writer>>

\* A second read, later than the first; a newer schema is refused.
CurrentVersion(p) ==
    /\ proc[p].pc = "current"
    /\ IF \E v \in ledger : v > proc[p].bin
         THEN Fail(p, "newer")
         ELSE /\ proc' = [proc EXCEPT ![p].pc = "loop"]
              /\ UNCHANGED <<hasLedger, ledger, schema, runs, writer>>

MigrateLoop_short(p) ==              \* mutant: the last migration is not reached
    /\ proc[p].pc = "loop"
    /\ proc[p].m >= proc[p].bin
    /\ proc' = [proc EXCEPT ![p].pc = "open"]
    /\ UNCHANGED <<hasLedger, ledger, schema, runs, writer>>

\* The loop over migrations: nothing left, or one that was applied before.
MigrateLoop(p) ==
    /\ proc[p].pc = "loop"
    /\ \/ /\ proc[p].m > proc[p].bin
          /\ proc' = [proc EXCEPT ![p].pc = "open"]
       \/ /\ proc[p].m <= proc[p].bin
          /\ proc[p].m \in proc[p].applied
          /\ proc' = [proc EXCEPT ![p].m = @ + 1]
    /\ UNCHANGED <<hasLedger, ledger, schema, runs, writer>>

\* applyMigration: BEGIN and the migration's CREATE TABLE IF NOT EXISTS.  The
\* ledger's own migration, and one another process has just committed, finds
\* its tables there and only reads.
NeedsWrite(p) == proc[p].m # 1 /\ proc[p].m \notin schema

ApplyExec(p) ==
    /\ proc[p].pc = "loop"
    /\ proc[p].m <= proc[p].bin /\ proc[p].m \notin proc[p].applied
    /\ IF NeedsWrite(p) THEN writer = None /\ writer' = p ELSE UNCHANGED writer
    /\ proc' = [proc EXCEPT ![p].pc = "record", ![p].stale = FALSE]
    /\ UNCHANGED <<hasLedger, ledger, schema, runs>>

\* The INSERT of the ledger row, whose version is the primary key.
RowConflict(p) ==
    \/ proc[p].m \in ledger
    \/ writer # p /\ (proc[p].stale \/ writer # None)

ApplyRecord_replace(p) ==            \* mutant: INSERT OR REPLACE
    /\ proc[p].pc = "record"
    /\ writer \in {None, p}
    /\ writer' = p
    /\ proc' = [proc EXCEPT ![p].pc = "commit"]
    /\ UNCHANGED <<hasLedger, ledger, schema, runs>>

ApplyRecord(p) ==
    /\ proc[p].pc = "record"
    /\ IF RowConflict(p)
         THEN Fail(p, "conflict")
         ELSE /\ writer' = p
              /\ proc' = [proc EXCEPT ![p].pc = "commit"]
              /\ UNCHANGED <<hasLedger, ledger, schema, runs>>

\* COMMIT publishes tables and row together and outdates other snapshots.
ApplyCommit(p) ==
    /\ proc[p].pc = "commit"
    /\ ledger' = ledger \cup {proc[p].m}
    /\ schema' = schema \cup {proc[p].m}
    /\ runs' = runs \cup {<<proc[p].m, p>>}
    /\ writer' = None
    /\ proc' = [q \in Proc |->
                  IF q = p THEN [proc[p] EXCEPT !.pc = "loop", !.m = @ + 1]
                  ELSE [proc[q] EXCEPT !.stale = @ \/ InTx(q)]]
    /\ UNCHANGED hasLedger

\* The context is cancelled, the disk fails, or busy_timeout runs out.
Fault(p) ==
    /\ Faults
    /\ proc[p].pc \notin {"down", "open", "failed"}
    /\ Fail(p, "fault")

\* The process ends, by itself or not; SQLite rolls its transaction back.
Stop(p) ==
    /\ proc[p].pc = "open" \/ (Faults /\ proc[p].pc # "down")
    /\ proc' = [proc EXCEPT ![p].pc = "down", ![p].why = "none"]
    /\ writer' = IF writer = p THEN None ELSE writer
    /\ UNCHANGED <<hasLedger, ledger, schema, runs>>

Migrate(p) ==
    \/ EnsureLedger(p) \/ AppliedVersions(p) \/ CurrentVersion(p)
    \/ MigrateLoop(p) \/ ApplyExec(p) \/ ApplyRecord(p) \/ ApplyCommit(p)

Next ==
    \E p \in Proc : \/ \E b \in Binaries : Start(p, b)
                    \/ Migrate(p) \/ Fault(p) \/ Stop(p)

Spec == Init /\ [][Next]_vars

(* Restart=on-failure starts a failed service again, and a process that is *)
(* in the middle of Open goes on.                                          *)
Fairness ==
    \A p \in Proc :
      /\ WF_vars(Migrate(p))
      /\ WF_vars(proc[p].pc = "failed" /\ \E b \in Binaries : Start(p, b))

FairSpec == Spec /\ Fairness

------------------------------------------------------------------------------
(* Properties.                                                             *)

(* No migration is ever committed twice, whoever ran it, although every    *)
(* process decides what is pending from a read that may be out of date.    *)
AppliedOnce == \A r, s \in runs : r[1] = s[1] => r = s

(* The ledger never has a gap, with several processes, of different        *)
(* binaries, migrating, failing and crashing at once.                      *)
LedgerContiguous == \A v \in ledger : \A w \in 1..v : w \in ledger

(* Both together: every migration is committed once, and after those it    *)
(* builds upon.                                                            *)
LedgerSound == AppliedOnce /\ LedgerContiguous

(* Migrate: "a failure leaves no partially applied version behind", and    *)
(* what Open returns is a database with every migration this binary knows. *)
OpenIsMigrated ==
    /\ schema = ledger
    /\ \A p \in Proc : proc[p].pc = "open" => 1..proc[p].bin \subseteq ledger

(* A start-up that lost a race against another one is repaired by the      *)
(* restart: the process gets through, is refused by a newer schema, or is  *)
(* taken down, unless processes go on failing for outside reasons for      *)
(* ever.  Two start-ups do not keep defeating each other.                  *)
RestartRepairs ==
    \/ []<><<\E q \in Proc : Fault(q) \/ (proc[q].pc # "open" /\ Stop(q))>>_vars
    \/ \A p \in Proc : proc[p].why = "conflict" ~>
          proc[p].pc \in {"open", "down"} \/ proc[p].why = "newer"

(* Migrate: "It is safe to call on every start-up": no start-up fails only *)
(* because another process is starting up too.                             *)
SafeOnEveryStartup == \A p \in Proc : proc[p].why # "conflict"

==============================================================================
