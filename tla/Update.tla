------------------------------- MODULE Update --------------------------------
(***************************************************************************)
(* `infrapilot update`: Client.InstallAll replaces three binaries, one     *)
(* rename at a time, restarts the two services, checks their health and    *)
(* rolls back.  Any file operation or command may fail, Ctrl-C cancels the *)
(* context, and the process may be killed between any two operations; an   *)
(* operator may then try again.  The services run meanwhile, and a service *)
(* that starts from the new binary migrates the database.  Services may be *)
(* stopped, and the database not there yet, when the update begins.        *)
(*                                                                         *)
(* Everything up to the archive check (download, checksum, extraction)     *)
(* changes nothing and is left out: an attempt begins when it succeeded.   *)
(***************************************************************************)
EXTENDS Naturals

CONSTANT
    MaxAttempts     \* bound: updates started

ASSUME UpdateAssumption == MaxAttempts \in Nat

Cli == 1      \* infrapilot
Agent == 2    \* infrapilot-agent
Web == 3      \* infrapilot-web
Names == 1..3             \* in the order InstallAll replaces them
Services == {Agent, Web}  \* metadata.Services, in the same order

VARIABLES
    target,    \* what is at BinaryDir/name
    backup,    \* what is at BinaryDir/name.update-backup
    svc,       \* per service: what it runs, [bin, st]
    schema,    \* of the database: "none" before there is one, "new" once migrated
    wide,      \* TRUE: other users may read the database
    migrates,  \* TRUE: the release brings a migration
    u,         \* the update under way: [pc, i, installed, left, cancelled]
    attempts,  \* updates started
    hist       \* of the last update: how it ended, which binaries it found in place,
               \* which one could not be replaced, what rollback failed at, whether
               \* doctor passed without a look at the schema

vars == <<target, backup, svc, schema, wide, migrates, u, attempts, hist>>
fileVars == <<target, backup>>
dbVars == <<schema, wide, migrates>>

Content == {"old", "new", "none"}
Stages == {"idle", "remove", "rename", "install", "restart", "active", "doctor",
           "cleanup", "rbRemove", "rbRename", "rbRestart"}

(* One type invariant.                                                     *)
TypeOK ==
    /\ target \in [Names -> Content] /\ backup \in [Names -> Content]
    /\ svc \in [Services -> [bin : Content, st : {"stopped", "starting", "up", "failed"}]]
    /\ schema \in {"none", "old", "new"}
    /\ wide \in BOOLEAN /\ migrates \in BOOLEAN
    /\ u \in [pc : Stages, i : 1..4, installed : SUBSET Names, left : SUBSET Names,
              cancelled : BOOLEAN]
    /\ attempts \in 0..MaxAttempts
    /\ hist \in [outcome : {"none", "ok", "rolledBack", "killed"}, had : SUBSET Names,
                 failedAt : 0..3, rbErr : BOOLEAN, svcErr : BOOLEAN, warned : BOOLEAN]

Stopped == [bin |-> "none", st |-> "stopped"]
Running == [bin |-> "old", st |-> "up"]

\* The installer starts the agent, or with --no-start nothing; Web requires it.
Init ==
    /\ target = [n \in Names |-> "old"]
    /\ backup = [n \in Names |-> "none"]
    /\ svc \in [Services -> {Stopped, Running}]
    /\ svc[Web] = Running => svc[Agent] = Running
    /\ schema \in {"none", "old"}
    /\ svc[Agent] = Running => schema = "old"
    /\ wide = FALSE
    /\ migrates \in BOOLEAN
    /\ u = [pc |-> "idle", i |-> 1, installed |-> {}, left |-> {}, cancelled |-> FALSE]
    /\ attempts = 0
    /\ hist = [outcome |-> "none", had |-> Names, failedAt |-> 0,
               rbErr |-> FALSE, svcErr |-> FALSE, warned |-> FALSE]

\* What a binary's SchemaVersion amounts to.
Knows(b) == IF migrates THEN b ELSE "old"

------------------------------------------------------------------------------
(* The replacement loop.                                                   *)

\* runUpdate goes on only if the running CLI is older than the release.
Begin ==
    /\ u.pc = "idle" /\ attempts < MaxAttempts
    /\ target[Cli] = "old"
    /\ attempts' = attempts + 1
    /\ u' = [pc |-> "remove", i |-> 1, installed |-> {}, left |-> {}, cancelled |-> FALSE]
    /\ hist' = [outcome |-> "none", had |-> {n \in Names : target[n] = "old"},
                failedAt |-> 0, rbErr |-> FALSE, svcErr |-> FALSE, warned |-> FALSE]
    /\ UNCHANGED <<fileVars, svc, dbVars>>

\* rollback(cause) begins: the binaries in `installed`, in their order.
Rollback == u' = [u EXCEPT !.pc = "rbRemove", !.i = 1]

\* os.Remove(backup), its error dropped.
RemoveBackup ==
    /\ u.pc = "remove"
    /\ backup' \in {backup, [backup EXCEPT ![u.i] = "none"]}
    /\ u' = [u EXCEPT !.pc = "rename"]
    /\ UNCHANGED <<target, svc, dbVars, attempts, hist>>

\* os.Rename(target, backup), which replaces a backup that is still there.
RenameTarget ==
    /\ u.pc = "rename"
    /\ \/ /\ target[u.i] # "none"
          /\ backup' = [backup EXCEPT ![u.i] = target[u.i]]
          /\ target' = [target EXCEPT ![u.i] = "none"]
          /\ u' = [u EXCEPT !.pc = "install"]
          /\ UNCHANGED hist
       \/ /\ Rollback
          /\ hist' = [hist EXCEPT !.failedAt = u.i]
          /\ UNCHANGED fileVars
    /\ UNCHANGED <<svc, dbVars, attempts>>

\* The temporary file is written, synced and renamed into place, or not.
InstallTarget ==
    /\ u.pc = "install"
    /\ \/ /\ target' = [target EXCEPT ![u.i] = "new"]
          /\ u' = [u EXCEPT !.pc = IF u.i = 3 THEN "restart" ELSE "remove",
                            !.i = IF u.i = 3 THEN Agent ELSE u.i + 1,
                            !.installed = @ \cup {u.i}]
          /\ UNCHANGED hist
       \/ /\ Rollback
          /\ hist' = [hist EXCEPT !.failedAt = u.i]
          /\ UNCHANGED target
    /\ UNCHANGED <<backup, svc, dbVars, attempts>>

------------------------------------------------------------------------------
(* Restart and health checks.  Each runs a command under ctx, so each of   *)
(* them fails once the context is cancelled.                               *)

\* systemctl restart: the unit is Type=simple, so this returns when the
\* process is forked.  Web requires the agent: it is restarted with it, and
\* its own start starts an agent that is down.
RestartSet(s) ==
    {s} \cup (IF s = Agent THEN {t \in {Web} : svc[t].st # "stopped"}
                           ELSE {t \in {Agent} : svc[t].st \in {"stopped", "failed"}})

Restarted(s) ==
    svc' = [t \in Services |-> IF t \in RestartSet(s)
                                 THEN [bin |-> target[t],
                                       st |-> IF target[t] = "none" THEN "failed"
                                                                    ELSE "starting"]
                                 ELSE svc[t]]

RestartServices ==
    /\ u.pc = "restart"
    /\ \/ /\ ~u.cancelled
          /\ Restarted(u.i)
          /\ u' = IF u.i = Web THEN [u EXCEPT !.pc = "active", !.i = Agent]
                               ELSE [u EXCEPT !.i = Web]
       \/ Rollback /\ UNCHANGED svc
    /\ UNCHANGED <<fileVars, dbVars, attempts, hist>>

IsActive_cleansUp ==                 \* mutant: the backups go before doctor has passed
    /\ u.pc = "active"
    /\ backup' = [n \in Names |-> "none"]
    /\ u' = [u EXCEPT !.pc = "doctor"]
    /\ UNCHANGED <<target, svc, dbVars, attempts, hist>>

\* systemctl is-active: a process that has not opened its database yet counts.
IsActive ==
    /\ u.pc = "active"
    /\ \/ /\ ~u.cancelled /\ svc[u.i].st # "failed"
          /\ u' = IF u.i = Web THEN [u EXCEPT !.pc = "doctor"] ELSE [u EXCEPT !.i = Web]
       \/ Rollback
    /\ UNCHANGED <<fileVars, svc, dbVars, attempts, hist>>

Doctor_ignored ==                    \* mutant: the exit status is dropped
    /\ u.pc = "doctor"
    /\ u' = [u EXCEPT !.pc = "cleanup", !.left = Names]
    /\ UNCHANGED <<fileVars, svc, dbVars, attempts, hist>>

\* checkDatabase of the new CLI fails on any schema but the one it knows; yet
\* without a database, or if others may read it, it warns and looks no further,
\* and a warning is no failure.
Warns == schema = "none" \/ wide

Doctor ==
    /\ u.pc = "doctor"
    /\ \/ /\ ~u.cancelled
          /\ Warns \/ schema = Knows(target[Cli])
          /\ u' = [u EXCEPT !.pc = "cleanup", !.left = Names]
          /\ hist' = [hist EXCEPT !.warned = Warns]
       \/ Rollback /\ UNCHANGED hist
    /\ UNCHANGED <<fileVars, svc, dbVars, attempts>>

\* The backups are removed one by one, in any order (Go ranges over a map),
\* errors dropped; then the update has succeeded.
Cleanup(n) ==
    /\ u.pc = "cleanup" /\ n \in u.left
    /\ backup' \in {backup, [backup EXCEPT ![n] = "none"]}
    /\ u' = [u EXCEPT !.left = @ \ {n}]
    /\ UNCHANGED <<target, svc, dbVars, attempts, hist>>

Succeed ==
    /\ u.pc = "cleanup" /\ u.left = {}
    /\ u' = [u EXCEPT !.pc = "idle"]
    /\ hist' = [hist EXCEPT !.outcome = "ok"]
    /\ UNCHANGED <<fileVars, svc, dbVars, attempts>>

------------------------------------------------------------------------------
(* rollback.                                                               *)

RollbackSkip_pastEnd ==              \* mutant: the loop misses its end
    /\ u.pc = "rbRemove"
    /\ u.i \notin u.installed
    /\ u' = [u EXCEPT !.i = @ + 1]
    /\ UNCHANGED <<fileVars, svc, dbVars, attempts, hist>>

RollbackSkip_short ==                \* mutant: the last binary is left out
    /\ u.pc = "rbRemove"
    /\ IF u.i = 3 THEN u' = [u EXCEPT !.pc = "rbRestart", !.i = Agent]
       ELSE /\ u.i \notin u.installed
            /\ u' = [u EXCEPT !.i = @ + 1]
    /\ UNCHANGED <<fileVars, svc, dbVars, attempts, hist>>

\* Past names that were not installed; then on to the services.
RollbackSkip ==
    /\ u.pc = "rbRemove"
    /\ IF u.i = 4 THEN u' = [u EXCEPT !.pc = "rbRestart", !.i = Agent]
       ELSE /\ u.i \notin u.installed
            /\ u' = [u EXCEPT !.i = @ + 1]
    /\ UNCHANGED <<fileVars, svc, dbVars, attempts, hist>>

\* os.Remove(target), its error dropped.
RollbackRemove ==
    /\ u.pc = "rbRemove" /\ u.i \in u.installed
    /\ target' \in {target, [target EXCEPT ![u.i] = "none"]}
    /\ u' = [u EXCEPT !.pc = "rbRename"]
    /\ UNCHANGED <<backup, svc, dbVars, attempts, hist>>

\* os.Rename(backups[name], target), its error dropped.
RollbackRename ==
    /\ u.pc = "rbRename"
    /\ \/ /\ target' = [target EXCEPT ![u.i] = backup[u.i]]
          /\ backup' = [backup EXCEPT ![u.i] = "none"]
          /\ UNCHANGED hist
       \/ /\ hist' = [hist EXCEPT !.rbErr = TRUE]
          /\ UNCHANGED fileVars
    /\ u' = [u EXCEPT !.pc = "rbRemove", !.i = @ + 1]
    /\ UNCHANGED <<svc, dbVars, attempts>>

RollbackRestart_skipped ==           \* mutant: files are rolled back, services are not
    /\ u.pc = "rbRestart"
    /\ u' = [u EXCEPT !.pc = "idle"]
    /\ hist' = [hist EXCEPT !.outcome = "rolledBack"]
    /\ UNCHANGED <<fileVars, svc, dbVars, attempts>>

RollbackRestart_stops ==             \* mutant: systemctl stop
    /\ u.pc = "rbRestart"
    /\ svc' = [s \in Services |-> Stopped]
    /\ u' = [u EXCEPT !.pc = "idle"]
    /\ hist' = [hist EXCEPT !.outcome = "rolledBack"]
    /\ UNCHANGED <<fileVars, dbVars, attempts>>

\* systemctl restart, its error dropped; a cancelled context makes it fail.
RollbackRestart ==
    /\ u.pc = "rbRestart"
    /\ \E ok \in BOOLEAN :
         /\ ok => ~u.cancelled
         /\ IF ok THEN Restarted(u.i) ELSE UNCHANGED svc
         /\ hist' = [hist EXCEPT !.svcErr = @ \/ ~ok,
                                 !.outcome = IF u.i = Web THEN "rolledBack" ELSE @]
    /\ u' = IF u.i = Web THEN [u EXCEPT !.pc = "idle"] ELSE [u EXCEPT !.i = Web]
    /\ UNCHANGED <<fileVars, dbVars, attempts>>

------------------------------------------------------------------------------
(* The signal, the kill and the services.                                  *)

Cancel ==
    /\ u.pc # "idle" /\ ~u.cancelled
    /\ u' = [u EXCEPT !.cancelled = TRUE]
    /\ UNCHANGED <<fileVars, svc, dbVars, attempts, hist>>

Kill ==
    /\ u.pc # "idle"
    /\ u' = [u EXCEPT !.pc = "idle"]
    /\ hist' = [hist EXCEPT !.outcome = "killed"]
    /\ UNCHANGED <<fileVars, svc, dbVars, attempts>>

\* A starting service opens the database, which makes it private and migrates
\* it, or refuses a newer one.  A service that starts beside one that migrates
\* may lose the race for a migration, and fails (Migrations).
Refuses(s) == schema = "new" /\ Knows(svc[s].bin) = "old"

SvcOpen(s) ==
    /\ svc[s].st = "starting"
    /\ wide' = FALSE
    /\ \/ /\ Refuses(s)
          /\ svc' = [svc EXCEPT ![s].st = "failed"]
          /\ UNCHANGED schema
       \/ /\ ~Refuses(s)
          /\ schema' = Knows(svc[s].bin)
          /\ \E lost \in SUBSET {t \in Services \ {s} : svc[t].st = "starting" /\ schema' # schema} :
               svc' = [t \in Services |-> IF t = s THEN [svc[s] EXCEPT !.st = "up"]
                                         ELSE IF t \in lost THEN [svc[t] EXCEPT !.st = "failed"]
                                         ELSE svc[t]]
    /\ UNCHANGED <<fileVars, migrates, u, attempts, hist>>

\* An operator, or a restore from a backup, lets others read the database.
Widen ==
    /\ schema # "none" /\ ~wide
    /\ wide' = TRUE
    /\ UNCHANGED <<fileVars, svc, schema, migrates, u, attempts, hist>>

SvcCrash(s) ==
    /\ svc[s].st = "up"
    /\ svc' = [svc EXCEPT ![s].st = "failed"]
    /\ UNCHANGED <<fileVars, dbVars, u, attempts, hist>>

\* Restart=on-failure starts what is installed now.
SvcRestart(s) ==
    /\ svc[s].st = "failed" /\ target[s] # "none"
    /\ svc' = [svc EXCEPT ![s] = [bin |-> target[s], st |-> "starting"]]
    /\ UNCHANGED <<fileVars, dbVars, u, attempts, hist>>

InstallAll ==
    \/ RemoveBackup \/ RenameTarget \/ InstallTarget
    \/ RestartServices \/ IsActive \/ Doctor
    \/ (\E n \in Names : Cleanup(n)) \/ Succeed
    \/ RollbackSkip \/ RollbackRemove \/ RollbackRename \/ RollbackRestart

Next ==
    \/ Begin \/ InstallAll \/ Cancel \/ Kill \/ Widen
    \/ \E s \in Services : SvcOpen(s) \/ SvcCrash(s) \/ SvcRestart(s)

Spec == Init /\ [][Next]_vars

(* A process that starts opens its database, and systemd restarts what     *)
(* failed.                                                                 *)
FairSpec == Spec /\ \A s \in Services : WF_vars(SvcOpen(s)) /\ WF_vars(SvcRestart(s))

------------------------------------------------------------------------------
(* Properties.                                                             *)

(* Whatever fails, and wherever the process is killed, an update destroys  *)
(* no binary it found in its place before the whole new installation is    *)
(* there: until then the old content is at its place or in its backup,     *)
(* also in a retry after an update that failed.                            *)
OldCopyKept ==
    \/ \A n \in hist.had : "old" \in {target[n], backup[n]}
    \/ /\ \A n \in Names : target[n] = "new"
       /\ \A s \in Services : svc[s].bin = "new"

(* Success means a complete update: three new binaries, both services      *)
(* started from them, and the schema they know; only if doctor had no look *)
(* at the schema may it still be another, and then no service has got      *)
(* through to use it.                                                      *)
SuccessIsComplete ==
    hist.outcome = "ok" =>
      /\ \A n \in Names : target[n] = "new"
      /\ \A s \in Services : svc[s].bin = "new"
      /\ \/ schema = Knows("new")
         \/ hist.warned /\ \A s \in Services : svc[s].st # "up"

(* A finished rollback whose renames worked has put every old binary back  *)
(* that the update had found, all but the one whose own replacement failed,*)
(* and its service does not run the new release, unless restarting it      *)
(* failed (as it does once Ctrl-C cancelled the update).                   *)
RollbackRestores ==
    hist.outcome = "rolledBack" /\ ~hist.rbErr =>
      /\ \A n \in hist.had \ {hist.failedAt} : target[n] = "old"
      /\ ~hist.svcErr => \A s \in Services \cap hist.had : svc[s].bin # "new"

(* Services come back after the rollback of a failed health check, unless  *)
(* the release has left them a schema the old binaries refuse; one that    *)
(* was stopped before may stay so only if its restart failed.              *)
RollbackServiceReturns ==
    \A s \in Services :
      [](/\ hist.outcome = "rolledBack" /\ hist.had = Names /\ hist.failedAt = 0 /\ ~hist.rbErr
         /\ ~hist.svcErr \/ svc[s].st # "stopped"
         => <>(svc[s].st = "up" \/ u.pc # "idle" \/ schema = "new"))

(* InstallAll: "restores the previous binaries on any failure".            *)
RestoredOnAnyFailure ==
    hist.outcome = "rolledBack" /\ hist.had = Names /\ ~hist.rbErr =>
      \A n \in Names : target[n] = "old"
==============================================================================
