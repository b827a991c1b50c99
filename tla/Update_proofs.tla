---------------------------- MODULE Update_proofs ----------------------------
(***************************************************************************)
(* Proofs about Update, for any number of attempts, each from what the     *)
(* failed or killed one before it left behind.                             *)
(***************************************************************************)
EXTENDS Update, TLAPS

Updates == [pc : Stages, i : 1..4, installed : SUBSET Names, left : SUBSET Names,
            cancelled : BOOLEAN]
Outcomes == {"none", "ok", "rolledBack", "killed"}
Histories == [outcome : Outcomes, had : SUBSET Names, failedAt : 0..3,
              rbErr : BOOLEAN, svcErr : BOOLEAN, warned : BOOLEAN]
States == [bin : Content, st : {"stopped", "starting", "up", "failed"}]

Replacing == {"remove", "rename", "install"}
Checking == {"restart", "active", "doctor"}
RollingBack == {"rbRemove", "rbRename", "rbRestart"}

(* Where the update is, and which binaries it has replaced by then.        *)
StageOK ==
    /\ u.pc # "idle" => hist.outcome = "none"
    /\ u.pc \in Replacing => u.i \in Names /\ u.installed = 1..(u.i - 1)
    /\ u.pc \in Checking => u.installed = Names
    /\ u.pc \in Replacing \cup Checking => hist.failedAt = 0 /\ ~hist.rbErr /\ ~hist.svcErr
    /\ u.pc \in {"restart", "active", "rbRestart"} => u.i \in Services
    /\ u.pc = "rbRename" => u.i \in u.installed
    /\ u.pc \in RollingBack =>
         u.installed = IF hist.failedAt = 0 THEN Names ELSE 1..(hist.failedAt - 1)

(* The binaries replaced so far are new until the rollback, whatever the   *)
(* update started from.                                                    *)
ReplacedOK ==
    u.pc \in Replacing \cup Checking => \A n \in u.installed : target[n] = "new"

(* The files that the update found in place, before it has come to them,   *)
(* while it replaces them, afterwards, and in the rollback.                *)
FilesOK ==
    \A n \in hist.had :
      /\ u.pc \in {"remove", "rename"} /\ n >= u.i => target[n] = "old"
      /\ u.pc = "install" /\ n > u.i => target[n] = "old"
      /\ u.pc = "install" /\ n = u.i => target[n] = "none" /\ backup[n] = "old"
      /\ u.pc \in Replacing \cup Checking /\ n \in u.installed => backup[n] = "old"
      /\ u.pc \in {"rbRemove", "rbRename"} /\ n \in u.installed /\ n >= u.i => backup[n] = "old"
      /\ u.pc \in RollingBack /\ n \in u.installed /\ (n < u.i \/ u.pc = "rbRestart") =>
           hist.rbErr \/ target[n] = "old"
      /\ u.pc \in RollingBack /\ n \notin u.installed =>
           target[n] = "old" \/ (n = hist.failedAt /\ target[n] = "none")

(* Every binary the update found is still there, or the new installation   *)
(* has passed the health checks and the backups go.                        *)
Kept == \A n \in hist.had : target[n] = "old" \/ backup[n] = "old"
Replaced ==
    /\ \A n \in Names : target[n] = "new"
    /\ \A s \in Services : svc[s].bin = "new"

KeptOK == Kept \/ (u.pc \in {"idle", "cleanup"} /\ Replaced)

(* After the rollback nothing the update had found is new, in the files    *)
(* or, once the agent was restarted, in the services.                      *)
RestoredOK ==
    ~hist.rbErr =>
      /\ u.pc = "rbRestart" \/ hist.outcome = "rolledBack" =>
           \A n \in hist.had : target[n] = "old" \/ (n = hist.failedAt /\ target[n] = "none")
      /\ \/ u.pc = "rbRestart" /\ u.i = Web
         \/ hist.outcome = "rolledBack"
         => hist.svcErr \/ \A s \in Services \cap hist.had : svc[s].bin # "new"

(* Services run what the stage has started them from.                      *)
ServicesOK ==
    /\ u.pc = "restart" /\ u.i = Web => svc[Agent].bin = "new"
    /\ u.pc \in {"active", "doctor"} => \A s \in Services : svc[s].bin = "new"

(* From the moment doctor has passed.                                      *)
DoneOK ==
    u.pc = "cleanup" \/ hist.outcome = "ok" =>
      Replaced /\ (schema = Knows("new") \/ hist.warned)

(* Services start only what is installed, and a new one that is through    *)
(* has migrated the database.                                              *)
DatabaseOK ==
    \A s \in Services :
      /\ svc[s].st = "starting" => svc[s].bin # "none"
      /\ svc[s].st = "stopped" => svc[s].bin = "none"
      /\ svc[s].st = "up" /\ svc[s].bin = "new" => schema = Knows("new")

UpdateInv ==
    /\ TypeOK /\ StageOK /\ ReplacedOK /\ FilesOK /\ KeptOK /\ RestoredOK
    /\ ServicesOK /\ DoneOK /\ DatabaseOK

------------------------------------------------------------------------------
(* What a step leaves alone.                                               *)

(* The parts about files depend on the files, the update and its record.   *)
LEMMA FilesFrame ==
  ASSUME UpdateInv, UNCHANGED <<target, backup, u, hist>>
  PROVE  StageOK' /\ ReplacedOK' /\ FilesOK'
BY DEF UpdateInv, StageOK, ReplacedOK, FilesOK

(* The part about the database depends on the services and the schema.     *)
LEMMA DatabaseFrame ==
  ASSUME UpdateInv, UNCHANGED <<svc, schema, migrates>>
  PROVE  DatabaseOK'
BY DEF UpdateInv, DatabaseOK, Knows

(* An update that is under way has not ended, and before the backups go    *)
(* the old binaries are there.                                             *)
LEMMA UnderWay ==
  ASSUME UpdateInv, u.pc \notin {"idle", "cleanup"}
  PROVE  hist.outcome = "none" /\ Kept
BY DEF UpdateInv, StageOK, KeptOK

(* systemctl restart brings no service up, and starts from what is         *)
(* installed.                                                              *)
LEMMA RestartedInv ==
  ASSUME UpdateInv, NEW s \in Services, Restarted(s), UNCHANGED <<schema, migrates>>
  PROVE  /\ svc' \in [Services -> States]
         /\ DatabaseOK'
         /\ svc'[s].bin = target[s]
         /\ \A t \in Services : svc'[t] = svc[t] \/ svc'[t].bin = target[t]
         /\ s = Agent => svc'[Web].bin \in {target[Web], "none"}
<1>1. target \in [Names -> Content] /\ svc \in [Services -> States] /\ Services \subseteq Names
  BY DEF UpdateInv, TypeOK, States, Services, Names, Agent, Web
<1>2. ASSUME NEW t \in Services
      PROVE  /\ svc'[t] \in States
             /\ t \notin RestartSet(s) => svc'[t] = svc[t]
             /\ t \in RestartSet(s) =>
                  /\ svc'[t].bin = target[t]
                  /\ svc'[t].st \in {"starting", "failed"}
                  /\ svc'[t].st = "starting" => target[t] # "none"
  <2>1. target[t] \in Content
    BY <1>1
  <2>2. CASE t \in RestartSet(s) /\ target[t] = "none"
    <3>1. svc'[t] = [bin |-> target[t], st |-> "failed"]
      BY <2>2 DEF Restarted
    <3> QED BY <2>1, <2>2, <3>1 DEF States
  <2>3. CASE t \in RestartSet(s) /\ target[t] # "none"
    <3>1. svc'[t] = [bin |-> target[t], st |-> "starting"]
      BY <2>3 DEF Restarted
    <3> QED BY <2>1, <2>3, <3>1 DEF States
  <2>4. CASE t \notin RestartSet(s)
    BY <1>1, <2>4 DEF Restarted
  <2> QED BY <2>2, <2>3, <2>4
<1>3. svc' \in [Services -> States]
  BY <1>2 DEF Restarted
<1>4. DatabaseOK'
  <2> SUFFICES ASSUME NEW t \in Services
               PROVE  /\ svc'[t].st = "starting" => svc'[t].bin # "none"
                      /\ svc'[t].st = "stopped" => svc'[t].bin = "none"
                      /\ svc'[t].st = "up" /\ svc'[t].bin = "new" => schema' = Knows("new")'
    BY DEF DatabaseOK
  <2>1. CASE t \in RestartSet(s)
    <3>1. /\ svc'[t].bin = target[t] /\ svc'[t].st \in {"starting", "failed"}
          /\ svc'[t].st = "starting" => target[t] # "none"
      BY <1>2, <2>1, Zenon
    <3> QED BY <3>1
  <2>2. CASE t \notin RestartSet(s)
    <3>1. svc'[t] = svc[t]
      BY <1>2, <2>2, Zenon
    <3> QED BY <3>1 DEF UpdateInv, DatabaseOK, Knows
  <2> QED BY <2>1, <2>2
<1>5. svc'[s].bin = target[s]
  <2>1. s \in RestartSet(s)
    BY DEF RestartSet
  <2> QED BY <1>2, <2>1, Zenon
<1>6. \A t \in Services : svc'[t] = svc[t] \/ svc'[t].bin = target[t]
  BY <1>2, Zenon
<1>7. ASSUME s = Agent PROVE svc'[Web].bin \in {target[Web], "none"}
  <2>1. Web \in Services
    BY DEF Services
  <2>2. CASE Web \in RestartSet(s)
    BY <1>2, <2>1, <2>2, Zenon
  <2>3. CASE Web \notin RestartSet(s)
    <3>1. svc'[Web] = svc[Web]
      BY <1>2, <2>1, <2>3, Zenon
    <3>2. svc[Web].st = "stopped"
      BY <1>7, <2>3 DEF RestartSet
    <3> QED BY <2>1, <3>1, <3>2 DEF UpdateInv, DatabaseOK
  <2> QED BY <2>2, <2>3
<1> QED BY <1>3, <1>4, <1>5, <1>6, <1>7

------------------------------------------------------------------------------
(* Every action preserves UpdateInv.                                       *)

(* rollback(cause) begins: with every binary replaced, or with the one that *)
(* could not be replaced on record.                                        *)
LEMMA RollbackInv ==
  ASSUME UpdateInv, Rollback, UNCHANGED <<target, backup, svc, schema, wide, migrates, attempts>>,
         \/ u.pc \in Checking /\ hist' = hist
         \/ u.pc \in {"rename", "install"} /\ hist' = [hist EXCEPT !.failedAt = u.i]
  PROVE  UpdateInv'
<1>0. hist.outcome = "none" /\ Kept
  BY UnderWay DEF Checking
<1>1. /\ u'.pc = "rbRemove" /\ u'.i = 1 /\ u'.installed = u.installed
      /\ u' \in Updates
  <2>1. u \in Updates
    BY DEF UpdateInv, TypeOK, Updates
  <2>2. "rbRemove" \in Stages /\ 1 \in 1..4
    BY DEF Stages
  <2>3. u' = [pc |-> "rbRemove", i |-> 1, installed |-> u.installed, left |-> u.left,
              cancelled |-> u.cancelled]
    BY <2>1 DEF Rollback, Updates
  <2> QED BY <2>1, <2>2, <2>3 DEF Updates
<1>2. /\ hist'.outcome = "none" /\ hist'.had = hist.had /\ hist'.had \subseteq Names
      /\ hist'.rbErr = FALSE
      /\ u.installed = IF hist'.failedAt = 0 THEN Names ELSE 1..(hist'.failedAt - 1)
      /\ hist' \in Histories
  <2>1. CASE u.pc \in Checking /\ hist' = hist
    BY <1>0, <2>1 DEF UpdateInv, TypeOK, StageOK, Histories, Outcomes
  <2>2. CASE u.pc \in {"rename", "install"} /\ hist' = [hist EXCEPT !.failedAt = u.i]
    BY <1>0, <2>2 DEF UpdateInv, TypeOK, StageOK, Replacing, Names, Histories, Outcomes
  <2> QED BY <2>1, <2>2
<1>3. TypeOK'
  BY <1>1, <1>2 DEF UpdateInv, TypeOK, Updates, Histories, Outcomes
<1>4. StageOK' /\ ReplacedOK' /\ ServicesOK' /\ RestoredOK' /\ DoneOK'
  BY <1>1, <1>2 DEF StageOK, ReplacedOK, ServicesOK, RestoredOK, DoneOK,
     Replacing, Checking, RollingBack
<1>5. FilesOK'
  <2> SUFFICES ASSUME NEW n \in hist.had
               PROVE  /\ n \in u.installed => backup[n] = "old"
                      /\ n \notin u.installed =>
                           target[n] = "old" \/ (n = hist'.failedAt /\ target[n] = "none")
    BY <1>1, <1>2 DEF FilesOK, Replacing, Checking, RollingBack, Names
  <2>1. CASE u.pc \in Checking /\ hist' = hist
    BY <1>2, <2>1 DEF UpdateInv, StageOK, FilesOK
  <2>2. CASE u.pc \in {"rename", "install"} /\ hist' = [hist EXCEPT !.failedAt = u.i]
    <3>1. hist'.failedAt = u.i /\ u.i \in Names /\ u.installed = 1..(u.i - 1) /\ n \in Names
      BY <1>2, <2>2 DEF UpdateInv, TypeOK, StageOK, Replacing
    <3> QED BY <2>2, <3>1 DEF UpdateInv, FilesOK, Replacing, Names
  <2> QED BY <2>1, <2>2
<1>6. KeptOK'
  BY <1>0, <1>2 DEF KeptOK, Kept
<1>7. DatabaseOK'
  BY DatabaseFrame
<1> QED BY <1>3, <1>4, <1>5, <1>6, <1>7 DEF UpdateInv

(* An update starts from whatever is installed.                            *)
LEMMA BeginInv ==
  ASSUME UpdateInv, Begin
  PROVE  UpdateInv'
<1>1. /\ u'.pc = "remove" /\ u'.i = 1 /\ u'.installed = {}
      /\ hist'.outcome = "none" /\ hist'.failedAt = 0
      /\ hist'.rbErr = FALSE /\ hist'.svcErr = FALSE
      /\ \A n \in hist'.had : target[n] = "old"
      /\ UNCHANGED <<target, backup, svc, schema, wide, migrates>>
  BY DEF Begin, fileVars, dbVars
<1>2. TypeOK'
  <2>1. hist' \in Histories
    BY DEF Begin, Histories, Outcomes
  <2>2. u' \in Updates
    BY DEF Begin, Stages, Updates
  <2>3. attempts' \in 0..MaxAttempts
    BY UpdateAssumption DEF UpdateInv, TypeOK, Begin
  <2> QED BY <1>1, <2>1, <2>2, <2>3 DEF UpdateInv, TypeOK, Updates, Histories, Outcomes
<1>3. StageOK' /\ ReplacedOK' /\ FilesOK' /\ KeptOK'
  BY <1>1 DEF StageOK, ReplacedOK, FilesOK, KeptOK, Kept, Replacing, Checking, RollingBack, Names
<1>4. RestoredOK' /\ ServicesOK' /\ DoneOK'
  BY <1>1 DEF RestoredOK, ServicesOK, DoneOK
<1>5. DatabaseOK'
  BY <1>1, DatabaseFrame
<1> QED BY <1>2, <1>3, <1>4, <1>5 DEF UpdateInv

(* A stale backup goes; the binary is still in place.                      *)
LEMMA RemoveBackupInv ==
  ASSUME UpdateInv, RemoveBackup
  PROVE  UpdateInv'
<1>0. /\ u.pc = "remove" /\ u.i \in Names /\ u.installed = 1..(u.i - 1)
      /\ hist.outcome = "none" /\ hist.failedAt = 0 /\ ~hist.rbErr /\ ~hist.svcErr
      /\ u \in Updates /\ hist.had \subseteq Names
      /\ UNCHANGED <<target, svc, schema, wide, migrates, attempts, hist>>
  BY DEF UpdateInv, TypeOK, Updates, StageOK, RemoveBackup, Replacing, dbVars
<1>1. u'.pc = "rename" /\ u'.i = u.i /\ u'.installed = u.installed /\ u' \in Updates
  BY <1>0 DEF RemoveBackup, Updates, Stages
<1>2. /\ backup' \in [Names -> Content]
      /\ \A n \in Names \ {u.i} : backup'[n] = backup[n]
  BY <1>0 DEF UpdateInv, TypeOK, RemoveBackup, Content
<1>3. TypeOK'
  BY <1>0, <1>1, <1>2 DEF UpdateInv, TypeOK, Updates
<1>4. StageOK' /\ ReplacedOK' /\ RestoredOK' /\ ServicesOK' /\ DoneOK'
  BY <1>0, <1>1 DEF UpdateInv, StageOK, ReplacedOK, RestoredOK, ServicesOK, DoneOK,
     Replacing, Checking, RollingBack
<1>5. \A n \in hist.had : /\ n >= u.i => target[n] = "old"
                          /\ n \in u.installed => backup'[n] = "old"
  BY <1>0, <1>2 DEF UpdateInv, FilesOK, Replacing, Names
<1>6. FilesOK'
  BY <1>0, <1>1, <1>5 DEF FilesOK, Replacing, Checking, RollingBack
<1>7. KeptOK'
  <2>1. \A n \in hist.had : n >= u.i \/ n \in u.installed
    BY <1>0 DEF Names
  <2> QED BY <1>0, <1>5, <2>1 DEF KeptOK, Kept
<1>8. DatabaseOK'
  BY <1>0, DatabaseFrame
<1> QED BY <1>3, <1>4, <1>6, <1>7, <1>8 DEF UpdateInv

(* The old binary becomes the backup, or the rollback begins.              *)
LEMMA RenameTargetInv ==
  ASSUME UpdateInv, RenameTarget
  PROVE  UpdateInv'
<1>0. /\ u.pc = "rename" /\ u.i \in Names /\ u.installed = 1..(u.i - 1)
      /\ hist.outcome = "none" /\ u.i \notin u.installed
      /\ u \in Updates /\ hist.had \subseteq Names
      /\ UNCHANGED <<svc, schema, wide, migrates, attempts>>
  BY DEF UpdateInv, TypeOK, Updates, StageOK, RenameTarget, Replacing, Names, dbVars
<1>1. CASE Rollback /\ hist' = [hist EXCEPT !.failedAt = u.i] /\ UNCHANGED fileVars
  BY <1>0, <1>1, RollbackInv DEF fileVars
<1>2. CASE /\ target[u.i] # "none"
           /\ backup' = [backup EXCEPT ![u.i] = target[u.i]]
           /\ target' = [target EXCEPT ![u.i] = "none"]
           /\ u' = [u EXCEPT !.pc = "install"]
           /\ hist' = hist
  <2>1. u'.pc = "install" /\ u'.i = u.i /\ u'.installed = u.installed /\ u' \in Updates
    BY <1>0, <1>2 DEF Stages, Updates
  <2>2. /\ target' \in [Names -> Content] /\ backup' \in [Names -> Content]
        /\ target'[u.i] = "none" /\ backup'[u.i] = target[u.i]
        /\ \A n \in Names \ {u.i} : target'[n] = target[n] /\ backup'[n] = backup[n]
    BY <1>0, <1>2 DEF UpdateInv, TypeOK, Content
  <2>3. TypeOK'
    BY <1>0, <1>2, <2>1, <2>2 DEF UpdateInv, TypeOK, Updates
  <2>4. StageOK' /\ ServicesOK' /\ RestoredOK' /\ DoneOK'
    BY <1>0, <1>2, <2>1 DEF UpdateInv, StageOK, ServicesOK, RestoredOK, DoneOK, Replacing,
       Checking, RollingBack
  <2>5. ReplacedOK'
    BY <1>0, <2>1, <2>2 DEF UpdateInv, ReplacedOK, Replacing, Names
  <2>6. \A n \in hist.had : /\ n > u.i => target'[n] = "old"
                            /\ n = u.i => backup'[n] = "old"
                            /\ n \in u.installed => backup'[n] = "old"
    BY <1>0, <2>2 DEF UpdateInv, FilesOK, Replacing, Names
  <2>7. FilesOK'
    BY <1>2, <2>1, <2>2, <2>6 DEF FilesOK, RollingBack, Replacing, Checking
  <2>8. KeptOK'
    <3>1. \A n \in hist.had : n > u.i \/ n = u.i \/ n \in u.installed
      BY <1>0 DEF Names
    <3> QED BY <1>2, <2>6, <3>1 DEF KeptOK, Kept
  <2>9. DatabaseOK'
    BY <1>0, DatabaseFrame
  <2> QED BY <2>3, <2>4, <2>5, <2>7, <2>8, <2>9 DEF UpdateInv
<1> QED BY <1>1, <1>2 DEF RenameTarget

(* The new binary is in place, or the rollback begins.                     *)
LEMMA InstallTargetInv ==
  ASSUME UpdateInv, InstallTarget
  PROVE  UpdateInv'
<1>0. /\ u.pc = "install" /\ u.i \in Names /\ u.installed = 1..(u.i - 1)
      /\ hist.outcome = "none" /\ hist.failedAt = 0 /\ ~hist.rbErr /\ ~hist.svcErr
      /\ u \in Updates /\ hist.had \subseteq Names
      /\ UNCHANGED <<backup, svc, schema, wide, migrates, attempts>>
  BY DEF UpdateInv, TypeOK, Updates, StageOK, InstallTarget, Replacing, dbVars
<1>1. CASE Rollback /\ hist' = [hist EXCEPT !.failedAt = u.i] /\ UNCHANGED target
  BY <1>0, <1>1, RollbackInv
<1>2. CASE /\ target' = [target EXCEPT ![u.i] = "new"]
           /\ u' = [u EXCEPT !.pc = IF u.i = 3 THEN "restart" ELSE "remove",
                             !.i = IF u.i = 3 THEN Agent ELSE u.i + 1,
                             !.installed = @ \cup {u.i}]
           /\ hist' = hist
  <2>1. /\ u'.installed = 1..u.i /\ u'.installed \in SUBSET Names
        /\ u'.cancelled = u.cancelled /\ u'.left = u.left
    BY <1>0, <1>2 DEF Names, Updates
  <2>2. \/ u.i = 3 /\ u'.pc = "restart" /\ u'.i = Agent /\ u'.installed = Names
        \/ u.i # 3 /\ u'.pc = "remove" /\ u'.i = u.i + 1 /\ u'.i \in Names
    BY <1>0, <1>2, <2>1 DEF Names, Updates
  <2>3. /\ target' \in [Names -> Content]
        /\ target'[u.i] = "new"
        /\ \A n \in Names \ {u.i} : target'[n] = target[n]
    BY <1>0, <1>2 DEF UpdateInv, TypeOK, Content
  <2>4. u' \in Updates
    <3>1. u'.pc \in Stages /\ u'.i \in 1..4
      BY <2>2 DEF Stages, Agent, Names
    <3>2. u' = [pc |-> u'.pc, i |-> u'.i, installed |-> u'.installed, left |-> u'.left,
                cancelled |-> u'.cancelled]
      BY <1>0, <1>2 DEF Updates
    <3>3. u'.cancelled \in BOOLEAN /\ u'.left \in SUBSET Names
      BY <1>0, <2>1 DEF Updates
    <3> QED BY <2>1, <3>1, <3>2, <3>3 DEF Updates
  <2>5. TypeOK'
    BY <1>0, <1>2, <2>3, <2>4 DEF UpdateInv, TypeOK, Updates
  <2>6. StageOK'
    <3>1. CASE u.i = 3
      BY <1>0, <1>2, <2>1, <2>2, <3>1 DEF StageOK, Replacing, Checking, RollingBack, Services
    <3>2. CASE u.i # 3
      BY <1>0, <1>2, <2>1, <2>2, <3>2 DEF StageOK, Replacing, Checking, RollingBack, Names
    <3> QED BY <3>1, <3>2
  <2>7. ServicesOK' /\ RestoredOK' /\ DoneOK'
    BY <1>0, <1>2, <2>2 DEF ServicesOK, RestoredOK, DoneOK, Agent, Web
  <2>8. \A n \in 1..u.i : target'[n] = "new"
    BY <1>0, <2>3 DEF UpdateInv, ReplacedOK, Replacing, Names
  <2>9. ReplacedOK'
    BY <2>1, <2>8 DEF ReplacedOK
  <2>10. \A n \in hist.had : /\ n > u.i => target'[n] = "old"
                             /\ n \in 1..u.i => backup'[n] = "old"
    BY <1>0, <2>3 DEF UpdateInv, FilesOK, Replacing, Names
  <2>11. FilesOK'
    BY <1>0, <1>2, <2>1, <2>2, <2>10 DEF FilesOK, RollingBack, Replacing, Checking, Names
  <2>12. KeptOK'
    <3>1. \A n \in hist.had : n > u.i \/ n \in 1..u.i
      BY <1>0 DEF Names
    <3> QED BY <1>2, <2>10, <3>1 DEF KeptOK, Kept
  <2>13. DatabaseOK'
    BY <1>0, DatabaseFrame
  <2> QED BY <2>5, <2>6, <2>7, <2>9, <2>11, <2>12, <2>13 DEF UpdateInv
<1> QED BY <1>1, <1>2 DEF InstallTarget

(* Between two health checks the files stay as the replacement left them.  *)
LEMMA CheckingInv ==
  ASSUME UpdateInv, u.pc \in Checking, u'.pc \in Checking \cup {"cleanup"},
         u'.pc \in {"restart", "active"} => u'.i \in Services,
         u'.installed = Names, u' \in Updates,
         hist'.outcome = "none", hist'.had = hist.had, hist'.failedAt = 0,
         ~hist'.rbErr, ~hist'.svcErr,
         UNCHANGED <<target, backup>>
  PROVE  StageOK' /\ ReplacedOK' /\ FilesOK' /\ KeptOK' /\ RestoredOK'
<1>1. /\ \A n \in Names : target[n] = "new"
      /\ \A n \in hist.had : backup[n] = "old"
      /\ hist.had \subseteq Names
  BY DEF UpdateInv, TypeOK, StageOK, ReplacedOK, FilesOK
<1> QED BY <1>1 DEF StageOK, ReplacedOK, FilesOK, KeptOK, Kept, RestoredOK, Replacing, Checking,
           RollingBack

(* A service is restarted from the new binary, or the rollback begins.     *)
LEMMA RestartServicesInv ==
  ASSUME UpdateInv, RestartServices
  PROVE  UpdateInv'
<1>0. /\ u.pc = "restart" /\ u.installed = Names /\ u.i \in Services
      /\ hist.outcome = "none" /\ hist.failedAt = 0 /\ ~hist.rbErr /\ ~hist.svcErr
      /\ u \in Updates
      /\ UNCHANGED <<target, backup, schema, wide, migrates, attempts, hist>>
  BY DEF UpdateInv, TypeOK, Updates, StageOK, RestartServices, Checking, fileVars, dbVars
<1>1. CASE Rollback /\ UNCHANGED svc
  BY <1>0, <1>1, RollbackInv DEF Checking
<1>2. CASE /\ Restarted(u.i)
           /\ u' = IF u.i = Web THEN [u EXCEPT !.pc = "active", !.i = Agent]
                                ELSE [u EXCEPT !.i = Web]
  <2>1. /\ u'.installed = Names /\ u'.i \in Services
        /\ \/ u.i = Web /\ u'.pc = "active"
           \/ u.i = Agent /\ u'.pc = "restart" /\ u'.i = Web
        /\ u' \in Updates
    <3>1. CASE u.i = Web
      <4>1. "active" \in Stages /\ Agent \in 1..4 /\ Agent \in Services
        BY DEF Stages, Agent, Services
      <4>2. u' = [pc |-> "active", i |-> Agent, installed |-> u.installed, left |-> u.left,
                  cancelled |-> u.cancelled]
        BY <1>0, <1>2, <3>1 DEF Updates
      <4> QED BY <1>0, <3>1, <4>1, <4>2 DEF Updates
    <3>2. CASE u.i # Web
      BY <1>0, <1>2, <3>2 DEF Services, Agent, Web, Updates
    <3> QED BY <3>1, <3>2
  <2>2. /\ svc' \in [Services -> States] /\ DatabaseOK'
        /\ svc'[u.i].bin = target[u.i]
        /\ \A t \in Services : svc'[t] = svc[t] \/ svc'[t].bin = target[t]
    BY <1>0, <1>2, RestartedInv
  <2>3. TypeOK'
    BY <1>0, <2>1, <2>2 DEF UpdateInv, TypeOK, Updates, States
  <2>4. StageOK' /\ ReplacedOK' /\ FilesOK' /\ KeptOK' /\ RestoredOK'
    BY <1>0, <2>1, CheckingInv DEF Checking
  <2>5. ServicesOK'
    <3>1. target[Agent] = "new" /\ target[Web] = "new"
      BY <1>0 DEF UpdateInv, ReplacedOK, Checking, Names, Agent, Web
    <3>2. u.i = Agent => svc'[Agent].bin = "new"
      BY <2>2, <3>1
    <3>3. u.i = Web => svc'[Agent].bin = "new" /\ svc'[Web].bin = "new"
      BY <1>0, <2>2, <3>1 DEF UpdateInv, ServicesOK, Services
    <3> QED BY <2>1, <3>2, <3>3 DEF ServicesOK, Services
  <2>6. DoneOK'
    BY <1>0, <2>1 DEF DoneOK
  <2> QED BY <2>2, <2>3, <2>4, <2>5, <2>6 DEF UpdateInv
<1> QED BY <1>1, <1>2 DEF RestartServices

(* systemctl is-active passes, or the rollback begins.                     *)
LEMMA IsActiveInv ==
  ASSUME UpdateInv, IsActive
  PROVE  UpdateInv'
<1>0. /\ u.pc = "active" /\ u.installed = Names /\ u.i \in Services
      /\ hist.outcome = "none" /\ hist.failedAt = 0 /\ ~hist.rbErr /\ ~hist.svcErr
      /\ u \in Updates
      /\ UNCHANGED <<target, backup, svc, schema, wide, migrates, attempts, hist>>
  BY DEF UpdateInv, TypeOK, Updates, StageOK, IsActive, Checking, fileVars, dbVars
<1>1. CASE Rollback
  BY <1>0, <1>1, RollbackInv DEF Checking
<1>2. CASE u' = IF u.i = Web THEN [u EXCEPT !.pc = "doctor"] ELSE [u EXCEPT !.i = Web]
  <2>1. /\ u'.installed = Names /\ u'.i \in Services /\ u'.pc \in {"active", "doctor"}
        /\ u' \in Updates
    <3>1. CASE u.i = Web
      BY <1>0, <1>2, <3>1 DEF Stages, Updates
    <3>2. CASE u.i # Web
      BY <1>0, <1>2, <3>2 DEF Services, Web, Updates
    <3> QED BY <3>1, <3>2
  <2>2. TypeOK'
    BY <1>0, <2>1 DEF UpdateInv, TypeOK, Updates
  <2>3. StageOK' /\ ReplacedOK' /\ FilesOK' /\ KeptOK' /\ RestoredOK'
    BY <1>0, <2>1, CheckingInv DEF Checking
  <2>4. ServicesOK' /\ DoneOK'
    BY <1>0, <2>1 DEF UpdateInv, ServicesOK, DoneOK
  <2>5. DatabaseOK'
    BY <1>0, DatabaseFrame
  <2> QED BY <2>2, <2>3, <2>4, <2>5 DEF UpdateInv
<1> QED BY <1>1, <1>2 DEF IsActive

(* The new CLI's doctor passes, or the rollback begins.                    *)
LEMMA DoctorInv ==
  ASSUME UpdateInv, Doctor
  PROVE  UpdateInv'
<1>0. /\ u.pc = "doctor" /\ u.installed = Names
      /\ hist.outcome = "none" /\ hist.failedAt = 0 /\ ~hist.rbErr /\ ~hist.svcErr
      /\ u \in Updates /\ hist \in Histories
      /\ UNCHANGED <<target, backup, svc, schema, wide, migrates, attempts>>
  BY DEF UpdateInv, TypeOK, Updates, Histories, Outcomes, StageOK, Doctor, Checking, fileVars,
     dbVars
<1>1. CASE Rollback /\ UNCHANGED hist
  BY <1>0, <1>1, RollbackInv DEF Checking
<1>2. CASE /\ Warns \/ schema = Knows(target[Cli])
           /\ u' = [u EXCEPT !.pc = "cleanup", !.left = Names]
           /\ hist' = [hist EXCEPT !.warned = Warns]
  <2>1. u'.installed = Names /\ u'.pc = "cleanup" /\ u' \in Updates
    BY <1>0, <1>2 DEF Stages, Updates
  <2>2. /\ hist'.outcome = "none" /\ hist'.had = hist.had /\ hist'.failedAt = 0
        /\ ~hist'.rbErr /\ ~hist'.svcErr /\ hist'.warned = Warns
    BY <1>0, <1>2 DEF Histories
  <2>3. hist' \in Histories
    <3>1. Warns \in BOOLEAN
      BY DEF Warns, UpdateInv, TypeOK
    <3> QED BY <1>0, <1>2, <3>1 DEF Histories
  <2>4. TypeOK'
    BY <1>0, <2>1, <2>3 DEF UpdateInv, TypeOK, Updates, Histories, Outcomes
  <2>5. StageOK' /\ ReplacedOK' /\ FilesOK' /\ KeptOK' /\ RestoredOK'
    BY <1>0, <2>1, <2>2, CheckingInv DEF Checking
  <2>6. ServicesOK'
    BY <2>1 DEF ServicesOK
  <2>7. DoneOK'
    <3>1. Replaced /\ target[Cli] = "new"
      BY <1>0 DEF UpdateInv, ReplacedOK, ServicesOK, Replaced, Checking, Names, Cli
    <3>2. Replaced'
      BY <1>0, <3>1 DEF Replaced
    <3>3. schema' = Knows("new")' \/ hist'.warned
      BY <1>0, <1>2, <2>2, <3>1 DEF Knows
    <3> QED BY <3>2, <3>3 DEF DoneOK
  <2>8. DatabaseOK'
    BY <1>0, DatabaseFrame
  <2> QED BY <2>4, <2>5, <2>6, <2>7, <2>8 DEF UpdateInv
<1> QED BY <1>1, <1>2 DEF Doctor

(* A backup goes; the new installation is there.                           *)
LEMMA CleanupInv ==
  ASSUME UpdateInv, NEW n \in Names, Cleanup(n)
  PROVE  UpdateInv'
<1>0. /\ u.pc = "cleanup" /\ hist.outcome = "none"
      /\ u \in Updates
      /\ UNCHANGED <<target, svc, schema, wide, migrates, attempts, hist>>
  BY DEF UpdateInv, TypeOK, Updates, StageOK, Cleanup, dbVars
<1>1. u'.pc = "cleanup" /\ u' \in Updates
  BY <1>0 DEF Cleanup, Updates
<1>2. backup' \in [Names -> Content]
  BY DEF UpdateInv, TypeOK, Cleanup, Content
<1>3. TypeOK'
  BY <1>0, <1>1, <1>2 DEF UpdateInv, TypeOK, Updates
<1>4. StageOK' /\ ReplacedOK' /\ FilesOK' /\ RestoredOK' /\ ServicesOK'
  BY <1>0, <1>1 DEF StageOK, ReplacedOK, FilesOK, RestoredOK, ServicesOK, Replacing, Checking,
     RollingBack
<1>5. Replaced /\ (schema = Knows("new") \/ hist.warned)
  BY <1>0 DEF UpdateInv, DoneOK
<1>6. KeptOK' /\ DoneOK'
  BY <1>0, <1>1, <1>5 DEF KeptOK, DoneOK, Replaced, Knows
<1>7. DatabaseOK'
  BY <1>0, DatabaseFrame
<1> QED BY <1>3, <1>4, <1>6, <1>7 DEF UpdateInv

(* The update reports success.                                             *)
LEMMA SucceedInv ==
  ASSUME UpdateInv, Succeed
  PROVE  UpdateInv'
<1>0. /\ u.pc = "cleanup"
      /\ u \in Updates /\ hist \in Histories
      /\ UNCHANGED <<target, backup, svc, schema, wide, migrates, attempts>>
  BY DEF UpdateInv, TypeOK, Updates, Histories, Outcomes, Succeed, fileVars, dbVars
<1>1. u'.pc = "idle" /\ u' \in Updates
  BY <1>0 DEF Succeed, Updates, Stages
<1>2. hist'.outcome = "ok" /\ hist'.warned = hist.warned /\ hist' \in Histories
  BY <1>0 DEF Succeed, Histories, Outcomes
<1>3. TypeOK'
  BY <1>0, <1>1, <1>2 DEF UpdateInv, TypeOK, Updates, Histories, Outcomes
<1>4. StageOK' /\ ReplacedOK' /\ FilesOK' /\ RestoredOK' /\ ServicesOK'
  BY <1>1, <1>2 DEF StageOK, ReplacedOK, FilesOK, RestoredOK, ServicesOK, Replacing, Checking,
     RollingBack
<1>5. Replaced /\ (schema = Knows("new") \/ hist.warned)
  BY <1>0 DEF UpdateInv, DoneOK
<1>6. KeptOK' /\ DoneOK'
  BY <1>0, <1>1, <1>2, <1>5 DEF KeptOK, DoneOK, Replaced, Knows
<1>7. DatabaseOK'
  BY <1>0, DatabaseFrame
<1> QED BY <1>3, <1>4, <1>6, <1>7 DEF UpdateInv

(* The rollback passes a binary that was not replaced, or is through.      *)
LEMMA RollbackSkipInv ==
  ASSUME UpdateInv, RollbackSkip
  PROVE  UpdateInv'
<1>0. /\ u.pc = "rbRemove" /\ hist.outcome = "none" /\ Kept
      /\ u.installed = IF hist.failedAt = 0 THEN Names ELSE 1..(hist.failedAt - 1)
      /\ u \in Updates /\ hist.had \subseteq Names
      /\ UNCHANGED <<target, backup, svc, schema, wide, migrates, attempts, hist>>
  BY UnderWay DEF UpdateInv, TypeOK, Updates, StageOK, RollbackSkip, RollingBack, fileVars, dbVars
<1>1. /\ u'.installed = u.installed
      /\ u' \in Updates
      /\ \/ u.i = 4 /\ u'.pc = "rbRestart" /\ u'.i = Agent
         \/ u.i \notin u.installed /\ u'.pc = "rbRemove" /\ u'.i = u.i + 1
  <2>1. CASE u.i = 4
    <3>1. "rbRestart" \in Stages /\ Agent \in 1..4
      BY DEF Stages, Agent
    <3>2. u' = [pc |-> "rbRestart", i |-> Agent, installed |-> u.installed, left |-> u.left,
                cancelled |-> u.cancelled]
      BY <1>0, <2>1 DEF RollbackSkip, Updates
    <3> QED BY <1>0, <2>1, <3>1, <3>2 DEF Updates
  <2>2. CASE u.i # 4
    <3>1. u' = [u EXCEPT !.i = u.i + 1] /\ u.i \notin u.installed /\ u.i + 1 \in 1..4
      BY <1>0, <2>2 DEF RollbackSkip, Updates
    <3> QED BY <1>0, <3>1 DEF Updates
  <2> QED BY <2>1, <2>2
<1>2. TypeOK'
  BY <1>0, <1>1 DEF UpdateInv, TypeOK, Updates
<1>3. StageOK' /\ ReplacedOK' /\ ServicesOK' /\ DoneOK'
  BY <1>0, <1>1 DEF StageOK, ReplacedOK, ServicesOK, DoneOK, Replacing, Checking,
     RollingBack, Services
<1>4. ASSUME NEW n \in hist.had
      PROVE  /\ n \in Names
             /\ n \in u.installed /\ n >= u.i => backup[n] = "old"
             /\ n \in u.installed /\ n < u.i => hist.rbErr \/ target[n] = "old"
             /\ n \notin u.installed =>
                  target[n] = "old" \/ (n = hist.failedAt /\ target[n] = "none")
  BY <1>0 DEF UpdateInv, FilesOK, RollingBack
<1>5. FilesOK'
  <2> SUFFICES ASSUME NEW n \in hist.had
               PROVE  /\ u'.pc = "rbRemove" /\ n \in u.installed /\ n >= u'.i => backup[n] = "old"
                      /\ n \in u.installed /\ (n < u'.i \/ u'.pc = "rbRestart") =>
                           hist.rbErr \/ target[n] = "old"
                      /\ n \notin u.installed =>
                           target[n] = "old" \/ (n = hist.failedAt /\ target[n] = "none")
    BY <1>0, <1>1 DEF FilesOK, Replacing, Checking, RollingBack
  <2>1. CASE u.i = 4 /\ u'.pc = "rbRestart"
    BY <1>4, <2>1 DEF Names
  <2>2. CASE u.i \notin u.installed /\ u'.pc = "rbRemove" /\ u'.i = u.i + 1
    <3>1. u.i \in Nat /\ n \in Nat /\ (n \in u.installed => n # u.i)
      BY <1>0, <1>4, <2>2 DEF Updates, Names
    <3> QED BY <1>4, <2>2, <3>1
  <2> QED BY <1>1, <2>1, <2>2
<1>6. RestoredOK'
  <2> SUFFICES ASSUME ~hist.rbErr, u.i = 4, NEW n \in hist.had
               PROVE  target[n] = "old" \/ (n = hist.failedAt /\ target[n] = "none")
    BY <1>0, <1>1 DEF RestoredOK, Agent, Web
  <2> QED BY <1>4 DEF Names
<1>7. KeptOK'
  BY <1>0 DEF KeptOK, Kept
<1>8. DatabaseOK'
  BY <1>0, DatabaseFrame
<1> QED BY <1>2, <1>3, <1>5, <1>6, <1>7, <1>8 DEF UpdateInv

(* The rollback removes a new binary.                                      *)
LEMMA RollbackRemoveInv ==
  ASSUME UpdateInv, RollbackRemove
  PROVE  UpdateInv'
<1>0. /\ u.pc = "rbRemove" /\ u.i \in u.installed /\ u.i \in Names
      /\ hist.outcome = "none" /\ Kept
      /\ u.installed = IF hist.failedAt = 0 THEN Names ELSE 1..(hist.failedAt - 1)
      /\ u \in Updates /\ hist.had \subseteq Names
      /\ UNCHANGED <<backup, svc, schema, wide, migrates, attempts, hist>>
  BY UnderWay DEF UpdateInv, TypeOK, Updates, StageOK, RollbackRemove, RollingBack, dbVars
<1>1. u'.pc = "rbRename" /\ u'.i = u.i /\ u'.installed = u.installed /\ u' \in Updates
  BY <1>0 DEF RollbackRemove, Updates, Stages
<1>2. /\ target' \in [Names -> Content]
      /\ \A n \in Names \ {u.i} : target'[n] = target[n]
  BY <1>0 DEF UpdateInv, TypeOK, RollbackRemove, Content
<1>3. TypeOK'
  BY <1>0, <1>1, <1>2 DEF UpdateInv, TypeOK, Updates
<1>4. StageOK' /\ ReplacedOK' /\ RestoredOK' /\ ServicesOK' /\ DoneOK'
  BY <1>0, <1>1 DEF StageOK, ReplacedOK, RestoredOK, ServicesOK, DoneOK, Replacing, Checking,
     RollingBack
<1>5. ASSUME NEW n \in hist.had
      PROVE  /\ n \in Names
             /\ n \in u.installed /\ n >= u.i => backup[n] = "old"
             /\ n \in u.installed /\ n < u.i => hist.rbErr \/ target'[n] = "old"
             /\ n \notin u.installed =>
                  target'[n] = "old" \/ (n = hist.failedAt /\ target'[n] = "none")
  <2>1. /\ n \in Names
        /\ n \in u.installed /\ n >= u.i => backup[n] = "old"
        /\ n \in u.installed /\ n < u.i => hist.rbErr \/ target[n] = "old"
        /\ n \notin u.installed =>
             target[n] = "old" \/ (n = hist.failedAt /\ target[n] = "none")
    BY <1>0 DEF UpdateInv, FilesOK, RollingBack
  <2>2. CASE n = u.i
    BY <1>0, <2>1, <2>2 DEF Names
  <2>3. CASE n # u.i
    BY <1>2, <2>1, <2>3
  <2> QED BY <2>2, <2>3
<1>6. FilesOK'
  BY <1>0, <1>1, <1>5 DEF FilesOK, Replacing, Checking, RollingBack
<1>7. KeptOK'
  <2>1. ASSUME NEW n \in hist.had PROVE target'[n] = "old" \/ backup'[n] = "old"
    BY <1>0, <1>2, <1>5 DEF Kept, Names
  <2> QED BY <1>0, <2>1 DEF KeptOK, Kept
<1>8. DatabaseOK'
  BY <1>0, DatabaseFrame
<1> QED BY <1>3, <1>4, <1>6, <1>7, <1>8 DEF UpdateInv

(* The rollback puts an old binary back, or fails to.                      *)
LEMMA RollbackRenameInv ==
  ASSUME UpdateInv, RollbackRename
  PROVE  UpdateInv'
<1>0. /\ u.pc = "rbRename" /\ u.i \in u.installed /\ u.i \in Names
      /\ hist.outcome = "none" /\ Kept
      /\ u.installed = IF hist.failedAt = 0 THEN Names ELSE 1..(hist.failedAt - 1)
      /\ u \in Updates /\ hist \in Histories /\ hist.had \subseteq Names
      /\ UNCHANGED <<svc, schema, wide, migrates, attempts>>
  BY UnderWay DEF UpdateInv, TypeOK, Updates, Histories, Outcomes, StageOK, RollbackRename,
     RollingBack, dbVars
<1>1. u'.pc = "rbRemove" /\ u'.i = u.i + 1 /\ u'.installed = u.installed /\ u' \in Updates
  <2>1. "rbRemove" \in Stages /\ u.i + 1 \in 1..4
    BY <1>0 DEF Stages, Names
  <2>2. u' = [pc |-> "rbRemove", i |-> u.i + 1, installed |-> u.installed, left |-> u.left,
              cancelled |-> u.cancelled]
    BY <1>0 DEF RollbackRename, Updates
  <2> QED BY <1>0, <2>1, <2>2 DEF Updates
<1>2. /\ hist' \in Histories /\ hist'.had = hist.had /\ hist'.outcome = "none"
      /\ hist'.failedAt = hist.failedAt
      /\ hist.rbErr => hist'.rbErr
      /\ \/ /\ target'[u.i] = backup[u.i] /\ backup'[u.i] = "none"
            /\ \A n \in Names \ {u.i} : target'[n] = target[n] /\ backup'[n] = backup[n]
         \/ hist'.rbErr /\ UNCHANGED <<target, backup>>
      /\ target' \in [Names -> Content] /\ backup' \in [Names -> Content]
  <2>1. CASE /\ target' = [target EXCEPT ![u.i] = backup[u.i]]
             /\ backup' = [backup EXCEPT ![u.i] = "none"]
             /\ UNCHANGED hist
    BY <1>0, <2>1 DEF UpdateInv, TypeOK, Content
  <2>2. CASE hist' = [hist EXCEPT !.rbErr = TRUE] /\ UNCHANGED fileVars
    BY <1>0, <2>2 DEF UpdateInv, TypeOK, fileVars, Histories
  <2> QED BY <2>1, <2>2 DEF RollbackRename
<1>3. TypeOK'
  BY <1>0, <1>1, <1>2 DEF UpdateInv, TypeOK, Updates, Histories, Outcomes
<1>4. StageOK' /\ ReplacedOK' /\ RestoredOK' /\ ServicesOK' /\ DoneOK'
  BY <1>0, <1>1, <1>2 DEF StageOK, ReplacedOK, RestoredOK, ServicesOK, DoneOK, Replacing,
     Checking, RollingBack
<1>5. ASSUME NEW n \in hist.had
      PROVE  /\ n \in Names
             /\ n \in u.installed /\ n >= u.i => backup[n] = "old"
             /\ n \in u.installed /\ n < u.i => hist.rbErr \/ target[n] = "old"
             /\ n \notin u.installed =>
                  target[n] = "old" \/ (n = hist.failedAt /\ target[n] = "none")
  BY <1>0 DEF UpdateInv, FilesOK, RollingBack
<1>6. FilesOK'
  <2> SUFFICES ASSUME NEW n \in hist.had
               PROVE  /\ n \in u.installed /\ n >= u.i + 1 => backup'[n] = "old"
                      /\ n \in u.installed /\ n < u.i + 1 => hist'.rbErr \/ target'[n] = "old"
                      /\ n \notin u.installed =>
                           target'[n] = "old" \/ (n = hist.failedAt /\ target'[n] = "none")
    BY <1>1, <1>2 DEF FilesOK, Replacing, Checking, RollingBack
  <2>1. n \in Nat /\ u.i \in Nat
    BY <1>0, <1>5 DEF Names
  <2>2. CASE n = u.i
    <3>1. backup[n] = "old"
      <4>1. n \in u.installed /\ n >= u.i
        BY <1>0, <2>1, <2>2
      <4> QED BY <1>5, <4>1
    <3>2. target'[n] = "old" \/ hist'.rbErr
      BY <1>2, <2>2, <3>1
    <3> QED BY <1>0, <2>1, <2>2, <3>2
  <2>3. CASE n # u.i
    <3>1. target'[n] = target[n] /\ backup'[n] = backup[n]
      BY <1>2, <1>5, <2>3
    <3> QED BY <1>2, <1>5, <2>1, <2>3, <3>1
  <2> QED BY <2>2, <2>3
<1>7. KeptOK'
  <2>1. ASSUME NEW n \in hist.had PROVE target'[n] = "old" \/ backup'[n] = "old"
    <3>1. target[n] = "old" \/ backup[n] = "old"
      BY <1>0 DEF Kept
    <3>2. CASE n = u.i
      <4>1. backup[n] = "old"
        <5>1. n \in u.installed /\ n >= u.i
          BY <1>0, <3>2 DEF Names
        <5> QED BY <1>5, <5>1
      <4> QED BY <1>2, <3>2, <4>1
    <3>3. CASE n # u.i
      BY <1>2, <1>5, <3>1, <3>3
    <3> QED BY <3>2, <3>3
  <2> QED BY <1>2, <2>1 DEF KeptOK, Kept
<1>8. DatabaseOK'
  BY <1>0, DatabaseFrame
<1> QED BY <1>3, <1>4, <1>6, <1>7, <1>8 DEF UpdateInv

(* The rollback restarts a service.                                        *)
LEMMA RollbackRestartInv ==
  ASSUME UpdateInv, RollbackRestart
  PROVE  UpdateInv'
<1>0. /\ u.pc = "rbRestart" /\ u.i \in Services
      /\ hist.outcome = "none" /\ Kept
      /\ u.installed = IF hist.failedAt = 0 THEN Names ELSE 1..(hist.failedAt - 1)
      /\ u \in Updates /\ hist \in Histories
      /\ UNCHANGED <<target, backup, schema, wide, migrates, attempts>>
  BY UnderWay DEF UpdateInv, TypeOK, Updates, Histories, Outcomes, StageOK, RollbackRestart,
     RollingBack, fileVars, dbVars
<1>1. /\ u'.installed = u.installed /\ u' \in Updates
      /\ \/ u.i = Web /\ u'.pc = "idle"
         \/ u.i = Agent /\ u'.pc = "rbRestart" /\ u'.i = Web
  <2>1. CASE u.i = Web
    BY <1>0, <2>1 DEF RollbackRestart, Updates, Stages
  <2>2. CASE u.i = Agent
    BY <1>0, <2>2 DEF RollbackRestart, Updates, Agent, Web
  <2> QED BY <1>0, <2>1, <2>2 DEF Services
<1>2. PICK ok \in BOOLEAN :
        /\ IF ok THEN Restarted(u.i) ELSE UNCHANGED svc
        /\ hist' = [hist EXCEPT !.svcErr = @ \/ ~ok,
                                !.outcome = IF u.i = Web THEN "rolledBack" ELSE @]
  BY DEF RollbackRestart
<1>3. /\ hist'.had = hist.had /\ hist'.rbErr = hist.rbErr /\ hist'.failedAt = hist.failedAt
      /\ hist'.svcErr = (hist.svcErr \/ ~ok)
      /\ hist'.outcome = IF u.i = Web THEN "rolledBack" ELSE "none"
      /\ hist' \in Histories
  <2>1. (hist.svcErr \/ ~ok) \in BOOLEAN
    OBVIOUS
  <2>2. (IF u.i = Web THEN "rolledBack" ELSE hist.outcome) \in Outcomes
    BY <1>0 DEF Outcomes
  <2> QED BY <1>0, <1>2, <2>1, <2>2 DEF Histories
<1>4. svc' \in [Services -> States] /\ DatabaseOK'
  <2>1. CASE ok
    BY <1>0, <1>2, <2>1, RestartedInv
  <2>2. CASE ~ok
    BY <1>0, <1>2, <2>2, DatabaseFrame DEF UpdateInv, TypeOK, States
  <2> QED BY <2>1, <2>2
<1>5. TypeOK'
  BY <1>0, <1>1, <1>3, <1>4 DEF UpdateInv, TypeOK, Updates, Histories, Outcomes, States
<1>6. StageOK' /\ ReplacedOK' /\ ServicesOK' /\ DoneOK'
  BY <1>0, <1>1, <1>3 DEF StageOK, ReplacedOK, ServicesOK, DoneOK, Replacing, Checking,
     RollingBack, Services, Agent, Web
<1>7. FilesOK'
  <2>1. \A n \in hist.had :
          /\ n \in u.installed => hist.rbErr \/ target[n] = "old"
          /\ n \notin u.installed =>
               target[n] = "old" \/ (n = hist.failedAt /\ target[n] = "none")
    BY <1>0 DEF UpdateInv, FilesOK, RollingBack
  <2> QED BY <1>0, <1>1, <1>3, <2>1 DEF FilesOK, Replacing, Checking, RollingBack
<1>8. KeptOK'
  BY <1>0, <1>3 DEF KeptOK, Kept
<1>9. RestoredOK'
  <2> SUFFICES ASSUME ~hist.rbErr
               PROVE  /\ \A n \in hist.had :
                           target[n] = "old" \/ (n = hist.failedAt /\ target[n] = "none")
                      /\ hist'.svcErr \/ \A s \in Services \cap hist.had : svc'[s].bin # "new"
    BY <1>0, <1>3 DEF RestoredOK
  <2>1. \A n \in hist.had : target[n] = "old" \/ (n = hist.failedAt /\ target[n] = "none")
    BY <1>0 DEF UpdateInv, RestoredOK
  <2>2. ASSUME ok, ~hist.svcErr, NEW s \in Services \cap hist.had
        PROVE  svc'[s].bin # "new"
    <3>1. /\ svc'[u.i].bin = target[u.i]
          /\ svc'[s] = svc[s] \/ svc'[s].bin = target[s]
          /\ u.i = Agent => svc'[Web].bin \in {target[Web], "none"}
      BY <1>0, <1>2, <2>2, RestartedInv
    <3>2. CASE u.i = Agent
      BY <2>1, <3>1, <3>2 DEF Services
    <3>3. CASE u.i = Web
      BY <1>0, <2>1, <2>2, <3>1, <3>3 DEF UpdateInv, RestoredOK
    <3> QED BY <1>0, <3>2, <3>3 DEF Services
  <2> QED BY <1>3, <2>1, <2>2
<1> QED BY <1>4, <1>5, <1>6, <1>7, <1>8, <1>9 DEF UpdateInv

(* Ctrl-C.                                                                 *)
LEMMA CancelInv ==
  ASSUME UpdateInv, Cancel
  PROVE  UpdateInv'
<1>1. /\ u'.pc = u.pc /\ u'.i = u.i /\ u'.installed = u.installed /\ u' \in Updates
      /\ UNCHANGED <<target, backup, svc, schema, wide, migrates, attempts, hist>>
  BY DEF UpdateInv, TypeOK, Updates, Cancel, fileVars, dbVars
<1>2. TypeOK'
  BY <1>1 DEF UpdateInv, TypeOK, Updates
<1>3. StageOK' /\ ReplacedOK' /\ FilesOK'
  BY <1>1 DEF UpdateInv, StageOK, ReplacedOK, FilesOK
<1>4. KeptOK' /\ RestoredOK' /\ ServicesOK' /\ DoneOK'
  BY <1>1 DEF UpdateInv, KeptOK, Kept, Replaced, RestoredOK, ServicesOK, DoneOK, Knows
<1>5. DatabaseOK'
  BY <1>1, DatabaseFrame
<1> QED BY <1>2, <1>3, <1>4, <1>5 DEF UpdateInv

(* The update is killed where it stands, also between two backups that go. *)
LEMMA KillInv ==
  ASSUME UpdateInv, Kill
  PROVE  UpdateInv'
<1>0. /\ u.pc # "idle" /\ u \in Updates /\ hist \in Histories
      /\ UNCHANGED <<target, backup, svc, schema, wide, migrates, attempts>>
  BY DEF UpdateInv, TypeOK, Updates, Histories, Outcomes, Kill, fileVars, dbVars
<1>1. u'.pc = "idle" /\ u' \in Updates
  BY <1>0 DEF Kill, Updates, Stages
<1>2. hist'.outcome = "killed" /\ hist'.had = hist.had /\ hist' \in Histories
  BY <1>0 DEF Kill, Histories, Outcomes
<1>3. TypeOK'
  BY <1>0, <1>1, <1>2 DEF UpdateInv, TypeOK, Updates, Histories, Outcomes
<1>4. StageOK' /\ ReplacedOK' /\ FilesOK' /\ RestoredOK' /\ ServicesOK' /\ DoneOK'
  BY <1>1, <1>2 DEF StageOK, ReplacedOK, FilesOK, RestoredOK, ServicesOK, DoneOK, Replacing,
     Checking, RollingBack
<1>5. KeptOK'
  BY <1>0, <1>1, <1>2 DEF UpdateInv, KeptOK, Kept, Replaced
<1>6. DatabaseOK'
  BY <1>0, DatabaseFrame
<1> QED BY <1>3, <1>4, <1>5, <1>6 DEF UpdateInv

(* A step of a service that runs what it ran, or what is installed.        *)
LEMMA ServiceInv ==
  ASSUME UpdateInv, svc' \in [Services -> States], DatabaseOK',
         \A s \in Services : svc'[s].bin = svc[s].bin \/ svc'[s].bin = target[s],
         schema' \in {"none", "old", "new"}, wide' \in BOOLEAN,
         schema = Knows("new") => schema' = Knows("new")',
         UNCHANGED <<target, backup, migrates, u, attempts, hist>>
  PROVE  UpdateInv'
<1>0. Services \subseteq Names /\ Agent \in Services
  BY DEF Services, Names, Agent, Web
<1>1. TypeOK'
  BY DEF UpdateInv, TypeOK, States
<1>2. StageOK' /\ ReplacedOK' /\ FilesOK'
  BY FilesFrame
<1>3. Replaced => Replaced'
  BY <1>0 DEF Replaced
<1>4. KeptOK'
  BY <1>3 DEF UpdateInv, KeptOK, Kept
<1>5. DoneOK'
  BY <1>3 DEF UpdateInv, DoneOK
<1>6. ServicesOK'
  <2>1. u.pc \in Checking => \A s \in Services : target[s] = "new"
    BY <1>0 DEF UpdateInv, StageOK, ReplacedOK
  <2> QED BY <1>0, <2>1 DEF UpdateInv, ServicesOK, Checking
<1>7. RestoredOK'
  <2> SUFFICES ASSUME ~hist.rbErr, ~hist.svcErr, NEW s \in Services \cap hist.had,
                      (u.pc = "rbRestart" /\ u.i = Web) \/ hist.outcome = "rolledBack"
               PROVE  svc'[s].bin # "new"
    BY DEF UpdateInv, RestoredOK
  <2> QED BY DEF UpdateInv, RestoredOK
<1> QED BY <1>1, <1>2, <1>4, <1>5, <1>6, <1>7 DEF UpdateInv

(* A service opens its database.  No schema is older afterwards.           *)
LEMMA SvcOpenInv ==
  ASSUME UpdateInv, NEW s \in Services, SvcOpen(s)
  PROVE  UpdateInv'
<1>0. /\ svc[s].st = "starting" /\ svc[s].bin \in {"old", "new"}
      /\ wide' \in BOOLEAN /\ schema \in {"none", "old", "new"}
      /\ svc \in [Services -> States]
      /\ UNCHANGED <<target, backup, migrates, u, attempts, hist>>
  BY DEF UpdateInv, TypeOK, States, Content, DatabaseOK, SvcOpen, fileVars
<1>1. CASE svc' = [svc EXCEPT ![s].st = "failed"] /\ UNCHANGED schema
  <2>1. svc' \in [Services -> States] /\ \A t \in Services : svc'[t].bin = svc[t].bin
    BY <1>0, <1>1 DEF States
  <2>2. DatabaseOK'
    BY <1>0, <1>1 DEF UpdateInv, DatabaseOK, Knows, States
  <2>3. schema = Knows("new") => schema' = Knows("new")'
    BY <1>0, <1>1 DEF Knows
  <2> QED BY <1>0, <1>1, <2>1, <2>2, <2>3, ServiceInv
<1>2. ASSUME ~Refuses(s), schema' = Knows(svc[s].bin), NEW lost \in SUBSET Services,
             svc' = [t \in Services |-> IF t = s THEN [svc[s] EXCEPT !.st = "up"]
                                       ELSE IF t \in lost THEN [svc[t] EXCEPT !.st = "failed"]
                                       ELSE svc[t]]
      PROVE  UpdateInv'
  <2>1. ASSUME NEW t \in Services
        PROVE  /\ svc'[t] \in States /\ svc'[t].bin = svc[t].bin
               /\ t = s => svc'[t].st = "up"
               /\ t # s => svc'[t].st \in {svc[t].st, "failed"}
    <3>1. svc[t] \in States /\ svc[s] \in States
      BY <1>0
    <3>2. CASE t = s
      BY <1>2, <3>1, <3>2 DEF States
    <3>3. CASE t # s /\ t \in lost
      BY <1>2, <3>1, <3>3 DEF States
    <3>4. CASE t # s /\ t \notin lost
      BY <1>2, <3>1, <3>4
    <3> QED BY <3>2, <3>3, <3>4
  <2>2. svc' \in [Services -> States]
    BY <1>2, <2>1
  <2>3. schema' \in {"old", "new"}
    BY <1>0, <1>2 DEF Knows
  <2>4. schema = Knows("new") => schema' = Knows("new")'
    BY <1>0, <1>2 DEF Knows, Refuses
  <2>5. svc[s].bin = "new" => schema' = Knows("new")'
    BY <1>0, <1>2 DEF Knows
  <2>6. DatabaseOK'
    <3> SUFFICES ASSUME NEW t \in Services
                 PROVE  /\ svc'[t].st = "starting" => svc'[t].bin # "none"
                        /\ svc'[t].st = "stopped" => svc'[t].bin = "none"
                        /\ svc'[t].st = "up" /\ svc'[t].bin = "new" => schema' = Knows("new")'
      BY DEF DatabaseOK
    <3>1. CASE t = s
      BY <2>1, <2>5, <3>1
    <3>2. CASE t # s
      BY <2>1, <2>4, <3>2 DEF UpdateInv, DatabaseOK
    <3> QED BY <3>1, <3>2
  <2> QED BY <1>0, <2>1, <2>2, <2>3, <2>4, <2>6, ServiceInv
<1> QED BY <1>1, <1>2 DEF SvcOpen

(* Others may read the database.                                           *)
LEMMA WidenInv ==
  ASSUME UpdateInv, Widen
  PROVE  UpdateInv'
<1>1. /\ wide' \in BOOLEAN
      /\ UNCHANGED <<target, backup, svc, schema, migrates, u, attempts, hist>>
  BY DEF Widen, fileVars
<1>2. svc' \in [Services -> States] /\ schema' \in {"none", "old", "new"}
  BY <1>1 DEF UpdateInv, TypeOK, States
<1>3. DatabaseOK'
  BY <1>1, DatabaseFrame
<1>4. schema = Knows("new") => schema' = Knows("new")'
  BY <1>1 DEF Knows
<1> QED BY <1>1, <1>2, <1>3, <1>4, ServiceInv

(* A service fails.                                                        *)
LEMMA SvcCrashInv ==
  ASSUME UpdateInv, NEW s \in Services, SvcCrash(s)
  PROVE  UpdateInv'
<1>1. /\ svc' = [svc EXCEPT ![s].st = "failed"] /\ svc \in [Services -> States]
      /\ UNCHANGED <<target, backup, schema, wide, migrates, u, attempts, hist>>
  BY DEF UpdateInv, TypeOK, States, SvcCrash, fileVars, dbVars
<1>2. svc' \in [Services -> States] /\ \A t \in Services : svc'[t].bin = svc[t].bin
  BY <1>1 DEF States
<1>3. DatabaseOK'
  BY <1>1 DEF UpdateInv, DatabaseOK, Knows, States
<1>4. /\ schema' \in {"none", "old", "new"} /\ wide' \in BOOLEAN
      /\ schema = Knows("new") => schema' = Knows("new")'
  BY <1>1 DEF UpdateInv, TypeOK, Knows
<1> QED BY <1>1, <1>2, <1>3, <1>4, ServiceInv

(* systemd starts a failed service again.                                  *)
LEMMA SvcRestartInv ==
  ASSUME UpdateInv, NEW s \in Services, SvcRestart(s)
  PROVE  UpdateInv'
<1>1. /\ svc' = [svc EXCEPT ![s] = [bin |-> target[s], st |-> "starting"]]
      /\ target[s] # "none" /\ target[s] \in Content /\ svc \in [Services -> States]
      /\ UNCHANGED <<target, backup, schema, wide, migrates, u, attempts, hist>>
  BY DEF UpdateInv, TypeOK, States, SvcRestart, fileVars, dbVars, Services, Names, Agent, Web
<1>2. /\ svc' \in [Services -> States]
      /\ \A t \in Services : svc'[t].bin = svc[t].bin \/ svc'[t].bin = target[t]
  BY <1>1 DEF States
<1>3. DatabaseOK'
  BY <1>1 DEF UpdateInv, DatabaseOK, Knows, States
<1>4. /\ schema' \in {"none", "old", "new"} /\ wide' \in BOOLEAN
      /\ schema = Knows("new") => schema' = Knows("new")'
  BY <1>1 DEF UpdateInv, TypeOK, Knows
<1> QED BY <1>1, <1>2, <1>3, <1>4, ServiceInv

------------------------------------------------------------------------------
(* The update starts on a fresh installation.                              *)
LEMMA InitInv == Init => UpdateInv
<1> SUFFICES ASSUME Init PROVE UpdateInv
  OBVIOUS
<1>1. /\ u.pc = "idle" /\ hist.outcome = "none"
      /\ \A n \in Names : target[n] = "old"
      /\ hist.had = Names
  BY DEF Init
<1>2. TypeOK
  <2>1. Stopped \in States /\ Running \in States
    BY DEF Stopped, Running, States, Content
  <2>2. svc \in [Services -> States]
    BY <2>1 DEF Init
  <2>3. u \in Updates /\ hist \in Histories
    BY DEF Init, Updates, Stages, Histories, Outcomes
  <2>4. target \in [Names -> Content] /\ backup \in [Names -> Content]
    BY DEF Init, Content
  <2>5. schema \in {"none", "old", "new"} /\ wide \in BOOLEAN /\ migrates \in BOOLEAN
    BY DEF Init
  <2>6. attempts \in 0..MaxAttempts
    BY UpdateAssumption DEF Init
  <2> QED BY <2>2, <2>3, <2>4, <2>5, <2>6 DEF TypeOK, States, Updates, Histories, Outcomes
<1>3. StageOK /\ ReplacedOK /\ RestoredOK /\ FilesOK /\ ServicesOK /\ DoneOK
  BY <1>1 DEF StageOK, ReplacedOK, RestoredOK, FilesOK, ServicesOK, DoneOK, Replacing, Checking,
     RollingBack
<1>4. KeptOK
  BY <1>1 DEF KeptOK, Kept
<1>5. DatabaseOK
  BY DEF Init, DatabaseOK, Stopped, Running
<1> QED BY <1>2, <1>3, <1>4, <1>5 DEF UpdateInv

(* A stuttering step changes none of the parts.                            *)
LEMMA StutterInv ==
  ASSUME UpdateInv, UNCHANGED vars
  PROVE  UpdateInv'
<1>1. svc' \in [Services -> States] /\ UNCHANGED vars
  BY DEF UpdateInv, TypeOK, States, vars
<1>2. DatabaseOK'
  BY DatabaseFrame DEF vars
<1>3. /\ schema' \in {"none", "old", "new"} /\ wide' \in BOOLEAN
      /\ schema = Knows("new") => schema' = Knows("new")'
  BY DEF UpdateInv, TypeOK, vars, Knows
<1> QED BY <1>1, <1>2, <1>3, ServiceInv DEF vars

(* UpdateInv holds throughout, however often InstallAll is started, fails, *)
(* is cancelled or is killed.                                              *)
THEOREM UpdateInvariant == Spec => []UpdateInv
<1>1. Init => UpdateInv
  BY InitInv
<1>2. UpdateInv /\ [Next]_vars => UpdateInv'
  <2> SUFFICES ASSUME UpdateInv, [Next]_vars
               PROVE  UpdateInv'
    OBVIOUS
  <2>1. CASE Begin
    BY <2>1, BeginInv
  <2>2. CASE InstallAll
    BY <2>2, RemoveBackupInv, RenameTargetInv, InstallTargetInv, RestartServicesInv,
       IsActiveInv, DoctorInv, CleanupInv, SucceedInv, RollbackSkipInv, RollbackRemoveInv,
       RollbackRenameInv, RollbackRestartInv DEF InstallAll
  <2>3. CASE Cancel \/ Kill \/ Widen
    BY <2>3, CancelInv, KillInv, WidenInv
  <2>4. ASSUME NEW s \in Services, SvcOpen(s) \/ SvcCrash(s) \/ SvcRestart(s)
        PROVE  UpdateInv'
    BY <2>4, SvcOpenInv, SvcCrashInv, SvcRestartInv
  <2>5. CASE UNCHANGED vars
    BY <2>5, StutterInv
  <2> QED BY <2>1, <2>2, <2>3, <2>4, <2>5 DEF Next
<1> QED BY <1>1, <1>2, PTL DEF Spec

(* Type correctness.                                                       *)
THEOREM TypeCorrect == Spec => []TypeOK
<1>1. UpdateInv => TypeOK
  BY DEF UpdateInv
<1> QED BY <1>1, UpdateInvariant, PTL

(* InstallAll destroys no binary it found before the whole new             *)
(* installation is there, wherever it fails or is killed.                  *)
THEOREM OldKept == Spec => []OldCopyKept
<1>1. UpdateInv => OldCopyKept
  BY DEF UpdateInv, KeptOK, Kept, Replaced, OldCopyKept
<1> QED BY <1>1, UpdateInvariant, PTL

(* InstallAll returns success only when three new binaries are in place,   *)
(* both services were started from them and the schema is theirs, or       *)
(* doctor only warned and no service is through.                           *)
THEOREM Complete == Spec => []SuccessIsComplete
<1>1. UpdateInv => SuccessIsComplete
  BY DEF UpdateInv, DoneOK, DatabaseOK, Replaced, SuccessIsComplete
<1> QED BY <1>1, UpdateInvariant, PTL

(* rollback leaves the old binaries in place and no service on the new     *)
(* release, apart from what its own failed steps leave.                    *)
THEOREM Restores == Spec => []RollbackRestores
<1>1. UpdateInv => RollbackRestores
  BY DEF UpdateInv, RestoredOK, RollbackRestores
<1> QED BY <1>1, UpdateInvariant, PTL
==============================================================================
