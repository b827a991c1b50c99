-------------------------- MODULE Installation_proofs -------------------------
(***************************************************************************)
(* Proofs about Installation, for every set of prefixes and user ids and   *)
(* any number of commands, faults and reboots.                             *)
(***************************************************************************)
EXTENDS Installation, TLAPS

Pcs == {"idle", "group", "user", "cli", "agent", "web", "meta", "dirs", "config", "unitA",
        "reload", "enableA", "unitW", "enableW", "start", "verify", "disable", "rmUnits",
        "rmReload", "rmBins", "userdel", "stopW", "disableW", "stopA", "disableA",
        "rmUnitW", "rmUnitA", "uReload", "uRmBins", "purgeData", "purgeCfg",
        "firewall", "save", "fill", "restart"}
Ops == [cmd : {"none", "install", "remove", "uninstall", "purge", "setup"},
        p : Prefix, rel : Release \cup {None}, start : BOOLEAN, bind : Bind,
        allow : BOOLEAN, own : BOOLEAN, pc : Pcs, st : {"run", "ok", "failed"},
        hurt : BOOLEAN, cmds : 0..MaxCmds, faults : 0..MaxFaults]
ProcRec == [st : {"down", "up", "failed"}, at : Prefix \cup {None}, fresh : BOOLEAN,
            bind : Bind]
Procs == [Svc -> ProcRec]

\* The stages of install.sh in which a step of it lies behind.
PastEnableW == {"start", "verify"}
PastUnitW == {"enableW"} \cup PastEnableW
PastEnableA == {"unitW"} \cup PastUnitW
PastUnitA == {"reload", "enableA"} \cup PastEnableA
PastDirs == {"config", "unitA"} \cup PastUnitA
PastMeta == {"dirs"} \cup PastDirs
PastWeb == {"meta"} \cup PastMeta
PastAgent == {"web"} \cup PastWeb
PastCli == {"agent"} \cup PastAgent
PastUser == {"cli"} \cup PastCli
PastGroup == {"user"} \cup PastUser
InstallPcs == {"group"} \cup PastGroup

RemovePcs == {"disable", "rmUnits", "rmReload", "rmBins", "userdel"}

\* The stages of infrapilot uninstall, in the same way.
PurgePcs == {"purgeData", "purgeCfg"}
PastReload == {"uRmBins"} \cup PurgePcs
PastRmUnitA == {"uReload"} \cup PastReload
PastRmUnitW == {"rmUnitA"} \cup PastRmUnitA
PastDisableA == {"rmUnitW"} \cup PastRmUnitW
PastStopA == {"disableA"} \cup PastDisableA
PastDisableW == {"stopA"} \cup PastStopA
UninstallPcs == {"stopW", "disableW"} \cup PastDisableW

SetupPcs == {"firewall", "save", "fill", "restart"}

(* The command a stage belongs to.                                         *)
OpOK ==
    /\ op.st = "run" <=> op.pc # "idle"
    /\ op.pc \in InstallPcs => op.cmd = "install" /\ op.rel \in Release
    /\ op.pc \in RemovePcs => op.cmd = "remove"
    /\ op.pc \in UninstallPcs => op.cmd \in {"uninstall", "purge"} /\ op.p = UsrLocal
    /\ op.pc \in PurgePcs => op.cmd = "purge"
    /\ op.pc \in SetupPcs => op.cmd = "setup"

(* What install.sh has done when it gets to a stage.                       *)
InstallOK ==
    /\ op.pc \in PastGroup => user.group
    /\ op.pc \in PastUser => user.uid # None
    /\ op.pc \in PastCli => bins[op.p]["cli"] = op.rel
    /\ op.pc \in PastAgent => bins[op.p]["agent"] = op.rel
    /\ op.pc \in PastWeb => bins[op.p]["web"] = op.rel
    /\ op.pc \in PastMeta => meta = op.p
    /\ op.pc \in PastDirs => data.dir = user.uid
    /\ op.pc \in PastUnitA => unit["agent"] = op.p
    /\ op.pc \in PastEnableA => enabled["agent"]
    /\ op.pc \in PastUnitW => unit["web"] = op.p
    /\ op.pc \in PastEnableW => enabled["web"] /\ loaded = unit

(* After its restart of the agent no service that runs is an old one, and  *)
(* the database of one that runs has the schema of the release.  The agent *)
(* runs unless the configuration or the database stops it, or the panel    *)
(* has migrated at the same moment.                                        *)
StartOK ==
    op.pc = "verify" /\ op.start =>
      /\ \A s \in Svc : proc[s].st = "up" =>
           proc[s].at = op.p /\ proc[s].fresh /\ data.schema = op.rel
      /\ \/ op.hurt \/ proc["agent"].st = "up" \/ proc["web"].st = "up"
         \/ ~ConfigOK \/ data.db \notin {None, user.uid} \/ data.schema > op.rel

(* Nothing runs, and nothing would after a reboot.                         *)
Quiet == \A s \in Svc : proc[s] = Down /\ ~enabled[s]

(* While no uninstall passed over a failed step or was stopped between the *)
(* unit files, the agent's unit is there if anything else is.              *)
AgentUnitOK ==
    ~ignored /\ unit["agent"] = None => Quiet /\ unit["web"] = None

(* What install.sh --uninstall has done when it gets to a stage.           *)
RemoveOK ==
    /\ op.pc \in RemovePcs \ {"disable"} => ignored \/ Quiet
    /\ op.pc \in {"rmReload", "rmBins", "userdel"} => \A s \in Svc : unit[s] = None
    /\ op.pc \in {"rmBins", "userdel"} => loaded = unit
    /\ op.pc = "userdel" => \A b \in Bin : bins[op.p][b] = None

(* What infrapilot uninstall has done when it gets to a stage.             *)
UninstallOK ==
    ~ignored =>
      /\ op.pc \in PastDisableW => ~enabled["web"]
      /\ op.pc \in PastStopA => \A s \in Svc : proc[s] = Down
      /\ op.pc \in PastDisableA => ~enabled["agent"]
      /\ op.pc \in PastRmUnitW => unit["web"] = None
      /\ op.pc \in PastRmUnitA => unit["agent"] = None
      /\ op.pc \in PastReload => op.hurt \/ loaded = unit
      /\ op.pc \in PurgePcs => op.hurt \/ \A b \in Bin : bins[UsrLocal][b] = None
      /\ op.pc = "purgeCfg" => data.db = None

(* What infrapilot web setup has done when it gets to a stage.             *)
SetupOK ==
    /\ op.pc \in SetupPcs \ {"firewall"} => op.hurt \/ ~op.allow \/ port
    /\ op.pc = "restart" => cfg.bind = op.bind

(* Settings of the operator are in a file.                                 *)
CfgOK == cfg.own => cfg.st # "none"

HostInv ==
    /\ TypeOK /\ OpOK /\ InstallOK /\ StartOK /\ AgentUnitOK /\ RemoveOK /\ UninstallOK
    /\ SetupOK /\ CfgOK

------------------------------------------------------------------------------
(* Lemmas about the running command.                                       *)

(* What a step of a command leaves of it.                                  *)
Kept ==
    /\ op'.cmd = op.cmd /\ op'.p = op.p /\ op'.rel = op.rel /\ op'.start = op.start
    /\ op'.bind = op.bind /\ op'.allow = op.allow /\ op'.st = op.st

LEMMA OpType == HostInv => op \in Ops
BY DEF HostInv, TypeOK, Ops, Pcs

LEMMA NoOpType == NoOp \in Ops
BY BoundAssumption, PrefixAssumption DEF NoOp, Ops, Pcs, Bind

(* A step that works.                                                      *)
LEMMA Goes ==
  ASSUME HostInv, NEW pc \in Pcs, Then(pc)
  PROVE  op' \in Ops /\ op'.pc = pc /\ op'.hurt = op.hurt /\ op'.own = op.own /\ Kept
<1>1. op \in Ops
  BY OpType
<1> QED BY <1>1 DEF Then, Ops, Kept

(* A step that fails unnoticed.                                            *)
LEMMA GoesHurt ==
  ASSUME HostInv, NEW pc \in Pcs, Ignored(pc)
  PROVE  op' \in Ops /\ op'.pc = pc /\ op'.hurt /\ op'.own = op.own /\ Kept
<1>1. op \in Ops /\ op.faults + 1 \in 0..MaxFaults
  BY OpType, BoundAssumption DEF Ignored, Fault, Ops
<1>2. op' = [cmd |-> op.cmd, p |-> op.p, rel |-> op.rel, start |-> op.start,
             bind |-> op.bind,
             allow |-> op.allow, own |-> op.own, pc |-> pc, st |-> op.st, hurt |-> TRUE,
             cmds |-> op.cmds, faults |-> op.faults + 1]
  BY <1>1 DEF Ignored, Ops
<1> QED BY <1>1, <1>2 DEF Ops, Kept

(* The record of a command that has ended.                                 *)
LEMMA EndedIs ==
  ASSUME NEW st
  PROVE  Ended(st) = [cmd |-> op.cmd, p |-> UsrLocal, rel |-> None, start |-> FALSE,
                      bind |-> "local",
                      allow |-> FALSE, own |-> FALSE, pc |-> "idle", st |-> st,
                      hurt |-> op.hurt, cmds |-> op.cmds, faults |-> op.faults]
<1>1. NoOp \in Ops
  BY NoOpType
<1>2. PICK e : e = Ended(st)
  OBVIOUS
<1>3. e = [cmd |-> op.cmd, p |-> NoOp.p, rel |-> NoOp.rel, start |-> NoOp.start,
           bind |-> NoOp.bind,
           allow |-> NoOp.allow, own |-> NoOp.own, pc |-> NoOp.pc, st |-> st,
           hurt |-> op.hurt, cmds |-> op.cmds, faults |-> op.faults]
  BY <1>1, <1>2 DEF Ended, Ops
<1> QED BY <1>2, <1>3 DEF NoOp

LEMMA Finishes ==
  ASSUME HostInv, NEW st \in {"ok", "failed"}, Finish(st)
  PROVE  /\ op' \in Ops /\ op'.pc = "idle" /\ op'.st = st
         /\ op'.cmd = op.cmd /\ op'.hurt = op.hurt
<1>1. op \in Ops
  BY OpType
<1> QED BY <1>1, EndedIs, PrefixAssumption DEF Finish, Ops, Pcs, Bind

LEMMA FinishesHurt ==
  ASSUME HostInv, NEW st \in {"ok", "failed"}, Disturbed(st) \/ (st = "ok" /\ Unnoticed)
  PROVE  /\ op' \in Ops /\ op'.pc = "idle" /\ op'.st = st
         /\ op'.cmd = op.cmd /\ op'.hurt
<1>1. op \in Ops
  BY OpType
<1>2. CASE Disturbed(st)
  <2>1. op.faults + 1 \in 0..MaxFaults
    BY <1>1, <1>2, BoundAssumption DEF Disturbed, Fault, Ops
  <2>2. op' = [cmd |-> op.cmd, p |-> UsrLocal, rel |-> None, start |-> FALSE,
               bind |-> "local",
               allow |-> FALSE, own |-> FALSE, pc |-> "idle", st |-> st,
               hurt |-> TRUE, cmds |-> op.cmds, faults |-> op.faults + 1]
    BY <1>2, EndedIs DEF Disturbed
  <2> QED BY <1>1, <2>1, <2>2, PrefixAssumption DEF Ops, Pcs, Bind
<1>3. CASE st = "ok" /\ Unnoticed
  <2>1. op' = [cmd |-> op.cmd, p |-> UsrLocal, rel |-> None, start |-> FALSE,
               bind |-> "local",
               allow |-> FALSE, own |-> FALSE, pc |-> "idle", st |-> "ok",
               hurt |-> TRUE, cmds |-> op.cmds, faults |-> op.faults]
    BY <1>3, EndedIs DEF Unnoticed
  <2> QED BY <1>1, <1>3, <2>1, PrefixAssumption DEF Ops, Pcs, Bind
<1> QED BY <1>2, <1>3

(* A new command.                                                          *)
LEMMA Starts ==
  ASSUME HostInv, NEW new \in Ops, Command(new)
  PROVE  /\ op' \in Ops /\ op.pc = "idle"
         /\ op'.cmd = new.cmd /\ op'.p = new.p /\ op'.rel = new.rel /\ op'.pc = new.pc
         /\ op'.st = new.st /\ op'.hurt = new.hurt /\ op'.allow = new.allow
<1>1. op \in Ops /\ op.cmds + 1 \in 0..MaxCmds
  BY OpType, BoundAssumption DEF Command, Ops
<1>2. op' = [cmd |-> new.cmd, p |-> new.p, rel |-> new.rel, start |-> new.start,
             bind |-> new.bind,
             allow |-> new.allow, own |-> new.own, pc |-> new.pc, st |-> new.st,
             hurt |-> new.hurt, cmds |-> op.cmds + 1, faults |-> op.faults]
  BY <1>1 DEF Command, Ops
<1>3. op.pc = "idle"
  BY DEF HostInv, OpOK, Command
<1> QED BY <1>1, <1>2, <1>3 DEF Ops

(* Of a command that has ended, or that is elsewhere, the stages of a      *)
(* command say nothing.                                                    *)
LEMMA Elsewhere ==
  /\ op'.pc = "idle" /\ op'.st # "run" =>
       OpOK' /\ InstallOK' /\ StartOK' /\ RemoveOK' /\ UninstallOK' /\ SetupOK'
  /\ op'.pc \in InstallPcs => RemoveOK' /\ UninstallOK' /\ SetupOK'
  /\ op'.pc \in RemovePcs => InstallOK' /\ StartOK' /\ UninstallOK' /\ SetupOK'
  /\ op'.pc \in UninstallPcs => InstallOK' /\ StartOK' /\ RemoveOK' /\ SetupOK'
  /\ op'.pc \in SetupPcs => InstallOK' /\ StartOK' /\ RemoveOK' /\ UninstallOK'
<1> USE DEF InstallPcs, PastGroup, PastUser, PastCli, PastAgent, PastWeb, PastMeta,
   PastDirs, PastUnitA, PastEnableA, PastUnitW, PastEnableW, RemovePcs, UninstallPcs,
   PastDisableW, PastStopA, PastDisableA, PastRmUnitW, PastRmUnitA, PastReload, PurgePcs,
   SetupPcs
<1>1. op'.pc = "idle" /\ op'.st # "run" =>
        OpOK' /\ InstallOK' /\ StartOK' /\ RemoveOK' /\ UninstallOK' /\ SetupOK'
  BY DEF OpOK, InstallOK, StartOK, RemoveOK, UninstallOK, SetupOK
<1>2. op'.pc \in InstallPcs => RemoveOK' /\ UninstallOK' /\ SetupOK'
  BY DEF RemoveOK, UninstallOK, SetupOK
<1>3. op'.pc \in RemovePcs => InstallOK' /\ StartOK' /\ UninstallOK' /\ SetupOK'
  BY DEF InstallOK, StartOK, UninstallOK, SetupOK
<1>4. op'.pc \in UninstallPcs => InstallOK' /\ StartOK' /\ RemoveOK' /\ SetupOK'
  BY DEF InstallOK, StartOK, RemoveOK, SetupOK
<1>5. op'.pc \in SetupPcs => InstallOK' /\ StartOK' /\ RemoveOK' /\ UninstallOK'
  BY DEF InstallOK, StartOK, RemoveOK, UninstallOK
<1> QED BY <1>1, <1>2, <1>3, <1>4, <1>5

(* A command keeps to its own stages.                                      *)
LEMMA OpGoesOn ==
  ASSUME HostInv, Kept, op.st = "run",
         \/ op.pc \in InstallPcs /\ op'.pc \in InstallPcs
         \/ op.pc \in RemovePcs /\ op'.pc \in RemovePcs
         \/ op.pc \in SetupPcs /\ op'.pc \in SetupPcs
         \/ /\ op.pc \in UninstallPcs /\ op'.pc \in UninstallPcs
            /\ op'.pc \in PurgePcs => op.pc \in PurgePcs \/ op.cmd = "purge"
  PROVE  OpOK'
BY DEF HostInv, OpOK, Kept, InstallPcs, PastGroup, PastUser, PastCli, PastAgent,
   PastWeb, PastMeta, PastDirs, PastUnitA, PastEnableA, PastUnitW, PastEnableW, RemovePcs,
   UninstallPcs, PastDisableW, PastStopA, PastDisableA, PastRmUnitW, PastRmUnitA,
   PastReload, PurgePcs, SetupPcs

(* A service whose binary is replaced or removed goes on running.          *)
LEMMA StaleIs ==
  ASSUME NEW r \in ProcRec, NEW q, r.at # None, q = [r EXCEPT !.fresh = FALSE]
  PROVE  q \in ProcRec /\ q.st = r.st /\ q.bind = r.bind /\ r # Down
<1>1. q \in ProcRec /\ q.st = r.st /\ q.bind = r.bind
  BY DEF ProcRec
<1>2. r # Down
  BY DEF Down
<1> QED BY <1>1, <1>2

(* No binary is left at the prefix, and no service has stopped.            *)
LEMMA RemovedIs ==
  ASSUME TypeOK, NEW p \in Prefix, Removed(p)
  PROVE  /\ bins' \in [Prefix -> [Bin -> Release \cup {None, Part}]]
         /\ \A b \in Bin : bins'[p][b] = None
         /\ \A q \in Prefix \ {p} : bins'[q] = bins[q]
         /\ proc' \in Procs
         /\ \A s \in Svc : proc[s] = Down => proc'[s] = Down
<1>1. /\ bins' \in [Prefix -> [Bin -> Release \cup {None, Part}]]
      /\ \A b \in Bin : bins'[p][b] = None
      /\ \A q \in Prefix \ {p} : bins'[q] = bins[q]
  BY DEF TypeOK, Removed
<1>2. ASSUME NEW s \in Svc
      PROVE  proc'[s] \in ProcRec /\ (proc[s] = Down => proc'[s] = Down)
  <2>1. proc[s] \in ProcRec
    BY DEF TypeOK, ProcRec
  <2>2. CASE proc[s].at = p
    BY <2>1, <2>2, StaleIs, PrefixAssumption DEF Removed
  <2>3. CASE proc[s].at # p
    BY <2>1, <2>3 DEF Removed
  <2> QED BY <2>2, <2>3
<1>3. proc' \in Procs
  BY <1>2 DEF Removed, Procs
<1> QED BY <1>1, <1>2, <1>3

(* Schema versions are numbers.                                            *)
LEMMA SchemaNat ==
  ASSUME NEW v \in Release \cup {0}
  PROVE  v \in Nat
BY ReleaseAssumption

LEMMA SchemaType == HostInv => data.schema \in Release \cup {0}
BY DEF HostInv, TypeOK

(* Of the services that are started those that are up could be, run what   *)
(* the units name and have migrated the database, and there is one if any  *)
(* could be.  The schema never goes back; a database stays, and one of     *)
(* another account stays as it is in a directory that has its owner.       *)
Migrated(S, ld) ==
    /\ \A s \in S : proc'[s].st = "up" =>
         /\ CanStart(s, ld) /\ proc'[s].at = ld[s] /\ proc'[s].fresh
         /\ s = "web" => proc'[s].bind = cfg.bind
         /\ bins[ld[s]][s] <= data'.schema
    /\ (\E s \in S : CanStart(s, ld)) => \E s \in S : proc'[s].st = "up"
    /\ data.schema <= data'.schema
    /\ \/ data'.schema = data.schema
       \/ \E s \in S : proc'[s].st = "up" /\ data'.schema = bins[ld[s]][s]

Owned ==
    /\ data.dir = user.uid => data'.dir = user.uid
    /\ data.db # None => data'.db # None
    /\ data.db \in {None, user.uid} => data'.db \in {None, user.uid}
    /\ data.db \notin {None, user.uid} /\ data.dir = user.uid => data'.db = data.db

LEMMA StartedIs ==
  ASSUME TypeOK, NEW old \in Procs, NEW S \in SUBSET Svc,
         NEW ld \in [Svc -> Prefix \cup {None}], StartedFrom(old, S, ld)
  PROVE  /\ proc' \in Procs
         /\ data' \in [dir : Uid \cup {None}, db : Uid \cup {None}, schema : Release \cup {0}]
         /\ \A s \in Svc \ S : proc'[s] = old[s]
         /\ Migrated(S, ld) /\ Owned
<1> DEFINE go == {s \in S : CanStart(s, ld)}
           version(s) == bins[ld[s]][s]
           late == {s \in go : \E t \in go \ {s} : data.schema < version(t)}
           chown == "agent" \in S /\ ld["agent"] # None /\ user.uid \notin {None, data.dir}
<1>1. PICK lost \in {{}} \cup {{s} : s \in late} :
        LET schemas == {data.schema} \cup {version(s) : s \in go \ lost} IN
        /\ proc' = [s \in Svc |->
                      IF s \in go \ lost
                        THEN [st |-> "up", at |-> ld[s], fresh |-> TRUE,
                              bind |-> IF s = "web" THEN cfg.bind ELSE "local"]
                      ELSE IF s \in S THEN [Down EXCEPT !.st = "failed"] ELSE old[s]]
        /\ \E v \in schemas :
             /\ \A w \in schemas : w <= v
             /\ data' = [dir |-> IF chown THEN user.uid ELSE data.dir,
                         db |-> IF go # {} \/ (chown /\ data.db # None)
                                  THEN user.uid ELSE data.db,
                         schema |-> v]
  BY DEF StartedFrom
<1> DEFINE ups == go \ lost
           schemas == {data.schema} \cup {version(s) : s \in ups}
<1>2. proc' = [s \in Svc |->
                 IF s \in ups THEN [st |-> "up", at |-> ld[s], fresh |-> TRUE,
                                    bind |-> IF s = "web" THEN cfg.bind ELSE "local"]
                 ELSE IF s \in S THEN [Down EXCEPT !.st = "failed"] ELSE old[s]]
  BY <1>1
<1>3. PICK v \in schemas :
        /\ \A w \in schemas : w <= v
        /\ data' = [dir |-> IF chown THEN user.uid ELSE data.dir,
                    db |-> IF go # {} \/ (chown /\ data.db # None) THEN user.uid ELSE data.db,
                    schema |-> v]
  BY <1>1
<1>4. go # {} => ups # {}
  BY <1>1
<1>5. \A s \in go : version(s) \in Release
  BY DEF CanStart
<1>6. [Down EXCEPT !.st = "failed"]
        = [st |-> "failed", at |-> None, fresh |-> FALSE, bind |-> "local"]
  <2>1. Down \in [st : {"down", "up", "failed"}, at : Prefix \cup {None},
                   fresh : BOOLEAN, bind : Bind]
    BY DEF Down, Bind
  <2>2. PICK d : d = [Down EXCEPT !.st = "failed"]
    OBVIOUS
  <2>3. d = [st |-> "failed", at |-> Down.at, fresh |-> Down.fresh, bind |-> Down.bind]
    BY <2>1, <2>2
  <2> QED BY <2>2, <2>3 DEF Down
<1>7. cfg.bind \in Bind /\ "local" \in Bind
  BY DEF TypeOK, Bind
<1>8. /\ user.uid \in Uid \cup {None} /\ data.dir \in Uid \cup {None}
      /\ data.db \in Uid \cup {None} /\ data.schema \in Release \cup {0}
  BY DEF TypeOK
<1>9. ups \subseteq go /\ go \subseteq S
  OBVIOUS
<1>10. proc' \in Procs
  <2> SUFFICES ASSUME NEW s \in Svc
               PROVE  proc'[s] \in ProcRec
    BY <1>2 DEF Procs
  <2> HIDE DEF ups, go
  <2>1. CASE s \in ups
    <3>1. (IF s = "web" THEN cfg.bind ELSE "local") \in Bind
      BY <1>7
    <3> QED BY <1>2, <2>1, <3>1 DEF ProcRec
  <2>2. CASE s \notin ups /\ s \in S
    BY <1>2, <1>6, <1>7, <2>2 DEF ProcRec
  <2>3. CASE s \notin ups /\ s \notin S
    BY <1>2, <2>3 DEF Procs
  <2> QED BY <2>1, <2>2, <2>3
<1>11. v \in Release \cup {0}
  BY <1>3, <1>5, <1>8, <1>9
<1>12. data' \in [dir : Uid \cup {None}, db : Uid \cup {None}, schema : Release \cup {0}]
  <2> HIDE DEF go, schemas
  <2> QED BY <1>3, <1>8, <1>11
<1>13. \A s \in Svc \ S : proc'[s] = old[s]
  BY <1>2, <1>9
<1>14. \A s \in S : proc'[s].st = "up" <=> s \in ups
  <2> HIDE DEF ups, go
  <2> QED BY <1>2, <1>6
<1>15. Migrated(S, ld)
  <2>1. ASSUME NEW s \in S, proc'[s].st = "up"
        PROVE  /\ CanStart(s, ld) /\ proc'[s].at = ld[s] /\ proc'[s].fresh
               /\ s = "web" => proc'[s].bind = cfg.bind
               /\ version(s) <= data'.schema
    <3>1. s \in ups
      BY <1>14, <2>1
    <3>2. CanStart(s, ld)
      BY <3>1
    <3>3. version(s) <= data'.schema
      BY <1>3, <3>1
    <3> HIDE DEF ups, version
    <3> QED BY <1>2, <3>1, <3>2, <3>3
  <2>2. (\E s \in S : CanStart(s, ld)) => \E s \in S : proc'[s].st = "up"
    <3>1. (\E s \in S : CanStart(s, ld)) => go # {}
      OBVIOUS
    <3> HIDE DEF go, ups
    <3> QED BY <1>4, <1>9, <1>14, <3>1
  <2>3. data.schema <= data'.schema
    BY <1>3
  <2>4. \/ data'.schema = data.schema
        \/ \E s \in S : proc'[s].st = "up" /\ data'.schema = version(s)
    <3>1. v = data.schema \/ \E s \in ups : v = version(s)
      BY <1>3
    <3> HIDE DEF go, ups, version, schemas
    <3> QED BY <1>3, <1>9, <1>14, <3>1
  <2> QED BY <2>1, <2>2, <2>3, <2>4 DEF Migrated
<1>16. go # {} => user.uid # None /\ (data.db \in {None, user.uid} \/ data.dir # user.uid)
  BY DEF CanStart, OwnerOK
<1>17. Owned
  <2> HIDE DEF go, schemas
  <2> QED BY <1>3, <1>16 DEF Owned
<1> QED BY <1>10, <1>12, <1>13, <1>15, <1>17

(* What a restart of s starts, and what it leaves running.                 *)
LEMMA RestartSetIs ==
  ASSUME HostInv, NEW s \in Svc
  PROVE  /\ RestartSet(s) \in SUBSET Svc /\ s \in RestartSet(s)
         /\ \A t \in Svc \ RestartSet(s) : proc[t].st = "up" => s = "web" /\ t = "agent"
BY DEF RestartSet, Up, Svc

(* systemctl restart, of a service that runs or has a unit file.           *)
LEMMA RestartIs ==
  ASSUME HostInv, NEW s \in Svc, Started(RestartSet(s), loaded)
  PROVE  /\ proc' \in Procs
         /\ data' \in [dir : Uid \cup {None}, db : Uid \cup {None}, schema : Release \cup {0}]
         /\ \A t \in Svc \ RestartSet(s) : proc'[t] = proc[t]
         /\ Migrated(RestartSet(s), loaded) /\ Owned
<1>1. TypeOK /\ proc \in Procs /\ loaded \in [Svc -> Prefix \cup {None}]
  BY DEF HostInv, TypeOK, Procs, ProcRec
<1>2. PICK S \in SUBSET Svc : S = RestartSet(s)
  BY RestartSetIs
<1>3. StartedFrom(proc, S, loaded)
  BY <1>2 DEF Started
<1> QED BY <1>1, <1>2, <1>3, StartedIs

------------------------------------------------------------------------------
(* Every action preserves HostInv.                                         *)

(* groupadd, unless the group is there.                                    *)
LEMMA CreateGroupInv ==
  ASSUME HostInv, CreateGroup
  PROVE  HostInv'
<1>1. /\ op.pc = "group" /\ op.st = "run" /\ op'.pc = "user" /\ op' \in Ops /\ Kept
      /\ op'.hurt = op.hurt
  BY Goes DEF HostInv, OpOK, CreateGroup, At, Pcs
<1>2. /\ UNCHANGED <<bins, meta, data, unit, loaded, enabled, proc, port, ignored>>
      /\ cfg' \in [st : {"none", "bad", "ok"}, own : BOOLEAN, bind : Bind,
                   grp : {"svc", "other", "root", "all"}]
      /\ cfg'.st = cfg.st /\ cfg'.own = cfg.own
  BY DEF CreateGroup, HostInv, TypeOK
<1>3. RemoveOK' /\ UninstallOK' /\ SetupOK'
  BY <1>1, Elsewhere DEF Kept, InstallPcs, PastGroup, PastUser, PastCli, PastAgent,
     PastWeb, PastMeta, PastDirs, PastUnitA, PastEnableA, PastUnitW, PastEnableW
<1>4. AgentUnitOK' /\ CfgOK'
  BY <1>2 DEF HostInv, AgentUnitOK, CfgOK, Quiet
<1>5. TypeOK'
  <2>1. user' \in [uid : Uid \cup {None}, group : BOOLEAN]
    BY DEF HostInv, TypeOK, CreateGroup
  <2> QED BY <1>1, <1>2, <2>1 DEF HostInv, TypeOK, Ops, Pcs
<1>6. OpOK'
  BY <1>1, OpGoesOn DEF InstallPcs, PastGroup, PastUser, PastCli, PastAgent, PastWeb,
     PastMeta, PastDirs, PastUnitA, PastEnableA, PastUnitW, PastEnableW
<1>7. InstallOK'
  BY <1>1, <1>2, PrefixAssumption DEF HostInv, TypeOK, InstallOK, Svc, Bin, Kept,
     CreateGroup, InstallPcs, PastGroup, PastUser, PastCli, PastAgent, PastWeb, PastMeta,
     PastDirs, PastUnitA, PastEnableA, PastUnitW, PastEnableW
<1>8. StartOK'
  BY <1>1, <1>2 DEF HostInv, TypeOK, StartOK, Svc, Kept, CreateGroup, InstallPcs,
     PastGroup, PastUser, PastCli, PastAgent, PastWeb, PastMeta, PastDirs, PastUnitA,
     PastEnableA, PastUnitW, PastEnableW
<1> QED BY <1>3, <1>4, <1>5, <1>6, <1>7, <1>8 DEF HostInv

(* useradd, unless the account is there.                                   *)
LEMMA CreateUserInv ==
  ASSUME HostInv, CreateUser
  PROVE  HostInv'
<1>1. /\ op.pc = "user" /\ op.st = "run" /\ op'.pc = "cli" /\ op' \in Ops /\ Kept
      /\ op'.hurt = op.hurt
  BY Goes DEF HostInv, OpOK, CreateUser, At, Pcs
<1>2. UNCHANGED <<bins, meta, data, cfg, unit, loaded, enabled, proc, port, ignored>>
  BY DEF CreateUser, files
<1>3. RemoveOK' /\ UninstallOK' /\ SetupOK'
  BY <1>1, Elsewhere DEF Kept, InstallPcs, PastGroup, PastUser, PastCli, PastAgent,
     PastWeb, PastMeta, PastDirs, PastUnitA, PastEnableA, PastUnitW, PastEnableW
<1>4. AgentUnitOK' /\ CfgOK'
  BY <1>2 DEF HostInv, AgentUnitOK, CfgOK, Quiet
<1>5. TypeOK'
  BY <1>1, <1>2 DEF HostInv, TypeOK, Ops, Pcs, CreateUser
<1>6. OpOK'
  BY <1>1, OpGoesOn DEF InstallPcs, PastGroup, PastUser, PastCli, PastAgent, PastWeb,
     PastMeta, PastDirs, PastUnitA, PastEnableA, PastUnitW, PastEnableW
<1>7. InstallOK'
  BY <1>1, <1>2, PrefixAssumption DEF HostInv, TypeOK, InstallOK, Svc, Bin, Kept,
     CreateUser, InstallPcs, PastGroup, PastUser, PastCli, PastAgent, PastWeb, PastMeta,
     PastDirs, PastUnitA, PastEnableA, PastUnitW, PastEnableW
<1>8. StartOK'
  BY <1>1, <1>2 DEF HostInv, TypeOK, StartOK, Svc, Kept, CreateUser, InstallPcs,
     PastGroup, PastUser, PastCli, PastAgent, PastWeb, PastMeta, PastDirs, PastUnitA,
     PastEnableA, PastUnitW, PastEnableW
<1> QED BY <1>3, <1>4, <1>5, <1>6, <1>7, <1>8 DEF HostInv

(* install.json.                                                           *)
LEMMA InstallMetaInv ==
  ASSUME HostInv, InstallMeta
  PROVE  HostInv'
<1>1. /\ op.pc = "meta" /\ op.st = "run" /\ op'.pc = "dirs" /\ op' \in Ops /\ Kept
      /\ op'.hurt = op.hurt
  BY Goes DEF HostInv, OpOK, InstallMeta, At, Pcs
<1>2. UNCHANGED <<user, bins, data, cfg, unit, loaded, enabled, proc, port, ignored>>
  BY DEF InstallMeta
<1>3. RemoveOK' /\ UninstallOK' /\ SetupOK'
  BY <1>1, Elsewhere DEF Kept, InstallPcs, PastGroup, PastUser, PastCli, PastAgent,
     PastWeb, PastMeta, PastDirs, PastUnitA, PastEnableA, PastUnitW, PastEnableW
<1>4. AgentUnitOK' /\ CfgOK'
  BY <1>2 DEF HostInv, AgentUnitOK, CfgOK, Quiet
<1>5. TypeOK'
  BY <1>1, <1>2 DEF HostInv, TypeOK, Ops, Pcs, InstallMeta
<1>6. OpOK'
  BY <1>1, OpGoesOn DEF InstallPcs, PastGroup, PastUser, PastCli, PastAgent, PastWeb,
     PastMeta, PastDirs, PastUnitA, PastEnableA, PastUnitW, PastEnableW
<1>7. InstallOK'
  BY <1>1, <1>2, PrefixAssumption DEF HostInv, TypeOK, InstallOK, Svc, Bin, Kept,
     InstallMeta, InstallPcs, PastGroup, PastUser, PastCli, PastAgent, PastWeb, PastMeta,
     PastDirs, PastUnitA, PastEnableA, PastUnitW, PastEnableW
<1>8. StartOK'
  BY <1>1, <1>2 DEF HostInv, TypeOK, StartOK, Svc, Kept, InstallMeta, InstallPcs,
     PastGroup, PastUser, PastCli, PastAgent, PastWeb, PastMeta, PastDirs, PastUnitA,
     PastEnableA, PastUnitW, PastEnableW
<1> QED BY <1>3, <1>4, <1>5, <1>6, <1>7, <1>8 DEF HostInv

(* install -d.                                                             *)
LEMMA CreateDirectoriesInv ==
  ASSUME HostInv, CreateDirectories
  PROVE  HostInv'
<1>1. /\ op.pc = "dirs" /\ op.st = "run" /\ op'.pc = "config" /\ op' \in Ops /\ Kept
      /\ op'.hurt = op.hurt
  BY Goes DEF HostInv, OpOK, CreateDirectories, At, Pcs
<1>2. UNCHANGED <<user, bins, meta, cfg, unit, loaded, enabled, proc, port, ignored>>
  BY DEF CreateDirectories, files
<1>3. RemoveOK' /\ UninstallOK' /\ SetupOK'
  BY <1>1, Elsewhere DEF Kept, InstallPcs, PastGroup, PastUser, PastCli, PastAgent,
     PastWeb, PastMeta, PastDirs, PastUnitA, PastEnableA, PastUnitW, PastEnableW
<1>4. AgentUnitOK' /\ CfgOK'
  BY <1>2 DEF HostInv, AgentUnitOK, CfgOK, Quiet
<1>5. TypeOK'
  <2>1. data' \in [dir : Uid \cup {None}, db : Uid \cup {None}, schema : Release \cup {0}]
    BY DEF HostInv, TypeOK, CreateDirectories
  <2> QED BY <1>1, <1>2, <2>1 DEF HostInv, TypeOK, Ops, Pcs
<1>6. OpOK'
  BY <1>1, OpGoesOn DEF InstallPcs, PastGroup, PastUser, PastCli, PastAgent, PastWeb,
     PastMeta, PastDirs, PastUnitA, PastEnableA, PastUnitW, PastEnableW
<1>7. InstallOK'
  BY <1>1, <1>2, PrefixAssumption DEF HostInv, TypeOK, InstallOK, Svc, Bin, Kept,
     CreateDirectories, InstallPcs, PastGroup, PastUser, PastCli, PastAgent, PastWeb,
     PastMeta, PastDirs, PastUnitA, PastEnableA, PastUnitW, PastEnableW
<1>8. StartOK'
  BY <1>1, <1>2 DEF HostInv, TypeOK, StartOK, Svc, Kept, CreateDirectories, InstallPcs,
     PastGroup, PastUser, PastCli, PastAgent, PastWeb, PastMeta, PastDirs, PastUnitA,
     PastEnableA, PastUnitW, PastEnableW
<1> QED BY <1>3, <1>4, <1>5, <1>6, <1>7, <1>8 DEF HostInv

(* config.yaml, unless there is one.                                       *)
LEMMA InstallConfigInv ==
  ASSUME HostInv, InstallConfig
  PROVE  HostInv'
<1>1. CASE Then("unitA") /\ UNCHANGED cfg
  <2>1. /\ op.pc = "config" /\ op.st = "run" /\ op'.pc = "unitA" /\ op' \in Ops /\ Kept
        /\ op'.hurt = op.hurt
    BY <1>1, Goes DEF HostInv, OpOK, InstallConfig, At, Pcs
  <2>2. UNCHANGED <<user, bins, meta, data, cfg, unit, loaded, enabled, proc, port, ignored>>
    BY <1>1 DEF InstallConfig
  <2>3. RemoveOK' /\ UninstallOK' /\ SetupOK'
    BY <2>1, Elsewhere DEF Kept, InstallPcs, PastGroup, PastUser, PastCli, PastAgent,
       PastWeb, PastMeta, PastDirs, PastUnitA, PastEnableA, PastUnitW, PastEnableW
  <2>4. AgentUnitOK' /\ CfgOK'
    BY <2>2 DEF HostInv, AgentUnitOK, CfgOK, Quiet
  <2>5. TypeOK'
    BY <1>1, <2>1, <2>2 DEF HostInv, TypeOK, Ops, Pcs, Procs, ProcRec
  <2>6. OpOK'
    BY <2>1, OpGoesOn DEF InstallPcs, PastGroup, PastUser, PastCli, PastAgent, PastWeb,
       PastMeta, PastDirs, PastUnitA, PastEnableA, PastUnitW, PastEnableW
  <2>7. InstallOK'
    BY <1>1, <2>1, <2>2, PrefixAssumption DEF HostInv, TypeOK, InstallOK, Svc, Bin,
       Kept, InstallPcs, PastGroup, PastUser, PastCli, PastAgent, PastWeb, PastMeta,
       PastDirs, PastUnitA, PastEnableA, PastUnitW, PastEnableW
  <2>8. StartOK'
    BY <1>1, <2>1, <2>2 DEF HostInv, TypeOK, StartOK, Svc, Kept, InstallPcs, PastGroup,
       PastUser, PastCli, PastAgent, PastWeb, PastMeta, PastDirs, PastUnitA, PastEnableA,
       PastUnitW, PastEnableW
  <2> QED BY <2>3, <2>4, <2>5, <2>6, <2>7, <2>8 DEF HostInv
<1>2. CASE /\ cfg.st = "none" /\ Then("unitA")
           /\ cfg' = [NoCfg EXCEPT !.st = "ok", !.grp = "svc"]
  <2>1. /\ op.pc = "config" /\ op.st = "run" /\ op'.pc = "unitA" /\ op' \in Ops /\ Kept
        /\ op'.hurt = op.hurt
    BY <1>2, Goes DEF HostInv, OpOK, InstallConfig, At, Pcs
  <2>2. UNCHANGED <<user, bins, meta, data, unit, loaded, enabled, proc, port, ignored>>
    BY <1>2 DEF InstallConfig
  <2>3. RemoveOK' /\ UninstallOK' /\ SetupOK'
    BY <2>1, Elsewhere DEF Kept, InstallPcs, PastGroup, PastUser, PastCli, PastAgent,
       PastWeb, PastMeta, PastDirs, PastUnitA, PastEnableA, PastUnitW, PastEnableW
  <2>4. AgentUnitOK'
    BY <2>2 DEF HostInv, AgentUnitOK, Quiet
  <2>5. TypeOK'
    <3>1. cfg' \in [st : {"none", "bad", "ok"}, own : BOOLEAN, bind : Bind,
                    grp : {"svc", "other", "root", "all"}]
      BY <1>2 DEF NoCfg, Bind
    <3> QED BY <2>1, <2>2, <3>1 DEF HostInv, TypeOK, Ops, Pcs
  <2>6. OpOK'
    BY <2>1, OpGoesOn DEF InstallPcs, PastGroup, PastUser, PastCli, PastAgent, PastWeb,
       PastMeta, PastDirs, PastUnitA, PastEnableA, PastUnitW, PastEnableW
  <2>7. InstallOK'
    BY <1>2, <2>1, <2>2, PrefixAssumption DEF HostInv, TypeOK, InstallOK, Svc, Bin,
       Kept, InstallConfig, InstallPcs, PastGroup, PastUser, PastCli, PastAgent, PastWeb,
       PastMeta, PastDirs, PastUnitA, PastEnableA, PastUnitW, PastEnableW
  <2>8. StartOK'
    BY <1>2, <2>1, <2>2 DEF HostInv, TypeOK, StartOK, Svc, Kept, InstallConfig,
       InstallPcs, PastGroup, PastUser, PastCli, PastAgent, PastWeb, PastMeta, PastDirs,
       PastUnitA, PastEnableA, PastUnitW, PastEnableW
  <2>9. CfgOK'
    BY <1>2, <2>1, <2>2 DEF HostInv, TypeOK, CfgOK, NoCfg, Kept, InstallConfig,
       InstallOK, InstallPcs, PastGroup, PastUser, PastCli, PastAgent, PastWeb, PastMeta,
       PastDirs, PastUnitA, PastEnableA, PastUnitW, PastEnableW
  <2> QED BY <2>3, <2>4, <2>5, <2>6, <2>7, <2>8, <2>9 DEF HostInv
<1>3. CASE /\ cfg.st = "none" /\ \E st \in {"bad", "ok"} : cfg' = [NoCfg EXCEPT !.st = st]
           /\ Disturbed("failed")
  <2>1. /\ op.pc = "config" /\ op.st = "run"
        /\ op'.pc = "idle" /\ op'.st = "failed" /\ op' \in Ops
        /\ op'.cmd = op.cmd /\ op'.hurt
    BY <1>3, FinishesHurt DEF HostInv, OpOK, InstallConfig, At, Pcs
  <2>2. UNCHANGED <<user, bins, meta, data, unit, loaded, enabled, proc, port, ignored>>
    BY <1>3 DEF InstallConfig
  <2>3. OpOK' /\ InstallOK' /\ StartOK' /\ RemoveOK' /\ UninstallOK' /\ SetupOK'
    BY <2>1, Elsewhere
  <2>4. AgentUnitOK'
    BY <2>2 DEF HostInv, AgentUnitOK, Quiet
  <2>5. TypeOK'
    <3>1. cfg' \in [st : {"none", "bad", "ok"}, own : BOOLEAN, bind : Bind,
                    grp : {"svc", "other", "root", "all"}]
      BY <1>3 DEF NoCfg, Bind
    <3> QED BY <2>1, <2>2, <3>1 DEF HostInv, TypeOK, Ops, Pcs
  <2>7. CfgOK'
    BY <1>3, <2>1, <2>2 DEF HostInv, TypeOK, CfgOK, NoCfg, InstallConfig, InstallOK,
       InstallPcs, PastGroup, PastUser, PastCli, PastAgent, PastWeb, PastMeta, PastDirs,
       PastUnitA, PastEnableA, PastUnitW, PastEnableW
  <2> QED BY <2>3, <2>4, <2>5, <2>7 DEF HostInv
<1> QED BY <1>1, <1>2, <1>3 DEF InstallConfig

(* systemctl disable --now, which may fail.                                *)
LEMMA RemoveDisableInv ==
  ASSUME HostInv, RemoveDisable
  PROVE  HostInv'
<1>1. CASE /\ Then("rmUnits") /\ Stop("agent")
           /\ enabled' = [s \in Svc |-> FALSE] /\ UNCHANGED ignored
  <2>1. /\ op.pc = "disable" /\ op.st = "run" /\ op'.pc = "rmUnits" /\ op' \in Ops /\ Kept
        /\ op'.hurt = op.hurt
    BY <1>1, Goes DEF HostInv, OpOK, RemoveDisable, At, Pcs, Stop, StopSet
  <2>2. UNCHANGED <<user, bins, meta, data, cfg, unit, loaded, port, ignored>>
    BY <1>1 DEF RemoveDisable, Stop, StopSet, files
  <2>3. InstallOK' /\ StartOK' /\ UninstallOK' /\ SetupOK'
    BY <2>1, Elsewhere DEF Kept, RemovePcs
  <2>4. CfgOK'
    BY <2>2 DEF HostInv, CfgOK
  <2>5. TypeOK'
    BY <1>1, <2>1, <2>2 DEF HostInv, TypeOK, Ops, Pcs, RemoveDisable, Stop, StopSet,
       Down, Bind
  <2>6. OpOK'
    BY <2>1, OpGoesOn DEF RemovePcs
  <2>7. RemoveOK'
    BY <1>1, <2>1, <2>2 DEF HostInv, TypeOK, RemoveOK, Quiet, Svc, Bin, Kept,
       RemoveDisable, Stop, StopSet, RemovePcs
  <2>8. AgentUnitOK'
    BY <1>1, <2>1, <2>2 DEF HostInv, TypeOK, AgentUnitOK, Quiet, Svc, Down, Kept,
       RemoveDisable, Stop, StopSet, RemoveOK, RemovePcs
  <2> QED BY <2>3, <2>4, <2>5, <2>6, <2>7, <2>8 DEF HostInv
<1>2. CASE Ignored("rmUnits") /\ ignored' = TRUE /\ UNCHANGED <<proc, enabled>>
  <2>1. /\ op.pc = "disable" /\ op.st = "run" /\ op'.pc = "rmUnits" /\ op' \in Ops /\ Kept
        /\ op'.hurt
    BY <1>2, GoesHurt DEF HostInv, OpOK, RemoveDisable, At, Pcs
  <2>2. UNCHANGED <<user, bins, meta, data, cfg, unit, loaded, enabled, proc, port>>
    BY <1>2 DEF RemoveDisable, files
  <2>3. InstallOK' /\ StartOK' /\ UninstallOK' /\ SetupOK'
    BY <2>1, Elsewhere DEF Kept, RemovePcs
  <2>4. CfgOK'
    BY <2>2 DEF HostInv, CfgOK
  <2>5. TypeOK'
    BY <1>2, <2>1, <2>2 DEF HostInv, TypeOK, Ops, Pcs, RemoveDisable
  <2>6. OpOK'
    BY <2>1, OpGoesOn DEF RemovePcs
  <2>7. RemoveOK'
    BY <1>2, <2>1, <2>2 DEF HostInv, TypeOK, RemoveOK, Quiet, Svc, Bin, Kept,
       RemoveDisable, RemovePcs
  <2>8. AgentUnitOK'
    BY <1>2, <2>1, <2>2 DEF HostInv, TypeOK, AgentUnitOK, Quiet, Svc, Down, Kept,
       RemoveDisable, RemoveOK, RemovePcs
  <2> QED BY <2>3, <2>4, <2>5, <2>6, <2>7, <2>8 DEF HostInv
<1>3. CASE unit["agent"] = None /\ Then("rmUnits") /\ UNCHANGED <<proc, enabled, ignored>>
  <2>1. /\ op.pc = "disable" /\ op.st = "run" /\ op'.pc = "rmUnits" /\ op' \in Ops /\ Kept
        /\ op'.hurt = op.hurt
    BY <1>3, Goes DEF HostInv, OpOK, RemoveDisable, At, Pcs
  <2>2. UNCHANGED <<user, bins, meta, data, cfg, unit, loaded, enabled, proc, port, ignored>>
    BY <1>3 DEF RemoveDisable, files
  <2>3. InstallOK' /\ StartOK' /\ UninstallOK' /\ SetupOK'
    BY <2>1, Elsewhere DEF Kept, RemovePcs
  <2>4. AgentUnitOK' /\ CfgOK'
    BY <2>2 DEF HostInv, AgentUnitOK, CfgOK, Quiet
  <2>5. TypeOK'
    BY <1>3, <2>1, <2>2 DEF HostInv, TypeOK, Ops, Pcs, Procs, ProcRec
  <2>6. OpOK'
    BY <2>1, OpGoesOn DEF RemovePcs
  <2>7. RemoveOK'
    BY <1>3, <2>1, <2>2 DEF HostInv, RemoveOK, AgentUnitOK, Quiet, Kept, RemovePcs
  <2> QED BY <2>3, <2>4, <2>5, <2>6, <2>7 DEF HostInv
<1> QED BY <1>1, <1>2, <1>3 DEF RemoveDisable

(* rm of both unit files, which may stop after the first.                  *)
LEMMA RemoveUnitsInv ==
  ASSUME HostInv, RemoveUnits
  PROVE  HostInv'
<1>1. CASE Then("rmReload") /\ unit' = [s \in Svc |-> None] /\ UNCHANGED ignored
  <2>1. /\ op.pc = "rmUnits" /\ op.st = "run" /\ op'.pc = "rmReload" /\ op' \in Ops /\ Kept
        /\ op'.hurt = op.hurt
    BY <1>1, Goes DEF HostInv, OpOK, RemoveUnits, At, Pcs
  <2>2. UNCHANGED <<user, bins, meta, data, cfg, loaded, enabled, proc, port, ignored>>
    BY <1>1 DEF RemoveUnits
  <2>3. InstallOK' /\ StartOK' /\ UninstallOK' /\ SetupOK'
    BY <2>1, Elsewhere DEF Kept, RemovePcs
  <2>4. CfgOK'
    BY <2>2 DEF HostInv, CfgOK
  <2>5. TypeOK'
    BY <1>1, <2>1, <2>2 DEF HostInv, TypeOK, Ops, Pcs, RemoveUnits
  <2>6. OpOK'
    BY <2>1, OpGoesOn DEF RemovePcs
  <2>7. RemoveOK'
    BY <1>1, <2>1, <2>2 DEF HostInv, TypeOK, RemoveOK, Quiet, Svc, Bin, Kept, RemoveUnits,
       RemovePcs
  <2>8. AgentUnitOK'
    BY <1>1, <2>1, <2>2 DEF HostInv, TypeOK, AgentUnitOK, Quiet, Svc, Down, Kept, RemoveUnits,
       RemoveOK, RemovePcs
  <2> QED BY <2>3, <2>4, <2>5, <2>6, <2>7, <2>8 DEF HostInv
<1>2. CASE /\ Disturbed("failed")
           /\ unit' = [unit EXCEPT !["agent"] = None] /\ ignored' = TRUE
  <2>1. op' \in Ops /\ op'.pc = "idle" /\ op'.st = "failed"
    BY <1>2, FinishesHurt
  <2>2. UNCHANGED <<user, bins, meta, data, cfg, loaded, enabled, proc, port>>
    BY DEF RemoveUnits
  <2>3. OpOK' /\ InstallOK' /\ StartOK' /\ RemoveOK' /\ UninstallOK' /\ SetupOK'
    BY <2>1, Elsewhere
  <2>4. AgentUnitOK' /\ CfgOK'
    BY <1>2, <2>2 DEF HostInv, AgentUnitOK, CfgOK
  <2>5. unit' \in [Svc -> Prefix \cup {None}] /\ ignored' \in BOOLEAN
    BY <1>2 DEF HostInv, TypeOK
  <2>6. TypeOK'
    BY <2>1, <2>2, <2>5 DEF HostInv, TypeOK, Ops, Pcs
  <2> QED BY <2>3, <2>4, <2>6 DEF HostInv
<1> QED BY <1>1, <1>2 DEF RemoveUnits

(* rm of the binaries, when no unit names them.                            *)
LEMMA RemoveBinariesInv ==
  ASSUME HostInv, RemoveBinaries
  PROVE  HostInv'
<1>1. /\ op.pc = "rmBins" /\ op.st = "run" /\ op'.pc = "userdel" /\ op' \in Ops /\ Kept
      /\ op'.hurt = op.hurt
  BY Goes DEF HostInv, OpOK, RemoveBinaries, At, Pcs, Removed
<1>2. UNCHANGED <<user, meta, data, cfg, unit, loaded, enabled, port, ignored>>
  BY DEF RemoveBinaries, Removed
<1>3. InstallOK' /\ StartOK' /\ UninstallOK' /\ SetupOK'
  BY <1>1, Elsewhere DEF Kept, RemovePcs
<1>4. CfgOK'
  BY <1>2 DEF HostInv, CfgOK
<1>5. TypeOK'
  <2>1. TypeOK /\ op.p \in Prefix
    BY OpType DEF HostInv, Ops
  <2>2. /\ bins' \in [Prefix -> [Bin -> Release \cup {None, Part}]] /\ proc' \in Procs
    BY <2>1, RemovedIs DEF RemoveBinaries
  <2> QED BY <1>1, <1>2, <2>2 DEF HostInv, TypeOK, Ops, Pcs, Procs, ProcRec
<1>6. OpOK'
  BY <1>1, OpGoesOn DEF RemovePcs
<1>7. RemoveOK'
  <2>1. TypeOK /\ op.p \in Prefix
    BY OpType DEF HostInv, Ops
  <2>2. /\ \A b \in Bin : bins'[op.p][b] = None
        /\ \A s \in Svc : proc[s] = Down => proc'[s] = Down
    BY <2>1, RemovedIs DEF RemoveBinaries
  <2> QED BY <1>1, <1>2, <2>2 DEF HostInv, RemoveOK, Quiet, Kept, RemovePcs
<1>8. AgentUnitOK'
  <2>1. TypeOK /\ op.p \in Prefix
    BY OpType DEF HostInv, Ops
  <2>2. \A s \in Svc : proc[s] = Down => proc'[s] = Down
    BY <2>1, RemovedIs DEF RemoveBinaries
  <2> QED BY <1>1, <1>2, <2>2 DEF HostInv, AgentUnitOK, Quiet
<1> QED BY <1>3, <1>4, <1>5, <1>6, <1>7, <1>8 DEF HostInv

(* userdel, which may refuse.                                              *)
LEMMA RemoveUserInv ==
  ASSUME HostInv, RemoveUser
  PROVE  HostInv'
<1>1. CASE Finish("ok")
  <2>1. /\ op.pc = "userdel" /\ op.st = "run"
        /\ op'.pc = "idle" /\ op'.st = "ok" /\ op' \in Ops
        /\ op'.cmd = op.cmd /\ op'.hurt = op.hurt
    BY <1>1, Finishes DEF HostInv, OpOK, RemoveUser, At, Pcs
  <2>2. UNCHANGED <<bins, meta, data, cfg, unit, loaded, enabled, proc, port, ignored>>
    BY <1>1 DEF RemoveUser, files
  <2>3. OpOK' /\ InstallOK' /\ StartOK' /\ RemoveOK' /\ UninstallOK' /\ SetupOK'
    BY <2>1, Elsewhere
  <2>4. AgentUnitOK' /\ CfgOK'
    BY <2>2 DEF HostInv, AgentUnitOK, CfgOK, Quiet
  <2>5. TypeOK'
    <3>1. user' \in [uid : Uid \cup {None}, group : BOOLEAN]
      <4>1. user' = user \/ user' = [uid |-> None, group |-> FALSE]
        BY DEF RemoveUser
      <4>2. CASE user' = user
        BY <4>2 DEF HostInv, TypeOK
      <4>3. CASE user' = [uid |-> None, group |-> FALSE]
        BY <4>3
      <4> QED BY <4>1, <4>2, <4>3
    <3> QED BY <2>1, <2>2, <3>1 DEF HostInv, TypeOK, Ops, Pcs
  <2> QED BY <2>3, <2>4, <2>5 DEF HostInv
<1>2. CASE Unnoticed /\ UNCHANGED user
  <2>1. /\ op.pc = "userdel" /\ op.st = "run"
        /\ op'.pc = "idle" /\ op'.st = "ok" /\ op' \in Ops
        /\ op'.cmd = op.cmd /\ op'.hurt
    BY <1>2, FinishesHurt DEF HostInv, OpOK, RemoveUser, At, Pcs
  <2>2. UNCHANGED <<user, bins, meta, data, cfg, unit, loaded, enabled, proc, port, ignored>>
    BY <1>2 DEF RemoveUser, files
  <2>3. OpOK' /\ InstallOK' /\ StartOK' /\ RemoveOK' /\ UninstallOK' /\ SetupOK'
    BY <2>1, Elsewhere
  <2>4. AgentUnitOK' /\ CfgOK'
    BY <2>2 DEF HostInv, AgentUnitOK, CfgOK, Quiet
  <2>5. TypeOK'
    BY <1>2, <2>1, <2>2 DEF HostInv, TypeOK, Ops, Pcs, Procs, ProcRec
  <2> QED BY <2>3, <2>4, <2>5 DEF HostInv
<1> QED BY <1>1, <1>2 DEF RemoveUser

(* removeContents of the data directory.                                   *)
LEMMA PurgeDataInv ==
  ASSUME HostInv, PurgeData
  PROVE  HostInv'
<1>1. /\ op.pc = "purgeData" /\ op.st = "run" /\ op'.pc = "purgeCfg" /\ op' \in Ops /\ Kept
      /\ op'.hurt = op.hurt
  BY Goes DEF HostInv, OpOK, PurgeData, At, Pcs
<1>2. UNCHANGED <<user, bins, meta, cfg, unit, loaded, enabled, proc, port, ignored>>
  BY DEF PurgeData, files
<1>3. InstallOK' /\ StartOK' /\ RemoveOK' /\ SetupOK'
  BY <1>1, Elsewhere DEF Kept, UninstallPcs, PastDisableW, PastStopA, PastDisableA,
     PastRmUnitW, PastRmUnitA, PastReload, PurgePcs
<1>4. AgentUnitOK' /\ CfgOK'
  BY <1>2 DEF HostInv, AgentUnitOK, CfgOK, Quiet
<1>5. TypeOK'
  <2>1. data' \in [dir : Uid \cup {None}, db : Uid \cup {None}, schema : Release \cup {0}]
    BY DEF HostInv, TypeOK, PurgeData
  <2> QED BY <1>1, <1>2, <2>1 DEF HostInv, TypeOK, Ops, Pcs
<1>6. OpOK'
  BY <1>1, OpGoesOn DEF UninstallPcs, PastDisableW, PastStopA, PastDisableA,
     PastRmUnitW, PastRmUnitA, PastReload, PurgePcs
<1>7. UninstallOK'
  BY <1>1, <1>2 DEF HostInv, TypeOK, UninstallOK, Svc, Bin, Quiet, Kept, PurgeData,
     UninstallPcs, PastDisableW, PastStopA, PastDisableA, PastRmUnitW, PastRmUnitA,
     PastReload, PurgePcs
<1> QED BY <1>3, <1>4, <1>5, <1>6, <1>7 DEF HostInv

(* removeContents of the configuration.                                    *)
LEMMA PurgeConfigInv ==
  ASSUME HostInv, PurgeConfig
  PROVE  HostInv'
<1>1. /\ op.pc = "purgeCfg" /\ op.st = "run" /\ op'.pc = "idle" /\ op'.st = "ok" /\ op' \in Ops
      /\ op'.cmd = op.cmd /\ op'.hurt = op.hurt
  BY Finishes DEF HostInv, OpOK, PurgeConfig, At, Pcs
<1>2. UNCHANGED <<user, bins, data, unit, loaded, enabled, proc, port, ignored>>
  BY DEF PurgeConfig
<1>3. OpOK' /\ InstallOK' /\ StartOK' /\ RemoveOK' /\ UninstallOK' /\ SetupOK'
  BY <1>1, Elsewhere
<1>4. AgentUnitOK'
  BY <1>2 DEF HostInv, AgentUnitOK, Quiet
<1>5. TypeOK'
  BY <1>1, <1>2 DEF HostInv, TypeOK, Ops, Pcs, PurgeConfig, NoCfg, Bind
<1>7. CfgOK'
  BY <1>1, <1>2 DEF HostInv, TypeOK, CfgOK, NoCfg, PurgeConfig, UninstallOK,
     UninstallPcs, PastDisableW, PastStopA, PastDisableA, PastRmUnitW, PastRmUnitA,
     PastReload, PurgePcs
<1> QED BY <1>3, <1>4, <1>5, <1>7 DEF HostInv

(* daemon-reload, which may fail.                                          *)
LEMMA UninstallReloadInv ==
  ASSUME HostInv, UninstallReload
  PROVE  HostInv'
<1>1. CASE loaded' = unit /\ Then("uRmBins")
  <2>1. /\ op.pc = "uReload" /\ op.st = "run" /\ op'.pc = "uRmBins" /\ op' \in Ops /\ Kept
        /\ op'.hurt = op.hurt
    BY <1>1, Goes DEF HostInv, OpOK, UninstallReload, At, Pcs
  <2>2. UNCHANGED <<user, bins, meta, data, cfg, unit, enabled, proc, port, ignored>>
    BY <1>1 DEF UninstallReload, files
  <2>3. InstallOK' /\ StartOK' /\ RemoveOK' /\ SetupOK'
    BY <2>1, Elsewhere DEF Kept, UninstallPcs, PastDisableW, PastStopA, PastDisableA,
       PastRmUnitW, PastRmUnitA, PastReload, PurgePcs
  <2>4. AgentUnitOK' /\ CfgOK'
    BY <2>2 DEF HostInv, AgentUnitOK, CfgOK, Quiet
  <2>5. TypeOK'
    BY <1>1, <2>1, <2>2 DEF HostInv, TypeOK, Ops, Pcs, UninstallReload
  <2>6. OpOK'
    BY <2>1, OpGoesOn, <1>1 DEF UninstallPcs, PastDisableW, PastStopA, PastDisableA,
       PastRmUnitW, PastRmUnitA, PastReload, PurgePcs
  <2>7. UninstallOK'
    BY <1>1, <2>1, <2>2 DEF HostInv, TypeOK, UninstallOK, Svc, Bin, Quiet, Kept,
       UninstallReload, UninstallPcs, PastDisableW, PastStopA, PastDisableA, PastRmUnitW,
       PastRmUnitA, PastReload, PurgePcs
  <2> QED BY <2>3, <2>4, <2>5, <2>6, <2>7 DEF HostInv
<1>2. CASE Ignored("uRmBins") /\ UNCHANGED loaded
  <2>1. /\ op.pc = "uReload" /\ op.st = "run" /\ op'.pc = "uRmBins" /\ op' \in Ops /\ Kept
        /\ op'.hurt
    BY <1>2, GoesHurt DEF HostInv, OpOK, UninstallReload, At, Pcs
  <2>2. UNCHANGED <<user, bins, meta, data, cfg, unit, loaded, enabled, proc, port, ignored>>
    BY <1>2 DEF UninstallReload, files
  <2>3. InstallOK' /\ StartOK' /\ RemoveOK' /\ SetupOK'
    BY <2>1, Elsewhere DEF Kept, UninstallPcs, PastDisableW, PastStopA, PastDisableA,
       PastRmUnitW, PastRmUnitA, PastReload, PurgePcs
  <2>4. AgentUnitOK' /\ CfgOK'
    BY <2>2 DEF HostInv, AgentUnitOK, CfgOK, Quiet
  <2>5. TypeOK'
    BY <1>2, <2>1, <2>2 DEF HostInv, TypeOK, Ops, Pcs, Procs, ProcRec
  <2>6. OpOK'
    BY <2>1, OpGoesOn, <1>2 DEF UninstallPcs, PastDisableW, PastStopA, PastDisableA,
       PastRmUnitW, PastRmUnitA, PastReload, PurgePcs
  <2>7. UninstallOK'
    BY <1>2, <2>1, <2>2 DEF HostInv, TypeOK, UninstallOK, Svc, Bin, Quiet, Kept,
       UninstallPcs, PastDisableW, PastStopA, PastDisableA, PastRmUnitW, PastRmUnitA,
       PastReload, PurgePcs
  <2> QED BY <2>3, <2>4, <2>5, <2>6, <2>7 DEF HostInv
<1> QED BY <1>1, <1>2 DEF UninstallReload

(* The binaries of /usr/local/bin, when no unit names them.                *)
LEMMA UninstallBinariesInv ==
  ASSUME HostInv, UninstallBinaries
  PROVE  HostInv'
<1>1. CASE Removed(UsrLocal) /\ op.cmd = "purge" /\ Then("purgeData")
  <2>1. /\ op.pc = "uRmBins" /\ op.st = "run" /\ op'.pc = "purgeData" /\ op' \in Ops /\ Kept
        /\ op'.hurt = op.hurt
    BY <1>1, Goes DEF HostInv, OpOK, UninstallBinaries, At, Pcs, Removed
  <2>2. UNCHANGED <<user, meta, data, cfg, unit, loaded, enabled, port, ignored>>
    BY <1>1 DEF UninstallBinaries, Removed
  <2>3. InstallOK' /\ StartOK' /\ RemoveOK' /\ SetupOK'
    BY <2>1, Elsewhere DEF Kept, UninstallPcs, PastDisableW, PastStopA, PastDisableA,
       PastRmUnitW, PastRmUnitA, PastReload, PurgePcs
  <2>4. CfgOK'
    BY <2>2 DEF HostInv, CfgOK
  <2>5. TypeOK'
    <3>1. /\ bins' \in [Prefix -> [Bin -> Release \cup {None, Part}]] /\ proc' \in Procs
      BY <1>1, RemovedIs, PrefixAssumption DEF HostInv
    <3> QED BY <2>1, <2>2, <3>1 DEF HostInv, TypeOK, Ops, Pcs, Procs, ProcRec
  <2>6. OpOK'
    BY <2>1, OpGoesOn, <1>1 DEF UninstallPcs, PastDisableW, PastStopA, PastDisableA,
       PastRmUnitW, PastRmUnitA, PastReload, PurgePcs
  <2>7. UninstallOK'
    <3>1. /\ \A b \in Bin : bins'[UsrLocal][b] = None
          /\ \A s \in Svc : proc[s] = Down => proc'[s] = Down
      BY <1>1, RemovedIs, PrefixAssumption DEF HostInv
    <3> QED BY <2>1, <2>2, <3>1 DEF HostInv, UninstallOK, Kept, UninstallPcs, PastDisableW,
            PastStopA, PastDisableA, PastRmUnitW, PastRmUnitA, PastReload, PurgePcs
  <2>8. AgentUnitOK'
    <3>1. \A s \in Svc : proc[s] = Down => proc'[s] = Down
      BY <1>1, RemovedIs, PrefixAssumption DEF HostInv
    <3> QED BY <2>2, <3>1 DEF HostInv, AgentUnitOK, Quiet
  <2> QED BY <2>3, <2>4, <2>5, <2>6, <2>7, <2>8 DEF HostInv
<1>2. CASE Removed(UsrLocal) /\ op.cmd # "purge" /\ Finish("ok")
  <2>1. /\ op.pc = "uRmBins" /\ op.st = "run"
        /\ op'.pc = "idle" /\ op'.st = "ok" /\ op' \in Ops
        /\ op'.cmd = op.cmd /\ op'.hurt = op.hurt
    BY <1>2, Finishes DEF HostInv, OpOK, UninstallBinaries, At, Pcs, Removed
  <2>2. UNCHANGED <<user, meta, data, cfg, unit, loaded, enabled, port, ignored>>
    BY <1>2 DEF UninstallBinaries, Removed
  <2>3. OpOK' /\ InstallOK' /\ StartOK' /\ RemoveOK' /\ UninstallOK' /\ SetupOK'
    BY <2>1, Elsewhere
  <2>4. CfgOK'
    BY <2>2 DEF HostInv, CfgOK
  <2>5. TypeOK'
    <3>1. /\ bins' \in [Prefix -> [Bin -> Release \cup {None, Part}]] /\ proc' \in Procs
      BY <1>2, RemovedIs, PrefixAssumption DEF HostInv
    <3> QED BY <2>1, <2>2, <3>1 DEF HostInv, TypeOK, Ops, Pcs, Procs, ProcRec
  <2>7. AgentUnitOK'
    <3>1. \A s \in Svc : proc[s] = Down => proc'[s] = Down
      BY <1>2, RemovedIs, PrefixAssumption DEF HostInv
    <3> QED BY <2>2, <3>1 DEF HostInv, AgentUnitOK, Quiet
  <2> QED BY <2>3, <2>4, <2>5, <2>7 DEF HostInv
<1>3. CASE UNCHANGED <<bins, proc>> /\ op.cmd = "purge" /\ Ignored("purgeData")
  <2>1. /\ op.pc = "uRmBins" /\ op.st = "run" /\ op'.pc = "purgeData" /\ op' \in Ops /\ Kept
        /\ op'.hurt
    BY <1>3, GoesHurt DEF HostInv, OpOK, UninstallBinaries, At, Pcs
  <2>2. UNCHANGED <<user, bins, meta, data, cfg, unit, loaded, enabled, proc, port, ignored>>
    BY <1>3 DEF UninstallBinaries
  <2>3. InstallOK' /\ StartOK' /\ RemoveOK' /\ SetupOK'
    BY <2>1, Elsewhere DEF Kept, UninstallPcs, PastDisableW, PastStopA, PastDisableA,
       PastRmUnitW, PastRmUnitA, PastReload, PurgePcs
  <2>4. AgentUnitOK' /\ CfgOK'
    BY <2>2 DEF HostInv, AgentUnitOK, CfgOK, Quiet
  <2>5. TypeOK'
    BY <1>3, <2>1, <2>2 DEF HostInv, TypeOK, Ops, Pcs, Procs, ProcRec
  <2>6. OpOK'
    BY <2>1, OpGoesOn, <1>3 DEF UninstallPcs, PastDisableW, PastStopA, PastDisableA,
       PastRmUnitW, PastRmUnitA, PastReload, PurgePcs
  <2>7. UninstallOK'
    BY <1>3, <2>1, <2>2 DEF HostInv, TypeOK, UninstallOK, Svc, Bin, Quiet, Kept,
       UninstallPcs, PastDisableW, PastStopA, PastDisableA, PastRmUnitW, PastRmUnitA,
       PastReload, PurgePcs
  <2> QED BY <2>3, <2>4, <2>5, <2>6, <2>7 DEF HostInv
<1>4. CASE UNCHANGED <<bins, proc>> /\ op.cmd # "purge" /\ Disturbed("ok")
  <2>1. /\ op.pc = "uRmBins" /\ op.st = "run"
        /\ op'.pc = "idle" /\ op'.st = "ok" /\ op' \in Ops
        /\ op'.cmd = op.cmd /\ op'.hurt
    BY <1>4, FinishesHurt DEF HostInv, OpOK, UninstallBinaries, At, Pcs
  <2>2. UNCHANGED <<user, bins, meta, data, cfg, unit, loaded, enabled, proc, port, ignored>>
    BY <1>4 DEF UninstallBinaries
  <2>3. OpOK' /\ InstallOK' /\ StartOK' /\ RemoveOK' /\ UninstallOK' /\ SetupOK'
    BY <2>1, Elsewhere
  <2>4. AgentUnitOK' /\ CfgOK'
    BY <2>2 DEF HostInv, AgentUnitOK, CfgOK, Quiet
  <2>5. TypeOK'
    BY <1>4, <2>1, <2>2 DEF HostInv, TypeOK, Ops, Pcs, Procs, ProcRec
  <2> QED BY <2>3, <2>4, <2>5 DEF HostInv
<1> QED BY <1>1, <1>2, <1>3, <1>4 DEF UninstallBinaries

(* The port, which may stay closed.                                        *)
LEMMA SetupFirewallInv ==
  ASSUME HostInv, SetupFirewall
  PROVE  HostInv'
<1>1. CASE port' = (port \/ op.allow) /\ Then("save")
  <2>1. /\ op.pc = "firewall" /\ op.st = "run" /\ op'.pc = "save" /\ op' \in Ops /\ Kept
        /\ op'.hurt = op.hurt
    BY <1>1, Goes DEF HostInv, OpOK, SetupFirewall, At, Pcs
  <2>2. UNCHANGED <<user, bins, meta, data, cfg, unit, loaded, enabled, proc, ignored>>
    BY <1>1 DEF SetupFirewall, files
  <2>3. InstallOK' /\ StartOK' /\ RemoveOK' /\ UninstallOK'
    BY <2>1, Elsewhere DEF Kept, SetupPcs
  <2>4. AgentUnitOK' /\ CfgOK'
    BY <2>2 DEF HostInv, AgentUnitOK, CfgOK, Quiet
  <2>5. TypeOK'
    BY <1>1, <2>1, <2>2 DEF HostInv, TypeOK, Ops, Pcs, SetupFirewall
  <2>6. OpOK'
    BY <2>1, OpGoesOn DEF SetupPcs
  <2>7. SetupOK'
    BY <1>1, <2>1, <2>2 DEF HostInv, TypeOK, SetupOK, Kept, SetupFirewall, SetupPcs
  <2> QED BY <2>3, <2>4, <2>5, <2>6, <2>7 DEF HostInv
<1>2. CASE Ignored("save") /\ UNCHANGED port
  <2>1. /\ op.pc = "firewall" /\ op.st = "run" /\ op'.pc = "save" /\ op' \in Ops /\ Kept
        /\ op'.hurt
    BY <1>2, GoesHurt DEF HostInv, OpOK, SetupFirewall, At, Pcs
  <2>2. UNCHANGED <<user, bins, meta, data, cfg, unit, loaded, enabled, proc, port, ignored>>
    BY <1>2 DEF SetupFirewall, files
  <2>3. InstallOK' /\ StartOK' /\ RemoveOK' /\ UninstallOK'
    BY <2>1, Elsewhere DEF Kept, SetupPcs
  <2>4. AgentUnitOK' /\ CfgOK'
    BY <2>2 DEF HostInv, AgentUnitOK, CfgOK, Quiet
  <2>5. TypeOK'
    BY <1>2, <2>1, <2>2 DEF HostInv, TypeOK, Ops, Pcs, Procs, ProcRec
  <2>6. OpOK'
    BY <2>1, OpGoesOn DEF SetupPcs
  <2>7. SetupOK'
    BY <1>2, <2>1, <2>2 DEF HostInv, TypeOK, SetupOK, Kept, SetupPcs
  <2> QED BY <2>3, <2>4, <2>5, <2>6, <2>7 DEF HostInv
<1> QED BY <1>1, <1>2 DEF SetupFirewall

(* saveBind writes the settings back, or is cut short.                     *)
LEMMA SaveWriteInv ==
  ASSUME HostInv, SaveWrite
  PROVE  HostInv'
<1>1. CASE /\ Then("restart")
           /\ cfg' = [cfg EXCEPT !.st = "ok", !.own = op.own, !.bind = op.bind]
  <2>1. /\ op.pc = "fill" /\ op.st = "run" /\ op'.pc = "restart" /\ op' \in Ops /\ Kept
        /\ op'.hurt = op.hurt
    BY <1>1, Goes DEF HostInv, OpOK, SaveWrite, At, Pcs
  <2>2. UNCHANGED <<user, bins, meta, data, unit, loaded, enabled, proc, port, ignored>>
    BY <1>1 DEF SaveWrite
  <2>3. InstallOK' /\ StartOK' /\ RemoveOK' /\ UninstallOK'
    BY <2>1, Elsewhere DEF Kept, SetupPcs
  <2>4. AgentUnitOK'
    BY <2>2 DEF HostInv, AgentUnitOK, Quiet
  <2>5. TypeOK'
    <3>1. op.own \in BOOLEAN /\ op.bind \in Bind
      BY OpType DEF Ops
    <3>2. cfg' \in [st : {"none", "bad", "ok"}, own : BOOLEAN, bind : Bind,
                    grp : {"svc", "other", "root", "all"}]
      BY <1>1, <3>1 DEF HostInv, TypeOK
    <3> QED BY <2>1, <2>2, <3>2 DEF HostInv, TypeOK, Ops, Pcs
  <2>6. OpOK'
    BY <2>1, OpGoesOn DEF SetupPcs
  <2>7. SetupOK'
    BY <1>1, <2>1, <2>2 DEF HostInv, TypeOK, SetupOK, Kept, SaveWrite, SetupPcs
  <2>8. CfgOK'
    BY <1>1, <2>1, <2>2 DEF HostInv, TypeOK, CfgOK, NoCfg, Kept, SaveWrite, SetupOK,
       SetupPcs
  <2> QED BY <2>3, <2>4, <2>5, <2>6, <2>7, <2>8 DEF HostInv
<1>2. CASE Disturbed("failed") /\ cfg' = [cfg EXCEPT !.st = "bad"]
  <2>1. /\ op.pc = "fill" /\ op.st = "run"
        /\ op'.pc = "idle" /\ op'.st = "failed" /\ op' \in Ops
        /\ op'.cmd = op.cmd /\ op'.hurt
    BY <1>2, FinishesHurt DEF HostInv, OpOK, SaveWrite, At, Pcs
  <2>2. UNCHANGED <<user, bins, meta, data, unit, loaded, enabled, proc, port, ignored>>
    BY <1>2 DEF SaveWrite
  <2>3. OpOK' /\ InstallOK' /\ StartOK' /\ RemoveOK' /\ UninstallOK' /\ SetupOK'
    BY <2>1, Elsewhere
  <2>4. AgentUnitOK'
    BY <2>2 DEF HostInv, AgentUnitOK, Quiet
  <2>5. TypeOK'
    <3>1. cfg' \in [st : {"none", "bad", "ok"}, own : BOOLEAN, bind : Bind,
                    grp : {"svc", "other", "root", "all"}]
      BY <1>2 DEF HostInv, TypeOK
    <3> QED BY <2>1, <2>2, <3>1 DEF HostInv, TypeOK, Ops, Pcs
  <2>7. CfgOK'
    BY <1>2, <2>1, <2>2 DEF HostInv, TypeOK, CfgOK, NoCfg, SaveWrite, SetupOK, SetupPcs
  <2> QED BY <2>3, <2>4, <2>5, <2>7 DEF HostInv
<1> QED BY <1>1, <1>2 DEF SaveWrite

(* The agent's unit file, whose binary is there.                           *)
LEMMA InstallUnitAInv ==
  ASSUME HostInv, InstallUnit("agent", "unitA", "reload")
  PROVE  HostInv'
<1>1. /\ op.pc = "unitA" /\ op.st = "run" /\ op'.pc = "reload" /\ op' \in Ops /\ Kept
      /\ op'.hurt = op.hurt
  BY Goes DEF HostInv, OpOK, InstallUnit, At, Pcs
<1>2. UNCHANGED <<user, bins, meta, data, cfg, loaded, enabled, proc, port, ignored>>
  BY DEF InstallUnit
<1>3. RemoveOK' /\ UninstallOK' /\ SetupOK'
  BY <1>1, Elsewhere DEF Kept, InstallPcs, PastGroup, PastUser, PastCli, PastAgent,
     PastWeb, PastMeta, PastDirs, PastUnitA, PastEnableA, PastUnitW, PastEnableW
<1>4. CfgOK'
  BY <1>2 DEF HostInv, CfgOK
<1>5. TypeOK'
  BY <1>1, <1>2 DEF HostInv, TypeOK, Ops, Pcs, InstallUnit, Svc
<1>6. OpOK'
  BY <1>1, OpGoesOn DEF InstallPcs, PastGroup, PastUser, PastCli, PastAgent, PastWeb,
     PastMeta, PastDirs, PastUnitA, PastEnableA, PastUnitW, PastEnableW
<1>7. InstallOK'
  BY <1>1, <1>2, PrefixAssumption DEF HostInv, TypeOK, InstallOK, Svc, Bin, Kept,
     InstallUnit, InstallPcs, PastGroup, PastUser, PastCli, PastAgent, PastWeb, PastMeta,
     PastDirs, PastUnitA, PastEnableA, PastUnitW, PastEnableW
<1>8. StartOK'
  BY <1>1, <1>2 DEF HostInv, TypeOK, StartOK, Svc, Kept, InstallUnit, InstallPcs,
     PastGroup, PastUser, PastCli, PastAgent, PastWeb, PastMeta, PastDirs, PastUnitA,
     PastEnableA, PastUnitW, PastEnableW
<1>9. AgentUnitOK'
  BY <1>1, <1>2, PrefixAssumption DEF HostInv, TypeOK, AgentUnitOK, Quiet, Svc, Down,
     Kept, InstallUnit, InstallOK, InstallPcs, PastGroup, PastUser, PastCli, PastAgent,
     PastWeb, PastMeta, PastDirs, PastUnitA, PastEnableA, PastUnitW, PastEnableW
<1> QED BY <1>3, <1>4, <1>5, <1>6, <1>7, <1>8, <1>9 DEF HostInv

(* The web unit file, whose binary is there.                               *)
LEMMA InstallUnitWInv ==
  ASSUME HostInv, InstallUnit("web", "unitW", "enableW")
  PROVE  HostInv'
<1>1. /\ op.pc = "unitW" /\ op.st = "run" /\ op'.pc = "enableW" /\ op' \in Ops /\ Kept
      /\ op'.hurt = op.hurt
  BY Goes DEF HostInv, OpOK, InstallUnit, At, Pcs
<1>2. UNCHANGED <<user, bins, meta, data, cfg, loaded, enabled, proc, port, ignored>>
  BY DEF InstallUnit
<1>3. RemoveOK' /\ UninstallOK' /\ SetupOK'
  BY <1>1, Elsewhere DEF Kept, InstallPcs, PastGroup, PastUser, PastCli, PastAgent,
     PastWeb, PastMeta, PastDirs, PastUnitA, PastEnableA, PastUnitW, PastEnableW
<1>4. CfgOK'
  BY <1>2 DEF HostInv, CfgOK
<1>5. TypeOK'
  BY <1>1, <1>2 DEF HostInv, TypeOK, Ops, Pcs, InstallUnit, Svc
<1>6. OpOK'
  BY <1>1, OpGoesOn DEF InstallPcs, PastGroup, PastUser, PastCli, PastAgent, PastWeb,
     PastMeta, PastDirs, PastUnitA, PastEnableA, PastUnitW, PastEnableW
<1>7. InstallOK'
  BY <1>1, <1>2, PrefixAssumption DEF HostInv, TypeOK, InstallOK, Svc, Bin, Kept,
     InstallUnit, InstallPcs, PastGroup, PastUser, PastCli, PastAgent, PastWeb, PastMeta,
     PastDirs, PastUnitA, PastEnableA, PastUnitW, PastEnableW
<1>8. StartOK'
  BY <1>1, <1>2 DEF HostInv, TypeOK, StartOK, Svc, Kept, InstallUnit, InstallPcs,
     PastGroup, PastUser, PastCli, PastAgent, PastWeb, PastMeta, PastDirs, PastUnitA,
     PastEnableA, PastUnitW, PastEnableW
<1>9. AgentUnitOK'
  BY <1>1, <1>2, PrefixAssumption DEF HostInv, TypeOK, AgentUnitOK, Quiet, Svc, Down,
     Kept, InstallUnit, InstallOK, InstallPcs, PastGroup, PastUser, PastCli, PastAgent,
     PastWeb, PastMeta, PastDirs, PastUnitA, PastEnableA, PastUnitW, PastEnableW
<1> QED BY <1>3, <1>4, <1>5, <1>6, <1>7, <1>8, <1>9 DEF HostInv

(* daemon-reload of install.sh.                                            *)
LEMMA DaemonReloadIInv ==
  ASSUME HostInv, DaemonReload("reload", "enableA")
  PROVE  HostInv'
<1>1. /\ op.pc = "reload" /\ op.st = "run" /\ op'.pc = "enableA" /\ op' \in Ops /\ Kept
      /\ op'.hurt = op.hurt
  BY Goes DEF HostInv, OpOK, DaemonReload, At, Pcs
<1>2. UNCHANGED <<user, bins, meta, data, cfg, unit, enabled, proc, port, ignored>>
  BY DEF DaemonReload, files
<1>3. RemoveOK' /\ UninstallOK' /\ SetupOK'
  BY <1>1, Elsewhere DEF Kept, InstallPcs, PastGroup, PastUser, PastCli, PastAgent,
     PastWeb, PastMeta, PastDirs, PastUnitA, PastEnableA, PastUnitW, PastEnableW
<1>4. AgentUnitOK' /\ CfgOK'
  BY <1>2 DEF HostInv, AgentUnitOK, CfgOK, Quiet
<1>5. TypeOK'
  BY <1>1, <1>2 DEF HostInv, TypeOK, Ops, Pcs, DaemonReload
<1>6. OpOK'
  BY <1>1, OpGoesOn DEF InstallPcs, PastGroup, PastUser, PastCli, PastAgent, PastWeb,
     PastMeta, PastDirs, PastUnitA, PastEnableA, PastUnitW, PastEnableW
<1>7. InstallOK'
  BY <1>1, <1>2, PrefixAssumption DEF HostInv, TypeOK, InstallOK, Svc, Bin, Kept,
     DaemonReload, InstallPcs, PastGroup, PastUser, PastCli, PastAgent, PastWeb, PastMeta,
     PastDirs, PastUnitA, PastEnableA, PastUnitW, PastEnableW
<1>8. StartOK'
  BY <1>1, <1>2 DEF HostInv, TypeOK, StartOK, Svc, Kept, DaemonReload, InstallPcs,
     PastGroup, PastUser, PastCli, PastAgent, PastWeb, PastMeta, PastDirs, PastUnitA,
     PastEnableA, PastUnitW, PastEnableW
<1> QED BY <1>3, <1>4, <1>5, <1>6, <1>7, <1>8 DEF HostInv

(* daemon-reload of install.sh --uninstall.                                *)
LEMMA DaemonReloadRInv ==
  ASSUME HostInv, DaemonReload("rmReload", "rmBins")
  PROVE  HostInv'
<1>1. /\ op.pc = "rmReload" /\ op.st = "run" /\ op'.pc = "rmBins" /\ op' \in Ops /\ Kept
      /\ op'.hurt = op.hurt
  BY Goes DEF HostInv, OpOK, DaemonReload, At, Pcs
<1>2. UNCHANGED <<user, bins, meta, data, cfg, unit, enabled, proc, port, ignored>>
  BY DEF DaemonReload, files
<1>3. InstallOK' /\ StartOK' /\ UninstallOK' /\ SetupOK'
  BY <1>1, Elsewhere DEF Kept, RemovePcs
<1>4. AgentUnitOK' /\ CfgOK'
  BY <1>2 DEF HostInv, AgentUnitOK, CfgOK, Quiet
<1>5. TypeOK'
  BY <1>1, <1>2 DEF HostInv, TypeOK, Ops, Pcs, DaemonReload
<1>6. OpOK'
  BY <1>1, OpGoesOn DEF RemovePcs
<1>7. RemoveOK'
  BY <1>1, <1>2 DEF HostInv, TypeOK, RemoveOK, Quiet, Svc, Bin, Kept, DaemonReload,
     RemovePcs
<1> QED BY <1>3, <1>4, <1>5, <1>6, <1>7 DEF HostInv

(* systemctl enable of the agent.                                          *)
LEMMA EnableUnitAInv ==
  ASSUME HostInv, EnableUnit("agent", "enableA", "unitW")
  PROVE  HostInv'
<1>1. /\ op.pc = "enableA" /\ op.st = "run" /\ op'.pc = "unitW" /\ op' \in Ops /\ Kept
      /\ op'.hurt = op.hurt
  BY Goes DEF HostInv, OpOK, EnableUnit, At, Pcs
<1>2. UNCHANGED <<user, bins, meta, data, cfg, unit, proc, port, ignored>>
  BY DEF EnableUnit, files
<1>3. RemoveOK' /\ UninstallOK' /\ SetupOK'
  BY <1>1, Elsewhere DEF Kept, InstallPcs, PastGroup, PastUser, PastCli, PastAgent,
     PastWeb, PastMeta, PastDirs, PastUnitA, PastEnableA, PastUnitW, PastEnableW
<1>4. CfgOK'
  BY <1>2 DEF HostInv, CfgOK
<1>5. TypeOK'
  BY <1>1, <1>2 DEF HostInv, TypeOK, Ops, Pcs, EnableUnit, Svc
<1>6. OpOK'
  BY <1>1, OpGoesOn DEF InstallPcs, PastGroup, PastUser, PastCli, PastAgent, PastWeb,
     PastMeta, PastDirs, PastUnitA, PastEnableA, PastUnitW, PastEnableW
<1>7. InstallOK'
  BY <1>1, <1>2, PrefixAssumption DEF HostInv, TypeOK, InstallOK, Svc, Bin, Kept,
     EnableUnit, InstallPcs, PastGroup, PastUser, PastCli, PastAgent, PastWeb, PastMeta,
     PastDirs, PastUnitA, PastEnableA, PastUnitW, PastEnableW
<1>8. StartOK'
  BY <1>1, <1>2 DEF HostInv, TypeOK, StartOK, Svc, Kept, EnableUnit, InstallPcs,
     PastGroup, PastUser, PastCli, PastAgent, PastWeb, PastMeta, PastDirs, PastUnitA,
     PastEnableA, PastUnitW, PastEnableW
<1>9. AgentUnitOK'
  BY <1>1, <1>2, PrefixAssumption DEF HostInv, TypeOK, AgentUnitOK, Quiet, Svc, Down,
     Kept, EnableUnit, InstallOK, InstallPcs, PastGroup, PastUser, PastCli, PastAgent,
     PastWeb, PastMeta, PastDirs, PastUnitA, PastEnableA, PastUnitW, PastEnableW
<1> QED BY <1>3, <1>4, <1>5, <1>6, <1>7, <1>8, <1>9 DEF HostInv

(* systemctl enable of the panel.                                          *)
LEMMA EnableUnitWInv ==
  ASSUME HostInv, EnableUnit("web", "enableW", "start")
  PROVE  HostInv'
<1>1. /\ op.pc = "enableW" /\ op.st = "run" /\ op'.pc = "start" /\ op' \in Ops /\ Kept
      /\ op'.hurt = op.hurt
  BY Goes DEF HostInv, OpOK, EnableUnit, At, Pcs
<1>2. UNCHANGED <<user, bins, meta, data, cfg, unit, proc, port, ignored>>
  BY DEF EnableUnit, files
<1>3. RemoveOK' /\ UninstallOK' /\ SetupOK'
  BY <1>1, Elsewhere DEF Kept, InstallPcs, PastGroup, PastUser, PastCli, PastAgent,
     PastWeb, PastMeta, PastDirs, PastUnitA, PastEnableA, PastUnitW, PastEnableW
<1>4. CfgOK'
  BY <1>2 DEF HostInv, CfgOK
<1>5. TypeOK'
  BY <1>1, <1>2 DEF HostInv, TypeOK, Ops, Pcs, EnableUnit, Svc
<1>6. OpOK'
  BY <1>1, OpGoesOn DEF InstallPcs, PastGroup, PastUser, PastCli, PastAgent, PastWeb,
     PastMeta, PastDirs, PastUnitA, PastEnableA, PastUnitW, PastEnableW
<1>7. InstallOK'
  BY <1>1, <1>2, PrefixAssumption DEF HostInv, TypeOK, InstallOK, Svc, Bin, Kept,
     EnableUnit, InstallPcs, PastGroup, PastUser, PastCli, PastAgent, PastWeb, PastMeta,
     PastDirs, PastUnitA, PastEnableA, PastUnitW, PastEnableW
<1>8. StartOK'
  BY <1>1, <1>2 DEF HostInv, TypeOK, StartOK, Svc, Kept, EnableUnit, InstallPcs,
     PastGroup, PastUser, PastCli, PastAgent, PastWeb, PastMeta, PastDirs, PastUnitA,
     PastEnableA, PastUnitW, PastEnableW
<1>9. AgentUnitOK'
  BY <1>1, <1>2, PrefixAssumption DEF HostInv, TypeOK, AgentUnitOK, Quiet, Svc, Down,
     Kept, EnableUnit, InstallOK, InstallPcs, PastGroup, PastUser, PastCli, PastAgent,
     PastWeb, PastMeta, PastDirs, PastUnitA, PastEnableA, PastUnitW, PastEnableW
<1> QED BY <1>3, <1>4, <1>5, <1>6, <1>7, <1>8, <1>9 DEF HostInv

(* systemctl stop of the panel, which may fail.                            *)
LEMMA UninstallStopWInv ==
  ASSUME HostInv, UninstallStop("web", "stopW", "disableW")
  PROVE  HostInv'
<1>1. CASE Stop("web") /\ Then("disableW") /\ UNCHANGED ignored
  <2>1. /\ op.pc = "stopW" /\ op.st = "run" /\ op'.pc = "disableW" /\ op' \in Ops /\ Kept
        /\ op'.hurt = op.hurt
    BY <1>1, Goes DEF HostInv, OpOK, UninstallStop, At, Pcs, Stop, StopSet
  <2>2. UNCHANGED <<user, bins, meta, data, cfg, unit, loaded, enabled, port, ignored>>
    BY <1>1 DEF UninstallStop, Stop, StopSet, files
  <2>3. InstallOK' /\ StartOK' /\ RemoveOK' /\ SetupOK'
    BY <2>1, Elsewhere DEF Kept, UninstallPcs, PastDisableW, PastStopA, PastDisableA,
       PastRmUnitW, PastRmUnitA, PastReload, PurgePcs
  <2>4. CfgOK'
    BY <2>2 DEF HostInv, CfgOK
  <2>5. TypeOK'
    BY <1>1, <2>1, <2>2 DEF HostInv, TypeOK, Ops, Pcs, UninstallStop, Stop, StopSet,
       Down, Bind
  <2>6. OpOK'
    BY <2>1, OpGoesOn, <1>1 DEF UninstallPcs, PastDisableW, PastStopA, PastDisableA,
       PastRmUnitW, PastRmUnitA, PastReload, PurgePcs
  <2>7. UninstallOK'
    BY <1>1, <2>1, <2>2 DEF HostInv, TypeOK, UninstallOK, Svc, Bin, Quiet, Kept,
       UninstallStop, Stop, StopSet, UninstallPcs, PastDisableW, PastStopA, PastDisableA,
       PastRmUnitW, PastRmUnitA, PastReload, PurgePcs
  <2>8. AgentUnitOK'
    BY <1>1, <2>1, <2>2 DEF HostInv, TypeOK, AgentUnitOK, Quiet, Svc, Down, Kept,
       UninstallStop, Stop, StopSet, UninstallOK, UninstallPcs, PastDisableW, PastStopA,
       PastDisableA, PastRmUnitW, PastRmUnitA, PastReload, PurgePcs
  <2> QED BY <2>3, <2>4, <2>5, <2>6, <2>7, <2>8 DEF HostInv
<1>2. CASE Ignored("disableW") /\ ignored' = TRUE /\ UNCHANGED proc
  <2>1. /\ op.pc = "stopW" /\ op.st = "run" /\ op'.pc = "disableW" /\ op' \in Ops /\ Kept
        /\ op'.hurt
    BY <1>2, GoesHurt DEF HostInv, OpOK, UninstallStop, At, Pcs
  <2>2. UNCHANGED <<user, bins, meta, data, cfg, unit, loaded, enabled, proc, port>>
    BY <1>2 DEF UninstallStop, files
  <2>3. InstallOK' /\ StartOK' /\ RemoveOK' /\ SetupOK'
    BY <2>1, Elsewhere DEF Kept, UninstallPcs, PastDisableW, PastStopA, PastDisableA,
       PastRmUnitW, PastRmUnitA, PastReload, PurgePcs
  <2>4. CfgOK'
    BY <2>2 DEF HostInv, CfgOK
  <2>5. TypeOK'
    BY <1>2, <2>1, <2>2 DEF HostInv, TypeOK, Ops, Pcs, UninstallStop
  <2>6. OpOK'
    BY <2>1, OpGoesOn, <1>2 DEF UninstallPcs, PastDisableW, PastStopA, PastDisableA,
       PastRmUnitW, PastRmUnitA, PastReload, PurgePcs
  <2>7. UninstallOK'
    BY <1>2, <2>1, <2>2 DEF HostInv, TypeOK, UninstallOK, Svc, Bin, Quiet, Kept,
       UninstallStop, UninstallPcs, PastDisableW, PastStopA, PastDisableA, PastRmUnitW,
       PastRmUnitA, PastReload, PurgePcs
  <2>8. AgentUnitOK'
    BY <1>2, <2>1, <2>2 DEF HostInv, TypeOK, AgentUnitOK, Quiet, Svc, Down, Kept,
       UninstallStop, UninstallOK, UninstallPcs, PastDisableW, PastStopA, PastDisableA,
       PastRmUnitW, PastRmUnitA, PastReload, PurgePcs
  <2> QED BY <2>3, <2>4, <2>5, <2>6, <2>7, <2>8 DEF HostInv
<1> QED BY <1>1, <1>2 DEF UninstallStop

(* systemctl stop of the agent, and of the panel with it.                  *)
LEMMA UninstallStopAInv ==
  ASSUME HostInv, UninstallStop("agent", "stopA", "disableA")
  PROVE  HostInv'
<1>1. CASE Stop("agent") /\ Then("disableA") /\ UNCHANGED ignored
  <2>1. /\ op.pc = "stopA" /\ op.st = "run" /\ op'.pc = "disableA" /\ op' \in Ops /\ Kept
        /\ op'.hurt = op.hurt
    BY <1>1, Goes DEF HostInv, OpOK, UninstallStop, At, Pcs, Stop, StopSet
  <2>2. UNCHANGED <<user, bins, meta, data, cfg, unit, loaded, enabled, port, ignored>>
    BY <1>1 DEF UninstallStop, Stop, StopSet, files
  <2>3. InstallOK' /\ StartOK' /\ RemoveOK' /\ SetupOK'
    BY <2>1, Elsewhere DEF Kept, UninstallPcs, PastDisableW, PastStopA, PastDisableA,
       PastRmUnitW, PastRmUnitA, PastReload, PurgePcs
  <2>4. CfgOK'
    BY <2>2 DEF HostInv, CfgOK
  <2>5. TypeOK'
    BY <1>1, <2>1, <2>2 DEF HostInv, TypeOK, Ops, Pcs, UninstallStop, Stop, StopSet,
       Down, Bind
  <2>6. OpOK'
    BY <2>1, OpGoesOn, <1>1 DEF UninstallPcs, PastDisableW, PastStopA, PastDisableA,
       PastRmUnitW, PastRmUnitA, PastReload, PurgePcs
  <2>7. UninstallOK'
    BY <1>1, <2>1, <2>2 DEF HostInv, TypeOK, UninstallOK, Svc, Bin, Quiet, Kept,
       UninstallStop, Stop, StopSet, UninstallPcs, PastDisableW, PastStopA, PastDisableA,
       PastRmUnitW, PastRmUnitA, PastReload, PurgePcs
  <2>8. AgentUnitOK'
    BY <1>1, <2>1, <2>2 DEF HostInv, TypeOK, AgentUnitOK, Quiet, Svc, Down, Kept,
       UninstallStop, Stop, StopSet, UninstallOK, UninstallPcs, PastDisableW, PastStopA,
       PastDisableA, PastRmUnitW, PastRmUnitA, PastReload, PurgePcs
  <2> QED BY <2>3, <2>4, <2>5, <2>6, <2>7, <2>8 DEF HostInv
<1>2. CASE Ignored("disableA") /\ ignored' = TRUE /\ UNCHANGED proc
  <2>1. /\ op.pc = "stopA" /\ op.st = "run" /\ op'.pc = "disableA" /\ op' \in Ops /\ Kept
        /\ op'.hurt
    BY <1>2, GoesHurt DEF HostInv, OpOK, UninstallStop, At, Pcs
  <2>2. UNCHANGED <<user, bins, meta, data, cfg, unit, loaded, enabled, proc, port>>
    BY <1>2 DEF UninstallStop, files
  <2>3. InstallOK' /\ StartOK' /\ RemoveOK' /\ SetupOK'
    BY <2>1, Elsewhere DEF Kept, UninstallPcs, PastDisableW, PastStopA, PastDisableA,
       PastRmUnitW, PastRmUnitA, PastReload, PurgePcs
  <2>4. CfgOK'
    BY <2>2 DEF HostInv, CfgOK
  <2>5. TypeOK'
    BY <1>2, <2>1, <2>2 DEF HostInv, TypeOK, Ops, Pcs, UninstallStop
  <2>6. OpOK'
    BY <2>1, OpGoesOn, <1>2 DEF UninstallPcs, PastDisableW, PastStopA, PastDisableA,
       PastRmUnitW, PastRmUnitA, PastReload, PurgePcs
  <2>7. UninstallOK'
    BY <1>2, <2>1, <2>2 DEF HostInv, TypeOK, UninstallOK, Svc, Bin, Quiet, Kept,
       UninstallStop, UninstallPcs, PastDisableW, PastStopA, PastDisableA, PastRmUnitW,
       PastRmUnitA, PastReload, PurgePcs
  <2>8. AgentUnitOK'
    BY <1>2, <2>1, <2>2 DEF HostInv, TypeOK, AgentUnitOK, Quiet, Svc, Down, Kept,
       UninstallStop, UninstallOK, UninstallPcs, PastDisableW, PastStopA, PastDisableA,
       PastRmUnitW, PastRmUnitA, PastReload, PurgePcs
  <2> QED BY <2>3, <2>4, <2>5, <2>6, <2>7, <2>8 DEF HostInv
<1> QED BY <1>1, <1>2 DEF UninstallStop

(* systemctl disable of the panel, which may fail.                         *)
LEMMA UninstallDisableWInv ==
  ASSUME HostInv, UninstallDisable("web", "disableW", "stopA")
  PROVE  HostInv'
<1>1. CASE enabled' = [enabled EXCEPT !["web"] = FALSE] /\ Then("stopA") /\ UNCHANGED ignored
  <2>1. /\ op.pc = "disableW" /\ op.st = "run" /\ op'.pc = "stopA" /\ op' \in Ops /\ Kept
        /\ op'.hurt = op.hurt
    BY <1>1, Goes DEF HostInv, OpOK, UninstallDisable, At, Pcs
  <2>2. UNCHANGED <<user, bins, meta, data, cfg, unit, loaded, proc, port, ignored>>
    BY <1>1 DEF UninstallDisable, files
  <2>3. InstallOK' /\ StartOK' /\ RemoveOK' /\ SetupOK'
    BY <2>1, Elsewhere DEF Kept, UninstallPcs, PastDisableW, PastStopA, PastDisableA,
       PastRmUnitW, PastRmUnitA, PastReload, PurgePcs
  <2>4. CfgOK'
    BY <2>2 DEF HostInv, CfgOK
  <2>5. TypeOK'
    BY <1>1, <2>1, <2>2 DEF HostInv, TypeOK, Ops, Pcs, UninstallDisable, Svc
  <2>6. OpOK'
    BY <2>1, OpGoesOn, <1>1 DEF UninstallPcs, PastDisableW, PastStopA, PastDisableA,
       PastRmUnitW, PastRmUnitA, PastReload, PurgePcs
  <2>7. UninstallOK'
    BY <1>1, <2>1, <2>2 DEF HostInv, TypeOK, UninstallOK, Svc, Bin, Quiet, Kept,
       UninstallDisable, UninstallPcs, PastDisableW, PastStopA, PastDisableA, PastRmUnitW,
       PastRmUnitA, PastReload, PurgePcs
  <2>8. AgentUnitOK'
    BY <1>1, <2>1, <2>2 DEF HostInv, TypeOK, AgentUnitOK, Quiet, Svc, Down, Kept,
       UninstallDisable, UninstallOK, UninstallPcs, PastDisableW, PastStopA, PastDisableA,
       PastRmUnitW, PastRmUnitA, PastReload, PurgePcs
  <2> QED BY <2>3, <2>4, <2>5, <2>6, <2>7, <2>8 DEF HostInv
<1>2. CASE Ignored("stopA") /\ ignored' = TRUE /\ UNCHANGED enabled
  <2>1. /\ op.pc = "disableW" /\ op.st = "run" /\ op'.pc = "stopA" /\ op' \in Ops /\ Kept
        /\ op'.hurt
    BY <1>2, GoesHurt DEF HostInv, OpOK, UninstallDisable, At, Pcs
  <2>2. UNCHANGED <<user, bins, meta, data, cfg, unit, loaded, enabled, proc, port>>
    BY <1>2 DEF UninstallDisable, files
  <2>3. InstallOK' /\ StartOK' /\ RemoveOK' /\ SetupOK'
    BY <2>1, Elsewhere DEF Kept, UninstallPcs, PastDisableW, PastStopA, PastDisableA,
       PastRmUnitW, PastRmUnitA, PastReload, PurgePcs
  <2>4. CfgOK'
    BY <2>2 DEF HostInv, CfgOK
  <2>5. TypeOK'
    BY <1>2, <2>1, <2>2 DEF HostInv, TypeOK, Ops, Pcs, UninstallDisable, Svc
  <2>6. OpOK'
    BY <2>1, OpGoesOn, <1>2 DEF UninstallPcs, PastDisableW, PastStopA, PastDisableA,
       PastRmUnitW, PastRmUnitA, PastReload, PurgePcs
  <2>7. UninstallOK'
    BY <1>2, <2>1, <2>2 DEF HostInv, TypeOK, UninstallOK, Svc, Bin, Quiet, Kept,
       UninstallDisable, UninstallPcs, PastDisableW, PastStopA, PastDisableA, PastRmUnitW,
       PastRmUnitA, PastReload, PurgePcs
  <2>8. AgentUnitOK'
    BY <1>2, <2>1, <2>2 DEF HostInv, TypeOK, AgentUnitOK, Quiet, Svc, Down, Kept,
       UninstallDisable, UninstallOK, UninstallPcs, PastDisableW, PastStopA, PastDisableA,
       PastRmUnitW, PastRmUnitA, PastReload, PurgePcs
  <2> QED BY <2>3, <2>4, <2>5, <2>6, <2>7, <2>8 DEF HostInv
<1> QED BY <1>1, <1>2 DEF UninstallDisable

(* systemctl disable of the agent, which may fail.                         *)
LEMMA UninstallDisableAInv ==
  ASSUME HostInv, UninstallDisable("agent", "disableA", "rmUnitW")
  PROVE  HostInv'
<1>1. CASE /\ enabled' = [enabled EXCEPT !["agent"] = FALSE]
           /\ Then("rmUnitW") /\ UNCHANGED ignored
  <2>1. /\ op.pc = "disableA" /\ op.st = "run" /\ op'.pc = "rmUnitW" /\ op' \in Ops /\ Kept
        /\ op'.hurt = op.hurt
    BY <1>1, Goes DEF HostInv, OpOK, UninstallDisable, At, Pcs
  <2>2. UNCHANGED <<user, bins, meta, data, cfg, unit, loaded, proc, port, ignored>>
    BY <1>1 DEF UninstallDisable, files
  <2>3. InstallOK' /\ StartOK' /\ RemoveOK' /\ SetupOK'
    BY <2>1, Elsewhere DEF Kept, UninstallPcs, PastDisableW, PastStopA, PastDisableA,
       PastRmUnitW, PastRmUnitA, PastReload, PurgePcs
  <2>4. CfgOK'
    BY <2>2 DEF HostInv, CfgOK
  <2>5. TypeOK'
    BY <1>1, <2>1, <2>2 DEF HostInv, TypeOK, Ops, Pcs, UninstallDisable, Svc
  <2>6. OpOK'
    BY <2>1, OpGoesOn, <1>1 DEF UninstallPcs, PastDisableW, PastStopA, PastDisableA,
       PastRmUnitW, PastRmUnitA, PastReload, PurgePcs
  <2>7. UninstallOK'
    BY <1>1, <2>1, <2>2 DEF HostInv, TypeOK, UninstallOK, Svc, Bin, Quiet, Kept,
       UninstallDisable, UninstallPcs, PastDisableW, PastStopA, PastDisableA, PastRmUnitW,
       PastRmUnitA, PastReload, PurgePcs
  <2>8. AgentUnitOK'
    BY <1>1, <2>1, <2>2 DEF HostInv, TypeOK, AgentUnitOK, Quiet, Svc, Down, Kept,
       UninstallDisable, UninstallOK, UninstallPcs, PastDisableW, PastStopA, PastDisableA,
       PastRmUnitW, PastRmUnitA, PastReload, PurgePcs
  <2> QED BY <2>3, <2>4, <2>5, <2>6, <2>7, <2>8 DEF HostInv
<1>2. CASE Ignored("rmUnitW") /\ ignored' = TRUE /\ UNCHANGED enabled
  <2>1. /\ op.pc = "disableA" /\ op.st = "run" /\ op'.pc = "rmUnitW" /\ op' \in Ops /\ Kept
        /\ op'.hurt
    BY <1>2, GoesHurt DEF HostInv, OpOK, UninstallDisable, At, Pcs
  <2>2. UNCHANGED <<user, bins, meta, data, cfg, unit, loaded, enabled, proc, port>>
    BY <1>2 DEF UninstallDisable, files
  <2>3. InstallOK' /\ StartOK' /\ RemoveOK' /\ SetupOK'
    BY <2>1, Elsewhere DEF Kept, UninstallPcs, PastDisableW, PastStopA, PastDisableA,
       PastRmUnitW, PastRmUnitA, PastReload, PurgePcs
  <2>4. CfgOK'
    BY <2>2 DEF HostInv, CfgOK
  <2>5. TypeOK'
    BY <1>2, <2>1, <2>2 DEF HostInv, TypeOK, Ops, Pcs, UninstallDisable, Svc
  <2>6. OpOK'
    BY <2>1, OpGoesOn, <1>2 DEF UninstallPcs, PastDisableW, PastStopA, PastDisableA,
       PastRmUnitW, PastRmUnitA, PastReload, PurgePcs
  <2>7. UninstallOK'
    BY <1>2, <2>1, <2>2 DEF HostInv, TypeOK, UninstallOK, Svc, Bin, Quiet, Kept,
       UninstallDisable, UninstallPcs, PastDisableW, PastStopA, PastDisableA, PastRmUnitW,
       PastRmUnitA, PastReload, PurgePcs
  <2>8. AgentUnitOK'
    BY <1>2, <2>1, <2>2 DEF HostInv, TypeOK, AgentUnitOK, Quiet, Svc, Down, Kept,
       UninstallDisable, UninstallOK, UninstallPcs, PastDisableW, PastStopA, PastDisableA,
       PastRmUnitW, PastRmUnitA, PastReload, PurgePcs
  <2> QED BY <2>3, <2>4, <2>5, <2>6, <2>7, <2>8 DEF HostInv
<1> QED BY <1>1, <1>2 DEF UninstallDisable

(* The web unit file goes.                                                 *)
LEMMA UninstallUnitWInv ==
  ASSUME HostInv, UninstallUnit("web", "rmUnitW", "rmUnitA")
  PROVE  HostInv'
<1>1. CASE unit' = [unit EXCEPT !["web"] = None] /\ Then("rmUnitA") /\ UNCHANGED ignored
  <2>1. /\ op.pc = "rmUnitW" /\ op.st = "run" /\ op'.pc = "rmUnitA" /\ op' \in Ops /\ Kept
        /\ op'.hurt = op.hurt
    BY <1>1, Goes DEF HostInv, OpOK, UninstallUnit, At, Pcs
  <2>2. UNCHANGED <<user, bins, meta, data, cfg, loaded, enabled, proc, port, ignored>>
    BY <1>1 DEF UninstallUnit
  <2>3. InstallOK' /\ StartOK' /\ RemoveOK' /\ SetupOK'
    BY <2>1, Elsewhere DEF Kept, UninstallPcs, PastDisableW, PastStopA, PastDisableA,
       PastRmUnitW, PastRmUnitA, PastReload, PurgePcs
  <2>4. CfgOK'
    BY <2>2 DEF HostInv, CfgOK
  <2>5. TypeOK'
    BY <1>1, <2>1, <2>2 DEF HostInv, TypeOK, Ops, Pcs, UninstallUnit, Svc
  <2>6. OpOK'
    BY <2>1, OpGoesOn, <1>1 DEF UninstallPcs, PastDisableW, PastStopA, PastDisableA,
       PastRmUnitW, PastRmUnitA, PastReload, PurgePcs
  <2>7. UninstallOK'
    BY <1>1, <2>1, <2>2 DEF HostInv, TypeOK, UninstallOK, Svc, Bin, Quiet, Kept,
       UninstallUnit, UninstallPcs, PastDisableW, PastStopA, PastDisableA, PastRmUnitW,
       PastRmUnitA, PastReload, PurgePcs
  <2>8. AgentUnitOK'
    BY <1>1, <2>1, <2>2 DEF HostInv, TypeOK, AgentUnitOK, Quiet, Svc, Down, Kept,
       UninstallUnit, UninstallOK, UninstallPcs, PastDisableW, PastStopA, PastDisableA,
       PastRmUnitW, PastRmUnitA, PastReload, PurgePcs
  <2> QED BY <2>3, <2>4, <2>5, <2>6, <2>7, <2>8 DEF HostInv
<1>2. CASE Ignored("rmUnitA") /\ ignored' = TRUE /\ UNCHANGED unit
  <2>1. /\ op.pc = "rmUnitW" /\ op.st = "run" /\ op'.pc = "rmUnitA" /\ op' \in Ops /\ Kept
        /\ op'.hurt
    BY <1>2, GoesHurt DEF HostInv, OpOK, UninstallUnit, At, Pcs
  <2>2. UNCHANGED <<user, bins, meta, data, cfg, unit, loaded, enabled, proc, port>>
    BY <1>2 DEF UninstallUnit
  <2>3. InstallOK' /\ StartOK' /\ RemoveOK' /\ SetupOK'
    BY <2>1, Elsewhere DEF Kept, UninstallPcs, PastDisableW, PastStopA, PastDisableA,
       PastRmUnitW, PastRmUnitA, PastReload, PurgePcs
  <2>4. CfgOK'
    BY <2>2 DEF HostInv, CfgOK
  <2>5. TypeOK'
    BY <1>2, <2>1, <2>2 DEF HostInv, TypeOK, Ops, Pcs, UninstallUnit, Svc
  <2>6. OpOK'
    BY <2>1, OpGoesOn, <1>2 DEF UninstallPcs, PastDisableW, PastStopA, PastDisableA,
       PastRmUnitW, PastRmUnitA, PastReload, PurgePcs
  <2>7. UninstallOK'
    BY <1>2, <2>1, <2>2 DEF HostInv, TypeOK, UninstallOK, Svc, Bin, Quiet, Kept,
       UninstallUnit, UninstallPcs, PastDisableW, PastStopA, PastDisableA, PastRmUnitW,
       PastRmUnitA, PastReload, PurgePcs
  <2>8. AgentUnitOK'
    BY <1>2, <2>1, <2>2 DEF HostInv, TypeOK, AgentUnitOK, Quiet, Svc, Down, Kept,
       UninstallUnit, UninstallOK, UninstallPcs, PastDisableW, PastStopA, PastDisableA,
       PastRmUnitW, PastRmUnitA, PastReload, PurgePcs
  <2> QED BY <2>3, <2>4, <2>5, <2>6, <2>7, <2>8 DEF HostInv
<1> QED BY <1>1, <1>2 DEF UninstallUnit

(* The agent's unit file goes, after everything has stopped.               *)
LEMMA UninstallUnitAInv ==
  ASSUME HostInv, UninstallUnit("agent", "rmUnitA", "uReload")
  PROVE  HostInv'
<1>1. CASE unit' = [unit EXCEPT !["agent"] = None] /\ Then("uReload") /\ UNCHANGED ignored
  <2>1. /\ op.pc = "rmUnitA" /\ op.st = "run" /\ op'.pc = "uReload" /\ op' \in Ops /\ Kept
        /\ op'.hurt = op.hurt
    BY <1>1, Goes DEF HostInv, OpOK, UninstallUnit, At, Pcs
  <2>2. UNCHANGED <<user, bins, meta, data, cfg, loaded, enabled, proc, port, ignored>>
    BY <1>1 DEF UninstallUnit
  <2>3. InstallOK' /\ StartOK' /\ RemoveOK' /\ SetupOK'
    BY <2>1, Elsewhere DEF Kept, UninstallPcs, PastDisableW, PastStopA, PastDisableA,
       PastRmUnitW, PastRmUnitA, PastReload, PurgePcs
  <2>4. CfgOK'
    BY <2>2 DEF HostInv, CfgOK
  <2>5. TypeOK'
    BY <1>1, <2>1, <2>2 DEF HostInv, TypeOK, Ops, Pcs, UninstallUnit, Svc
  <2>6. OpOK'
    BY <2>1, OpGoesOn, <1>1 DEF UninstallPcs, PastDisableW, PastStopA, PastDisableA,
       PastRmUnitW, PastRmUnitA, PastReload, PurgePcs
  <2>7. UninstallOK'
    BY <1>1, <2>1, <2>2 DEF HostInv, TypeOK, UninstallOK, Svc, Bin, Quiet, Kept,
       UninstallUnit, UninstallPcs, PastDisableW, PastStopA, PastDisableA, PastRmUnitW,
       PastRmUnitA, PastReload, PurgePcs
  <2>8. AgentUnitOK'
    BY <1>1, <2>1, <2>2 DEF HostInv, TypeOK, AgentUnitOK, Quiet, Svc, Down, Kept,
       UninstallUnit, UninstallOK, UninstallPcs, PastDisableW, PastStopA, PastDisableA,
       PastRmUnitW, PastRmUnitA, PastReload, PurgePcs
  <2> QED BY <2>3, <2>4, <2>5, <2>6, <2>7, <2>8 DEF HostInv
<1>2. CASE Ignored("uReload") /\ ignored' = TRUE /\ UNCHANGED unit
  <2>1. /\ op.pc = "rmUnitA" /\ op.st = "run" /\ op'.pc = "uReload" /\ op' \in Ops /\ Kept
        /\ op'.hurt
    BY <1>2, GoesHurt DEF HostInv, OpOK, UninstallUnit, At, Pcs
  <2>2. UNCHANGED <<user, bins, meta, data, cfg, unit, loaded, enabled, proc, port>>
    BY <1>2 DEF UninstallUnit
  <2>3. InstallOK' /\ StartOK' /\ RemoveOK' /\ SetupOK'
    BY <2>1, Elsewhere DEF Kept, UninstallPcs, PastDisableW, PastStopA, PastDisableA,
       PastRmUnitW, PastRmUnitA, PastReload, PurgePcs
  <2>4. CfgOK'
    BY <2>2 DEF HostInv, CfgOK
  <2>5. TypeOK'
    BY <1>2, <2>1, <2>2 DEF HostInv, TypeOK, Ops, Pcs, UninstallUnit, Svc
  <2>6. OpOK'
    BY <2>1, OpGoesOn, <1>2 DEF UninstallPcs, PastDisableW, PastStopA, PastDisableA,
       PastRmUnitW, PastRmUnitA, PastReload, PurgePcs
  <2>7. UninstallOK'
    BY <1>2, <2>1, <2>2 DEF HostInv, TypeOK, UninstallOK, Svc, Bin, Quiet, Kept,
       UninstallUnit, UninstallPcs, PastDisableW, PastStopA, PastDisableA, PastRmUnitW,
       PastRmUnitA, PastReload, PurgePcs
  <2>8. AgentUnitOK'
    BY <1>2, <2>1, <2>2 DEF HostInv, TypeOK, AgentUnitOK, Quiet, Svc, Down, Kept,
       UninstallUnit, UninstallOK, UninstallPcs, PastDisableW, PastStopA, PastDisableA,
       PastRmUnitW, PastRmUnitA, PastReload, PurgePcs
  <2> QED BY <2>3, <2>4, <2>5, <2>6, <2>7, <2>8 DEF HostInv
<1> QED BY <1>1, <1>2 DEF UninstallUnit

(* A command begins with nothing done.                                     *)
LEMMA BeginInv ==
  ASSUME HostInv, NEW new \in Ops, Begin(new), new.st = "run",
         \/ new.cmd = "install" /\ new.pc = "group" /\ new.rel \in Release
         \/ new.cmd = "remove" /\ new.pc = "disable"
         \/ new.cmd \in {"uninstall", "purge"} /\ new.pc = "stopW" /\ new.p = UsrLocal
         \/ new.cmd = "setup" /\ new.pc = "firewall"
  PROVE  HostInv'
<1>1. /\ op' \in Ops /\ op'.st = "run" /\ op'.pc = new.pc /\ op'.cmd = new.cmd
      /\ op'.p = new.p /\ op'.rel = new.rel
  BY Starts DEF Begin
<1>2. UNCHANGED <<user, bins, meta, data, cfg, unit, loaded, enabled, proc, port, ignored>>
  BY DEF Begin, host
<1>3. TypeOK'
  BY <1>1, <1>2 DEF HostInv, TypeOK, Ops, Pcs
<1>4. AgentUnitOK' /\ CfgOK'
  BY <1>2 DEF HostInv, AgentUnitOK, Quiet, CfgOK
<1>5. /\ op'.pc \in {"group", "disable", "stopW", "firewall"}
      /\ OpOK' /\ InstallOK' /\ StartOK' /\ RemoveOK' /\ UninstallOK' /\ SetupOK'
  BY <1>1 DEF OpOK, InstallOK, StartOK, RemoveOK, UninstallOK, SetupOK,
     InstallPcs, PastGroup, PastUser, PastCli, PastAgent, PastWeb, PastMeta, PastDirs,
     PastUnitA, PastEnableA, PastUnitW, PastEnableW, RemovePcs, UninstallPcs, PastDisableW,
     PastStopA, PastDisableA, PastRmUnitW, PastRmUnitA, PastReload, PurgePcs, SetupPcs
<1> QED BY <1>3, <1>4, <1>5 DEF HostInv

LEMMA BeginsInv ==
  ASSUME HostInv,
         \/ InstallBegin \/ BootstrapBegin \/ RemoveBegin \/ UninstallBegin \/ SetupBegin
  PROVE  HostInv'
<1>0. NoOp \in Ops /\ NoOp.p = UsrLocal
  BY NoOpType DEF NoOp
<1>1. ASSUME NEW p \in Prefix, NEW rel \in Release, NEW start \in BOOLEAN,
             Begin([NoOp EXCEPT !.cmd = "install", !.p = p, !.rel = rel, !.start = start,
                                !.pc = "group", !.st = "run"])
      PROVE  HostInv'
  <2>1. PICK new : new = [NoOp EXCEPT !.cmd = "install", !.p = p, !.rel = rel,
                                      !.start = start, !.pc = "group", !.st = "run"]
    OBVIOUS
  <2>2. new = [cmd |-> "install", p |-> p, rel |-> rel, start |-> start, bind |-> NoOp.bind,
               allow |-> NoOp.allow, own |-> NoOp.own, pc |-> "group", st |-> "run",
               hurt |-> NoOp.hurt, cmds |-> NoOp.cmds, faults |-> NoOp.faults]
    BY <1>0, <2>1 DEF Ops
  <2>3. new \in Ops
    BY <1>0, <2>2 DEF Ops, Pcs
  <2> QED BY <1>1, <2>1, <2>2, <2>3, BeginInv
<1>2. ASSUME NEW p \in Prefix,
             Begin([NoOp EXCEPT !.cmd = "remove", !.p = p, !.pc = "disable", !.st = "run"])
      PROVE  HostInv'
  <2>1. PICK new : new = [NoOp EXCEPT !.cmd = "remove", !.p = p, !.pc = "disable",
                                      !.st = "run"]
    OBVIOUS
  <2>2. new = [cmd |-> "remove", p |-> p, rel |-> NoOp.rel, start |-> NoOp.start,
               bind |-> NoOp.bind,
               allow |-> NoOp.allow, own |-> NoOp.own, pc |-> "disable", st |-> "run",
               hurt |-> NoOp.hurt, cmds |-> NoOp.cmds, faults |-> NoOp.faults]
    BY <1>0, <2>1 DEF Ops
  <2>3. new \in Ops
    BY <1>0, <2>2 DEF Ops, Pcs
  <2> QED BY <1>2, <2>1, <2>2, <2>3, BeginInv
<1>3. ASSUME NEW cmd \in {"uninstall", "purge"},
             Begin([NoOp EXCEPT !.cmd = cmd, !.pc = "stopW", !.st = "run"])
      PROVE  HostInv'
  <2>1. PICK new : new = [NoOp EXCEPT !.cmd = cmd, !.pc = "stopW", !.st = "run"]
    OBVIOUS
  <2>2. new = [cmd |-> cmd, p |-> NoOp.p, rel |-> NoOp.rel, start |-> NoOp.start,
               bind |-> NoOp.bind,
               allow |-> NoOp.allow, own |-> NoOp.own, pc |-> "stopW", st |-> "run",
               hurt |-> NoOp.hurt, cmds |-> NoOp.cmds, faults |-> NoOp.faults]
    BY <1>0, <2>1 DEF Ops
  <2>3. new \in Ops
    BY <1>0, <2>2 DEF Ops, Pcs
  <2> QED BY <1>0, <1>3, <2>1, <2>2, <2>3, BeginInv
<1>4. ASSUME NEW bind \in Bind, NEW allow \in BOOLEAN,
             Begin([NoOp EXCEPT !.cmd = "setup", !.bind = bind, !.allow = allow,
                                !.pc = "firewall", !.st = "run"])
      PROVE  HostInv'
  <2>1. PICK new : new = [NoOp EXCEPT !.cmd = "setup", !.bind = bind, !.allow = allow,
                                      !.pc = "firewall", !.st = "run"]
    OBVIOUS
  <2>2. new = [cmd |-> "setup", p |-> NoOp.p, rel |-> NoOp.rel, start |-> NoOp.start,
               bind |-> bind,
               allow |-> allow, own |-> NoOp.own, pc |-> "firewall", st |-> "run",
               hurt |-> NoOp.hurt, cmds |-> NoOp.cmds, faults |-> NoOp.faults]
    BY <1>0, <2>1 DEF Ops
  <2>3. new \in Ops
    BY <1>0, <2>2 DEF Ops, Pcs
  <2> QED BY <1>4, <2>1, <2>2, <2>3, BeginInv
<1> QED BY <1>1, <1>2, <1>3, <1>4 DEF InstallBegin, BootstrapBegin, RemoveBegin,
        UninstallBegin, SetupBegin

(* A failed step or a kill ends the command.                               *)
LEMMA AbortInv ==
  ASSUME HostInv, Abort
  PROVE  HostInv'
<1>1. op' \in Ops /\ op'.pc = "idle" /\ op'.st = "failed" /\ op'.hurt
  BY FinishesHurt DEF Abort
<1>2. UNCHANGED <<user, bins, meta, data, cfg, unit, loaded, enabled, proc, port, ignored>>
  BY DEF Abort, host
<1>3. TypeOK'
  BY <1>1, <1>2 DEF HostInv, TypeOK, Ops, Pcs
<1>4. OpOK' /\ InstallOK' /\ StartOK' /\ RemoveOK' /\ UninstallOK' /\ SetupOK'
  BY <1>1, Elsewhere
<1>5. AgentUnitOK' /\ CfgOK'
  BY <1>1, <1>2 DEF HostInv, AgentUnitOK, Quiet, CfgOK
<1> QED BY <1>3, <1>4, <1>5 DEF HostInv

(* One binary is replaced, or its copy is cut short.                       *)
LEMMA InstallBinaryInv ==
  ASSUME HostInv, NEW b \in Bin, InstallBinary(b)
  PROVE  HostInv'
<1>0. /\ TypeOK /\ op.pc = b /\ op.st = "run" /\ op \in Ops /\ op.p \in Prefix
      /\ op.rel \in Release
  BY OpType DEF HostInv, OpOK, InstallBinary, At, Ops, Bin, Svc, InstallPcs, PastGroup,
     PastUser, PastCli, PastAgent
<1>1. UNCHANGED <<user, meta, data, cfg, unit, loaded, enabled, port, ignored>>
  BY DEF InstallBinary
<1>2. /\ proc' \in Procs
      /\ \A s \in Svc : proc[s] = Down => proc'[s] = Down
  <2>1. ASSUME NEW s \in Svc
        PROVE  proc'[s] \in ProcRec /\ (proc[s] = Down => proc'[s] = Down)
    <3>1. proc[s] \in ProcRec
      BY <1>0 DEF TypeOK, ProcRec
    <3>2. CASE s = b /\ proc[s].at = op.p
      BY <1>0, <3>1, <3>2, StaleIs, PrefixAssumption DEF InstallBinary
    <3>3. CASE ~(s = b /\ proc[s].at = op.p)
      BY <3>1, <3>3 DEF InstallBinary
    <3> QED BY <3>2, <3>3
  <2>2. proc' \in Procs
    BY <2>1 DEF InstallBinary, Procs
  <2> QED BY <2>1, <2>2
<1>3. PICK v \in Release \cup {None, Part} : bins' = [bins EXCEPT ![op.p][b] = v]
  BY <1>0 DEF InstallBinary
<1>4. /\ bins' \in [Prefix -> [Bin -> Release \cup {None, Part}]]
      /\ bins'[op.p][b] = v
      /\ \A q \in Prefix, c \in Bin : q # op.p \/ c # b => bins'[q][c] = bins[q][c]
  BY <1>0, <1>3 DEF TypeOK
<1>5. AgentUnitOK' /\ CfgOK'
  BY <1>1, <1>2 DEF HostInv, AgentUnitOK, Quiet, CfgOK
<1>7. CASE Disturbed("failed")
  <2>1. op' \in Ops /\ op'.pc = "idle" /\ op'.st = "failed" /\ op'.hurt
    BY <1>7, FinishesHurt
  <2>2. OpOK' /\ InstallOK' /\ StartOK' /\ RemoveOK' /\ UninstallOK' /\ SetupOK'
    BY <2>1, Elsewhere
  <2>3. TypeOK'
    BY <1>1, <1>2, <1>4, <2>1 DEF HostInv, TypeOK, Ops, Pcs, Procs, ProcRec
  <2> QED BY <1>5, <2>2, <2>3 DEF HostInv
<1>8. ASSUME NEW next \in {"agent", "web", "meta"}, Then(next),
             bins' = [bins EXCEPT ![op.p][b] = op.rel],
             \/ b = "cli" /\ next = "agent"
             \/ b = "agent" /\ next = "web"
             \/ b = "web" /\ next = "meta"
      PROVE  HostInv'
  <2>1. op' \in Ops /\ op'.pc = next /\ Kept
    BY <1>8, Goes DEF Pcs
  <2>2. /\ bins'[op.p][b] = op.rel
        /\ \A c \in Bin \ {b} : bins'[op.p][c] = bins[op.p][c]
    BY <1>0, <1>4, <1>8 DEF TypeOK
  <2>3. RemoveOK' /\ UninstallOK' /\ SetupOK'
    BY <1>0, <2>1, Elsewhere DEF Kept, InstallPcs, PastGroup, PastUser, PastCli,
       PastAgent, PastWeb, PastMeta, PastDirs, PastUnitA, PastEnableA, PastUnitW,
       PastEnableW
  <2>4. OpOK'
    BY <1>0, <1>8, <2>1, OpGoesOn DEF InstallPcs, PastGroup, PastUser, PastCli,
       PastAgent, PastWeb, PastMeta, PastDirs, PastUnitA, PastEnableA, PastUnitW,
       PastEnableW
  <2>5. InstallOK' /\ StartOK'
    BY <1>0, <1>1, <1>8, <2>1, <2>2 DEF HostInv, InstallOK, StartOK, Kept, Bin, Svc,
       InstallPcs, PastGroup, PastUser, PastCli, PastAgent, PastWeb, PastMeta, PastDirs,
     PastUnitA, PastEnableA, PastUnitW, PastEnableW
  <2>6. TypeOK'
    BY <1>1, <1>2, <1>4, <2>1 DEF HostInv, TypeOK, Ops, Pcs, Procs, ProcRec
  <2> QED BY <1>5, <2>3, <2>4, <2>5, <2>6 DEF HostInv
<1> QED BY <1>7, <1>8 DEF InstallBinary, Bin, Svc

(* install.sh looks at what it has done.                                   *)
LEMMA VerifyInv ==
  ASSUME HostInv, Verify
  PROVE  HostInv'
<1>1. /\ op.pc = "verify" /\ op.st = "run" /\ op \in Ops
      /\ UNCHANGED <<user, bins, meta, data, cfg, unit, loaded, enabled, proc, port>>
  BY OpType DEF HostInv, OpOK, Verify, At, host
<1>2. PICK st \in {"ok", "failed"} : Finish(st) /\ ignored' \in BOOLEAN
  BY DEF Verify, HostInv, TypeOK
<1>3. op' \in Ops /\ op'.pc = "idle" /\ op'.st = st
  BY <1>2, Finishes
<1>4. OpOK' /\ InstallOK' /\ StartOK' /\ RemoveOK' /\ UninstallOK' /\ SetupOK'
  BY <1>3, Elsewhere
<1>5. unit["agent"] = op.p /\ op.p \in Prefix
  BY <1>1 DEF HostInv, InstallOK, Ops, PastUnitA, PastEnableA, PastUnitW, PastEnableW
<1>6. AgentUnitOK' /\ CfgOK'
  BY <1>1, <1>5, PrefixAssumption DEF HostInv, AgentUnitOK, CfgOK
<1>7. TypeOK'
  BY <1>1, <1>2, <1>3 DEF HostInv, TypeOK, Ops, Pcs
<1> QED BY <1>4, <1>6, <1>7 DEF HostInv

(* saveBind truncates the file, unless it does not parse.                  *)
LEMMA SaveReadInv ==
  ASSUME HostInv, SaveRead
  PROVE  HostInv'
<1>1. /\ op.pc = "save" /\ op.st = "run" /\ op \in Ops
      /\ UNCHANGED <<user, bins, meta, data, unit, loaded, enabled, proc, port, ignored>>
  BY OpType DEF HostInv, OpOK, SaveRead, At
<1>2. AgentUnitOK'
  BY <1>1 DEF HostInv, AgentUnitOK, Quiet
<1>3. CASE cfg.st = "bad" /\ Finish("failed") /\ UNCHANGED cfg
  <2>1. op' \in Ops /\ op'.pc = "idle" /\ op'.st = "failed" /\ op'.cmd = "setup"
    BY <1>1, <1>3, Finishes DEF HostInv, OpOK, SetupPcs
  <2>2. OpOK' /\ InstallOK' /\ StartOK' /\ RemoveOK' /\ UninstallOK' /\ SetupOK'
    BY <2>1, Elsewhere
  <2>3. CfgOK'
    BY <1>3, <2>1 DEF HostInv, CfgOK
  <2>4. TypeOK'
    BY <1>1, <1>3, <2>1 DEF HostInv, TypeOK, Ops, Pcs
  <2> QED BY <1>2, <2>2, <2>3, <2>4 DEF HostInv
<1>4. CASE /\ cfg' = [NoCfg EXCEPT !.st = "ok", !.grp = cfg.grp]
           /\ \/ op' = [op EXCEPT !.pc = "fill", !.own = cfg.own]
              \/ Ignored("fill")
  <2>1. /\ op' \in Ops /\ op'.pc = "fill" /\ Kept /\ (op.hurt => op'.hurt)
    <3>1. CASE op' = [op EXCEPT !.pc = "fill", !.own = cfg.own]
      <4>1. cfg.own \in BOOLEAN
        BY DEF HostInv, TypeOK
      <4>2. op' = [cmd |-> op.cmd, p |-> op.p, rel |-> op.rel, start |-> op.start,
                   bind |-> op.bind,
                   allow |-> op.allow, own |-> cfg.own, pc |-> "fill", st |-> op.st,
                   hurt |-> op.hurt, cmds |-> op.cmds, faults |-> op.faults]
        BY <1>1, <3>1 DEF Ops
      <4> QED BY <1>1, <4>1, <4>2 DEF Ops, Pcs, Kept
    <3>2. CASE Ignored("fill")
      BY <3>2, GoesHurt DEF Pcs
    <3> QED BY <1>4, <3>1, <3>2
  <2>2. /\ cfg' \in [st : {"none", "bad", "ok"}, own : BOOLEAN, bind : Bind,
                     grp : {"svc", "other", "root", "all"}]
        /\ cfg'.st = "ok"
    <3>1. NoCfg \in [st : {"none", "bad", "ok"}, own : BOOLEAN, bind : Bind,
                     grp : {"svc", "other", "root", "all"}]
      BY DEF NoCfg, Bind
    <3>2. cfg.grp \in {"svc", "other", "root", "all"}
      BY DEF HostInv, TypeOK
    <3> QED BY <1>4, <3>1, <3>2
  <2>3. InstallOK' /\ StartOK' /\ RemoveOK' /\ UninstallOK'
    BY <1>1, <2>1, Elsewhere DEF Kept, SetupPcs
  <2>4. OpOK'
    BY <1>1, <2>1, OpGoesOn DEF SetupPcs
  <2>5. SetupOK' /\ CfgOK'
    BY <1>1, <2>1, <2>2 DEF HostInv, SetupOK, CfgOK, Kept, SetupPcs
  <2>6. TypeOK'
    BY <1>1, <2>1, <2>2 DEF HostInv, TypeOK, Ops, Pcs
  <2> QED BY <1>2, <2>3, <2>4, <2>5, <2>6 DEF HostInv
<1> QED BY <1>3, <1>4 DEF SaveRead

(* A restart leaves the units and binaries alone, and needs a service that *)
(* runs or has a unit.                                                     *)
LEMMA RestartKeeps ==
  ASSUME HostInv, NEW s \in Svc, Restart(s),
         UNCHANGED <<user, files, loaded, enabled, port, ignored>>, op' \in Ops
  PROVE  TypeOK' /\ AgentUnitOK' /\ CfgOK'
<1>1. UNCHANGED <<user, bins, meta, cfg, unit, loaded, enabled, port, ignored>>
  BY DEF files
<1>2. TypeOK'
  BY <1>1, RestartIs DEF Restart, HostInv, TypeOK, Ops, Pcs, Procs, ProcRec
<1>3. CfgOK'
  BY <1>1 DEF HostInv, CfgOK
<1>4. ignored \/ unit["agent"] # None
  BY DEF Restart, Up, HostInv, AgentUnitOK, Quiet, Down, Svc
<1>5. AgentUnitOK'
  BY <1>1, <1>4 DEF AgentUnitOK
<1> QED BY <1>2, <1>3, <1>5

(* When install.sh has put one release everywhere, both services can be    *)
(* started or neither can.                                                 *)
LEMMA CanStartBoth ==
  ASSUME HostInv, NEW s \in Svc, user.uid # None, data.dir = user.uid, op.p \in Prefix,
         op.rel \in Release, \A t \in Svc : bins[op.p][t] = op.rel,
         \A t \in Svc : loaded[t] = op.p
  PROVE  CanStart(s, loaded) <=>
           ConfigOK /\ data.db \in {None, user.uid} /\ data.schema <= op.rel
BY PrefixAssumption DEF CanStart, OwnerOK, Svc

(* A restart then leaves what StartOK says.                                *)
LEMMA AtVerify ==
  ASSUME HostInv, NEW S \in SUBSET Svc, S # {}, Migrated(S, loaded), Owned,
         user.uid # None, data.dir = user.uid, op.p \in Prefix, op.rel \in Release,
         \A t \in Svc : bins[op.p][t] = op.rel, \A t \in Svc : loaded[t] = op.p,
         data'.schema \in Release \cup {0}, UNCHANGED <<user, cfg>>,
         op'.p = op.p, op'.rel = op.rel,
         \A t \in Svc : proc'[t].st = "up" => t \in S
  PROVE  StartOK'
<1>1. data.schema \in Nat /\ data'.schema \in Nat /\ op.rel \in Nat
  BY SchemaNat, SchemaType
<1>2. \A s \in Svc : CanStart(s, loaded) <=>
        ConfigOK /\ data.db \in {None, user.uid} /\ data.schema <= op.rel
  BY CanStartBoth
<1>3. ASSUME NEW s \in Svc, proc'[s].st = "up"
      PROVE  proc'[s].at = op.p /\ proc'[s].fresh /\ data'.schema = op.rel
  <2>1. /\ CanStart(s, loaded) /\ proc'[s].at = op.p /\ proc'[s].fresh
        /\ op.rel <= data'.schema
    BY <1>3 DEF Migrated
  <2>2. data'.schema = data.schema \/ data'.schema = op.rel
    BY DEF Migrated
  <2> QED BY <1>1, <1>2, <2>1, <2>2
<1>4. \/ proc'["agent"].st = "up" \/ proc'["web"].st = "up"
      \/ ~ConfigOK \/ data'.db \notin {None, user.uid} \/ data'.schema > op.rel
  <2>1. CASE \E s \in S : CanStart(s, loaded)
    BY <2>1 DEF Migrated, Svc
  <2>2. CASE \A s \in S : ~CanStart(s, loaded)
    <3>1. ~ConfigOK \/ data.db \notin {None, user.uid} \/ data.schema > op.rel
      BY <1>1, <1>2, <2>2
    <3>2. data.schema > op.rel => data'.schema > op.rel
      BY <1>1 DEF Migrated
    <3> QED BY <3>1, <3>2 DEF Owned
  <2> QED BY <2>1, <2>2
<1>5. ConfigOK' <=> ConfigOK
  BY DEF ConfigOK
<1> QED BY <1>3, <1>4, <1>5 DEF StartOK

(* install.sh restarts the agent, unless --no-start.                       *)
LEMMA StartServiceInv ==
  ASSUME HostInv, StartService
  PROVE  HostInv'
<1>1. /\ op.pc = "start" /\ op.st = "run" /\ op \in Ops
      /\ op' \in Ops /\ op'.pc = "verify" /\ op'.hurt = op.hurt /\ Kept
  BY OpType, Goes DEF HostInv, OpOK, StartService, At, Pcs
<1>2. UNCHANGED <<user, bins, meta, cfg, unit, loaded, enabled, port, ignored>>
  BY DEF StartService, files
<1>3. RemoveOK' /\ UninstallOK' /\ SetupOK'
  BY <1>1, Elsewhere DEF Kept, InstallPcs, PastGroup, PastUser, PastCli, PastAgent,
     PastWeb, PastMeta, PastDirs, PastUnitA, PastEnableA, PastUnitW, PastEnableW
<1>4. OpOK'
  BY <1>1, OpGoesOn DEF InstallPcs, PastGroup, PastUser, PastCli, PastAgent, PastWeb,
     PastMeta, PastDirs, PastUnitA, PastEnableA, PastUnitW, PastEnableW
<1>5. /\ user.uid # None /\ data.dir = user.uid /\ op.p \in Prefix
      /\ op.rel \in Release /\ \A s \in Svc : bins[op.p][s] = op.rel
      /\ \A s \in Svc : unit[s] = op.p /\ loaded[s] = op.p
  BY <1>1 DEF HostInv, OpOK, InstallOK, Ops, Svc, InstallPcs, PastGroup, PastUser, PastCli,
     PastAgent, PastWeb, PastMeta, PastDirs, PastUnitA, PastEnableA, PastUnitW, PastEnableW
<1>6. CASE ~op.start /\ UNCHANGED <<proc, data>>
  <2>1. TypeOK' /\ AgentUnitOK' /\ CfgOK'
    BY <1>1, <1>2, <1>6 DEF HostInv, TypeOK, Ops, Pcs, AgentUnitOK, Quiet, CfgOK
  <2>2. InstallOK'
    BY <1>1, <1>2, <1>6 DEF HostInv, InstallOK, Kept, InstallPcs, PastGroup, PastUser,
       PastCli, PastAgent, PastWeb, PastMeta, PastDirs, PastUnitA, PastEnableA, PastUnitW,
       PastEnableW
  <2>3. StartOK'
    BY <1>1, <1>6 DEF StartOK, Kept
  <2> QED BY <1>3, <1>4, <2>1, <2>2, <2>3 DEF HostInv
<1>7. CASE op.start /\ Restart("agent")
  <2>0. "agent" \in Svc
    BY DEF Svc
  <2>1. TypeOK' /\ AgentUnitOK' /\ CfgOK'
    BY <1>1, <1>7, <2>0, RestartKeeps DEF StartService
  <2>2. /\ Started(RestartSet("agent"), loaded)
        /\ Migrated(RestartSet("agent"), loaded) /\ Owned
        /\ data'.schema \in Release \cup {0}
        /\ \A t \in Svc : proc'[t].st = "up" => t \in RestartSet("agent")
        /\ RestartSet("agent") \subseteq Svc /\ "agent" \in RestartSet("agent")
    BY <1>7, <2>0, RestartIs, RestartSetIs DEF Restart
  <2>3. InstallOK'
    BY <1>1, <1>2, <1>5, <2>2 DEF HostInv, InstallOK, Kept, Owned, InstallPcs, PastGroup,
       PastUser, PastCli, PastAgent, PastWeb, PastMeta, PastDirs, PastUnitA, PastEnableA,
       PastUnitW, PastEnableW
  <2>4. StartOK'
    BY <1>1, <1>2, <1>5, <2>2, AtVerify DEF Kept, HostInv
  <2> QED BY <1>3, <1>4, <2>1, <2>3, <2>4 DEF HostInv
<1> QED BY <1>6, <1>7 DEF StartService

(* web setup restarts the panel and takes no notice if that fails.         *)
LEMMA SetupRestartInv ==
  ASSUME HostInv, SetupRestart
  PROVE  HostInv'
<1>1. /\ op.pc = "restart" /\ op.st = "run" /\ op.cmd = "setup"
      /\ UNCHANGED <<user, bins, meta, cfg, unit, loaded, enabled, port, ignored>>
  BY DEF HostInv, OpOK, SetupRestart, At, files, SetupPcs
<1>2. op' \in Ops /\ op'.pc = "idle" /\ op'.st = "ok"
  BY Finishes, FinishesHurt DEF SetupRestart
<1>3. OpOK' /\ InstallOK' /\ StartOK' /\ RemoveOK' /\ UninstallOK' /\ SetupOK'
  BY <1>2, Elsewhere
<1>4. TypeOK' /\ AgentUnitOK' /\ CfgOK'
  <2>1. CASE Restart("web")
    BY <1>2, <2>1, RestartKeeps DEF SetupRestart, Svc
  <2>2. CASE UNCHANGED <<proc, data>>
    BY <1>1, <1>2, <2>2 DEF HostInv, TypeOK, Ops, Pcs, AgentUnitOK, Quiet, CfgOK
  <2> QED BY <2>1, <2>2 DEF SetupRestart
<1> QED BY <1>3, <1>4 DEF HostInv

(* The commands that are over at once.                                     *)
LEMMA AtOnce ==
  ASSUME HostInv, Command(NoOp)
  PROVE  /\ op' \in Ops /\ op.pc = "idle"
         /\ OpOK' /\ InstallOK' /\ StartOK' /\ RemoveOK' /\ UninstallOK' /\ SetupOK'
<1>1. op' \in Ops /\ op.pc = "idle" /\ op'.pc = "idle" /\ op'.st = "ok"
  BY NoOpType, Starts DEF NoOp
<1> QED BY <1>1, Elsewhere

(* infrapilot service and infrapilot web.                                  *)
LEMMA ServiceInv ==
  ASSUME HostInv, NEW s \in Svc, Service(s)
  PROVE  HostInv'
<1>1. Command(NoOp) /\ UNCHANGED <<user, bins, meta, cfg, unit, port, ignored>>
  BY DEF Service, ServiceStart, ServiceStop, ServiceEnable, files
<1>2. OpOK' /\ InstallOK' /\ StartOK' /\ RemoveOK' /\ UninstallOK' /\ SetupOK'
  BY <1>1, AtOnce
<1>3. op' \in Ops
  BY <1>1, AtOnce
<1>4. CfgOK'
  BY <1>1 DEF HostInv, CfgOK
<1>5. CASE ServiceStart(s)
  <2>1. CASE Restart(s)
    <3>1. TypeOK' /\ AgentUnitOK'
      BY <1>3, <1>5, <2>1, RestartKeeps DEF ServiceStart
    <3> QED BY <1>2, <1>4, <3>1 DEF HostInv
  <2>2. CASE UNCHANGED <<proc, data>>
    <3>1. UNCHANGED <<loaded, enabled>>
      BY <1>5 DEF ServiceStart
    <3>2. TypeOK' /\ AgentUnitOK'
      BY <1>1, <1>3, <2>2, <3>1 DEF HostInv, TypeOK, Ops, Pcs, AgentUnitOK, Quiet
    <3> QED BY <1>2, <1>4, <3>2 DEF HostInv
  <2> QED BY <1>5, <2>1, <2>2 DEF ServiceStart
<1>6. CASE ServiceStop(s)
  <2>1. UNCHANGED <<data, loaded, enabled>>
    BY <1>6 DEF ServiceStop
  <2>2. Down \in ProcRec
    BY DEF Down, ProcRec, Bind
  <2>3. proc' \in Procs /\ \A t \in Svc : proc'[t] = proc[t] \/ proc'[t] = Down
    BY <1>6, <2>2 DEF HostInv, TypeOK, ServiceStop, Stop, Procs, ProcRec
  <2>4. TypeOK'
    BY <1>1, <1>3, <2>1, <2>3 DEF HostInv, TypeOK, Ops, Pcs, Procs, ProcRec
  <2>5. AgentUnitOK'
    BY <1>1, <2>1, <2>3 DEF HostInv, AgentUnitOK, Quiet
  <2> QED BY <1>2, <1>4, <2>4, <2>5 DEF HostInv
<1>7. CASE ServiceEnable(s)
  <2>1. UNCHANGED <<data, proc>> /\ loaded' = unit /\ unit[s] # None
    BY <1>7 DEF ServiceEnable
  <2>2. enabled' \in [Svc -> BOOLEAN]
    BY <1>7 DEF HostInv, TypeOK, ServiceEnable
  <2>3. TypeOK'
    BY <1>1, <1>3, <2>1, <2>2 DEF HostInv, TypeOK, Ops, Pcs
  <2>4. AgentUnitOK'
    BY <1>1, <2>1 DEF HostInv, AgentUnitOK, Svc
  <2> QED BY <1>2, <1>4, <2>3, <2>4 DEF HostInv
<1> QED BY <1>5, <1>6, <1>7 DEF Service

(* The operator edits config.yaml.                                         *)
LEMMA EditInv ==
  ASSUME HostInv, Edit
  PROVE  HostInv'
<1>1. /\ UNCHANGED <<user, bins, meta, data, unit, loaded, enabled, proc, port, ignored>>
      /\ cfg' \in [st : {"none", "bad", "ok"}, own : BOOLEAN, bind : Bind,
                   grp : {"svc", "other", "root", "all"}]
      /\ cfg'.st = "ok"
  <2>1. cfg.grp \in {"svc", "other", "root", "all"}
    BY DEF HostInv, TypeOK
  <2> QED BY <2>1 DEF Edit
<1>2. /\ op' \in Ops
      /\ OpOK' /\ InstallOK' /\ StartOK' /\ RemoveOK' /\ UninstallOK' /\ SetupOK'
  BY AtOnce DEF Edit
<1>3. TypeOK'
  BY <1>1, <1>2 DEF HostInv, TypeOK, Ops, Pcs
<1>4. AgentUnitOK' /\ CfgOK'
  BY <1>1 DEF HostInv, AgentUnitOK, Quiet, CfgOK
<1> QED BY <1>2, <1>3, <1>4 DEF HostInv

(* A service fails, perhaps while a command runs.                          *)
LEMMA SvcCrashInv ==
  ASSUME HostInv, NEW s \in Svc, SvcCrash(s)
  PROVE  HostInv'
<1>1. UNCHANGED <<user, bins, meta, data, cfg, unit, loaded, enabled, port, ignored>>
  BY DEF SvcCrash, files
<1>2. /\ op' \in Ops /\ op'.pc = op.pc /\ Kept
      /\ op'.hurt = (op.hurt \/ op.st = "run")
  <2>1. op \in Ops /\ op.faults + 1 \in 0..MaxFaults
    BY OpType, BoundAssumption DEF SvcCrash, Fault, Ops
  <2>2. op' = [cmd |-> op.cmd, p |-> op.p, rel |-> op.rel, start |-> op.start,
               bind |-> op.bind,
               allow |-> op.allow, own |-> op.own, pc |-> op.pc, st |-> op.st,
               hurt |-> op.hurt \/ op.st = "run", cmds |-> op.cmds,
               faults |-> op.faults + 1]
    BY <2>1 DEF SvcCrash, Ops
  <2>3. (op.hurt \/ op.st = "run") \in BOOLEAN
    OBVIOUS
  <2> QED BY <2>1, <2>2, <2>3 DEF Ops, Kept
<1>3. /\ proc' \in Procs /\ proc[s].st = "up" /\ proc'[s].st = "failed"
      /\ \A t \in Svc \ {s} : proc'[t] = proc[t]
  <2>1. proc \in Procs /\ Down \in ProcRec
    BY DEF HostInv, TypeOK, Procs, ProcRec, Down, Bind
  <2>2. PICK d : d = [Down EXCEPT !.st = "failed"]
    OBVIOUS
  <2>3. d \in ProcRec /\ d.st = "failed"
    BY <2>1, <2>2 DEF ProcRec
  <2> QED BY <2>1, <2>2, <2>3 DEF SvcCrash, Procs
<1>4. TypeOK'
  BY <1>1, <1>2, <1>3 DEF HostInv, TypeOK, Ops, Pcs, Procs, ProcRec
<1>5. /\ OpOK' /\ InstallOK' /\ SetupOK' /\ CfgOK'
  <2>1. OpOK'
    BY <1>2 DEF HostInv, OpOK, Kept
  <2>2. InstallOK'
    BY <1>1, <1>2 DEF HostInv, InstallOK, Kept
  <2>3. SetupOK'
    BY <1>1, <1>2 DEF HostInv, SetupOK, Kept
  <2>4. CfgOK'
    BY <1>1 DEF HostInv, CfgOK
  <2> QED BY <2>1, <2>2, <2>3, <2>4
<1>6. StartOK'
  BY <1>1, <1>2, <1>3 DEF HostInv, OpOK, StartOK, Kept
<1>8. ~Quiet /\ proc[s] # Down
  BY <1>3 DEF Quiet, Down
<1>9. AgentUnitOK' /\ RemoveOK'
  BY <1>1, <1>2, <1>8 DEF HostInv, AgentUnitOK, RemoveOK, Kept
<1>10. UninstallOK'
  BY <1>1, <1>2, <1>8 DEF HostInv, UninstallOK, Kept, PastStopA, PastDisableA, PastRmUnitW,
     PastRmUnitA, PastReload, PurgePcs
<1> QED BY <1>4, <1>5, <1>6, <1>9, <1>10 DEF HostInv

(* systemd starts a failed service again, perhaps while a command runs.    *)
LEMMA SvcRestartInv ==
  ASSUME HostInv, NEW s \in Svc, SvcRestart(s)
  PROVE  HostInv'
<1>1. /\ UNCHANGED <<user, bins, meta, cfg, unit, loaded, enabled, port, op, ignored>>
      /\ proc[s].st = "failed" /\ CanStart(s, loaded)
  BY DEF SvcRestart, files
<1>2. /\ proc' \in Procs
      /\ data' \in [dir : Uid \cup {None}, db : Uid \cup {None}, schema : Release \cup {0}]
      /\ \A t \in Svc \ RestartSet(s) : proc'[t] = proc[t]
      /\ Migrated(RestartSet(s), loaded) /\ Owned
  BY RestartIs DEF SvcRestart
<1>3. TypeOK'
  BY <1>1, <1>2 DEF HostInv, TypeOK, Procs, ProcRec
<1>4. OpOK' /\ SetupOK' /\ CfgOK'
  BY <1>1 DEF HostInv, OpOK, SetupOK, CfgOK
<1>5. InstallOK'
  BY <1>1, <1>2 DEF HostInv, InstallOK, Owned
<1>6. StartOK'
  <2> SUFFICES ASSUME op.pc = "verify", op.start
               PROVE  StartOK'
    BY <1>1 DEF StartOK
  <2>1. /\ user.uid # None /\ data.dir = user.uid /\ op.p \in Prefix /\ op.rel \in Release
        /\ \A t \in Svc : bins[op.p][t] = op.rel
        /\ \A t \in Svc : loaded[t] = op.p
    BY OpType DEF HostInv, OpOK, InstallOK, Ops, Svc, InstallPcs, PastGroup, PastUser, PastCli,
       PastAgent, PastWeb, PastMeta, PastDirs, PastUnitA, PastEnableA, PastUnitW, PastEnableW
  <2>2. data.schema \in Nat /\ data'.schema \in Nat /\ op.rel \in Nat
    BY <1>2, <2>1, SchemaNat, SchemaType
  <2>3. RestartSet(s) \in SUBSET Svc /\ s \in RestartSet(s)
    BY RestartSetIs
  <2>4. data.schema <= op.rel
    BY <1>1, <2>1, CanStartBoth
  <2>5. PICK t \in Svc : proc'[t].st = "up"
    BY <1>1, <1>2, <2>3 DEF Migrated
  <2>6. ASSUME NEW r \in Svc, proc'[r].st = "up"
        PROVE  proc'[r].at = op.p /\ proc'[r].fresh /\ data'.schema = op.rel
    <3>1. data'.schema = data.schema \/ data'.schema = op.rel
      BY <1>2, <2>1, <2>3 DEF Migrated
    <3>2. CASE r \in RestartSet(s)
      BY <1>2, <2>1, <2>2, <2>4, <2>6, <3>1, <3>2 DEF Migrated
    <3>3. CASE r \notin RestartSet(s)
      BY <1>2, <2>6, <3>1, <3>3 DEF HostInv, StartOK
    <3> QED BY <3>2, <3>3
  <2> QED BY <1>1, <2>5, <2>6 DEF StartOK, Svc
<1>9. ~Quiet /\ proc[s] # Down
  BY <1>1 DEF Quiet, Down
<1>10. AgentUnitOK' /\ RemoveOK'
  BY <1>1, <1>9 DEF HostInv, AgentUnitOK, RemoveOK
<1>11. UninstallOK'
  BY <1>1, <1>9 DEF HostInv, UninstallOK, PastStopA, PastDisableA, PastRmUnitW,
     PastRmUnitA, PastReload, PurgePcs
<1> QED BY <1>3, <1>4, <1>5, <1>6, <1>10, <1>11 DEF HostInv

(* A reboot ends the command that runs and starts what is enabled.         *)
LEMMA RebootInv ==
  ASSUME HostInv, Reboot
  PROVE  HostInv'
<1>1. UNCHANGED <<user, bins, meta, cfg, unit, enabled, port, ignored>> /\ loaded' = unit
  BY DEF Reboot, files
<1> DEFINE on == {s \in Svc : enabled[s] /\ unit[s] # None}
           S == on \cup {s \in {"agent"} : on # {} /\ unit[s] # None}
           off == [s \in Svc |-> Down]
<1>2. StartedFrom(off, S, unit)
  BY DEF Reboot
<1>3. /\ TypeOK /\ off \in Procs /\ S \in SUBSET Svc
      /\ unit \in [Svc -> Prefix \cup {None}]
  BY DEF HostInv, TypeOK, Procs, ProcRec, Down, Bind, Svc
<1>4. /\ proc' \in Procs
      /\ data' \in [dir : Uid \cup {None}, db : Uid \cup {None}, schema : Release \cup {0}]
      /\ \A s \in Svc \ S : proc'[s] = Down
  <2>1. \A s \in Svc \ S : off[s] = Down
    OBVIOUS
  <2> HIDE DEF S, off
  <2> QED BY <1>2, <1>3, <2>1, StartedIs
<1>5. /\ op' \in Ops /\ op'.pc = "idle" /\ op'.st # "run"
      /\ op'.hurt \/ op' = op
  <2>1. CASE op.st = "run"
    BY <2>1, FinishesHurt DEF Reboot
  <2>2. CASE op.st # "run"
    BY <2>2, OpType DEF Reboot, HostInv, OpOK
  <2> QED BY <2>1, <2>2
<1>6. OpOK' /\ InstallOK' /\ StartOK' /\ RemoveOK' /\ UninstallOK' /\ SetupOK'
  BY <1>5, Elsewhere
<1>7. TypeOK'
  BY <1>1, <1>4, <1>5 DEF HostInv, TypeOK, Ops, Pcs, Procs, ProcRec
<1>8. CfgOK'
  BY <1>1 DEF HostInv, CfgOK
<1>9. AgentUnitOK'
  <2>1. ~ignored /\ unit["agent"] = None => S = {}
    BY DEF HostInv, AgentUnitOK, Quiet
  <2> HIDE DEF S
  <2> QED BY <1>1, <1>4, <2>1 DEF HostInv, AgentUnitOK, Quiet
<1> QED BY <1>6, <1>7, <1>8, <1>9 DEF HostInv

------------------------------------------------------------------------------
(* The theorems.                                                           *)

LEMMA InitInv == Init => HostInv
<1> SUFFICES ASSUME Init
             PROVE  HostInv
  OBVIOUS
<1>1. TypeOK
  <2>1. op \in Ops
    BY NoOpType DEF Init
  <2>2. Down \in ProcRec
    BY DEF Down, ProcRec, Bind
  <2>3. proc \in Procs
    BY <2>2 DEF Init, Procs
  <2>4. cfg \in [st : {"none", "bad", "ok"}, own : BOOLEAN, bind : Bind,
                 grp : {"svc", "other", "root", "all"}]
    BY DEF Init, NoCfg, Bind
  <2>5. bins \in [Prefix -> [Bin -> Release \cup {None, Part}]]
    BY DEF Init
  <2> QED BY <2>1, <2>3, <2>4, <2>5 DEF Init, TypeOK, Ops, Pcs, Procs, ProcRec
<1>2. /\ op.pc = "idle" /\ op.st = "ok" /\ op.cmd = "none" /\ ~cfg.own
      /\ \A s \in Svc : unit[s] = None /\ proc[s] = Down /\ ~enabled[s]
  BY DEF Init, NoOp, NoCfg
<1>3. OpOK /\ InstallOK /\ StartOK /\ RemoveOK /\ UninstallOK /\ SetupOK
  BY <1>2 DEF OpOK, InstallOK, StartOK, RemoveOK, UninstallOK, SetupOK, InstallPcs,
     PastGroup, PastUser, PastCli, PastAgent, PastWeb, PastMeta, PastDirs, PastUnitA,
     PastEnableA, PastUnitW, PastEnableW, RemovePcs, UninstallPcs, PastDisableW, PastStopA,
     PastDisableA, PastRmUnitW, PastRmUnitA, PastReload, PurgePcs, SetupPcs
<1>4. AgentUnitOK /\ CfgOK
  BY <1>2 DEF AgentUnitOK, Quiet, CfgOK, Svc
<1> QED BY <1>1, <1>3, <1>4 DEF HostInv

LEMMA InstallInv == HostInv /\ Install => HostInv'
<1> SUFFICES ASSUME HostInv, Install
             PROVE  HostInv'
  OBVIOUS
<1>1. CASE InstallBegin \/ BootstrapBegin
  BY <1>1, BeginsInv
<1>2. CASE CreateGroup
  BY <1>2, CreateGroupInv
<1>3. CASE CreateUser
  BY <1>3, CreateUserInv
<1>4. CASE \E b \in Bin : InstallBinary(b)
  BY <1>4, InstallBinaryInv
<1>5. CASE InstallMeta
  BY <1>5, InstallMetaInv
<1>6. CASE CreateDirectories
  BY <1>6, CreateDirectoriesInv
<1>7. CASE InstallConfig
  BY <1>7, InstallConfigInv
<1>8. CASE InstallService
  BY <1>8, InstallUnitAInv, InstallUnitWInv, DaemonReloadIInv, EnableUnitAInv,
     EnableUnitWInv DEF InstallService
<1>9. CASE StartService
  BY <1>9, StartServiceInv
<1>10. CASE Verify
  BY <1>10, VerifyInv
<1> QED BY <1>1, <1>2, <1>3, <1>4, <1>5, <1>6, <1>7, <1>8, <1>9, <1>10 DEF Install

LEMMA UninstallInv ==
  HostInv /\ (Remove \/ UninstallBegin \/ Uninstall \/ PurgeData \/ PurgeConfig) => HostInv'
<1> SUFFICES ASSUME HostInv,
                    Remove \/ UninstallBegin \/ Uninstall \/ PurgeData \/ PurgeConfig
             PROVE  HostInv'
  OBVIOUS
<1>1. CASE Remove
  BY <1>1, BeginsInv, RemoveDisableInv, RemoveUnitsInv, DaemonReloadRInv, RemoveBinariesInv,
     RemoveUserInv DEF Remove
<1>2. CASE UninstallBegin
  BY <1>2, BeginsInv
<1>3. CASE Uninstall
  BY <1>3, UninstallStopWInv, UninstallStopAInv, UninstallDisableWInv, UninstallDisableAInv,
     UninstallUnitWInv, UninstallUnitAInv, UninstallReloadInv, UninstallBinariesInv
     DEF Uninstall
<1>4. CASE PurgeData \/ PurgeConfig
  BY <1>4, PurgeDataInv, PurgeConfigInv
<1> QED BY <1>1, <1>2, <1>3, <1>4

LEMMA NextInv == HostInv /\ [Next]_vars => HostInv'
<1> SUFFICES ASSUME HostInv, [Next]_vars
             PROVE  HostInv'
  OBVIOUS
<1>1. CASE Install
  BY <1>1, InstallInv
<1>2. CASE Remove \/ UninstallBegin \/ Uninstall \/ PurgeData \/ PurgeConfig
  BY <1>2, UninstallInv
<1>3. CASE Setup
  BY <1>3, BeginsInv, SetupFirewallInv, SaveReadInv, SaveWriteInv, SetupRestartInv DEF Setup
<1>4. CASE Abort \/ Edit \/ Reboot
  BY <1>4, AbortInv, EditInv, RebootInv
<1>5. CASE (\E s \in Svc : Service(s) \/ SvcCrash(s) \/ SvcRestart(s)) \/ Web
  BY <1>5, ServiceInv, SvcCrashInv, SvcRestartInv DEF Web, Svc
<1>6. CASE UNCHANGED vars
  BY <1>6 DEF vars, HostInv, TypeOK, OpOK, ConfigOK, InstallOK, StartOK, AgentUnitOK,
     Quiet, RemoveOK, UninstallOK, SetupOK, CfgOK
<1> QED BY <1>1, <1>2, <1>3, <1>4, <1>5, <1>6 DEF Next

(* Whatever commands are given, wherever they stop, and whatever fails     *)
(* beside them, the host stays in a state that HostInv describes.          *)
THEOREM HostInvariant == Spec => []HostInv
<1>1. Init => HostInv
  BY InitInv
<1>2. HostInv /\ [Next]_vars => HostInv'
  BY NextInv
<1> QED BY <1>1, <1>2, PTL DEF Spec

(* The host and the command that runs are always well formed.              *)
THEOREM TypeCorrect == Spec => []TypeOK
<1>1. HostInv => TypeOK
  BY DEF HostInv
<1> QED BY <1>1, HostInvariant, PTL

------------------------------------------------------------------------------
(* Action properties.                                                      *)

(* The only steps with which a command reports success, or fails by itself *)
(* where nothing disturbed it.                                             *)
LEMMA Endings ==
  ASSUME HostInv, Next, op.st = "run",
         op'.st = "ok" \/ (op'.st = "failed" /\ ~op'.hurt)
  PROVE  \/ Verify \/ SetupRestart \/ RemoveUser \/ UninstallBinaries \/ PurgeConfig
         \/ SaveRead /\ op'.st = "failed"
<1>1. ASSUME NEW pc \in Pcs, Then(pc) \/ Ignored(pc)
      PROVE  FALSE
  BY <1>1, Goes, GoesHurt DEF Kept
<1>2. ~Disturbed("failed")
  BY FinishesHurt
<1>3. \A new : ~Command(new)
  BY DEF Command
<1>4. ~(InstallBegin \/ BootstrapBegin \/ RemoveBegin \/ UninstallBegin \/ SetupBegin)
  BY <1>3 DEF InstallBegin, BootstrapBegin, RemoveBegin, UninstallBegin, SetupBegin, Begin
<1>5. ~(CreateGroup \/ CreateUser \/ InstallMeta \/ CreateDirectories \/ StartService)
  BY <1>1 DEF CreateGroup, CreateUser, InstallMeta, CreateDirectories, StartService, Pcs
<1>6. \A b \in Bin : ~InstallBinary(b)
  <2> SUFFICES ASSUME NEW b \in Bin, InstallBinary(b)
               PROVE  FALSE
    OBVIOUS
  <2>1. (CASE b = "cli" -> "agent" [] b = "agent" -> "web" [] b = "web" -> "meta") \in Pcs
    BY DEF Bin, Svc, Pcs
  <2> QED BY <1>1, <1>2, <2>1 DEF InstallBinary
<1>7. ~InstallConfig
  BY <1>1, <1>2 DEF InstallConfig, Pcs
<1>8. ~InstallService
  BY <1>1 DEF InstallService, InstallUnit, DaemonReload, EnableUnit, Pcs
<1>9. ~(RemoveDisable \/ RemoveUnits \/ DaemonReload("rmReload", "rmBins") \/ RemoveBinaries)
  BY <1>1, <1>2 DEF RemoveDisable, RemoveUnits, DaemonReload, RemoveBinaries, Pcs
<1>10. Uninstall => UninstallBinaries
  BY <1>1 DEF Uninstall, UninstallStop, UninstallDisable, UninstallUnit,
     UninstallReload, Pcs
<1>11. ~PurgeData /\ ~Abort
  BY <1>1, <1>2 DEF PurgeData, Abort, Pcs
<1>12. ~SetupFirewall /\ ~SaveWrite
  BY <1>1, <1>2 DEF SetupFirewall, SaveWrite, Pcs
<1>13. SaveRead => op'.st = "failed"
  <2>1. ~(op' = [op EXCEPT !.pc = "fill", !.own = cfg.own])
    <3>1. op \in Ops
      BY OpType
    <3> QED BY <3>1 DEF Ops
  <2> QED BY <1>1, <2>1, Finishes DEF SaveRead, Pcs
<1>14. \A s \in Svc : ~Service(s)
  BY <1>3 DEF Service, ServiceStart, ServiceStop, ServiceEnable
<1>15. \A s \in Svc : ~SvcCrash(s) /\ ~SvcRestart(s)
  <2> SUFFICES ASSUME NEW s \in Svc, SvcCrash(s) \/ SvcRestart(s)
               PROVE  op'.st = op.st
    OBVIOUS
  <2>1. op \in Ops
    BY OpType
  <2> QED BY <2>1 DEF SvcCrash, SvcRestart, Ops
<1>16. ~Edit /\ ~Reboot
  BY <1>2, <1>3 DEF Edit, Reboot
<1>17. ~Web
  BY <1>14 DEF Web, Svc
<1>18. Install => Verify
  BY <1>4, <1>5, <1>6, <1>7, <1>8 DEF Install
<1>19. Remove => RemoveUser
  BY <1>4, <1>9 DEF Remove
<1>20. Setup => SetupRestart \/ SaveRead
  BY <1>4, <1>12, <1>13 DEF Setup
<1> QED BY <1>4, <1>10, <1>11, <1>13, <1>14, <1>15, <1>16, <1>17, <1>18, <1>19, <1>20 DEF Next

(* install.sh ends, undisturbed or with success, where it looks at what it *)
(* has done: one release is everywhere under one prefix.                   *)
LEMMA AtTheEnd ==
  ASSUME HostInv, Next, Ends("install", "ok") \/ (Ends("install", "failed") /\ ~op'.hurt)
  PROVE  /\ Verify /\ op.pc = "verify" /\ op.p \in Prefix /\ op.rel \in Release
         /\ UNCHANGED host
         /\ \A b \in Bin : bins[op.p][b] = op.rel
         /\ meta = op.p /\ user.uid # None /\ user.group /\ data.dir = user.uid
         /\ \A s \in Svc : unit[s] = op.p /\ loaded[s] = op.p /\ enabled[s]
<1>1. \/ Verify \/ SetupRestart \/ RemoveUser \/ UninstallBinaries \/ PurgeConfig
      \/ SaveRead
  BY Endings DEF Ends
<1>2. Verify
  BY <1>1 DEF Ends, SetupRestart, RemoveUser, UninstallBinaries, PurgeConfig, SaveRead,
     At, HostInv, OpOK, SetupPcs, RemovePcs, UninstallPcs, PastDisableW, PastStopA,
     PastDisableA, PastRmUnitW, PastRmUnitA, PastReload, PurgePcs
<1>3. op.pc = "verify" /\ UNCHANGED host /\ op.p \in Prefix
  BY <1>2, OpType DEF Verify, At, Ops
<1> QED BY <1>2, <1>3 DEF HostInv, OpOK, InstallOK, Bin, Svc, InstallPcs, PastGroup,
       PastUser, PastCli, PastAgent, PastWeb, PastMeta, PastDirs, PastUnitA, PastEnableA,
       PastUnitW, PastEnableW

(* When install.sh reports success, everything it is for is there, no      *)
(* service that runs is an old one and the database has the schema of the  *)
(* release; when web setup does, undisturbed, the panel listens where the  *)
(* operator said.                                                          *)
THEOREM SuccessTrue == Spec => SuccessIsTrue
<1> DEFINE A == /\ \A p \in Prefix, rel \in Release, start \in BOOLEAN :
                     Ends("install", "ok") /\ op.p = p /\ op.rel = rel /\ op.start = start =>
                       Installed(p, rel, start)'
                /\ Ends("setup", "ok") /\ ~op'.hurt =>
                     /\ cfg'.bind = op.bind /\ (op.allow => port')
                     /\ proc'["web"].st = "up" => proc'["web"].bind = op.bind
<1>1. HostInv /\ [Next]_vars => [A]_vars
  <2> SUFFICES ASSUME HostInv, Next
               PROVE  A
    OBVIOUS
  <2>1. ASSUME NEW p \in Prefix, NEW rel \in Release, NEW start \in BOOLEAN,
               Ends("install", "ok"), op.p = p, op.rel = rel, op.start = start
        PROVE  Installed(p, rel, start)'
    <3>1. /\ Verify /\ op.pc = "verify" /\ UNCHANGED host
          /\ \A b \in Bin : bins[p][b] = rel
          /\ meta = p /\ user.uid # None /\ user.group /\ data.dir = user.uid
          /\ \A s \in Svc : unit[s] = p /\ loaded[s] = p /\ enabled[s]
      BY <2>1, AtTheEnd
    <3>2. op.start => "agent" \in Up
      <4>1. ~Finish("failed")
        BY <2>1, Finishes DEF Ends
      <4> QED BY <3>1, <4>1 DEF Verify
    <3>3. op.start => /\ data.schema = rel
                      /\ \A s \in Up : proc[s].at = p /\ proc[s].fresh
      BY <2>1, <3>1, <3>2 DEF HostInv, StartOK, Up
    <3> QED BY <2>1, <3>1, <3>2, <3>3 DEF Installed, host, Up
  <2>2. ASSUME Ends("setup", "ok"), ~op'.hurt
        PROVE  /\ cfg'.bind = op.bind /\ (op.allow => port')
               /\ proc'["web"].st = "up" => proc'["web"].bind = op.bind
    <3>1. Verify \/ SetupRestart \/ RemoveUser \/ UninstallBinaries \/ PurgeConfig
      BY <2>2, Endings DEF Ends
    <3>2. SetupRestart
      BY <2>2, <3>1 DEF Ends, Verify, RemoveUser, UninstallBinaries, PurgeConfig,
         At, HostInv, OpOK, InstallPcs, PastGroup, PastUser, PastCli, PastAgent, PastWeb,
         PastMeta, PastDirs, PastUnitA, PastEnableA, PastUnitW, PastEnableW, RemovePcs,
         UninstallPcs, PastDisableW, PastStopA, PastDisableA, PastRmUnitW, PastRmUnitA,
         PastReload, PurgePcs
    <3>3. Restart("web") /\ Finish("ok")
      BY <2>2, <3>2, FinishesHurt DEF SetupRestart
    <3>4. op.pc = "restart" /\ UNCHANGED <<cfg, port>>
      BY <3>2 DEF SetupRestart, At, files
    <3>5. ~op.hurt
      BY <2>2, <3>3, Finishes
    <3>6. cfg.bind = op.bind /\ (op.allow => port)
      BY <3>4, <3>5 DEF HostInv, SetupOK, SetupPcs
    <3>7. proc'["web"].st = "up" => proc'["web"].bind = cfg.bind
      BY <3>3, RestartIs, RestartSetIs DEF Restart, Migrated, Svc
    <3> QED BY <3>4, <3>6, <3>7
  <2> QED BY <2>1, <2>2
<1>2. SuccessIsTrue <=> [][A]_vars
  BY DEF SuccessIsTrue
<1> HIDE DEF A
<1> QED BY <1>1, <1>2, HostInvariant, PTL DEF Spec

(* An install.sh that nothing disturbs fails for no other reason than the  *)
(* configuration, the owner or the schema of the database, or a panel that *)
(* migrated it at the same moment.                                         *)
THEOREM Retries == Spec => RetrySucceeds
<1> DEFINE A == Ends("install", "failed") /\ ~op'.hurt =>
                  \/ cfg.st = "bad"
                  \/ op.start /\ ~ConfigOK
                  \/ op.start /\ data.db \notin {None, user.uid}
                  \/ data.schema > op.rel
                  \/ ~op.start /\ data.db # None /\ data.schema < op.rel
                  \/ op.start /\ Up = {"web"} /\ data.schema = op.rel
<1>1. HostInv /\ [Next]_vars => [A]_vars
  <2> SUFFICES ASSUME HostInv, Next, Ends("install", "failed"), ~op'.hurt, cfg.st # "bad"
               PROVE  A
    OBVIOUS
  <2>1. /\ Verify /\ op.pc = "verify" /\ op.rel \in Release
        /\ \A b \in Bin : bins[op.p][b] = op.rel
        /\ user.uid # None /\ data.dir = user.uid
    BY AtTheEnd
  <2>2. data.schema \in Nat /\ op.rel \in Nat
    BY <2>1, SchemaNat, SchemaType
  <2>3. ~Finish("ok")
    BY Finishes DEF Ends
  <2>4. ~op.hurt
    <3>1. Finish("failed")
      BY <2>1, <2>3 DEF Verify
    <3> QED BY <3>1, Finishes
  <2>5. \/ op.start /\ "agent" \notin Up
        \/ data.db # None /\ data.schema # op.rel
    BY <2>1, <2>3 DEF Verify, Bin
  <2>6. CASE ~op.start
    BY <2>2, <2>5, <2>6
  <2>7. CASE op.start
    <3>1. proc["agent"].st # "up"
      BY <2>1, <2>5, <2>7 DEF HostInv, StartOK, Up, Svc
    <3>2. CASE proc["web"].st = "up"
      <4>1. Up = {"web"}
        BY <3>1, <3>2 DEF Up, Svc
      <4>2. data.schema = op.rel
        BY <2>1, <2>7, <3>2 DEF HostInv, StartOK, Svc
      <4> QED BY <2>7, <4>1, <4>2
    <3>3. CASE proc["web"].st # "up"
      BY <2>1, <2>4, <2>7, <3>1, <3>3 DEF HostInv, StartOK
    <3> QED BY <3>2, <3>3
  <2> QED BY <2>6, <2>7
<1>2. RetrySucceeds <=> [][A]_vars
  BY DEF RetrySucceeds
<1> HIDE DEF A
<1> QED BY <1>1, <1>2, HostInvariant, PTL DEF Spec

(* A unit file comes to name a binary that is not whole only where         *)
(* install.sh is stopped while it replaces that very binary, unless an     *)
(* uninstall passed over a failed step.                                    *)
THEOREM UnitsHaveBinaries == Spec => UnitHasBinary
<1> DEFINE A == \A s \in Svc : Whole(s) /\ ~Whole(s)' /\ ~ignored =>
                  Ends("install", "failed") /\ op.pc = s /\ op.p = unit[s]
<1>1. HostInv /\ [Next]_vars => [A]_vars
  <2> SUFFICES ASSUME HostInv, Next
               PROVE  A
    OBVIOUS
  <2>1. /\ unit \in [Svc -> Prefix \cup {None}] /\ op.p \in Prefix
        /\ bins \in [Prefix -> [Bin -> Release \cup {None, Part}]] /\ Svc \subseteq Bin
    BY DEF HostInv, TypeOK, Bin
  <2>2. ASSUME UNCHANGED bins, \A s \in Svc : unit'[s] \in {unit[s], None}
        PROVE  A
    BY <2>2 DEF Whole
  <2>3. ASSUME ~ignored => \A s \in Svc : unit[s] = None, UNCHANGED unit
        PROVE  A
    BY <2>3 DEF Whole
  <2>4. CASE Install
    <3>1. CASE InstallBegin \/ BootstrapBegin \/ Verify
      BY <2>2, <3>1 DEF InstallBegin, BootstrapBegin, Verify, Begin, host
    <3>2. CASE \/ CreateGroup \/ CreateUser \/ InstallMeta \/ CreateDirectories
               \/ InstallConfig \/ StartService
      BY <2>2, <3>2 DEF CreateGroup, CreateUser, InstallMeta, CreateDirectories,
         InstallConfig, StartService, files
    <3>3. ASSUME NEW b \in Bin, InstallBinary(b)
          PROVE  A
      <4>1. op.pc = b /\ op.st = "run" /\ op.cmd = "install" /\ op.rel \in Release
        BY <3>3 DEF HostInv, OpOK, InstallBinary, At, Bin, Svc, InstallPcs, PastGroup,
           PastUser, PastCli, PastAgent
      <4>2. UNCHANGED unit
        BY <3>3 DEF InstallBinary
      <4>3. CASE bins' = [bins EXCEPT ![op.p][b] = op.rel]
        BY <2>1, <4>1, <4>2, <4>3 DEF Whole
      <4>4. CASE Disturbed("failed") /\ \E v : bins' = [bins EXCEPT ![op.p][b] = v]
        <5>1. Ends("install", "failed")
          BY <4>1, <4>4, FinishesHurt DEF Ends
        <5> QED BY <2>1, <4>1, <4>2, <4>4, <5>1 DEF Whole
      <4> QED BY <3>3, <4>3, <4>4 DEF InstallBinary
    <3>4. ASSUME NEW t \in Svc, UNCHANGED bins, unit' = [unit EXCEPT ![t] = op.p],
                 bins[op.p][t] \in Release
          PROVE  A
      BY <2>1, <3>4 DEF Whole
    <3>5. CASE InstallService
      <4>1. CASE InstallUnit("agent", "unitA", "reload")
        <5>1. bins[op.p]["agent"] \in Release
          BY <4>1 DEF HostInv, OpOK, InstallOK, InstallUnit, At, InstallPcs, PastGroup,
             PastUser, PastCli, PastAgent, PastWeb, PastMeta, PastDirs
        <5> QED BY <3>4, <4>1, <5>1 DEF InstallUnit, Svc
      <4>2. CASE InstallUnit("web", "unitW", "enableW")
        <5>1. bins[op.p]["web"] \in Release
          BY <4>2 DEF HostInv, OpOK, InstallOK, InstallUnit, At, InstallPcs, PastGroup,
             PastUser, PastCli, PastAgent, PastWeb, PastMeta, PastDirs, PastUnitA, PastEnableA
        <5> QED BY <3>4, <4>2, <5>1 DEF InstallUnit, Svc
      <4>3. CASE \/ DaemonReload("reload", "enableA")
                 \/ EnableUnit("agent", "enableA", "unitW")
                 \/ EnableUnit("web", "enableW", "start")
        BY <2>2, <4>3 DEF DaemonReload, EnableUnit, files
      <4> QED BY <3>5, <4>1, <4>2, <4>3 DEF InstallService
    <3> HIDE DEF A
    <3> QED BY <2>4, <3>1, <3>2, <3>3, <3>5 DEF Install
  <2>5. CASE Remove
    <3>1. CASE RemoveBegin \/ RemoveDisable \/ DaemonReload("rmReload", "rmBins") \/ RemoveUser
      BY <2>2, <3>1 DEF RemoveBegin, Begin, host, RemoveDisable, DaemonReload, RemoveUser,
         files
    <3>2. CASE RemoveUnits
      BY <2>1, <2>2, <3>2 DEF RemoveUnits
    <3>3. CASE RemoveBinaries
      BY <2>3, <3>3 DEF RemoveBinaries, At, HostInv, RemoveOK
    <3> QED BY <2>5, <3>1, <3>2, <3>3 DEF Remove
  <2>6. CASE Setup
    BY <2>2, <2>6 DEF Setup, SetupBegin, Begin, host, SetupFirewall, SaveRead, SaveWrite,
       SetupRestart, files
  <2>7. CASE Abort \/ UninstallBegin \/ PurgeData \/ PurgeConfig
    BY <2>2, <2>7 DEF Abort, UninstallBegin, Begin, host, PurgeData, PurgeConfig, files
  <2>8. CASE Uninstall
    <3>1. ASSUME NEW t \in Svc, NEW pc, NEW next, UninstallUnit(t, pc, next)
          PROVE  A
      BY <2>1, <2>2, <3>1 DEF UninstallUnit
    <3>2. CASE UninstallBinaries
      BY <2>3, <3>2 DEF UninstallBinaries, At, HostInv, UninstallOK, PastRmUnitW,
         PastRmUnitA, PastReload, Svc
    <3>3. CASE \/ UninstallStop("web", "stopW", "disableW")
               \/ UninstallDisable("web", "disableW", "stopA")
               \/ UninstallStop("agent", "stopA", "disableA")
               \/ UninstallDisable("agent", "disableA", "rmUnitW") \/ UninstallReload
      BY <2>2, <3>3 DEF UninstallStop, UninstallDisable, UninstallReload, files
    <3> HIDE DEF A
    <3> QED BY <2>8, <3>1, <3>2, <3>3 DEF Uninstall, Svc
  <2>9. CASE \/ Web \/ Edit \/ Reboot
             \/ \E s \in Svc : Service(s) \/ SvcCrash(s) \/ SvcRestart(s)
    BY <2>2, <2>9 DEF Web, Edit, Reboot, Service, ServiceStart, ServiceStop, ServiceEnable,
       SvcCrash, SvcRestart, files
  <2> HIDE DEF A
  <2> QED BY <2>4, <2>5, <2>6, <2>7, <2>8, <2>9 DEF Next
<1>2. UnitHasBinary <=> [][A]_vars
  BY DEF UnitHasBinary
<1> HIDE DEF A
<1> QED BY <1>1, <1>2, HostInvariant, PTL DEF Spec

(* An undisturbed uninstall that reports success has left nothing that     *)
(* runs or would run, and a purge no data.                                 *)
THEOREM Uninstalled == Spec => UninstallComplete
<1> DEFINE A == \A cmd \in {"remove", "uninstall", "purge"}, p \in Prefix :
                  Succeeds(cmd, p) /\ ~op'.hurt /\ ~ignored => Gone(cmd, p)'
<1>1. HostInv /\ [Next]_vars => [A]_vars
  <2> SUFFICES ASSUME HostInv, Next,
                      NEW cmd \in {"remove", "uninstall", "purge"}, NEW p \in Prefix,
                      Succeeds(cmd, p), ~op'.hurt, ~ignored
               PROVE  Gone(cmd, p)'
    OBVIOUS
  <2>1. RemoveUser \/ UninstallBinaries \/ PurgeConfig
    <3>1. Verify \/ SetupRestart \/ RemoveUser \/ UninstallBinaries \/ PurgeConfig
      BY Endings DEF Succeeds, Ends
    <3> QED BY <3>1 DEF Succeeds, Ends, Verify, SetupRestart, At, HostInv, OpOK, InstallPcs,
       PastGroup, PastUser, PastCli, PastAgent, PastWeb, PastMeta, PastDirs, PastUnitA,
       PastEnableA, PastUnitW, PastEnableW, SetupPcs
  <2>2. CASE RemoveUser
    <3>1. op.pc = "userdel" /\ UNCHANGED <<bins, unit, loaded, enabled, proc>>
      BY <2>2 DEF RemoveUser, At, files
    <3>2. op.cmd = "remove" /\ cmd = "remove" /\ op.p = p
      BY <3>1 DEF HostInv, OpOK, RemovePcs, Succeeds, Ends
    <3>3. user'.uid = None
      BY <2>2, FinishesHurt DEF RemoveUser
    <3>4. /\ Quiet /\ \A s \in Svc : unit[s] = None /\ loaded[s] = None
          /\ \A b \in Bin : bins[p][b] = None
      BY <3>1, <3>2 DEF HostInv, RemoveOK, RemovePcs
    <3> QED BY <3>1, <3>2, <3>3, <3>4 DEF Gone, Quiet
  <2>3. CASE UninstallBinaries
    <3>1. /\ op.pc = "uRmBins" /\ UNCHANGED <<unit, loaded, enabled>>
          /\ Removed(UsrLocal) /\ op.cmd # "purge" /\ Finish("ok")
      <4>1. ~Disturbed("ok") /\ ~Then("purgeData") /\ ~Ignored("purgeData")
        BY FinishesHurt, Goes, GoesHurt DEF Kept, Pcs, Succeeds, Ends
      <4> QED BY <2>3, <4>1 DEF UninstallBinaries, At
    <3>2. cmd = "uninstall" /\ p = UsrLocal /\ ~op.hurt
      BY <3>1, Finishes DEF HostInv, OpOK, Succeeds, Ends, UninstallPcs, PastDisableW,
         PastStopA, PastDisableA, PastRmUnitW, PastRmUnitA, PastReload, PurgePcs
    <3>3. \A s \in Svc : unit[s] = None /\ loaded[s] = None /\ ~enabled[s] /\ proc[s] = Down
      BY <3>1, <3>2 DEF HostInv, UninstallOK, UninstallPcs, PastDisableW, PastStopA,
         PastDisableA, PastRmUnitW, PastRmUnitA, PastReload, PurgePcs, Svc
    <3>4. /\ \A b \in Bin : bins'[p][b] = None
          /\ \A s \in Svc : proc'[s] = Down
      BY <3>1, <3>2, <3>3, RemovedIs DEF HostInv
    <3> QED BY <3>1, <3>2, <3>3, <3>4 DEF Gone
  <2>4. CASE PurgeConfig
    <3>1. /\ op.pc = "purgeCfg" /\ Finish("ok") /\ cfg' = NoCfg
          /\ UNCHANGED <<bins, data, unit, loaded, enabled, proc>>
      BY <2>4 DEF PurgeConfig, At
    <3>2. cmd = "purge" /\ p = UsrLocal /\ ~op.hurt
      BY <3>1, Finishes DEF HostInv, OpOK, Succeeds, Ends, UninstallPcs, PastDisableW,
         PastStopA, PastDisableA, PastRmUnitW, PastRmUnitA, PastReload, PurgePcs
    <3>3. /\ \A s \in Svc : unit[s] = None /\ loaded[s] = None /\ ~enabled[s] /\ proc[s] = Down
          /\ \A b \in Bin : bins[p][b] = None
          /\ data.db = None
      BY <3>1, <3>2 DEF HostInv, UninstallOK, UninstallPcs, PastDisableW, PastStopA,
         PastDisableA, PastRmUnitW, PastRmUnitA, PastReload, PurgePcs, Svc
    <3> QED BY <3>1, <3>2, <3>3 DEF Gone
  <2> QED BY <2>1, <2>2, <2>3, <2>4
<1>2. UninstallComplete <=> [][A]_vars
  BY DEF UninstallComplete
<1> HIDE DEF A
<1> QED BY <1>1, <1>2, HostInvariant, PTL DEF Spec

(* The database, and settings of the operator, go with a purge; saveBind   *)
(* of web setup may lose settings; nothing else does.                      *)
THEOREM Keeps == Spec => KeptUnlessPurged
<1> DEFINE A == /\ data.db # None /\ data'.db = None => op.cmd = "purge"
                /\ cfg.own /\ ~cfg'.own => op.cmd \in {"purge", "setup"}
<1>1. HostInv /\ [Next]_vars => [A]_vars
  <2> SUFFICES ASSUME HostInv, Next
               PROVE  A
    OBVIOUS
  <2>1. ASSUME UNCHANGED cfg, NEW s \in Svc, Restart(s)
        PROVE  A
    BY <2>1, RestartIs DEF Restart, Owned
  <2>2. ASSUME UNCHANGED <<cfg, data>>
        PROVE  A
    BY <2>2
  <2>3. CASE Install
    <3>1. CASE InstallBegin \/ BootstrapBegin \/ Verify
      BY <2>2, <3>1 DEF InstallBegin, BootstrapBegin, Verify, Begin, host
    <3>2. CASE CreateUser \/ InstallMeta \/ InstallService
      BY <2>2, <3>2 DEF CreateUser, InstallMeta, InstallService, InstallUnit,
         DaemonReload, EnableUnit, files
    <3>3. CASE \E b \in Bin : InstallBinary(b)
      BY <2>2, <3>3 DEF InstallBinary
    <3>4. CASE CreateDirectories
      <4>1. data \in [dir : Uid \cup {None}, db : Uid \cup {None}, schema : Release \cup {0}]
        BY DEF HostInv, TypeOK
      <4> QED BY <3>4, <4>1 DEF CreateDirectories, files
    <3>5. CASE InstallConfig
      <4>1. UNCHANGED data /\ (UNCHANGED cfg \/ cfg.st = "none")
        BY <3>5 DEF InstallConfig
      <4> QED BY <4>1 DEF HostInv, CfgOK
    <3>6. CASE StartService
      BY <2>1, <2>2, <3>6 DEF StartService, files, Svc
    <3>7. CASE CreateGroup
      <4>1. cfg'.own = cfg.own /\ UNCHANGED data
        BY <3>7 DEF CreateGroup, HostInv, TypeOK
      <4> QED BY <4>1
    <3> QED BY <2>3, <3>1, <3>2, <3>3, <3>4, <3>5, <3>6, <3>7 DEF Install
  <2>4. CASE Remove
    BY <2>2, <2>4 DEF Remove, RemoveBegin, Begin, host, RemoveDisable, RemoveUnits,
       DaemonReload, RemoveBinaries, RemoveUser, files
  <2>5. CASE Setup
    <3>1. CASE SetupBegin \/ SetupFirewall
      BY <2>2, <3>1 DEF SetupBegin, SetupFirewall, Begin, host, files
    <3>2. CASE SaveRead \/ SaveWrite
      BY <3>2 DEF SaveRead, SaveWrite, At, HostInv, OpOK, SetupPcs
    <3>3. CASE SetupRestart
      BY <2>1, <2>2, <3>3 DEF SetupRestart, files, Svc
    <3> QED BY <2>5, <3>1, <3>2, <3>3 DEF Setup
  <2>6. CASE Abort \/ UninstallBegin
    BY <2>2, <2>6 DEF Abort, UninstallBegin, Begin, host
  <2>7. CASE Uninstall
    BY <2>2, <2>7 DEF Uninstall, UninstallStop, UninstallDisable, UninstallUnit,
       UninstallReload, UninstallBinaries, files
  <2>8. CASE PurgeData \/ PurgeConfig
    BY <2>8 DEF PurgeData, PurgeConfig, At, HostInv, OpOK, UninstallPcs, PastDisableW,
       PastStopA, PastDisableA, PastRmUnitW, PastRmUnitA, PastReload, PurgePcs
  <2>9. ASSUME NEW s \in Svc, Service(s)
        PROVE  A
    <3>1. CASE ServiceStart(s)
      BY <2>1, <2>2, <3>1 DEF ServiceStart, files
    <3>2. CASE ServiceStop(s) \/ ServiceEnable(s)
      BY <2>2, <3>2 DEF ServiceStop, ServiceEnable, files
    <3> QED BY <2>9, <3>1, <3>2 DEF Service
  <2>10. ASSUME NEW s \in Svc, SvcCrash(s)
         PROVE  A
    BY <2>2, <2>10 DEF SvcCrash, files
  <2>11. ASSUME NEW s \in Svc, SvcRestart(s)
         PROVE  A
    BY <2>11, RestartIs DEF SvcRestart, Owned, files
  <2>12. CASE Edit
    BY <2>12 DEF Edit
  <2>13. CASE Reboot
    <3> DEFINE on == {s \in Svc : enabled[s] /\ unit[s] # None}
               S == on \cup {s \in {"agent"} : on # {} /\ unit[s] # None}
               off == [s \in Svc |-> Down]
    <3>1. StartedFrom(off, S, unit) /\ UNCHANGED cfg
      BY <2>13 DEF Reboot, files
    <3>2. /\ TypeOK /\ off \in Procs /\ S \in SUBSET Svc
          /\ unit \in [Svc -> Prefix \cup {None}]
      BY DEF HostInv, TypeOK, Procs, ProcRec, Down, Bind, Svc
    <3> HIDE DEF S, off
    <3>3. data.db # None => data'.db # None
      BY <3>1, <3>2, StartedIs DEF Owned
    <3> QED BY <3>1, <3>3
  <2>14. CASE Web
    BY <2>9, <2>14 DEF Web, Svc
  <2> HIDE DEF A
  <2> QED BY <2>3, <2>4, <2>5, <2>6, <2>7, <2>8, <2>9, <2>10, <2>11, <2>12, <2>13, <2>14
     DEF Next
<1>2. KeptUnlessPurged <=> [][A]_vars
  BY DEF KeptUnlessPurged
<1> HIDE DEF A
<1> QED BY <1>1, <1>2, HostInvariant, PTL DEF Spec

==============================================================================
