---------------------------- MODULE Installation ----------------------------
(***************************************************************************)
(* What the commands of the operator leave on the host: install.sh and     *)
(* install.sh --uninstall, `infrapilot uninstall [--purge]`, `infrapilot   *)
(* web setup` and the service commands, beside the two systemd services.   *)
(* One command runs at a time.  It may fail or be killed after any of its  *)
(* steps, and the next one starts from what is left.                       *)
(***************************************************************************)
EXTENDS Naturals

CONSTANTS
    Prefix,    \* directories given with --prefix
    UsrLocal,  \* the default one
    Uid,       \* user ids useradd may give the service account
    Release,   \* releases, as the schema version their binaries know
    None,      \* absent
    Part,      \* a file whose copy was cut short
    MaxCmds,   \* bound: commands of the operator
    MaxFaults  \* bound: failed steps, kills and crashes

ASSUME BoundAssumption == MaxCmds \in Nat /\ MaxFaults \in Nat

ASSUME PrefixAssumption ==
    UsrLocal \in Prefix /\ None \notin Prefix /\ None \notin Uid /\ Uid # {}

ASSUME ReleaseAssumption ==
    Release \subseteq Nat \ {0} /\ None \notin Release /\ Part \notin Release \cup {None}

Svc == {"agent", "web"}
Bin == Svc \cup {"cli"}
Bind == {"local", "public"}

VARIABLES
    user,     \* uid of the service account, and whether its group exists
    bins,     \* per prefix and binary: absent, partly written, or of a release
    meta,     \* install.json: the prefix
    data,     \* owner of the data directory and of the database in it, its schema
    cfg,      \* config.yaml
    unit,     \* unit files: the prefix in ExecStart
    loaded,   \* what systemd has read of them
    enabled,  \* started on boot
    proc,     \* the services
    port,     \* the firewall lets port 8090 through
    op,       \* the command that runs, or the last one
    ignored   \* history: an uninstall passed over a failed step, or was stopped
              \* between the two unit files

files == <<bins, meta, cfg, unit>>
host == <<user, bins, meta, data, cfg, unit, loaded, enabled, proc, port>>
vars == <<user, bins, meta, data, cfg, unit, loaded, enabled, proc, port, op, ignored>>

Down == [st |-> "down", at |-> None, fresh |-> FALSE, bind |-> "local"]
NoCfg == [st |-> "none", own |-> FALSE, bind |-> "local", grp |-> "root"]
NoOp == [cmd |-> "none", p |-> UsrLocal, rel |-> None, start |-> FALSE, bind |-> "local",
         allow |-> FALSE, own |-> FALSE, pc |-> "idle", st |-> "ok", hurt |-> FALSE,
         cmds |-> 0, faults |-> 0]

(* Type invariant: what the host and the running command can look like.    *)
TypeOK ==
    /\ user \in [uid : Uid \cup {None}, group : BOOLEAN]
    /\ bins \in [Prefix -> [Bin -> Release \cup {None, Part}]]
    /\ meta \in Prefix \cup {None}
    /\ data \in [dir : Uid \cup {None}, db : Uid \cup {None}, schema : Release \cup {0}]
    \* own: it holds settings of the operator; grp: who may read it besides root,
    \* the account's group, the one of an earlier account, nobody or everybody
    /\ cfg \in [st : {"none", "bad", "ok"}, own : BOOLEAN, bind : Bind,
                grp : {"svc", "other", "root", "all"}]
    /\ unit \in [Svc -> Prefix \cup {None}] /\ loaded \in [Svc -> Prefix \cup {None}]
    /\ enabled \in [Svc -> BOOLEAN]
    \* fresh: the binary it executes is the one on disk
    /\ proc \in [Svc -> [st : {"down", "up", "failed"}, at : Prefix \cup {None},
                         fresh : BOOLEAN, bind : Bind]]
    /\ port \in BOOLEAN
    /\ op \in [cmd : {"none", "install", "remove", "uninstall", "purge", "setup"},
               p : Prefix, rel : Release \cup {None}, start : BOOLEAN, bind : Bind,
               allow : BOOLEAN, own : BOOLEAN,
               pc : {"idle", "group", "user", "cli", "agent", "web", "meta", "dirs",
                     "config", "unitA", "reload", "enableA", "unitW", "enableW", "start",
                     "verify", "disable", "rmUnits", "rmReload", "rmBins", "userdel",
                     "stopW", "disableW", "stopA", "disableA", "rmUnitW", "rmUnitA",
                     "uReload", "uRmBins", "purgeData", "purgeCfg",
                     "firewall", "save", "fill", "restart"},
               st : {"run", "ok", "failed"}, hurt : BOOLEAN,
               cmds : 0..MaxCmds, faults : 0..MaxFaults]
    /\ ignored \in BOOLEAN

Init ==
    /\ user = [uid |-> None, group |-> FALSE]
    /\ bins = [p \in Prefix |-> [b \in Bin |-> None]]
    /\ meta = None
    /\ data = [dir |-> None, db |-> None, schema |-> 0]
    /\ cfg = NoCfg
    /\ unit = [s \in Svc |-> None] /\ loaded = [s \in Svc |-> None]
    /\ enabled = [s \in Svc |-> FALSE]
    /\ proc = [s \in Svc |-> Down]
    /\ port = FALSE
    /\ op = NoOp
    /\ ignored = FALSE

------------------------------------------------------------------------------
(* The running command.                                                    *)

At(pc) == op.pc = pc
Then(pc) == op' = [op EXCEPT !.pc = pc]
Ended(st) == [NoOp EXCEPT !.cmd = op.cmd, !.st = st, !.hurt = op.hurt,
                          !.cmds = op.cmds, !.faults = op.faults]
Finish(st) == op' = Ended(st)
Fault == op.faults < MaxFaults
Unnoticed == op' = [Ended("ok") EXCEPT !.hurt = TRUE]
Disturbed(st) == Fault /\ op' = [Ended(st) EXCEPT !.hurt = TRUE, !.faults = @ + 1]
\* A failure the command takes no notice of.
Ignored(pc) == Fault /\ op' = [op EXCEPT !.pc = pc, !.hurt = TRUE, !.faults = @ + 1]
Command(new) ==
    /\ op.st # "run" /\ op.cmds < MaxCmds
    /\ op' = [new EXCEPT !.cmds = op.cmds + 1, !.faults = op.faults]
Begin(new) == Command(new) /\ UNCHANGED <<host, ignored>>
HasCLI == \E p \in Prefix : bins[p]["cli"] \in Release

\* `set -e`, or the return of an error, or a kill: a step has no effect and
\* the command ends.
Abort ==
    /\ op.st = "run"
    /\ Disturbed("failed")
    /\ UNCHANGED <<host, ignored>>

------------------------------------------------------------------------------
(* systemd, as the unit files and the commands use it.                     *)

\* The agent's StateDirectory= changes the owner of everything in the data
\* directory, but only if the directory itself has another one.
OwnerOK == data.db \in {None, user.uid} \/ data.dir # user.uid

\* config.Load: a file that is there must be readable, and parse.
ConfigOK == cfg.st = "none" \/ (cfg.st = "ok" /\ cfg.grp \in {"svc", "all"})

\* Open refuses a schema newer than the binary.
CanStart(s, ld) ==
    /\ ld[s] # None /\ bins[ld[s]][s] \in Release
    /\ user.uid # None
    /\ ConfigOK /\ OwnerOK
    /\ data.schema <= bins[ld[s]][s]
    /\ s = "web" => ld["agent"] # None          \* Requires=

\* The services in S are started anew from the units ld.  The agent's start
\* changes the owners even if it then fails; a service that gets through
\* has created the database and migrated it.  Of two that start together one
\* may meet the migration of the other, and fails (Migrations).
StartedFrom(old, S, ld) ==
    LET go == {s \in S : CanStart(s, ld)}
        version(s) == bins[ld[s]][s]
        late == {s \in go : \E t \in go \ {s} : data.schema < version(t)}
        chown == "agent" \in S /\ ld["agent"] # None /\ user.uid \notin {None, data.dir}
    IN \E lost \in {{}} \cup {{s} : s \in late} :
         LET schemas == {data.schema} \cup {version(s) : s \in go \ lost} IN
         /\ proc' = [s \in Svc |->
                       IF s \in go \ lost
                         THEN [st |-> "up", at |-> ld[s], fresh |-> TRUE,
                               bind |-> IF s = "web" THEN cfg.bind ELSE "local"]
                       ELSE IF s \in S THEN [Down EXCEPT !.st = "failed"] ELSE old[s]]
         /\ \E v \in schemas :
              /\ \A w \in schemas : w <= v
              /\ data' = [dir |-> IF chown THEN user.uid ELSE data.dir,
                          db |-> IF go # {} \/ (chown /\ data.db # None)
                                   THEN user.uid ELSE data.db,
                          schema |-> v]

Started(S, ld) == StartedFrom(proc, S, ld)

Up == {s \in Svc : proc[s].st = "up"}

\* Requires=: web goes down and up again with the agent, and brings it up.
RestartSet(s) == IF s = "agent" THEN {"agent"} \cup (Up \cap {"web"})
                                ELSE {"web"} \cup ({"agent"} \ Up)
StopSet(s) == IF s = "agent" THEN Svc ELSE {"web"}

\* An inactive unit whose file is gone is not kept.
Restart(s) ==
    /\ loaded[s] # None /\ (s \in Up \/ unit[s] # None)
    /\ Started(RestartSet(s), loaded)
Stop(s) == proc' = [t \in Svc |-> IF t \in StopSet(s) THEN Down ELSE proc[t]]

SvcCrash(s) ==
    /\ proc[s].st = "up" /\ Fault
    /\ proc' = [proc EXCEPT ![s] = [Down EXCEPT !.st = "failed"]]
    /\ op' = [op EXCEPT !.hurt = @ \/ op.st = "run", !.faults = @ + 1]
    /\ UNCHANGED <<user, files, data, loaded, enabled, port, ignored>>

\* Restart=on-failure.
SvcRestart(s) ==
    /\ proc[s].st = "failed" /\ CanStart(s, loaded)
    /\ Started(RestartSet(s), loaded)
    /\ UNCHANGED <<user, files, loaded, enabled, port, op, ignored>>

Reboot ==
    /\ loaded' = unit
    /\ LET on == {s \in Svc : enabled[s] /\ unit[s] # None}
           S == on \cup {s \in {"agent"} : on # {} /\ unit[s] # None}
       IN StartedFrom([s \in Svc |-> Down], S, unit)
    /\ IF op.st = "run" THEN Disturbed("failed") ELSE UNCHANGED op
    /\ UNCHANGED <<user, files, enabled, port, ignored>>

------------------------------------------------------------------------------
(* install.sh.                                                             *)

\* Until create_account nothing on the host is changed.
InstallBegin ==
    \E p \in Prefix, rel \in Release, start \in BOOLEAN :
      Begin([NoOp EXCEPT !.cmd = "install", !.p = p, !.rel = rel, !.start = start,
                         !.pc = "group", !.st = "run"])

\* The script that downloads and verifies a release, then executes the
\* installer in it.  It has no --no-start.
BootstrapBegin ==
    \E p \in Prefix, rel \in Release :
      Begin([NoOp EXCEPT !.cmd = "install", !.p = p, !.rel = rel, !.start = TRUE,
                         !.pc = "group", !.st = "run"])

CreateGroup_always ==               \* mutant: groupadd without asking getent
    /\ At("group")
    /\ IF user.group THEN Finish("failed") /\ UNCHANGED user
                     ELSE Then("user") /\ user' = [user EXCEPT !.group = TRUE]
    /\ UNCHANGED <<files, data, loaded, enabled, proc, port, ignored>>

\* The new group may have the number of an earlier one, or another.
CreateGroup ==
    /\ At("group") /\ Then("user")
    /\ user' = [user EXCEPT !.group = TRUE]
    /\ \/ UNCHANGED cfg
       \/ /\ ~user.group /\ cfg.grp \in {"svc", "other"}
          /\ \E grp \in {"svc", "other"} : cfg' = [cfg EXCEPT !.grp = grp]
    /\ UNCHANGED <<bins, meta, data, unit, loaded, enabled, proc, port, ignored>>

CreateUser ==
    /\ At("user") /\ Then("cli")
    /\ \/ user.uid # None /\ UNCHANGED user
       \/ user.uid = None /\ \E u \in Uid : user' = [user EXCEPT !.uid = u]
    /\ UNCHANGED <<files, data, loaded, enabled, proc, port, ignored>>

\* install(1) removes the old file and copies; a copy that is cut short is
\* not executable, or has not begun.
InstallBinary(b) ==
    LET next == CASE b = "cli" -> "agent" [] b = "agent" -> "web" [] b = "web" -> "meta" IN
    /\ At(b)
    /\ \/ bins' = [bins EXCEPT ![op.p][b] = op.rel] /\ Then(next)
       \/ /\ \E left \in {None, Part} : bins' = [bins EXCEPT ![op.p][b] = left]
          /\ Disturbed("failed")
    /\ proc' = [s \in Svc |-> IF s = b /\ proc[s].at = op.p
                                THEN [proc[s] EXCEPT !.fresh = FALSE] ELSE proc[s]]
    /\ UNCHANGED <<user, meta, data, cfg, unit, loaded, enabled, port, ignored>>

InstallMeta_method ==                \* mutant: the method where the prefix belongs
    /\ At("meta") /\ Then("dirs")
    /\ meta' = op.cmd
    /\ UNCHANGED <<user, bins, data, cfg, unit, loaded, enabled, proc, port, ignored>>

InstallMeta ==
    /\ At("meta") /\ Then("dirs")
    /\ meta' = op.p
    /\ UNCHANGED <<user, bins, data, cfg, unit, loaded, enabled, proc, port, ignored>>

\* install -d -o gives an existing directory, not what is in it, its owner.
CreateDirectories ==
    /\ At("dirs") /\ Then("config")
    /\ data' = [data EXCEPT !.dir = user.uid]
    /\ UNCHANGED <<user, files, loaded, enabled, proc, port, ignored>>

InstallConfig_overwrites ==          \* mutant: the sample replaces config.yaml
    /\ At("config") /\ Then("unitA")
    /\ cfg' = [NoCfg EXCEPT !.st = "ok", !.grp = "svc"]
    /\ UNCHANGED <<user, bins, meta, data, unit, loaded, enabled, proc, port, ignored>>

\* An existing file is backed up and left alone; without a sample there is
\* none.  A copy that is cut short may parse or not, and is root's.
InstallConfig ==
    /\ At("config")
    /\ \/ Then("unitA") /\ UNCHANGED cfg
       \/ cfg.st = "none" /\ cfg' = [NoCfg EXCEPT !.st = "ok", !.grp = "svc"] /\ Then("unitA")
       \/ /\ cfg.st = "none" /\ \E st \in {"bad", "ok"} : cfg' = [NoCfg EXCEPT !.st = st]
          /\ Disturbed("failed")
    /\ UNCHANGED <<user, bins, meta, data, unit, loaded, enabled, proc, port, ignored>>

InstallUnit(s, pc, next) ==
    /\ At(pc) /\ Then(next)
    /\ unit' = [unit EXCEPT ![s] = op.p]
    /\ UNCHANGED <<user, bins, meta, data, cfg, loaded, enabled, proc, port, ignored>>

DaemonReload(pc, next) ==
    /\ At(pc) /\ Then(next)
    /\ loaded' = unit
    /\ UNCHANGED <<user, files, data, enabled, proc, port, ignored>>

\* systemctl enable reads the unit files again.
EnableUnit(s, pc, next) ==
    /\ At(pc) /\ Then(next)
    /\ enabled' = [enabled EXCEPT ![s] = TRUE]
    /\ loaded' = unit
    /\ UNCHANGED <<user, files, data, proc, port, ignored>>

InstallService ==
    \/ InstallUnit("agent", "unitA", "reload") \/ DaemonReload("reload", "enableA")
    \/ EnableUnit("agent", "enableA", "unitW")
    \/ InstallUnit("web", "unitW", "enableW") \/ EnableUnit("web", "enableW", "start")

StartService_ifDown ==               \* mutant: start for restart
    /\ At("start") /\ Then("verify")
    /\ IF op.start /\ "agent" \notin Up THEN Started({"agent"}, loaded)
                                        ELSE UNCHANGED <<proc, data>>
    /\ UNCHANGED <<user, files, loaded, enabled, port, ignored>>

StartService ==
    /\ At("start") /\ Then("verify")
    /\ IF op.start THEN Restart("agent") ELSE UNCHANGED <<proc, data>>
    /\ UNCHANGED <<user, files, loaded, enabled, port, ignored>>

\* The files, the agent, and doctor, run by root, which fails on a bad
\* configuration and on a database with another schema than the CLI's.  It
\* does not look into one that others may read, as it may be until a service
\* has opened it.
Verify ==
    /\ At("verify")
    /\ \E looks \in {TRUE, op.start} :
       IF /\ \A b \in Bin : bins[op.p][b] \in Release
          /\ data.dir # None
          /\ op.start => "agent" \in Up
          /\ cfg.st # "bad"
          /\ looks /\ data.db # None => data.schema = bins[op.p]["cli"]
         THEN Finish("ok") /\ ignored' = FALSE
         ELSE Finish("failed") /\ UNCHANGED ignored
    /\ UNCHANGED host

------------------------------------------------------------------------------
(* install.sh --uninstall.                                                 *)

RemoveBegin ==
    \E p \in Prefix :
      Begin([NoOp EXCEPT !.cmd = "remove", !.p = p, !.pc = "disable", !.st = "run"])

\* systemctl disable --now of both, if the agent's unit is listed; || true.
RemoveDisable ==
    /\ At("disable")
    /\ \/ /\ unit["agent"] # None /\ Then("rmUnits")
          /\ Stop("agent") /\ enabled' = [s \in Svc |-> FALSE]
          /\ UNCHANGED ignored
       \/ /\ unit["agent"] # None /\ Ignored("rmUnits") /\ ignored' = TRUE
          /\ UNCHANGED <<proc, enabled>>
       \/ unit["agent"] = None /\ Then("rmUnits") /\ UNCHANGED <<proc, enabled, ignored>>
    /\ UNCHANGED <<user, files, data, loaded, port>>

RemoveUnits_agentOnly ==             \* mutant: the web unit is forgotten
    /\ At("rmUnits") /\ Then("rmReload")
    /\ unit' = [unit EXCEPT !["agent"] = None]
    /\ UNCHANGED <<user, bins, meta, data, cfg, loaded, enabled, proc, port, ignored>>

\* rm -f of the agent's unit and then the web unit, which a kill may split.
RemoveUnits ==
    /\ At("rmUnits")
    /\ \/ Then("rmReload") /\ unit' = [s \in Svc |-> None] /\ UNCHANGED ignored
       \/ /\ Disturbed("failed")
          /\ unit' = [unit EXCEPT !["agent"] = None] /\ ignored' = TRUE
    /\ UNCHANGED <<user, bins, meta, data, cfg, loaded, enabled, proc, port>>

Removed(p) ==
    /\ bins' = [bins EXCEPT ![p] = [b \in Bin |-> None]]
    /\ proc' = [s \in Svc |-> IF proc[s].at = p THEN [proc[s] EXCEPT !.fresh = FALSE]
                                                ELSE proc[s]]

RemoveBinaries ==
    /\ At("rmBins") /\ Then("userdel")
    /\ Removed(op.p)
    /\ UNCHANGED <<user, meta, data, cfg, unit, loaded, enabled, port, ignored>>

\* userdel refuses while a process of the account runs, and takes the group
\* with it.
RemoveUser ==
    /\ At("userdel")
    /\ \/ user.uid = None /\ UNCHANGED user /\ Finish("ok")
       \/ /\ user.uid # None /\ Up = {}
          /\ user' = [uid |-> None, group |-> FALSE] /\ Finish("ok")
       \/ user.uid # None /\ UNCHANGED user /\ Unnoticed
    /\ UNCHANGED <<files, data, loaded, enabled, proc, port, ignored>>

------------------------------------------------------------------------------
(* infrapilot uninstall, which takes no notice of any error but those of   *)
(* removeContents.                                                         *)

UninstallBegin ==
    /\ HasCLI
    /\ \E cmd \in {"uninstall", "purge"} :
         Begin([NoOp EXCEPT !.cmd = cmd, !.pc = "stopW", !.st = "run"])

UninstallStop(s, pc, next) ==
    /\ At(pc)
    /\ \/ Stop(s) /\ Then(next) /\ UNCHANGED ignored
       \/ Ignored(next) /\ ignored' = TRUE /\ UNCHANGED proc
    /\ UNCHANGED <<user, files, data, loaded, enabled, port>>

UninstallDisable_skipped(s, pc, next) ==   \* mutant: stopped but not disabled
    /\ At(pc) /\ Then(next)
    /\ UNCHANGED <<user, files, data, loaded, enabled, proc, port, ignored>>

UninstallDisable(s, pc, next) ==
    /\ At(pc)
    /\ \/ enabled' = [enabled EXCEPT ![s] = FALSE] /\ Then(next) /\ UNCHANGED ignored
       \/ Ignored(next) /\ ignored' = TRUE /\ UNCHANGED enabled
    /\ UNCHANGED <<user, files, data, loaded, proc, port>>

UninstallUnit(s, pc, next) ==
    /\ At(pc)
    /\ \/ unit' = [unit EXCEPT ![s] = None] /\ Then(next) /\ UNCHANGED ignored
       \/ unit[s] # None /\ Ignored(next) /\ ignored' = TRUE /\ UNCHANGED unit
    /\ UNCHANGED <<user, bins, meta, data, cfg, loaded, enabled, proc, port>>

UninstallReload ==
    /\ At("uReload")
    /\ \/ loaded' = unit /\ Then("uRmBins")
       \/ Ignored("uRmBins") /\ UNCHANGED loaded
    /\ UNCHANGED <<user, files, data, enabled, proc, port, ignored>>

\* Always those of /usr/local/bin, whatever the prefix was.
UninstallBinaries ==
    /\ At("uRmBins")
    /\ \/ Removed(UsrLocal) /\ (IF op.cmd = "purge" THEN Then("purgeData") ELSE Finish("ok"))
       \/ /\ UNCHANGED <<bins, proc>>
          /\ IF op.cmd = "purge" THEN Ignored("purgeData") ELSE Disturbed("ok")
    /\ UNCHANGED <<user, meta, data, cfg, unit, loaded, enabled, port, ignored>>

Uninstall ==
    \/ UninstallStop("web", "stopW", "disableW")
    \/ UninstallDisable("web", "disableW", "stopA")
    \/ UninstallStop("agent", "stopA", "disableA")
    \/ UninstallDisable("agent", "disableA", "rmUnitW")
    \/ UninstallUnit("web", "rmUnitW", "rmUnitA")
    \/ UninstallUnit("agent", "rmUnitA", "uReload")
    \/ UninstallReload \/ UninstallBinaries

\* removeContents keeps the directory.
PurgeData ==
    /\ At("purgeData") /\ Then("purgeCfg")
    /\ data' = [data EXCEPT !.db = None, !.schema = 0]
    /\ UNCHANGED <<user, files, loaded, enabled, proc, port, ignored>>

PurgeConfig ==
    /\ At("purgeCfg") /\ Finish("ok")
    /\ cfg' = NoCfg /\ meta' = None
    /\ UNCHANGED <<user, bins, data, unit, loaded, enabled, proc, port, ignored>>

------------------------------------------------------------------------------
(* infrapilot web setup: the answers, the firewall, saveBind, the restart. *)

SetupBegin ==
    /\ HasCLI
    /\ \E bind \in Bind, allow \in BOOLEAN :
         /\ allow => bind = "public" /\ ~port
         /\ Begin([NoOp EXCEPT !.cmd = "setup", !.bind = bind, !.allow = allow,
                               !.pc = "firewall", !.st = "run"])

SetupFirewall ==
    /\ At("firewall")
    /\ \/ port' = (port \/ op.allow) /\ Then("save")
       \/ op.allow /\ Ignored("save") /\ UNCHANGED port
    /\ UNCHANGED <<user, files, data, loaded, enabled, proc, ignored>>

\* A file that cannot be read counts as empty, one that does not parse is an
\* error; os.WriteFile then truncates it, or creates it with mode 0640 for
\* root ...
SaveRead ==
    LET truncated == [NoCfg EXCEPT !.st = "ok", !.grp = cfg.grp] IN
    /\ At("save")
    /\ \/ cfg.st = "bad" /\ Finish("failed") /\ UNCHANGED cfg
       \/ /\ cfg.st # "bad"
          /\ op' = [op EXCEPT !.pc = "fill", !.own = cfg.own]
          /\ cfg' = truncated
       \/ /\ cfg.st # "none"
          /\ Ignored("fill")
          /\ cfg' = truncated
    /\ UNCHANGED <<user, bins, meta, data, unit, loaded, enabled, proc, port, ignored>>

\* ... and writes the settings back with the new address.
SaveWrite ==
    /\ At("fill")
    /\ \/ Then("restart") /\ cfg' = [cfg EXCEPT !.st = "ok", !.own = op.own, !.bind = op.bind]
       \/ /\ Disturbed("failed")
          /\ cfg' = [cfg EXCEPT !.st = "bad"]
    /\ UNCHANGED <<user, bins, meta, data, unit, loaded, enabled, proc, port, ignored>>

SetupRestart_ifDown ==               \* mutant: start for restart
    /\ At("restart")
    /\ \/ "web" \in Up /\ UNCHANGED <<proc, data>> /\ Finish("ok")
       \/ "web" \notin Up /\ Restart("web") /\ Finish("ok")
       \/ Unnoticed /\ UNCHANGED <<proc, data>>
    /\ UNCHANGED <<user, files, loaded, enabled, port, ignored>>

SetupRestart ==
    /\ At("restart")
    /\ \/ Restart("web") /\ Finish("ok")
       \/ Unnoticed /\ UNCHANGED <<proc, data>>
    /\ UNCHANGED <<user, files, loaded, enabled, port, ignored>>

------------------------------------------------------------------------------
(* infrapilot service and infrapilot web: one systemctl command each.      *)

ServiceStart(s) ==
    /\ HasCLI /\ Command(NoOp)
    /\ \/ Restart(s)
       \/ s \in Up /\ UNCHANGED <<proc, data>>
    /\ UNCHANGED <<user, files, loaded, enabled, port, ignored>>

ServiceStop(s) ==
    /\ HasCLI /\ Command(NoOp)
    /\ Stop(s)
    /\ UNCHANGED <<user, files, data, loaded, enabled, port, ignored>>

ServiceEnable(s) ==
    /\ HasCLI /\ Command(NoOp)
    /\ unit[s] # None
    /\ \E on \in BOOLEAN : enabled' = [enabled EXCEPT ![s] = on]
    /\ loaded' = unit
    /\ UNCHANGED <<user, files, data, proc, port, ignored>>

Service(s) == ServiceStart(s) \/ ServiceStop(s) \/ ServiceEnable(s)
Web == Service("web")

\* The operator edits config.yaml; a new one is readable by all.
Edit ==
    /\ Command(NoOp)
    /\ \E bind \in Bind :
         cfg' = [st |-> "ok", own |-> TRUE, bind |-> bind,
                 grp |-> IF cfg.st = "none" THEN "all" ELSE cfg.grp]
    /\ UNCHANGED <<user, bins, meta, data, unit, loaded, enabled, proc, port, ignored>>

------------------------------------------------------------------------------
Install ==
    \/ InstallBegin \/ BootstrapBegin \/ CreateGroup \/ CreateUser
    \/ \E b \in Bin : InstallBinary(b)
    \/ InstallMeta \/ CreateDirectories \/ InstallConfig
    \/ InstallService \/ StartService \/ Verify

Remove ==
    \/ RemoveBegin \/ RemoveDisable \/ RemoveUnits
    \/ DaemonReload("rmReload", "rmBins") \/ RemoveBinaries \/ RemoveUser

Setup == SetupBegin \/ SetupFirewall \/ SaveRead \/ SaveWrite \/ SetupRestart

Next ==
    \/ Install \/ Remove \/ Setup \/ Abort
    \/ UninstallBegin \/ Uninstall \/ PurgeData \/ PurgeConfig
    \/ \E s \in Svc : Service(s) \/ SvcCrash(s) \/ SvcRestart(s)
    \/ Web \/ Edit \/ Reboot

Spec == Init /\ [][Next]_vars

------------------------------------------------------------------------------
(* Properties.                                                             *)

(* When install.sh reports success, everything it is for is there, from    *)
(* whatever earlier installations, under whatever prefix, were left; no    *)
(* service goes on executing a replaced binary, and the agent has brought  *)
(* the database to the schema of the release.  When web setup does,        *)
(* undisturbed, the panel listens where the operator said, behind the port *)
(* as agreed.                                                              *)
Installed(p, rel, start) ==
    /\ \A b \in Bin : bins[p][b] = rel
    /\ meta = p /\ user.uid # None /\ user.group /\ data.dir = user.uid
    /\ \A s \in Svc : unit[s] = p /\ loaded[s] = p /\ enabled[s]
    /\ start => /\ "agent" \in Up /\ data.schema = rel
                /\ \A s \in Up : proc[s].at = p /\ proc[s].fresh

Ends(cmd, st) == op.cmd = cmd /\ op.st = "run" /\ op'.st = st
Succeeds(cmd, p) == Ends(cmd, "ok") /\ op.p = p

SuccessIsTrue ==
    [][/\ \A p \in Prefix, rel \in Release, start \in BOOLEAN :
            Ends("install", "ok") /\ op.p = p /\ op.rel = rel /\ op.start = start =>
              Installed(p, rel, start)'
       /\ Ends("setup", "ok") /\ ~op'.hurt =>
            /\ cfg'.bind = op.bind /\ (op.allow => port')
            /\ proc'["web"].st = "up" => proc'["web"].bind = op.bind]_vars

(* Nothing that earlier commands left behind makes an undisturbed install  *)
(* fail, except a config.yaml that does not parse or, if it starts the     *)
(* agent, that the account may not read; a database of an earlier account  *)
(* with another uid; a schema newer than the release, or an older one that *)
(* --no-start leaves as it is; and a panel that migrates beside the agent. *)
RetrySucceeds ==
    [][Ends("install", "failed") /\ ~op'.hurt =>
         \/ cfg.st = "bad"
         \/ op.start /\ ~ConfigOK
         \/ op.start /\ data.db \notin {None, user.uid}
         \/ data.schema > op.rel
         \/ ~op.start /\ data.db # None /\ data.schema < op.rel
         \/ op.start /\ Up = {"web"} /\ data.schema = op.rel]_vars

(* Binaries come before the units that name them and go after them: a unit *)
(* file comes to name a binary that is not whole only where install.sh is  *)
(* stopped while it replaces that very binary, unless an uninstall passed  *)
(* over a failed step.                                                     *)
Whole(s) == unit[s] # None => bins[unit[s]][s] \in Release

UnitHasBinary ==
    [][\A s \in Svc : Whole(s) /\ ~Whole(s)' /\ ~ignored =>
         Ends("install", "failed") /\ op.pc = s /\ op.p = unit[s]]_vars

(* The database, and settings of the operator, outlive every install and   *)
(* every uninstall without --purge, however they are disturbed.            *)
KeptUnlessPurged ==
    [][/\ data.db # None /\ data'.db = None => op.cmd = "purge"
       /\ cfg.own /\ ~cfg'.own => op.cmd \in {"purge", "setup"}]_vars

(* An uninstall that reports success has left nothing that runs or would   *)
(* run after a reboot, and a purge no data, unless it or an earlier one    *)
(* passed over a failed step or was stopped between the two unit files.    *)
Gone(cmd, p) ==
    /\ \A s \in Svc : unit[s] = None /\ loaded[s] = None /\ ~enabled[s] /\ proc[s] = Down
    /\ \A b \in Bin : bins[p][b] = None
    /\ cmd = "remove" => user.uid = None
    /\ cmd = "purge" => data.db = None /\ cfg = NoCfg

UninstallComplete ==
    [][\A cmd \in {"remove", "uninstall", "purge"}, p \in Prefix :
         Succeeds(cmd, p) /\ ~op'.hurt /\ ~ignored => Gone(cmd, p)']_vars

==============================================================================
