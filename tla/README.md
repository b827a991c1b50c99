# A formal model of InfraPilot

InfraPilot is a Go program that administers one Linux server: an agent under systemd, a command
line (`infrapilot`), a web process, and a SQLite database that all of them open. This directory
models the parts of it whose correctness depends on order: what several processes do to the same
database, files and services, and what is left when one of them fails half-way.

Every definition is translated from the source: the Go packages, the TypeScript of the web panel, the
installer scripts and the unit files; `PROJECT.json` maps each one to its lines. Each module is checked
by TLC on small instances. For every component the type invariant and each safety property that the
passing runs check are also proved with TLAPS, for every value of the constants, and so is the
refinement of the abstract `AuthServer` by `DeviceTrust`.

## 1. The system

| Component | Source | State it keeps | Operations | Talks to |
|---|---|---|---|---|
| Device registry and pairing | `internal/identity/identity.go` | tables `device_identities`, `pairing_tokens`, `security_audit`; key files on the client | `Create`, `Load`, `Delete`, `Replace`, `Revoke`, `Get`, `List` | SQLite |
| Authenticator | `internal/identity/auth.go` | map of open challenges under a mutex | `Challenge`, `Verify` | registry |
| Web server | `internal/web/server.go`, `cmd/infrapilot-web` | map of sessions under a mutex | `challenge`, `verify`, `logout`, `protected`, proxies | authenticator, bridge |
| Agent | `internal/agent/agent.go`, `cmd/infrapilot-agent` | `a.db` under a mutex, start-up stage, PID file | `Run` (stages), `serve`, `shutdown`, `closeStorage`, `clearLiveness` | storage, bridge, systemd |
| PID file and process check | `internal/system/process.go` | `agent.pid` | `WritePIDFile`, `RemovePIDFile`, `CheckProcess` | agent, status, doctor |
| Storage and migrations | `internal/storage/storage.go`, `migrate.go` | the database, its ledger `schema_migrations` | `Open`, `Migrate`, `Close`, `Check` | everything |
| Updater | `internal/update/update.go`, `internal/cli/update.go` | three binaries and their backups | `Detect`, download and verify, `InstallAll`, rollback | systemd, doctor |
| Signing bridge | `internal/bridge/bridge.go` | the identity, loaded once | `discover`, `sign` | agent, web |
| Doctor and status | `internal/core` | none | reports | storage, PID file, services |
| Configuration | `internal/config` | none | `Load` (layers), `Validate`, `Redacted` | all |
| Service management, web setup, installer, uninstall | `internal/service`, `internal/web/manager.go`, `internal/cli`, `installer/` | systemd units, files | sequences of commands | systemd |
| Firewall, host information, paths, errors, logging, versions, module registry | `internal/...`, `pkg/version` | none | pure functions and reads | |
| Web user interface | `web-ui/src/` | the session token in `sessionStorage`, React state of the page, requests under way | `App`, `discover`, `authenticate`, `load`, `logout` and the reload after it | web server, through it the bridge |

What is hard in this code:

* **Shared database, no coordination.** The agent, the web process and every `sk` command open the
  same file read-write and each migrates it at start-up. Decisions are made from reads that another
  process can outdate before the write (`Migrate`, `Replace`).
* **Handlers that let go of a lock.** `Verify` takes the challenge under one mutex, reads the device
  from SQLite, and stores the session under another.
* **A goroutine left behind.** `shutdown` stops waiting after `shutdown_timeout`; its goroutine may
  still be closing the database when the deferred `closeStorage` of `Run` comes along.
* **Three reads that must agree.** `CheckProcess` reads the PID file, the process table and the
  process name one after another.
* **Two files that belong together.** `sk create` and `sk delete` write and remove the key and its
  metadata one after the other, without a lock, while the bridge reads them one after the other.
* **Renames that are not a transaction.** `InstallAll` replaces three files and restarts two
  services; any step can fail, be cancelled by Ctrl-C or be the last one before a kill.
* **Commands that end anywhere.** The installer and both uninstallers are sequences of file operations
  and `systemctl` commands. Some stop at the first error, some pass over every one, and the next
  command starts from whatever is left.

* **A page that outlives what it knows.** The tab keeps its token across reloads and its React state
  only until the next one; sessions end and the web process restarts without telling it, and every
  answer is applied to whatever page is there when it arrives.

`PROJECT.json` lists these as hazards at their lines, with the properties that cover them.

## 2. Modules

| Module | Models | Variables | Actions |
|---|---|---|---|
| `DeviceTrust` | pairing, revocation, login and sessions | three tables; `challenges` and `sessions` (the two maps); one record per CLI process and per HTTP handler; history of challenges, logins, logouts and accesses | one per critical section or SQL statement: `PairingToken`, `ReplaceParse/Read/Commit`, `RevokeUpdate/Audit`, `CliCrash`, `ChallengeArrive/Get/Insert`, `VerifyArrive/Take/Get/Audit/Session`, `Protected`, `Logout`, `WebRestart`, `Tick` |
| `AgentLifecycle` | `Agent.Run`, `shutdown`, the PID file, the unit, `CheckProcess` | process table, one record per agent, PID file, unit, one check | one per start-up or shutdown stage, `CloserSwap/Close` (the goroutine), `Tick`, `SvcStart/Stop/Kill`, `Crash`, `OtherStart/Exit` (pid reuse), `ReadPIDFile`, `ProcessAlive`, `ProcessName` |
| `Migrations` | `storage.Open` and `Migrate` in several processes | ledger, tables, write lock, one record per process | `EnsureLedger`, `AppliedVersions`, `CurrentVersion`, `MigrateLoop`, `ApplyExec/Record/Commit`, `Fault`, `Start`, `Stop` |
| `LocalIdentity` | the client's key files and the signing bridge | `device.key` and `device.json` (content and inode), one record per `sk` command, one per bridge listener | one per file operation: `LoadKey/Meta`, `CreateOpen/Write/Undo/Close/Truncate/Fill`, `DeleteKey/Meta`, `CliCrash`, `Serve`, `ServeListenerKey/Meta`, `AgentStop` |
| `Update` | `InstallAll` and its rollback, beside the two services | content of three binaries and backups, what the services run, the database's schema and whether others may read it | one per file operation or command (each removal of a backup, `Cleanup`, is one; `Succeed` follows the last), `Cancel`, `Kill`, `SvcOpen/Crash/Restart`, `Widen` |
| `Installation` | `install.sh`, its `--uninstall`, `infrapilot uninstall`, `web setup`, the service commands | account and group, binaries per prefix (absent, cut short, or of a release), `install.json`, data directory and database (owners, schema), `config.yaml` (state, readers), unit files, what systemd has loaded and enabled, services, firewall port, the running command | one per file operation or command of each script, `Abort` (an error or a kill between any two), `SvcCrash/Restart`, `Reboot`, `Edit` |
| `AuthServer` | what the web process promises, without handlers, tables, keys and clocks | the state of every challenge and of every session | `Issue`, `Take`, `Refuse`, `Grant`, `End`, `Restart` |
| `LoginRefinement` | that `DeviceTrust` implements `AuthServer` | those of `DeviceTrust` | the refinement mapping `ChallengeState`, `SessionState` |
| `WebPanel` | one browser tab with the panel, in front of `AuthServer`, the identity on the host and the agent's bridge | `sessionStorage`, page, state of `Login` and `Dashboard`, every call under way, the server's challenges and sessions, identity, agent and bridge | `Mount`, `Unload`, `LoginEffect`, `ClickLogin`, `AuthChallenge/Sign/Verify/Verdict/Store/Lost`, `LoadEffect`, `ClickRetry`, `SystemServed/Settled`, `ClickLogout`, `LogoutServed/Settled`, `CallLost`, `Expire`, `Unheard`, `WebRestart`, `SkCreate/Delete`, `AgentStart/Stop` |

`WebPanel` composes the browser with the abstract server, and `LoginRefinement` shows that the detailed
server is one: challenges go from `unused` to `open`, `answering` and `done`, one grant takes one
answered challenge and one unused session, and nothing comes back after a restart. What the tab
relies on is therefore checked of the handlers, and the tab need not be checked beside them.

`MC*` modules instantiate them; `X_proofs` holds the theorems about module `X` (section 4). The operators marked
*mutant* in a module are plausible bugs (a dropped guard, a missing reset): putting one in place of
the definition it follows makes a property of the corresponding run fail.

External to `src/`, and modelled from how the code uses it:

* **SQLite.** WAL mode, deferred `BEGIN`. The reads of a transaction see one snapshot; its first
  write fails at once if someone committed since (`SQLITE_BUSY_SNAPSHOT`), and waits at most
  `busy_timeout` otherwise. A commit is atomic; a killed process's transaction is rolled back.
  In `DeviceTrust` this is the `stale` field and `Touch`, in `Migrations` the `stale` field and
  `writer`.
* **systemd.** `Restart=on-failure`, `TimeoutStopSec`, `StartLimitBurst`, `Type=simple` and
  `Requires=` as written in `installer/systemd/*.service`. `StateDirectory=` changes the owner of
  what is in the directory only if the directory itself has another owner. An inactive unit whose
  file is gone is not kept loaded.
* **The browser.** `fetch` settles: with the server's answer, or with a rejection. `sessionStorage`
  belongs to the tab and survives a reload; promises and React state do not. `location.reload()`
  returns before the page is gone, so that answers may still arrive in between.
* **Cryptography.** A signature is the key that made it, over this challenge or over other data.
  Random ids are fresh.

Abstractions worth knowing when reading a module next to its source:

* Audit rows that no property speaks of are not stored, but writing them still outdates the
  snapshots of other connections.
* In `AgentLifecycle`, `config.Load` failing before `Run` and `validateEnvironment` failing inside
  it end the process in the same way and are one action. The heartbeat reads and logs.
* In `AgentLifecycle` time passes only while a close of the database is pending; everything else
  is immediate compared with the timeouts.
* In `LocalIdentity` an inode is named after the identity whose `Create` made the file, so that a
  write through a descriptor whose name was removed does not reach the file that has the name now.
  A device id and a key pair are drawn together; a partly written file is one that `Load` rejects.
  The best-effort audit row of `sk delete` is left out.
* In `DeviceTrust` a failed `SELECT` of `Replace` counts as one that finds nothing, as in the code, and the
  constraints decide at the `INSERT`. Failures of the system's random source are left out: each ends an
  operation before it has changed anything.
* In `Update` the download, checksum and extraction precede any change and are left out; an attempt
  begins when they have succeeded, and only while the installed CLI is older than the release
  (so after a kill past the first replacement, `infrapilot update` reports that it is up to date).
  Services may be stopped and the database missing when it begins (`install.sh --no-start`). `Doctor` may
  fail for any reason; it passes on the schema it knows, and also, with a warning, without a database or
  with one that others may read, where `checkDatabase` does not look at the schema (`Warns`). A service
  makes the database private again when it opens it.
* In `Installation` one operator gives one command after another. A release is named after the schema
  version its binaries know. `install(1)` removes the old file before it copies, so that a binary is absent,
  cut short (and not executable) or of a release. `config.yaml` is absent, not accepted, or good; it holds
  settings of the operator or not; and `grp` says who may read it besides root: `install.sh` gives it to
  the account's group, `web setup` creates it for root alone, and the group of a deleted account may
  come back under another number. Its directory gets its group again from every install. The database is
  its owner and its schema. A service that was started has opened its database, or failed, before `verify`
  looks (`install.sh` sleeps two seconds); of two that start together on a schema to be migrated one may
  fail, as `Migrations` shows. `Verify` runs the `doctor` of the new CLI as root: it fails on a bad
  `config.yaml` and on a database whose schema is another, except that with `--no-start` the database may
  still be one that others may read, which `doctor` does not open. Building, downloading, detection and
  `--dry-run` change nothing that is modelled and belong to the beginning of a command. The start limit is
  not reached. `agent.data_dir` is the default one; `hurt` says that something went wrong during the
  command, `ignored` that an uninstall since the last complete install passed over a failed step or was
  stopped between the two unit files.
* In `WebPanel` the fifteen minutes of a session may be over at any time, and whether a device is paired
  is the server's choice. `sk create` and `sk delete` are one step each (`LocalIdentity` has their
  parts). `setItem`, `onSuccess` and the render that follows are one step of the script. A request may
  be lost before or after the server has acted on it; a challenge that was taken for a request nobody
  waits for any more is still judged (`Unheard`). The history `smooth` says that nothing was lost, cut
  off by a reload, or started beside another login.

## 3. Runs

| Run | Instance | Shows |
|---|---|---|
| `trust_login` | 1 device, 1 CLI, 2 handlers, 2 challenges, 2 sessions, clock 0..2 | A challenge yields at most one session (`ChallengeSingleUse`); every session rests on a timely challenge to that device answered with its registered key (`LoginProven`); a device revoked before its answer arrived does not get in (`NoLoginAfterRevocation`); only live, not logged-out sessions are served (`ServedSessionLive`); every step is one of `AuthServer` or invisible to it (`ServerPromise`). |
| `trust_pairing` | 2 devices, 2 keys, 3 tokens, 2 CLIs | Tokens, device ids and keys are used once (`PairingOnce`), revocation is for good (`RevocationPermanent`), and audit rows agree with the tables (`AuditTruthful`). |
| `agent_supervised` | 2 pids, systemd alone, timeouts 1 < 2, 3 starts | A stop of a serving agent ends without SIGKILL (`NoSigkillAfterService`, `StopCompletes`) even if the disk hangs, and what `CheckProcess` reports was true at a moment of the check, recycled pids included (`StatusTrue`). |
| `agent_overlap` | 2 pids, manual starts too, starved goroutines | The database is closed by one goroutine at a time (`SingleCloser`), and an agent that exits leaves neither handle nor PID file (`ExitLeavesNothing`). |
| `migrate_faults` | 2 processes, binaries with 2 and 3 migrations, faults and crashes | Migrations are committed once and in order (`LedgerSound`), a handle means a complete schema (`OpenIsMigrated`), and a start-up that lost the race gets through after restarts (`RestartRepairs`). |
| `migrate_together` | 2 processes, one binary, no faults | *Violation*: the slower start-up fails. |
| `update_faults` | an update and a retry, releases with and without a migration, services running or not, with and without a database | The old content of a binary that was found in place is not lost before all three are new and both services were started from them, kills between the removals of the backups included (`OldCopyKept`); success means everything new is installed, started, and on its schema, unless `doctor` had no look at the schema (`SuccessIsComplete`); a rollback restores the files and restarts the services on them (`RollbackRestores`), which come up unless the schema is already the new one (`RollbackServiceReturns`). |
| `identity_files` | 2 `sk` commands, 3 identities, both listeners | No command replaces a key (`KeyNotReplaced`); commands that do not overlap leave a usable store, and one interruption never mixes two identities (`StoreUsable`); a listener whose key is the one on disk announces no device id but that of this key, although it read the two files at two moments beside a running command (`BridgeAgrees`). |
| `host_install` | 2 prefixes, 2 uids, 2 releases, 3 commands, 2 faults | From whatever is left, an undisturbed install fails only for one of the reasons the property lists: a `config.yaml` that is not accepted or not readable, a database of another account, a schema newer than the release or, with `--no-start`, older, a panel that wins the migration race (`RetrySucceeds`). Success means everything is there, nothing runs a replaced binary and the schema is the release's, and web setup takes effect (`SuccessIsTrue`). A unit loses its binary only where `install.sh` is stopped while replacing it (`UnitHasBinary`). Data and settings survive all but a purge (`KeptUnlessPurged`); after a successful uninstall nothing runs or will (`UninstallComplete`). |
| `update_restore` | one update | *Violation*: a binary missing after a rollback. |
| `panel_tab` | 1 device, 2 challenges, 2 sessions, 2 overlapping logins, 2 loads, 1 logout | Without losses the tab holds every session the server keeps for it (`HeldSessions`); a token that was signed out does not come back (`SignedOutGone`); answers of the dashboard are never applied out of order (`OneLoad`); nothing the user waits for hangs (`WaitingEnds`); a sign-out ends on the Login page (`SignOutLands`). |
| `panel_hint` | 1 device, no liveness | *Violation*: refreshing the page, as its hint says, does not find the new identity. |

**Bounds.** The races are between two actors, and each instance has two of the kind that race:
two handlers for one challenge, two `sk` processes with a third token so that a device and a key are
each contested by two of them, two agents on two pids (enough for a pid to be reused), two processes
migrating. Lifetimes are one unit and the clock has three values, so that before, at and after an
expiry all occur. Timeouts 1 and 2 are the smallest with `shutdown_timeout < TimeoutStopSec`. Three
starts are a start, a restart and another one after a crash. Two binaries that differ by one
migration, with at least one common migration, give every order of "applied", "pending" and "newer".
Three identities are one that is there, one that replaces it and one that a racing command
draws. Two update attempts include one that starts from what a failed or killed one left. Three
commands are, for instance, an install, an uninstall and another install; two faults cut two
of them short. Two releases give an upgrade with a migration and a downgrade. Two prefixes let a reinstall move, and two user ids let a deleted account come back
under another one. One tab is enough because `sessionStorage` is not shared between tabs. Two
logins, challenges and sessions let one login overlap another; one device is enough because a
signature with another key is refused like any other. Two load slots are one more than `OneLoad`
allows. Two clicks on Log out at once are not covered: the second sends the token
of the first, or none.

**Symmetry** is used over pids, challenges, handlers, commands, identities and user ids where the run has no liveness property.

**Deadlock.** `Update` really may stop: the last attempt is over and both services are up or cannot
start. Its runs do not check for deadlock; all others do.

**Fairness.**

* `AgentLifecycle`: weak fairness of the agent's own steps and of the goroutine's lock section (the
  Go scheduler runs what is runnable), of time (`Tick`) and of systemd's kill. None of `MainClose`
  and `CloserClose`: a checkpoint may hang for ever, which is what the timeouts are for.
* `Migrations`: a process in `Open` goes on, and a failed service is started again
  (`Restart=on-failure`; `sk` commands are not, so `RestartRepairs` is about the two services).
  Nothing is fair about who gets SQLite's lock, hence the escape for processes that fail for ever.
* `Update`: a started service opens its database and systemd restarts what failed. `InstallAll`
  itself is not fair: it may be killed.
* `WebPanel`: calls settle (the server's read and write timeouts and the bridge client's three seconds
  bound them, and a broken connection rejects), effects run and reloads finish. Nothing is assumed of
  the user, the host, or when sessions end and the server restarts.

## 4. Proofs

`DeviceTrust_proofs`, from the assumptions that tokens carry one device id and one key, that `None`
is no id and that lifetimes are natural numbers. The inductive invariant `TrustInv` adds to the
properties what a handler in the middle knows:

* `ChallengePlace`: a challenge is in exactly one place, the map, one handler, or one session. This
  is why a login is single-use; the property itself only speaks of the end.
* `ChallengeOrigin`: the expiry in the map, and the time a handler took, go back to the issue.
* `PassedOK`: a handler past the checks serves a device that was not revoked when it arrived, and
  that is still registered under that key (rows are never deleted and keys never change).
* `SessionOrigin`: a session expires exactly `SessionLifetime` after its login and is gone after
  logout.
* `StageOK`: fields used by a stage were set by an earlier one.

From it follow `TypeCorrect`, `SingleUse`, `Proven`, `RevokedStaysOut`, `Pairing`, `Audited` and,
as action properties, `Permanent` and `ServedLive`.

`LoginRefinement_proofs` proves `KeepsPromise`: `DeviceTrust` implements `AuthServer`. Every action of
`DeviceTrust` has one counterpart, or none: `ChallengeInsert` is `Issue`, `VerifyTake` is `Take`
(`Refuse` if the challenge has expired, invisible if it is gone), a `VerifyGet` that refuses is
`Refuse`, `VerifySession` is `Grant`, a step that removes a session is `End`, `WebRestart` is
`Restart`; commands, the clock and handlers without a challenge are invisible. The proof takes from
`TrustInv` that a challenge that is open or being answered was issued (`ChallengeOrigin`), that it is
not both, nor being answered twice (`ChallengePlace`), and that a session in the map was granted
(`SessionOrigin`).

`AgentLifecycle_proofs`, from the assumption `shutdown_timeout < TimeoutStopSec` (the comment in
`config.go`). The inductive invariant `LifeInv` says of one agent (`AgentOK`) who still holds the
database, who closes it, and that the deferred close and the goroutine exclude each other; `BoundOK`
says where the time of a stop goes: without starved goroutines the handle is handed over before any
time passes, so the unbounded deferred close has nothing to do. `FileOK` ties the PID file to the
stage. From it follow `TypeCorrect`, `OneCloser`, `NothingLeft`, and `StopIsBounded` for
`~Starvation`.

`StatusHonest` (`StatusTrue`) is proved under two hypotheses, which the run `agent_supervised` meets:
only systemd starts agents, and no other program has the name `infrapilot` (which `CheckProcess`
mistakes for the agent's, see section 5). `StatusInv` adds `ProcsOK` (the process table shows agents
and nobody else under their name), `OneOK` (systemd runs one agent, and while that serves the PID file
names it) and `CheckOK` (an agent that has served since the check began is the one the check looks
at). The last is what connects the three reads, which happen at three moments.

`Migrations_proofs`, for any set of processes and of binaries, with and without faults. The inductive
invariant `MigInv` says what a process knows however old its reads are (`ReadsOK`: rows are never
removed, and the loop is never past a migration that is not recorded), why two processes cannot
commit the same row (`LockOK`: between the row and `COMMIT` a process holds the write lock and its
migration is not in the ledger), and that handles and ledger agree (`HandleOK`, `LedgerOK`). From it
follow `TypeCorrect`, `CommittedOnce`, `NoGap`, the two together as `LedgerIsSound`, and
`OpenComplete`.

`LocalIdentity_proofs`, for any number of overlapping commands. The invariant `StoreInv` adds to the
types that a command past `CreateOpen` has drawn an identity and that `device.key` only ever holds
the key of the `Create` that made the file; from it follow `TypeCorrect` and `KeysKept`. `UsableInv`
adds, as long as commands do not overlap and at most one was interrupted, what is on disk between
commands (`Resting`: no key, one identity, or the remains of the interrupted command) and what the
running command has found and done (`AloneOK`); and, whatever overlaps, that no identity comes back
(`LoadedOK`: what is on disk and what a listener holds was drawn before). From it follow `Usable`
(`StoreUsable`) and `BridgeHonest` (`BridgeAgrees`).

`Update_proofs`, for any number of attempts. `UpdateInv` says where an attempt is and which binaries it
has replaced (`StageOK`, `ReplacedOK`), where the old content of each binary is that the attempt found in
its place, while it replaces, checks and rolls back (`FilesOK`), and what its rollback has restored
(`RestoredOK`). `KeptOK` is the part that carries a kill during the clean-up: backups go only while
all three binaries are new and both services were started from them, and this stays so after a kill until
the next attempt, which does not begin because the CLI is new. `ServicesOK` and `DatabaseOK` say what the
services run and that a new one which is through its start-up has migrated the database; `DoneOK` says what
holds from the moment `doctor` has passed, with or without a look at the schema. From it follow `OldKept`,
`Complete` and `Restores`.

`WebPanel_proofs`, for any number of logins, loads, logouts, challenges and sessions, from the
assumption that a load is no logout. `PanelInv` says what a run of `authenticate` has got (`FlowOK`),
which page calls belong to (`PageOK`), that a dashboard either waits for its effect, or loads, or shows
something (`LoadOK`), that a token `authenticate` still has is nowhere else (`TokenOK`), and that
without losses there is one login at a time, whose verdict the tab waits for, and a sign-out ends the
session of the token the tab holds (`SmoothOK`). From it follow `SessionsHeld` (`HeldSessions`),
`SignedOut` (`SignedOutGone`) and `SingleLoad` (`OneLoad`).

`Installation_proofs`, for any number of commands, faults, prefixes, user ids and releases, from the
assumption that `/usr/local` is one of the prefixes, that there is a user id, that releases are positive
schema versions and that `None` and `Part` are none of these. `HostInv` says what a command has done when it
gets to a stage (`OpOK`, `InstallOK`, `RemoveOK`, `UninstallOK`, `SetupOK`), although services crash and restart,
the machine reboots and the command may end anywhere. `StartOK` says what `install.sh` finds after its restart of
the agent: services that run execute the new binaries on the schema of the release, and an agent that does
not run has one of the reasons `RetrySucceeds` names, or met a panel that was migrating. `AgentUnitOK` says
that without the agent's unit nothing runs, is enabled, or has a unit, as long as no uninstall passed over a
failed step or was stopped between the two files of its `rm -f`; this is why an interrupted command
can be repeated although `--uninstall` disables services only if it finds that unit. `CfgOK` says that settings
are in a file. From it follow `Retries`, `UnitsHaveBinaries`, `SuccessTrue`, `Uninstalled` and `Keeps`, all
about steps: a command ends with few of them (lemmas `Endings`, `AtVerify`), and the invariant says what is
true before each of those.

Only model-checked: the liveness properties `StopCompletes`, `RestartRepairs`,
`RollbackServiceReturns`, `WaitingEnds` and `SignOutLands`. They rest on fairness, hence on `ENABLED`,
which the prover does not handle.

## 5. Where code and documents disagree

1. `Migrate` fails when another process commits the same migration first (`migrate.go:101`), while
   its comment calls it safe on every start-up (run `migrate_together`).
2. `InstallAll` does not restore the binary whose own replacement failed (`update.go:369`), while its
   comment promises restoration on any failure (run `update_restore`).
3. The Login page says to create a local identity and refresh (`Login.tsx:6`), but a bridge that found
   no identity when the agent started never looks again (`bridge.go:59`): the agent has to be
   restarted (run `panel_hint`).

Seen while modelling, without a run of their own: `CheckProcess` accepts every name that is a prefix
of `infrapilot-agent` (`process.go:237`), hence also that of the CLI, against its comment on recycled
pids; the newer-schema check is made once, outside any transaction (`migrate.go:113`); firewall
detection finds "active" in "inactive" (`firewall.go:35-40`); `validateEnvironment` and `recordLiveness`
return their error without asking `stopping()` (`agent.go:113`, `135`), so that a stop during start-up can end
in a failure, while `docs/security.md:253` says that "a stop signal arriving *during* start-up exits cleanly
rather than reporting the interrupted step as a crash".

What the passing properties deliberately exclude, because the code does not do it: a session outlives
the revocation of its device (by at most `SessionLifetime`); a crash between the two statements of
`Revoke` loses the audit row for good; an interrupted `sk create` leaves a key that both `Create` and
`Delete` refuse, and overlapping commands can mix two identities; the bridge signs with a deleted key
until the agent restarts; with starved goroutines the deferred close may wait without a bound; a
manually started agent beside the service can remove the service's PID file; a listener that read the
key before an `sk delete` and the metadata after the next `sk create` announces the new id with the old key;
a retry after a failed update removes the backup of a binary that is missing, which may be the only old copy;
a kill while the backups are removed leaves the new installation complete, some backups behind, and no report of
success; without a database, or with one that others may read, `doctor` passes without a look at the schema
(`doctor.go:320-338`), so that an update can succeed before, or without, the migration of its release; after a
release with a migration has run, rolled-back binaries refuse the schema; Ctrl-C makes rollback's own
`systemctl restart` fail; a sample configuration that was copied in part is kept by every later install, a
`config.yaml` that `web setup` created (`web_setup.go:130`, mode 0640, root's) is refused by services that may
not read it (`config.go:195`), as is one whose group number a new account did not get back, and a database of a
deleted account keeps its old uid; `install.sh` fails in `doctor` with `--no-start` on a database the release
would still have to migrate, and with an older release over a newer schema; a reinstall that is stopped while
`install(1)` replaces a binary leaves its unit without it; an
uninstall that passed over a failed step leaves services or units behind that a second one does not
remove; `infrapilot uninstall` leaves binaries installed under another prefix; `web setup` can lose
the operator's settings when it is killed, and reports success when the panel could not be restarted. In the browser: of two
overlapping logins one leaves a session that nobody signs out, and the later one can undo a sign-out
before the page has reloaded; a lost logout removes the token, leaves the session open and the
dashboard on the screen; a dead token brings up a dashboard of errors until Log out; and the device id
is only asked for when the page is loaded.

## 6. Not modelled, and the plan

Done: `DeviceTrust`, `AgentLifecycle`, `Migrations`, `Update`, `LocalIdentity`, `Installation`,
`AuthServer` with its refinement, and `WebPanel`, with the proofs of their safety properties. Next, in this order:

1. Pure operators checked against reference definitions: configuration layers and `Validate`,
   version comparison, the doctor and status reports, firewall detection, redaction.
2. `Rollout`: `Update` composed with `Migrations`, so that the services of an update migrate through
   the detailed model, with the abstract schema of `Update` as its refinement.

Left out for good: the visual components of the panel (`MetricCard`, `Panel`, `EmptyState`,
`StatusBadge`), its build files and generated assets, which keep no state; the earlier static page
`internal/web/assets/app.js`, which no binary serves (`embed.go` embeds `dist/` only); formatting, wording and log output; reads of `/proc` for host
information; argument parsing.
