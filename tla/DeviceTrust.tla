----------------------------- MODULE DeviceTrust -----------------------------
(***************************************************************************)
(* Device pairing, revocation and challenge/response login.                *)
(*                                                                         *)
(* Two kinds of actor share one SQLite database: `infrapilot sk replace`   *)
(* and `infrapilot sk revoke` processes (Cli), and the HTTP handlers of    *)
(* the web process (Req), which also share two in-memory maps, each under  *)
(* its own mutex: Authenticator.challenges and Server.sessions.  A handler *)
(* is cut into one action per critical section or SQL statement, so every  *)
(* value it read earlier may be stale when it is used.                     *)
(*                                                                         *)
(* Abstractions.  A pairing token stands for its envelope: TokenDevice and *)
(* TokenKey are the device id and public key it carries.  A challenge id   *)
(* stands for the pair (id, random value) made together.  A signature is   *)
(* the key that produced it over this challenge's value, or None when it   *)
(* was produced over anything else.  Random values are fresh: an id is     *)
(* drawn from those never drawn before.  Only the audit rows that a        *)
(* property tells apart are kept (a pairing, a revocation); every audit    *)
(* INSERT still counts as a write that other transactions can run into.    *)
(***************************************************************************)
EXTENDS Naturals, FiniteSets

CONSTANTS
    Device,             \* device ids
    Key,                \* Ed25519 public keys
    Token,              \* pairing token strings
    TokenDevice,        \* the device id inside a token
    TokenKey,           \* the public key inside a token
    Cli,                \* concurrent `sk replace` / `sk revoke` processes
    Req,                \* concurrent HTTP handlers of the web process
    Chal,               \* challenge ids the web process may draw
    Sess,               \* session tokens the web process may draw
    None,               \* a field that is not set; a signature over other data
    TokenLifetime,      \* tokenLifetime (10 minutes)
    ChallengeLifetime,  \* challengeLifetime (2 minutes)
    SessionLifetime,    \* the 15 minutes of Server.verify
    MaxTime             \* bound: the clock stops here

ASSUME TokenAssumption ==
    /\ TokenDevice \in [Token -> Device]
    /\ TokenKey \in [Token -> Key]

ASSUME NoneAssumption ==
    None \notin Device \cup Key \cup Token \cup Chal \cup Sess

ASSUME TimeAssumption ==
    /\ TokenLifetime \in Nat
    /\ ChallengeLifetime \in Nat
    /\ SessionLifetime \in Nat
    /\ MaxTime \in Nat

VARIABLES
    now,         \* wall clock
    tokens,      \* minted tokens: [token, expires]
    devices,     \* table device_identities: [dev, key, status]
    used,        \* table pairing_tokens: [token, dev, by], all status 'used'
    audit,       \* rows of security_audit a property speaks of: <<event, dev>>
    cli,         \* per CLI process: where its command is
    challenges,  \* Authenticator.challenges: [id, dev, expires]
    sessions,    \* Server.sessions: [id, expires]
    req,         \* per HTTP handler: where it is and what it has read
    issued,      \* history: challenge ids drawn, [id, dev, at]
    granted,     \* history: logins that produced a session
    loggedOut,   \* history: session tokens given up by logout
    served       \* history: the access `protected` let through last

dbVars  == <<devices, used, audit>>
webVars == <<challenges, sessions, req>>
history == <<issued, granted, loggedOut, served>>
vars    == <<now, tokens, dbVars, cli, webVars, history>>

Time == 0..MaxTime
Statuses == {"active", "revoked"}
Events == {"pairing_succeeded", "device_revoked"}

CliRec == [pc : {"idle", "read", "write", "revaudit"},
           token : Token \cup {None}, dev : Device \cup {None},
           stale : BOOLEAN]

ReqRec == [pc : {"idle", "cget", "cinsert", "vtake", "vget", "vaudit", "vsession"},
           chal : Chal \cup {None}, dev : Device \cup {None},
           key : Key \cup {None}, at : Time, seen : SUBSET Device]

GrantRec == [sess : Sess, chal : Chal, dev : Device, key : Key,
             arrived : Time, seen : SUBSET Device, at : Time]

IdleCli == [pc |-> "idle", token |-> None, dev |-> None, stale |-> FALSE]

IdleReq == [pc |-> "idle", chal |-> None, dev |-> None, key |-> None,
            at |-> 0, seen |-> {}]

Registered == {x.dev : x \in devices}
Revoked == {x.dev : x \in {y \in devices : y.status = "revoked"}}
Drawn == {i.id : i \in issued}
Logins == {g.sess : g \in granted}

(***************************************************************************)
(* One type invariant for the tables, the two in-memory maps, the records  *)
(* of both kinds of process and the history.                               *)
(***************************************************************************)
TypeOK ==
    /\ now \in Time
    /\ tokens \subseteq [token : Token, expires : Nat]
    /\ devices \subseteq [dev : Device, key : Key, status : Statuses]
    /\ used \subseteq [token : Token, dev : Device, by : Cli]
    /\ audit \subseteq Events \X Device
    /\ cli \in [Cli -> CliRec]
    /\ challenges \subseteq [id : Chal, dev : Device, expires : Nat]
    /\ sessions \subseteq [id : Sess, expires : Nat]
    /\ req \in [Req -> ReqRec]
    /\ issued \subseteq [id : Chal, dev : Device, at : Time]
    /\ granted \subseteq GrantRec
    /\ loggedOut \subseteq Sess
    /\ served \subseteq [sess : Sess, at : Time]

Init ==
    /\ now = 0
    /\ tokens = {} /\ devices = {} /\ used = {} /\ audit = {}
    /\ cli = [p \in Cli |-> IdleCli]
    /\ challenges = {} /\ sessions = {}
    /\ req = [r \in Req |-> IdleReq]
    /\ issued = {} /\ granted = {} /\ loggedOut = {} /\ served = {}

------------------------------------------------------------------------------
(* SQLite.  The database is in WAL mode and BEGIN is deferred: the SELECTs *)
(* of a transaction read one snapshot, and its first INSERT fails at once  *)
(* (SQLITE_BUSY_SNAPSHOT) if any other connection committed since.  Touch  *)
(* is that effect of a commit on the transactions that hold a snapshot.    *)

Touch(c) == [p \in Cli |-> IF c[p].pc = "write" THEN [c[p] EXCEPT !.stale = TRUE]
                                                ELSE c[p]]

(* Repository.audit: its error is dropped, so the row is written or not.   *)
AuditAttempt == cli' \in {cli, Touch(cli)}

------------------------------------------------------------------------------
(* The clock, and the minting of a token by identity.Create on a client.   *)

Tick ==
    /\ now < MaxTime
    /\ now' = now + 1
    /\ UNCHANGED <<tokens, dbVars, cli, webVars, history>>

PairingToken(t) ==
    /\ \A m \in tokens : m.token # t
    /\ tokens' = tokens \cup {[token |-> t, expires |-> now + TokenLifetime]}
    /\ UNCHANGED <<now, dbVars, cli, webVars, history>>

------------------------------------------------------------------------------
(* `infrapilot sk replace <token>`: Repository.Replace.                    *)

\* parseToken's time check: e.ExpiresAt < now.Unix() refuses the token.
TokenAccepted(t) == \E m \in tokens : m.token = t /\ ~(m.expires < now)

ReplaceParse(p, t) ==
    /\ cli[p].pc = "idle"
    /\ \E m \in tokens : m.token = t
    /\ IF TokenAccepted(t)
         THEN cli' = [cli EXCEPT ![p] = [IdleCli EXCEPT !.pc = "read", !.token = t]]
         ELSE AuditAttempt                            \* pairing_rejected
    /\ UNCHANGED <<now, tokens, dbVars, webVars, history>>

PairingRefused_sharedKey(t) ==       \* mutant: the public key is not looked up
    \/ \E u \in used : u.token = t
    \/ \E x \in devices : x.dev = TokenDevice[t]

\* The three SELECTs, in the snapshot of the first one.
PairingRefused(t) ==
    \/ \E u \in used : u.token = t
    \/ \E x \in devices : x.dev = TokenDevice[t]
    \/ \E x \in devices : x.key = TokenKey[t]

\* A SELECT that fails counts as one that finds nothing; the UNIQUE and
\* PRIMARY KEY constraints then decide.
ReplaceRead(p) ==
    /\ cli[p].pc = "read"
    /\ \/ PairingRefused(cli[p].token) /\ cli' = [cli EXCEPT ![p] = IdleCli]
       \/ cli' = [cli EXCEPT ![p].pc = "write"]
    /\ UNCHANGED <<now, tokens, dbVars, webVars, history>>

ReplaceCommit_unaudited(p) ==        \* mutant: no audit row in the transaction
    LET t == cli[p].token IN
    /\ cli[p].pc = "write" /\ ~cli[p].stale /\ ~PairingRefused(t)
    /\ devices' = devices \cup {[dev |-> TokenDevice[t], key |-> TokenKey[t],
                                 status |-> "active"]}
    /\ used' = used \cup {[token |-> t, dev |-> TokenDevice[t], by |-> p]}
    /\ cli' = Touch([cli EXCEPT ![p] = IdleCli])
    /\ UNCHANGED <<now, tokens, audit, webVars, history>>

\* The three INSERTs and the COMMIT.  A stale snapshot, a UNIQUE or PRIMARY
\* KEY conflict or any other failure rolls everything back.
ReplaceCommit(p) ==
    LET t == cli[p].token IN
    /\ cli[p].pc = "write"
    /\ \/ /\ ~cli[p].stale
          /\ ~PairingRefused(t)
          /\ devices' = devices \cup {[dev |-> TokenDevice[t], key |-> TokenKey[t],
                                       status |-> "active"]}
          /\ used' = used \cup {[token |-> t, dev |-> TokenDevice[t], by |-> p]}
          /\ audit' = audit \cup {<<"pairing_succeeded", TokenDevice[t]>>}
          /\ cli' = Touch([cli EXCEPT ![p] = IdleCli])
       \/ /\ cli' = [cli EXCEPT ![p] = IdleCli]
          /\ UNCHANGED dbVars
    /\ UNCHANGED <<now, tokens, webVars, history>>

------------------------------------------------------------------------------
(* `infrapilot sk revoke <device-id>`: Repository.Revoke, two autocommits. *)

RevokeUpdate_misspelt(p, d) ==       \* mutant: a status nobody else knows
    /\ cli[p].pc = "idle"
    /\ \E x \in devices :
         /\ x.dev = d /\ x.status = "active"
         /\ devices' = (devices \ {x}) \cup {[x EXCEPT !.status = "disabled"]}
    /\ cli' = Touch([cli EXCEPT ![p] = [IdleCli EXCEPT !.pc = "revaudit", !.dev = d]])
    /\ UNCHANGED <<now, tokens, used, audit, webVars, history>>

RevokeUpdate_deletes(p, d) ==        \* mutant: DELETE, so the token's device may return
    /\ cli[p].pc = "idle"
    /\ \E x \in devices : x.dev = d /\ x.status = "active" /\ devices' = devices \ {x}
    /\ cli' = Touch([cli EXCEPT ![p] = [IdleCli EXCEPT !.pc = "revaudit", !.dev = d]])
    /\ UNCHANGED <<now, tokens, used, audit, webVars, history>>

RevokeUpdate(p, d) ==
    /\ cli[p].pc = "idle"
    /\ \E x \in devices :
         /\ x.dev = d /\ x.status = "active"
         /\ devices' = (devices \ {x}) \cup {[x EXCEPT !.status = "revoked"]}
    /\ cli' = Touch([cli EXCEPT ![p] = [IdleCli EXCEPT !.pc = "revaudit", !.dev = d]])
    /\ UNCHANGED <<now, tokens, used, audit, webVars, history>>

RevokeAudit(p) ==
    /\ cli[p].pc = "revaudit"
    /\ \/ /\ audit' = audit \cup {<<"device_revoked", cli[p].dev>>}
          /\ cli' = Touch([cli EXCEPT ![p] = IdleCli])
       \/ /\ audit' = audit                       \* the INSERT fails
          /\ cli' = [cli EXCEPT ![p] = IdleCli]
    /\ UNCHANGED <<now, tokens, devices, used, webVars, history>>

\* The process is killed; an open transaction is rolled back.
CliCrash(p) ==
    /\ cli[p].pc # "idle"
    /\ cli' = [cli EXCEPT ![p] = IdleCli]
    /\ UNCHANGED <<now, tokens, dbVars, webVars, history>>

------------------------------------------------------------------------------
(* POST /api/auth/challenge: Server.challenge and Authenticator.Challenge. *)
(* The handler reads the clock once, before the database.                  *)

ChallengeArrive(r, d) ==
    /\ req[r].pc = "idle"
    /\ req' = [req EXCEPT ![r] = [IdleReq EXCEPT !.pc = "cget", !.dev = d, !.at = now]]
    /\ UNCHANGED <<now, tokens, dbVars, cli, challenges, sessions, history>>

\* repository.Get and the status check; any error of the query is a refusal.
Get(r) == {x \in devices : x.dev = req[r].dev}
DeviceActive(r) == \E x \in Get(r) : x.status = "active"

ChallengeGet(r) ==
    /\ req[r].pc = "cget"
    /\ \/ /\ DeviceActive(r)
          /\ req' = [req EXCEPT ![r].pc = "cinsert"]
          /\ UNCHANGED cli
       \/ /\ req' = [req EXCEPT ![r] = IdleReq]
          /\ AuditAttempt                       \* device_authentication_failure
    /\ UNCHANGED <<now, tokens, dbVars, challenges, sessions, history>>

ChallengeInsert(r, c) ==
    /\ req[r].pc = "cinsert"
    /\ c \notin Drawn
    /\ challenges' = challenges \cup
         {[id |-> c, dev |-> req[r].dev, expires |-> req[r].at + ChallengeLifetime]}
    /\ issued' = issued \cup {[id |-> c, dev |-> req[r].dev, at |-> now]}
    /\ req' = [req EXCEPT ![r] = IdleReq]
    /\ UNCHANGED <<now, tokens, dbVars, cli, sessions, granted, loggedOut, served>>

------------------------------------------------------------------------------
(* POST /api/auth/verify: Server.verify and Authenticator.Verify.          *)

\* A client answers a challenge it was given, perhaps twice, late, or with a
\* signature that does not verify.
VerifyArrive(r, c, k) ==
    /\ req[r].pc = "idle"
    /\ c \in Drawn
    /\ req' = [req EXCEPT ![r] = [IdleReq EXCEPT !.pc = "vtake", !.chal = c, !.key = k,
                                                 !.at = now, !.seen = Revoked]]
    /\ UNCHANGED <<now, tokens, dbVars, cli, challenges, sessions, history>>

VerifyTake_keeps(r) ==               \* mutant: the challenge is not deleted
    /\ req[r].pc = "vtake"
    /\ \E x \in challenges :
         /\ x.id = req[r].chal /\ req[r].at < x.expires
         /\ req' = [req EXCEPT ![r].pc = "vget", ![r].dev = x.dev]
    /\ UNCHANGED <<now, tokens, dbVars, cli, challenges, sessions, history>>

VerifyTake_atExpiry(r) ==            \* mutant: the expiry instant still counts
    /\ req[r].pc = "vtake"
    /\ challenges' = {x \in challenges : x.id # req[r].chal}
    /\ \E x \in challenges :
         /\ x.id = req[r].chal /\ req[r].at <= x.expires
         /\ req' = [req EXCEPT ![r].pc = "vget", ![r].dev = x.dev]
    /\ UNCHANGED <<now, tokens, dbVars, cli, sessions, history>>

\* Under a.mu: look the challenge up and delete it, whatever follows.
VerifyTake(r) ==
    /\ req[r].pc = "vtake"
    /\ challenges' = {x \in challenges : x.id # req[r].chal}
    /\ \/ \E x \in challenges :
            /\ x.id = req[r].chal
            /\ req[r].at < x.expires
            /\ req' = [req EXCEPT ![r].pc = "vget", ![r].dev = x.dev]
            /\ UNCHANGED cli
       \/ /\ \A x \in challenges : x.id = req[r].chal => ~(req[r].at < x.expires)
          /\ req' = [req EXCEPT ![r] = IdleReq]
          /\ AuditAttempt                       \* challenge_rejected
    /\ UNCHANGED <<now, tokens, dbVars, sessions, history>>

VerifyGet_anyStatus(r) ==            \* mutant: the status is only checked by Challenge
    /\ req[r].pc = "vget"
    /\ \E x \in Get(r) : x.key = req[r].key
    /\ req' = [req EXCEPT ![r].pc = "vaudit"]
    /\ UNCHANGED <<now, tokens, dbVars, cli, challenges, sessions, history>>

\* repository.Get, the status check and ed25519.Verify on the row just read.
VerifyGet(r) ==
    /\ req[r].pc = "vget"
    /\ \/ /\ \E x \in Get(r) : x.status = "active" /\ x.key = req[r].key
          /\ req' = [req EXCEPT ![r].pc = "vaudit"]
          /\ UNCHANGED cli
       \/ /\ req' = [req EXCEPT ![r] = IdleReq]
          /\ AuditAttempt                       \* device_authentication_failure
    /\ UNCHANGED <<now, tokens, dbVars, challenges, sessions, history>>

VerifyAudit(r) ==
    /\ req[r].pc = "vaudit"
    /\ req' = [req EXCEPT ![r].pc = "vsession"]
    /\ AuditAttempt                             \* login_success
    /\ UNCHANGED <<now, tokens, dbVars, challenges, sessions, history>>

\* Back in Server.verify: a fresh session token, good for SessionLifetime
\* from the moment it is stored.
VerifySession(r, s) ==
    /\ req[r].pc = "vsession"
    /\ s \notin Logins
    /\ sessions' = sessions \cup {[id |-> s, expires |-> now + SessionLifetime]}
    /\ granted' = granted \cup
         {[sess |-> s, chal |-> req[r].chal, dev |-> req[r].dev, key |-> req[r].key,
           arrived |-> req[r].at, seen |-> req[r].seen, at |-> now]}
    /\ req' = [req EXCEPT ![r] = IdleReq]
    /\ UNCHANGED <<now, tokens, dbVars, cli, challenges, issued, loggedOut, served>>

------------------------------------------------------------------------------
(* Server.protected, Server.logout and the end of the web process.         *)

\* The check under s.mu; an expired session is deleted when it is met.
Protected(s) ==
    /\ \E x \in sessions : x.id = s
    /\ IF \E x \in sessions : x.id = s /\ now > x.expires
         THEN /\ sessions' = {x \in sessions : x.id # s}
              /\ UNCHANGED served
         ELSE /\ served' = {[sess |-> s, at |-> now]}
              /\ UNCHANGED sessions
    /\ UNCHANGED <<now, tokens, dbVars, cli, challenges, req, issued, granted, loggedOut>>

Logout_cookieOnly(s) ==              \* mutant: only the cookie is cleared
    /\ s \in Logins
    /\ loggedOut' = loggedOut \cup {s}
    /\ UNCHANGED <<now, tokens, dbVars, cli, webVars, issued, granted, served>>

Logout(s) ==
    /\ s \in Logins
    /\ sessions' = {x \in sessions : x.id # s}
    /\ loggedOut' = loggedOut \cup {s}
    /\ UNCHANGED <<now, tokens, dbVars, cli, challenges, req, issued, granted, served>>

\* infrapilot-web stops or crashes and is started again: both maps were only
\* in memory, and the handlers are gone.
WebRestart ==
    /\ challenges' = {} /\ sessions' = {}
    /\ req' = [r \in Req |-> IdleReq]
    /\ UNCHANGED <<now, tokens, dbVars, cli, history>>

CliNext(p) ==
    \/ \E t \in Token : ReplaceParse(p, t)
    \/ ReplaceRead(p)
    \/ ReplaceCommit(p)
    \/ \E d \in Device : RevokeUpdate(p, d)
    \/ RevokeAudit(p)
    \/ CliCrash(p)

ReqNext(r) ==
    \/ \E d \in Device : ChallengeArrive(r, d)
    \/ ChallengeGet(r)
    \/ \E c \in Chal : ChallengeInsert(r, c)
    \/ \E c \in Chal, k \in Key \cup {None} : VerifyArrive(r, c, k)
    \/ VerifyTake(r)
    \/ VerifyGet(r)
    \/ VerifyAudit(r)
    \/ \E s \in Sess : VerifySession(r, s)

Next ==
    \/ Tick
    \/ \E t \in Token : PairingToken(t)
    \/ \E p \in Cli : CliNext(p)
    \/ \E r \in Req : ReqNext(r)
    \/ \E s \in Sess : Protected(s) \/ Logout(s)
    \/ WebRestart

Spec == Init /\ [][Next]_vars

------------------------------------------------------------------------------
(* Properties.                                                             *)

(* Authenticator.Verify deletes the challenge before it judges it: however *)
(* many handlers are given the same answer, and whatever the order of      *)
(* their critical sections, one challenge never yields two sessions.       *)
ChallengeSingleUse ==
    \A g, h \in granted : g.chal = h.chal => g = h

(* A session exists only because a challenge that was issued to this very  *)
(* device, no longer than ChallengeLifetime before the answer arrived, was *)
(* signed with the key the device is registered under.                     *)
LoginProven ==
    \A g \in granted :
      /\ \E x \in devices : x.dev = g.dev /\ x.key = g.key
      /\ \E i \in issued : /\ i.id = g.chal /\ i.dev = g.dev
                           /\ g.arrived < i.at + ChallengeLifetime

(* A device whose revocation was committed before the answer arrived does  *)
(* not log in, even with a challenge issued while it was still trusted.    *)
NoLoginAfterRevocation ==
    \A g \in granted : g.dev \notin g.seen

(* Pairing tokens are single-use, a device id is registered once and a     *)
(* public key belongs to one device, with any number of concurrent         *)
(* `sk replace` processes reading snapshots that others outdate.           *)
PairingOnce ==
    /\ \A u, v \in used : u.token = v.token => u = v
    /\ \A x, y \in devices : x.dev = y.dev \/ x.key = y.key => x = y

(* Revocation is for good: no sequence of pairings, stale snapshots and    *)
(* retries makes a revoked device active again or removes it.              *)
RevocationPermanent ==
    [][Revoked \subseteq Revoked' /\ Registered \subseteq Registered']_vars

(* The audit trail agrees with the tables: a device is registered exactly  *)
(* when its pairing is on record, and a recorded revocation did happen.    *)
AuditTruthful ==
    /\ Registered = {d \in Device : <<"pairing_succeeded", d>> \in audit}
    /\ {d \in Device : <<"device_revoked", d>> \in audit} \subseteq Revoked

(* What `protected` lets through belongs to a login at most                *)
(* SessionLifetime ago that was not logged out, across restarts too.       *)
ServedSessionLive ==
    [][\A a \in served' \ served :
         /\ a.sess \notin loggedOut
         /\ \E g \in granted : g.sess = a.sess /\ a.at <= g.at + SessionLifetime]_vars
==============================================================================
