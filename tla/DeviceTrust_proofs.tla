------------------------- MODULE DeviceTrust_proofs --------------------------
(***************************************************************************)
(* Proofs about DeviceTrust, for every set of devices, keys, tokens, CLI   *)
(* processes and handlers and every lifetime.                              *)
(***************************************************************************)
EXTENDS DeviceTrust, TLAPS

(* Handlers that have taken their challenge out of the map.                *)
Taken(r) == req[r].pc \in {"vget", "vaudit", "vsession"}

(* Handlers that have passed every check of Authenticator.Verify.          *)
Passed(r) == req[r].pc \in {"vaudit", "vsession"}

(* The fields a stage relies on have been set by an earlier one.           *)
StageOK ==
    /\ \A p \in Cli : cli[p].pc \in {"read", "write"} => cli[p].token \in Token
    /\ \A p \in Cli : cli[p].pc = "revaudit" => cli[p].dev \in Revoked
    /\ \A r \in Req : req[r].pc \in {"cget", "cinsert"} => req[r].dev \in Device
    /\ \A r \in Req : req[r].pc = "vtake" \/ Taken(r) => req[r].chal \in Chal

(* A challenge is in one place: the map, one handler, or one session; and  *)
(* it never comes back, because ids are fresh.                             *)
ChallengePlace ==
    /\ \A x \in challenges, r \in Req : Taken(r) => req[r].chal # x.id
    /\ \A x \in challenges, g \in granted : g.chal # x.id
    /\ \A r, q \in Req : Taken(r) /\ Taken(q) /\ req[r].chal = req[q].chal => r = q
    /\ \A r \in Req, g \in granted : Taken(r) => g.chal # req[r].chal

(* Where a challenge came from: its issue, to this device, at that time.   *)
ChallengeOrigin ==
    /\ \A x \in challenges : \E i \in issued :
         i.id = x.id /\ i.dev = x.dev /\ x.expires <= i.at + ChallengeLifetime
    /\ \A r \in Req : Taken(r) => \E i \in issued :
         /\ i.id = req[r].chal /\ i.dev = req[r].dev
         /\ req[r].at < i.at + ChallengeLifetime
    /\ \A r \in Req : req[r].at <= now

(* What a handler past the checks has established about its device.        *)
PassedOK ==
    /\ \A r \in Req : req[r].seen \subseteq Revoked
    /\ \A r \in Req : Passed(r) =>
         /\ req[r].dev \notin req[r].seen
         /\ \E x \in devices : x.dev = req[r].dev /\ x.key = req[r].key

(* Sessions come from logins, end SessionLifetime after them, and are gone *)
(* after a logout.                                                         *)
SessionOrigin ==
    /\ loggedOut \subseteq Logins
    /\ \A x \in sessions :
         /\ x.id \notin loggedOut
         /\ \E g \in granted : g.sess = x.id /\ x.expires = g.at + SessionLifetime

TrustInv ==
    /\ TypeOK /\ StageOK /\ ChallengePlace /\ ChallengeOrigin
    /\ PassedOK /\ SessionOrigin
    /\ ChallengeSingleUse /\ LoginProven /\ NoLoginAfterRevocation
    /\ PairingOnce /\ AuditTruthful

------------------------------------------------------------------------------
(* Lemmas about the operators.                                             *)

(* A commit by someone else only marks transactions as stale.              *)
LEMMA TouchOK ==
  ASSUME NEW c \in [Cli -> CliRec]
  PROVE  /\ Touch(c) \in [Cli -> CliRec]
         /\ \A p \in Cli : /\ Touch(c)[p].pc = c[p].pc
                           /\ Touch(c)[p].token = c[p].token
                           /\ Touch(c)[p].dev = c[p].dev
  BY DEF Touch, CliRec

(* An audit row, written or lost, leaves every CLI process where it is.    *)
LEMMA AuditAttemptOK ==
  ASSUME TypeOK, AuditAttempt
  PROVE  /\ cli' \in [Cli -> CliRec]
         /\ \A p \in Cli : /\ cli'[p].pc = cli[p].pc
                           /\ cli'[p].token = cli[p].token
                           /\ cli'[p].dev = cli[p].dev
<1>1. cli \in [Cli -> CliRec] BY DEF TypeOK
<1> QED BY <1>1, TouchOK DEF AuditAttempt

(* The records of processes that are doing nothing.                        *)
LEMMA IdleOK == IdleCli \in CliRec /\ IdleReq \in ReqRec
  BY TimeAssumption DEF IdleCli, IdleReq, CliRec, ReqRec, Time

(* Membership in the derived sets, spelled out.                            *)
LEMMA DerivedSets ==
  ASSUME NEW d
  PROVE  /\ d \in Registered <=> \E x \in devices : x.dev = d
         /\ d \in Revoked <=> \E x \in devices : x.dev = d /\ x.status = "revoked"
         /\ d \in Drawn <=> \E i \in issued : i.id = d
         /\ d \in Logins <=> \E g \in granted : g.sess = d
  BY DEF Registered, Revoked, Drawn, Logins

(* The UPDATE of Revoke: it changes the status of one device only.         *)
LEMMA RevokeUpdateRows ==
  ASSUME TypeOK, NEW p \in Cli, NEW d \in Device, RevokeUpdate(p, d)
  PROVE  \E x \in devices, y \in [dev : {d}, key : Key, status : {"revoked"}] :
           /\ x.dev = d /\ y.key = x.key
           /\ devices' = (devices \ {x}) \cup {y}
<1>1. PICK x \in devices : /\ x.dev = d /\ x.status = "active"
                           /\ devices' = (devices \ {x}) \cup {[x EXCEPT !.status = "revoked"]}
  BY DEF RevokeUpdate
<1>2. x \in [dev : Device, key : Key, status : Statuses]
  BY DEF TypeOK
<1>3. /\ [x EXCEPT !.status = "revoked"] \in [dev : {d}, key : Key, status : {"revoked"}]
      /\ [x EXCEPT !.status = "revoked"].key = x.key
  BY <1>1, <1>2
<1> QED BY <1>1, <1>3

(* What follows for the derived sets and for the key of every device.      *)
LEMMA RevokeUpdateSets ==
  ASSUME TypeOK, PairingOnce, NEW p \in Cli, NEW d \in Device, RevokeUpdate(p, d)
  PROVE  /\ Registered' = Registered
         /\ Revoked' = Revoked \cup {d}
         /\ \A z \in devices : \E w \in devices' : w.dev = z.dev /\ w.key = z.key
<1>1. PICK x \in devices, y \in [dev : {d}, key : Key, status : {"revoked"}] :
         /\ x.dev = d /\ y.key = x.key
         /\ devices' = (devices \ {x}) \cup {y}
  BY RevokeUpdateRows
<1>2. \A z \in devices : \E w \in devices' : w.dev = z.dev /\ w.key = z.key
  BY <1>1
<1>3. \A w \in devices' : w \in devices \/ (w.dev = d /\ w.status = "revoked")
  BY <1>1
<1>4. \A z \in devices : z.dev # d => z \in devices'
  BY <1>1
<1>5. y \in devices' /\ y.dev = d /\ y.status = "revoked"
  BY <1>1
<1>6. Registered' = Registered
  BY <1>1, <1>2, <1>3 DEF Registered
<1>7. Revoked' = Revoked \cup {d}
  BY <1>3, <1>4, <1>5 DEF Revoked
<1> QED BY <1>2, <1>6, <1>7

------------------------------------------------------------------------------
(* Every action preserves TrustInv.                                        *)

(* The clock moves: what was read before stays in the past.                *)
LEMMA TickInv ==
  ASSUME TrustInv, Tick
  PROVE  TrustInv'
<1>1. TypeOK'
  BY TimeAssumption DEF TrustInv, Tick, TypeOK, Time, dbVars, webVars,
        history
<1>2. ChallengeOrigin'
  BY DEF TrustInv, Tick, ChallengeOrigin, Taken, TypeOK, ReqRec, Time,
        IdleReq, dbVars, webVars, history
<1>3. /\ StageOK' /\ ChallengePlace' /\ PassedOK'
      /\ SessionOrigin' /\ ChallengeSingleUse' /\ LoginProven'
      /\ NoLoginAfterRevocation' /\ PairingOnce' /\ AuditTruthful'
  BY DEF TrustInv, Tick, StageOK, Taken, Revoked, ChallengePlace, PassedOK,
        Passed, SessionOrigin, Logins, ChallengeSingleUse, LoginProven,
        NoLoginAfterRevocation, PairingOnce, AuditTruthful, Registered,
        dbVars, webVars, history
<1> QED BY <1>1, <1>2, <1>3 DEF TrustInv

(* A token is minted: no table knows of it yet.                            *)
LEMMA PairingTokenInv ==
  ASSUME TrustInv, NEW t \in Token, PairingToken(t)
  PROVE  TrustInv'
<1>1. TypeOK'
  BY TimeAssumption DEF TrustInv, PairingToken, TypeOK, Time, dbVars,
        webVars, history
<1>2. /\ StageOK' /\ ChallengePlace' /\ ChallengeOrigin'
      /\ PassedOK' /\ SessionOrigin' /\ ChallengeSingleUse'
      /\ LoginProven' /\ NoLoginAfterRevocation' /\ PairingOnce'
      /\ AuditTruthful'
  BY DEF TrustInv, PairingToken, StageOK, Taken, Revoked, ChallengePlace,
        ChallengeOrigin, PassedOK, Passed, SessionOrigin, Logins,
        ChallengeSingleUse, LoginProven, NoLoginAfterRevocation, PairingOnce,
        AuditTruthful, Registered, dbVars, webVars, history
<1> QED BY <1>1, <1>2 DEF TrustInv

(* `sk replace` starts, or refuses an expired token.                       *)
LEMMA ReplaceParseInv ==
  ASSUME TrustInv, NEW p \in Cli, NEW t \in Token, ReplaceParse(p, t)
  PROVE  TrustInv'
<1>1. TypeOK'
  <2>1. CASE TokenAccepted(t)
    <3>1. [IdleCli EXCEPT !.pc = "read", !.token = t] \in CliRec
      BY DEF CliRec, IdleCli
    <3> QED BY <2>1, <3>1 DEF TrustInv, ReplaceParse, TypeOK, dbVars, webVars,
        history
  <2>2. CASE ~TokenAccepted(t)
    BY <2>2, AuditAttemptOK DEF TrustInv, ReplaceParse, TypeOK, dbVars,
        webVars, history
  <2> QED BY <2>1, <2>2
<1>2. StageOK'
  <2>1. \A q \in Cli : \/ cli'[q].pc = cli[q].pc /\ cli'[q].token = cli[q].token
                                               /\ cli'[q].dev = cli[q].dev
                       \/ cli'[q].pc = "read" /\ cli'[q].token \in Token
    <3>1. CASE TokenAccepted(t)
      <4>1. cli' = [cli EXCEPT ![p] = [IdleCli EXCEPT !.pc = "read", !.token = t]]
        BY <3>1 DEF ReplaceParse
      <4> QED BY <4>1 DEF TrustInv, TypeOK, CliRec, IdleCli
    <3>2. CASE ~TokenAccepted(t)
      <4>1. AuditAttempt
        BY <3>2 DEF ReplaceParse
      <4> QED BY <4>1, AuditAttemptOK DEF TrustInv
    <3> QED BY <3>1, <3>2
  <2>2. UNCHANGED <<devices, req>>
    BY DEF ReplaceParse, dbVars, webVars
  <2> QED BY <2>1, <2>2 DEF TrustInv, StageOK, Taken, Revoked
<1>3. /\ ChallengePlace' /\ ChallengeOrigin' /\ PassedOK'
      /\ SessionOrigin' /\ ChallengeSingleUse' /\ LoginProven'
      /\ NoLoginAfterRevocation' /\ PairingOnce' /\ AuditTruthful'
  BY DEF TrustInv, ReplaceParse, ChallengePlace, Taken, ChallengeOrigin,
        PassedOK, Passed, Revoked, SessionOrigin, Logins, ChallengeSingleUse,
        LoginProven, NoLoginAfterRevocation, PairingOnce, AuditTruthful,
        Registered, dbVars, webVars, history
<1> QED BY <1>1, <1>2, <1>3 DEF TrustInv

(* `sk replace` reads its snapshot.                                        *)
LEMMA ReplaceReadInv ==
  ASSUME TrustInv, NEW p \in Cli, ReplaceRead(p)
  PROVE  TrustInv'
<1>1. TypeOK'
  BY IdleOK DEF TrustInv, ReplaceRead, TypeOK, Time, CliRec, dbVars, webVars,
        history
<1>2. StageOK'
  BY DEF TrustInv, ReplaceRead, StageOK, Taken, Revoked, TypeOK, CliRec,
        IdleCli, dbVars, webVars, history
<1>3. /\ ChallengePlace' /\ ChallengeOrigin' /\ PassedOK'
      /\ SessionOrigin' /\ ChallengeSingleUse' /\ LoginProven'
      /\ NoLoginAfterRevocation' /\ PairingOnce' /\ AuditTruthful'
  BY DEF TrustInv, ReplaceRead, ChallengePlace, Taken, ChallengeOrigin,
        PassedOK, Passed, Revoked, SessionOrigin, Logins, ChallengeSingleUse,
        LoginProven, NoLoginAfterRevocation, PairingOnce, AuditTruthful,
        Registered, dbVars, webVars, history
<1> QED BY <1>1, <1>2, <1>3 DEF TrustInv

(* `sk replace` commits three rows, or none.                               *)
LEMMA ReplaceCommitInv ==
  ASSUME TrustInv, NEW p \in Cli, ReplaceCommit(p)
  PROVE  TrustInv'
<1>1. TypeOK'
  <2>1. cli[p].token \in Token
    BY DEF TrustInv, StageOK, ReplaceCommit
  <2>2. [cli EXCEPT ![p] = IdleCli] \in [Cli -> CliRec]
    BY IdleOK DEF TrustInv, TypeOK
  <2>3. cli' \in [Cli -> CliRec]
    BY <2>2, TouchOK DEF ReplaceCommit
  <2>4. /\ devices' \subseteq [dev : Device, key : Key, status : Statuses]
        /\ used' \subseteq [token : Token, dev : Device, by : Cli]
        /\ audit' \subseteq Events \X Device
    BY <2>1, TokenAssumption DEF TrustInv, TypeOK, ReplaceCommit, dbVars,
        Statuses, Events
  <2> QED BY <2>3, <2>4 DEF TrustInv, TypeOK, ReplaceCommit, webVars, history
<1>2. StageOK'
  <2> DEFINE c == [cli EXCEPT ![p] = IdleCli]
  <2>0. c \in [Cli -> CliRec] /\ (cli' = c \/ cli' = Touch(c))
    BY IdleOK DEF TrustInv, TypeOK, ReplaceCommit
  <2>1. \A q \in Cli : c[q].pc # "idle" => c[q] = cli[q]
    BY DEF TrustInv, TypeOK, IdleCli
  <2> HIDE DEF c
  <2>2. \A q \in Cli : cli'[q].pc # "idle" =>
          /\ cli'[q].pc = cli[q].pc /\ cli'[q].token = cli[q].token
          /\ cli'[q].dev = cli[q].dev
    BY <2>0, <2>1, TouchOK
  <2>3. Revoked \subseteq Revoked'
    BY DEF Revoked, ReplaceCommit, dbVars
  <2> QED BY <2>2, <2>3 DEF TrustInv, StageOK, Taken, ReplaceCommit, webVars
<1>3. PassedOK'
  BY DEF TrustInv, ReplaceCommit, PassedOK, Passed, Revoked, dbVars, webVars,
        history
<1>4. LoginProven'
  BY DEF TrustInv, ReplaceCommit, LoginProven, dbVars, webVars, history
<1>5. PairingOnce'
  BY DEF TrustInv, ReplaceCommit, PairingOnce, PairingRefused, dbVars,
        webVars, history
<1>6. AuditTruthful'
  <2>1. CASE UNCHANGED dbVars
    BY <2>1 DEF TrustInv, AuditTruthful, Registered, Revoked, dbVars
  <2>2. CASE ~UNCHANGED dbVars
    <3> DEFINE d == TokenDevice[cli[p].token]
    <3>1. d \in Device
      BY TokenAssumption DEF TrustInv, StageOK, ReplaceCommit
    <3>2. Registered' = Registered \cup {d} /\ Revoked \subseteq Revoked'
      <4>1. PICK x : x.dev = d /\ devices' = devices \cup {x}
        BY <2>2 DEF ReplaceCommit, dbVars
      <4> QED BY <4>1 DEF Registered, Revoked
    <3>3. audit' = audit \cup {<<"pairing_succeeded", d>>}
      BY <2>2 DEF ReplaceCommit, dbVars
    <3> HIDE DEF d
    <3>4. /\ {e \in Device : <<"pairing_succeeded", e>> \in audit'}
               = {e \in Device : <<"pairing_succeeded", e>> \in audit} \cup {d}
          /\ {e \in Device : <<"device_revoked", e>> \in audit'}
               = {e \in Device : <<"device_revoked", e>> \in audit}
      BY <3>1, <3>3
    <3> QED BY <3>2, <3>4 DEF TrustInv, AuditTruthful
  <2> QED BY <2>1, <2>2
<1>7. /\ ChallengePlace' /\ ChallengeOrigin' /\ SessionOrigin'
      /\ ChallengeSingleUse' /\ NoLoginAfterRevocation'
  BY DEF TrustInv, ReplaceCommit, ChallengePlace, Taken, ChallengeOrigin,
        SessionOrigin, Logins, ChallengeSingleUse, NoLoginAfterRevocation,
        dbVars, webVars, history
<1> QED BY <1>1, <1>2, <1>3, <1>4, <1>5, <1>6, <1>7 DEF TrustInv

(* `sk revoke` marks the device.                                           *)
LEMMA RevokeUpdateInv ==
  ASSUME TrustInv, NEW p \in Cli, NEW d \in Device, RevokeUpdate(p, d)
  PROVE  TrustInv'
<1>1. TypeOK'
  <2>1. PICK x \in devices, y \in [dev : {d}, key : Key, status : {"revoked"}] :
           /\ x.dev = d /\ y.key = x.key
           /\ devices' = (devices \ {x}) \cup {y}
    BY RevokeUpdateRows DEF TrustInv
  <2>2. devices' \subseteq [dev : Device, key : Key, status : Statuses]
    BY <2>1 DEF TrustInv, TypeOK, Statuses
  <2>3. [cli EXCEPT ![p] = [IdleCli EXCEPT !.pc = "revaudit", !.dev = d]]
          \in [Cli -> CliRec]
    BY DEF TrustInv, TypeOK, CliRec, IdleCli
  <2>4. cli' \in [Cli -> CliRec]
    BY <2>3, TouchOK DEF RevokeUpdate
  <2> QED BY <2>2, <2>4 DEF TrustInv, TypeOK, RevokeUpdate, webVars, history
<1>2. StageOK'
  <2>1. [cli EXCEPT ![p] = [IdleCli EXCEPT !.pc = "revaudit", !.dev = d]]
          \in [Cli -> CliRec]
    BY DEF TrustInv, TypeOK, CliRec, IdleCli
  <2>2. \A q \in Cli : q # p =>
          /\ cli'[q].pc = cli[q].pc /\ cli'[q].token = cli[q].token
          /\ cli'[q].dev = cli[q].dev
    BY <2>1, TouchOK DEF TrustInv, TypeOK, RevokeUpdate
  <2>3. cli'[p].pc = "revaudit" /\ cli'[p].dev = d
    BY <2>1, TouchOK DEF TrustInv, TypeOK, RevokeUpdate, IdleCli
  <2>4. Revoked' = Revoked \cup {d} /\ req' = req
    BY RevokeUpdateSets DEF TrustInv, RevokeUpdate, webVars
  <2> QED BY <2>2, <2>3, <2>4 DEF TrustInv, StageOK, Taken
<1>3. PassedOK'
  <2>1. /\ Revoked \subseteq Revoked'
        /\ \A z \in devices : \E w \in devices' : w.dev = z.dev /\ w.key = z.key
    BY RevokeUpdateSets DEF TrustInv
  <2>2. req' = req
    BY DEF RevokeUpdate, webVars
  <2> QED BY <2>1, <2>2 DEF TrustInv, PassedOK, Passed
<1>4. LoginProven'
  <2>1. \A z \in devices : \E w \in devices' : w.dev = z.dev /\ w.key = z.key
    BY RevokeUpdateSets DEF TrustInv
  <2>2. granted' = granted /\ issued' = issued
    BY DEF RevokeUpdate, history
  <2> QED BY <2>1, <2>2 DEF TrustInv, LoginProven
<1>5. PairingOnce'
  <2>1. PICK x \in devices, y \in [dev : {d}, key : Key, status : {"revoked"}] :
           /\ x.dev = d /\ y.key = x.key
           /\ devices' = (devices \ {x}) \cup {y}
    BY RevokeUpdateRows DEF TrustInv
  <2> QED BY <2>1 DEF TrustInv, PairingOnce, RevokeUpdate
<1>6. AuditTruthful'
  BY RevokeUpdateSets DEF TrustInv, AuditTruthful, RevokeUpdate
<1>7. /\ ChallengePlace' /\ ChallengeOrigin' /\ SessionOrigin'
      /\ ChallengeSingleUse' /\ NoLoginAfterRevocation'
  BY DEF TrustInv, RevokeUpdate, ChallengePlace, Taken, ChallengeOrigin,
        SessionOrigin, Logins, ChallengeSingleUse, NoLoginAfterRevocation,
        webVars, history
<1> QED BY <1>1, <1>2, <1>3, <1>4, <1>5, <1>6, <1>7 DEF TrustInv

(* `sk revoke` writes its audit row, or fails to.                          *)
LEMMA RevokeAuditInv ==
  ASSUME TrustInv, NEW p \in Cli, RevokeAudit(p)
  PROVE  TrustInv'
<1>1. TypeOK'
  <2>1. cli[p].dev \in Device
    BY DEF TrustInv, TypeOK, StageOK, Revoked, RevokeAudit
  <2>2. [cli EXCEPT ![p] = IdleCli] \in [Cli -> CliRec]
    BY IdleOK DEF TrustInv, TypeOK
  <2>3. cli' \in [Cli -> CliRec]
    BY <2>2, TouchOK DEF RevokeAudit
  <2>4. audit' \subseteq Events \X Device
    BY <2>1 DEF TrustInv, TypeOK, RevokeAudit, Events
  <2> QED BY <2>3, <2>4 DEF TrustInv, TypeOK, RevokeAudit, webVars, history
<1>2. StageOK'
  <2> DEFINE c == [cli EXCEPT ![p] = IdleCli]
  <2>0. c \in [Cli -> CliRec] /\ (cli' = c \/ cli' = Touch(c))
    BY IdleOK DEF TrustInv, TypeOK, RevokeAudit
  <2>1. \A q \in Cli : c[q].pc # "idle" => c[q] = cli[q]
    BY DEF TrustInv, TypeOK, IdleCli
  <2> HIDE DEF c
  <2>2. \A q \in Cli : cli'[q].pc # "idle" =>
          /\ cli'[q].pc = cli[q].pc /\ cli'[q].token = cli[q].token
          /\ cli'[q].dev = cli[q].dev
    BY <2>0, <2>1, TouchOK
  <2> QED BY <2>2 DEF TrustInv, StageOK, Taken, Revoked, RevokeAudit, webVars
<1>3. AuditTruthful'
  <2> DEFINE d == cli[p].dev
  <2>1. d \in Revoked
    BY DEF TrustInv, StageOK, RevokeAudit
  <2>2. audit' = audit \/ audit' = audit \cup {<<"device_revoked", d>>}
    BY DEF RevokeAudit
  <2>3. Registered' = Registered /\ Revoked' = Revoked
    BY DEF RevokeAudit, Registered, Revoked
  <2> HIDE DEF d
  <2>4. /\ {e \in Device : <<"pairing_succeeded", e>> \in audit'}
             = {e \in Device : <<"pairing_succeeded", e>> \in audit}
        /\ {e \in Device : <<"device_revoked", e>> \in audit'}
             \subseteq {e \in Device : <<"device_revoked", e>> \in audit} \cup {d}
    BY <2>2
  <2> QED BY <2>1, <2>3, <2>4 DEF TrustInv, AuditTruthful
<1>4. /\ ChallengePlace' /\ ChallengeOrigin' /\ PassedOK'
      /\ SessionOrigin' /\ ChallengeSingleUse' /\ LoginProven'
      /\ NoLoginAfterRevocation' /\ PairingOnce'
  BY DEF TrustInv, RevokeAudit, ChallengePlace, Taken, ChallengeOrigin,
        PassedOK, Passed, Revoked, SessionOrigin, Logins, ChallengeSingleUse,
        LoginProven, NoLoginAfterRevocation, PairingOnce, webVars, history
<1> QED BY <1>1, <1>2, <1>3, <1>4 DEF TrustInv

(* A command is killed; its transaction never happened.                    *)
LEMMA CliCrashInv ==
  ASSUME TrustInv, NEW p \in Cli, CliCrash(p)
  PROVE  TrustInv'
<1>1. TypeOK'
  BY IdleOK DEF TrustInv, CliCrash, TypeOK, Time, dbVars, webVars, history
<1>2. StageOK'
  BY DEF TrustInv, CliCrash, StageOK, Taken, Revoked, TypeOK, CliRec,
        IdleCli, dbVars, webVars, history
<1>3. /\ ChallengePlace' /\ ChallengeOrigin' /\ PassedOK'
      /\ SessionOrigin' /\ ChallengeSingleUse' /\ LoginProven'
      /\ NoLoginAfterRevocation' /\ PairingOnce' /\ AuditTruthful'
  BY DEF TrustInv, CliCrash, ChallengePlace, Taken, ChallengeOrigin,
        PassedOK, Passed, Revoked, SessionOrigin, Logins, ChallengeSingleUse,
        LoginProven, NoLoginAfterRevocation, PairingOnce, AuditTruthful,
        Registered, dbVars, webVars, history
<1> QED BY <1>1, <1>2, <1>3 DEF TrustInv

(* A challenge is asked for.                                               *)
LEMMA ChallengeArriveInv ==
  ASSUME TrustInv, NEW r \in Req, NEW d \in Device, ChallengeArrive(r, d)
  PROVE  TrustInv'
<1>1. TypeOK'
  BY IdleOK DEF TrustInv, ChallengeArrive, TypeOK, Time, ReqRec, IdleReq,
        dbVars, history
<1>2. StageOK'
  BY DEF TrustInv, ChallengeArrive, StageOK, Taken, Revoked, TypeOK, ReqRec,
        Time, IdleReq, dbVars, history
<1>3. ChallengePlace'
  BY DEF TrustInv, ChallengeArrive, ChallengePlace, Taken, TypeOK, ReqRec,
        Time, IdleReq, dbVars, history
<1>4. ChallengeOrigin'
  BY DEF TrustInv, ChallengeArrive, ChallengeOrigin, Taken, TypeOK, ReqRec,
        Time, IdleReq, dbVars, history
<1>5. PassedOK'
  BY DEF TrustInv, ChallengeArrive, PassedOK, Passed, Revoked, TypeOK,
        ReqRec, Time, IdleReq, dbVars, history
<1>6. /\ SessionOrigin' /\ ChallengeSingleUse' /\ LoginProven'
      /\ NoLoginAfterRevocation' /\ PairingOnce' /\ AuditTruthful'
  BY DEF TrustInv, ChallengeArrive, SessionOrigin, Logins,
        ChallengeSingleUse, LoginProven, NoLoginAfterRevocation, PairingOnce,
        AuditTruthful, Registered, Revoked, dbVars, history
<1> QED BY <1>1, <1>2, <1>3, <1>4, <1>5, <1>6 DEF TrustInv

(* The device is looked up for a challenge.                                *)
LEMMA ChallengeGetInv ==
  ASSUME TrustInv, NEW r \in Req, ChallengeGet(r)
  PROVE  TrustInv'
<1>1. TypeOK'
  BY IdleOK, AuditAttemptOK DEF TrustInv, ChallengeGet, TypeOK, Time, ReqRec,
        dbVars, history
<1>2. StageOK'
  BY AuditAttemptOK DEF TrustInv, ChallengeGet, StageOK, Taken, Revoked,
        TypeOK, ReqRec, Time, IdleReq, dbVars, history
<1>3. ChallengePlace'
  BY DEF TrustInv, ChallengeGet, ChallengePlace, Taken, TypeOK, ReqRec, Time,
        IdleReq, dbVars, history
<1>4. ChallengeOrigin'
  BY DEF TrustInv, ChallengeGet, ChallengeOrigin, Taken, TypeOK, ReqRec,
        Time, IdleReq, dbVars, history
<1>5. PassedOK'
  BY DEF TrustInv, ChallengeGet, PassedOK, Passed, Revoked, TypeOK, ReqRec,
        Time, IdleReq, dbVars, history
<1>6. /\ SessionOrigin' /\ ChallengeSingleUse' /\ LoginProven'
      /\ NoLoginAfterRevocation' /\ PairingOnce' /\ AuditTruthful'
  BY DEF TrustInv, ChallengeGet, SessionOrigin, Logins, ChallengeSingleUse,
        LoginProven, NoLoginAfterRevocation, PairingOnce, AuditTruthful,
        Registered, Revoked, dbVars, history
<1> QED BY <1>1, <1>2, <1>3, <1>4, <1>5, <1>6 DEF TrustInv

(* A fresh challenge goes into the map.                                    *)
LEMMA ChallengeInsertInv ==
  ASSUME TrustInv, NEW r \in Req, NEW c \in Chal, ChallengeInsert(r, c)
  PROVE  TrustInv'
<1>1. TypeOK'
  BY IdleOK, TimeAssumption DEF TrustInv, ChallengeInsert, TypeOK, Time,
        ReqRec, StageOK, dbVars
<1>2. StageOK'
  BY DEF TrustInv, ChallengeInsert, StageOK, Taken, Revoked, TypeOK, ReqRec,
        Time, IdleReq, dbVars
<1>3. ChallengePlace'
  <2>1. \A i \in issued : i.id # c
    BY DerivedSets DEF ChallengeInsert
  <2>2. \A q \in Req : Taken(q) => req[q].chal # c
    BY <2>1 DEF TrustInv, ChallengeOrigin
  <2>3. \A g \in granted : g.chal # c
    BY <2>1 DEF TrustInv, LoginProven
  <2>4. \A q \in Req : Taken(q)' => Taken(q) /\ req'[q] = req[q]
    BY DEF TrustInv, TypeOK, ChallengeInsert, Taken, IdleReq
  <2>5. /\ granted' = granted
        /\ \A x \in challenges' : x \in challenges \/ x.id = c
    BY DEF ChallengeInsert
  <2> QED BY <2>2, <2>3, <2>4, <2>5 DEF TrustInv, ChallengePlace
<1>4. ChallengeOrigin'
  <2>1. \A q \in Req : req'[q].pc # "idle" => req'[q] = req[q]
    BY DEF TrustInv, TypeOK, ChallengeInsert, IdleReq
  <2>2. req[r].at <= now /\ now \in Nat /\ req[r].at \in Nat
    BY DEF TrustInv, TypeOK, ReqRec, Time, ChallengeOrigin, ChallengeInsert
  <2>3. req[r].at + ChallengeLifetime <= now + ChallengeLifetime
    BY <2>2, TimeAssumption
  <2>4. issued \subseteq issued' /\ now' = now /\ \A q \in Req : req'[q].at <= now'
    BY DEF TrustInv, TypeOK, Time, ChallengeOrigin, ChallengeInsert, IdleReq
  <2>5. \A x \in challenges' : \E i \in issued' :
          i.id = x.id /\ i.dev = x.dev /\ x.expires <= i.at + ChallengeLifetime
    <3>1. TAKE x \in challenges'
    <3>2. CASE x \in challenges
      BY <3>2, <2>4 DEF TrustInv, ChallengeOrigin
    <3>3. CASE x \notin challenges
      <4>1. x = [id |-> c, dev |-> req[r].dev, expires |-> req[r].at + ChallengeLifetime]
        BY <3>3 DEF ChallengeInsert
      <4>2. [id |-> c, dev |-> req[r].dev, at |-> now] \in issued'
        BY DEF ChallengeInsert
      <4> QED BY <4>1, <4>2, <2>3
    <3> QED BY <3>2, <3>3
  <2> QED BY <2>1, <2>4, <2>5 DEF TrustInv, ChallengeOrigin, Taken
<1>5. PassedOK'
  BY DEF TrustInv, ChallengeInsert, PassedOK, Passed, Revoked, TypeOK,
        ReqRec, Time, IdleReq, dbVars
<1>6. LoginProven'
  BY DEF TrustInv, ChallengeInsert, LoginProven, dbVars
<1>7. /\ SessionOrigin' /\ ChallengeSingleUse' /\ NoLoginAfterRevocation'
      /\ PairingOnce' /\ AuditTruthful'
  BY DEF TrustInv, ChallengeInsert, SessionOrigin, Logins,
        ChallengeSingleUse, NoLoginAfterRevocation, PairingOnce,
        AuditTruthful, Registered, Revoked, dbVars
<1> QED BY <1>1, <1>2, <1>3, <1>4, <1>5, <1>6, <1>7 DEF TrustInv

(* An answer arrives, with the revocations of that moment.                 *)
LEMMA VerifyArriveInv ==
  ASSUME TrustInv, NEW r \in Req, NEW c \in Chal, NEW k \in Key \cup {None}, VerifyArrive(r, c, k)
  PROVE  TrustInv'
<1>1. TypeOK'
  <2>1. Revoked \subseteq Device
    BY DEF TrustInv, TypeOK, Revoked
  <2>2. [IdleReq EXCEPT !.pc = "vtake", !.chal = c, !.key = k, !.at = now,
                        !.seen = Revoked] \in ReqRec
    BY <2>1, NoneAssumption DEF TrustInv, TypeOK, ReqRec, IdleReq
  <2> QED BY <2>2 DEF TrustInv, TypeOK, VerifyArrive, dbVars, history
<1>2. StageOK'
  BY DEF TrustInv, VerifyArrive, StageOK, Taken, Revoked, TypeOK, ReqRec,
        Time, IdleReq, dbVars, history
<1>3. ChallengePlace'
  BY DEF TrustInv, VerifyArrive, ChallengePlace, Taken, TypeOK, ReqRec, Time,
        IdleReq, dbVars, history
<1>4. ChallengeOrigin'
  BY DEF TrustInv, VerifyArrive, ChallengeOrigin, Taken, TypeOK, ReqRec,
        Time, IdleReq, dbVars, history
<1>5. PassedOK'
  BY DEF TrustInv, VerifyArrive, PassedOK, Passed, Revoked, TypeOK, ReqRec,
        Time, IdleReq, dbVars, history
<1>6. /\ SessionOrigin' /\ ChallengeSingleUse' /\ LoginProven'
      /\ NoLoginAfterRevocation' /\ PairingOnce' /\ AuditTruthful'
  BY DEF TrustInv, VerifyArrive, SessionOrigin, Logins, ChallengeSingleUse,
        LoginProven, NoLoginAfterRevocation, PairingOnce, AuditTruthful,
        Registered, Revoked, dbVars, history
<1> QED BY <1>1, <1>2, <1>3, <1>4, <1>5, <1>6 DEF TrustInv

(* The challenge leaves the map for this handler alone.                    *)
LEMMA VerifyTakeInv ==
  ASSUME TrustInv, NEW r \in Req, VerifyTake(r)
  PROVE  TrustInv'
<1>1. TypeOK'
  <2>1. cli' \in [Cli -> CliRec]
    BY AuditAttemptOK DEF TrustInv, TypeOK, VerifyTake
  <2>2. challenges' \subseteq challenges
    BY DEF VerifyTake
  <2>3. req' \in [Req -> ReqRec]
    BY IdleOK DEF TrustInv, TypeOK, VerifyTake, ReqRec
  <2> QED BY <2>1, <2>2, <2>3 DEF TrustInv, TypeOK, VerifyTake, dbVars, history
<1>2. StageOK'
  <2>1. \A p \in Cli : /\ cli'[p].pc = cli[p].pc /\ cli'[p].token = cli[p].token
                       /\ cli'[p].dev = cli[p].dev
    BY AuditAttemptOK DEF TrustInv, VerifyTake
  <2>2. \A q \in Req : req'[q].pc \in {"idle", "vget"} \/ req'[q] = req[q]
    BY DEF TrustInv, TypeOK, ReqRec, VerifyTake, IdleReq
  <2>3. req'[r].chal = req[r].chal \/ req'[r].pc = "idle"
    BY DEF TrustInv, TypeOK, ReqRec, VerifyTake, IdleReq
  <2>4. req[r].chal \in Chal
    BY DEF TrustInv, StageOK, Taken, VerifyTake
  <2>5. \A q \in Req \ {r} : req'[q] = req[q]
    BY DEF TrustInv, TypeOK, VerifyTake
  <2> QED BY <2>1, <2>2, <2>3, <2>4, <2>5 DEF TrustInv, StageOK, Taken,
        Revoked, VerifyTake, dbVars
<1>3. ChallengePlace'
  BY DEF TrustInv, VerifyTake, ChallengePlace, Taken, TypeOK, ReqRec, Time,
        IdleReq, dbVars, history
<1>4. ChallengeOrigin'
  <2>1. \A q \in Req : req'[q].pc # "idle" => req'[q].at = req[q].at
    BY DEF TrustInv, TypeOK, VerifyTake, ReqRec, IdleReq
  <2>2. \A q \in Req \ {r} : req'[q] = req[q]
    BY DEF TrustInv, TypeOK, VerifyTake
  <2>3. Taken(r)' => \E x \in challenges :
          /\ x.id = req[r].chal /\ req[r].at < x.expires
          /\ req'[r].chal = x.id /\ req'[r].dev = x.dev /\ req'[r].at = req[r].at
    BY DEF TrustInv, TypeOK, ReqRec, VerifyTake, Taken, IdleReq
  <2>4. Taken(r)' => \E i \in issued :
          /\ i.id = req'[r].chal /\ i.dev = req'[r].dev
          /\ req'[r].at < i.at + ChallengeLifetime
    BY <2>3, TimeAssumption DEF TrustInv, TypeOK, ReqRec, Time, ChallengeOrigin
  <2>5. req'[r].at <= now
    BY DEF TrustInv, TypeOK, ReqRec, Time, ChallengeOrigin, VerifyTake, IdleReq
  <2>6. challenges' \subseteq challenges /\ issued' = issued /\ now' = now
    BY DEF VerifyTake, history
  <2> QED BY <2>2, <2>4, <2>5, <2>6 DEF TrustInv, ChallengeOrigin, Taken
<1>5. PassedOK'
  BY DEF TrustInv, VerifyTake, PassedOK, Passed, Revoked, TypeOK, ReqRec,
        Time, IdleReq, dbVars, history
<1>6. /\ SessionOrigin' /\ ChallengeSingleUse' /\ LoginProven'
      /\ NoLoginAfterRevocation' /\ PairingOnce' /\ AuditTruthful'
  BY DEF TrustInv, VerifyTake, SessionOrigin, Logins, ChallengeSingleUse,
        LoginProven, NoLoginAfterRevocation, PairingOnce, AuditTruthful,
        Registered, Revoked, dbVars, history
<1> QED BY <1>1, <1>2, <1>3, <1>4, <1>5, <1>6 DEF TrustInv

(* The device row is read and the signature judged.                        *)
LEMMA VerifyGetInv ==
  ASSUME TrustInv, NEW r \in Req, VerifyGet(r)
  PROVE  TrustInv'
<1>1. TypeOK'
  <2>1. cli' \in [Cli -> CliRec]
    BY AuditAttemptOK DEF TrustInv, TypeOK, VerifyGet
  <2>2. req' \in [Req -> ReqRec]
    BY IdleOK DEF TrustInv, TypeOK, VerifyGet, ReqRec
  <2> QED BY <2>1, <2>2 DEF TrustInv, TypeOK, VerifyGet, dbVars, history
<1>2. StageOK'
  <2>1. \A p \in Cli : /\ cli'[p].pc = cli[p].pc /\ cli'[p].token = cli[p].token
                       /\ cli'[p].dev = cli[p].dev
    BY AuditAttemptOK DEF TrustInv, VerifyGet
  <2>2. \A q \in Req : req'[q].pc \in {"idle", "vaudit"} \/ req'[q] = req[q]
    BY DEF TrustInv, TypeOK, ReqRec, VerifyGet, IdleReq
  <2>3. req'[r].chal = req[r].chal \/ req'[r].pc = "idle"
    BY DEF TrustInv, TypeOK, ReqRec, VerifyGet, IdleReq
  <2>4. req[r].chal \in Chal
    BY DEF TrustInv, StageOK, Taken, VerifyGet
  <2>5. \A q \in Req \ {r} : req'[q] = req[q]
    BY DEF TrustInv, TypeOK, VerifyGet
  <2> QED BY <2>1, <2>2, <2>3, <2>4, <2>5 DEF TrustInv, StageOK, Taken,
        Revoked, VerifyGet, dbVars
<1>3. ChallengePlace'
  BY DEF TrustInv, VerifyGet, ChallengePlace, Taken, TypeOK, ReqRec, Time,
        IdleReq, dbVars, history
<1>4. ChallengeOrigin'
  BY DEF TrustInv, VerifyGet, ChallengeOrigin, Taken, TypeOK, ReqRec, Time,
        IdleReq, dbVars, history
<1>5. PassedOK'
  BY DEF TrustInv, VerifyGet, PassedOK, Passed, Revoked, PairingOnce, Get,
        TypeOK, ReqRec, Time, IdleReq, dbVars, history
<1>6. /\ SessionOrigin' /\ ChallengeSingleUse' /\ LoginProven'
      /\ NoLoginAfterRevocation' /\ PairingOnce' /\ AuditTruthful'
  BY DEF TrustInv, VerifyGet, SessionOrigin, Logins, ChallengeSingleUse,
        LoginProven, NoLoginAfterRevocation, PairingOnce, AuditTruthful,
        Registered, Revoked, dbVars, history
<1> QED BY <1>1, <1>2, <1>3, <1>4, <1>5, <1>6 DEF TrustInv

(* The success is written to the audit trail, or lost.                     *)
LEMMA VerifyAuditInv ==
  ASSUME TrustInv, NEW r \in Req, VerifyAudit(r)
  PROVE  TrustInv'
<1>1. TypeOK'
  <2>1. cli' \in [Cli -> CliRec]
    BY AuditAttemptOK DEF TrustInv, VerifyAudit
  <2>2. req' \in [Req -> ReqRec]
    BY DEF TrustInv, TypeOK, VerifyAudit, ReqRec
  <2> QED BY <2>1, <2>2 DEF TrustInv, TypeOK, VerifyAudit, dbVars, history
<1>2. StageOK'
  BY AuditAttemptOK DEF TrustInv, VerifyAudit, StageOK, Taken, Revoked,
        TypeOK, ReqRec, Time, IdleReq, dbVars, history
<1>3. ChallengePlace'
  BY DEF TrustInv, VerifyAudit, ChallengePlace, Taken, TypeOK, ReqRec, Time,
        IdleReq, dbVars, history
<1>4. ChallengeOrigin'
  BY DEF TrustInv, VerifyAudit, ChallengeOrigin, Taken, TypeOK, ReqRec, Time,
        IdleReq, dbVars, history
<1>5. PassedOK'
  BY DEF TrustInv, VerifyAudit, PassedOK, Passed, Revoked, TypeOK, ReqRec,
        Time, IdleReq, dbVars, history
<1>6. /\ SessionOrigin' /\ ChallengeSingleUse' /\ LoginProven'
      /\ NoLoginAfterRevocation' /\ PairingOnce' /\ AuditTruthful'
  BY DEF TrustInv, VerifyAudit, SessionOrigin, Logins, ChallengeSingleUse,
        LoginProven, NoLoginAfterRevocation, PairingOnce, AuditTruthful,
        Registered, Revoked, dbVars, history
<1> QED BY <1>1, <1>2, <1>3, <1>4, <1>5, <1>6 DEF TrustInv

(* The handler turns its challenge into a session.                         *)
LEMMA VerifySessionInv ==
  ASSUME TrustInv, NEW r \in Req, NEW s \in Sess, VerifySession(r, s)
  PROVE  TrustInv'
<1>1. TypeOK'
  BY IdleOK, TimeAssumption DEF TrustInv, VerifySession, TypeOK, Time,
        ReqRec, GrantRec, StageOK, PassedOK, Passed, Taken, dbVars
<1>2. StageOK'
  BY DEF TrustInv, VerifySession, StageOK, Taken, Revoked, TypeOK, ReqRec,
        Time, IdleReq, dbVars
<1>3. ChallengePlace'
  BY DEF TrustInv, VerifySession, ChallengePlace, Taken, TypeOK, ReqRec,
        Time, IdleReq, dbVars
<1>4. ChallengeOrigin'
  BY DEF TrustInv, VerifySession, ChallengeOrigin, Taken, TypeOK, ReqRec,
        Time, IdleReq, dbVars
<1>5. PassedOK'
  BY DEF TrustInv, VerifySession, PassedOK, Passed, Revoked, TypeOK, ReqRec,
        Time, IdleReq, dbVars
<1>6. SessionOrigin'
  <2>1. s \notin loggedOut
    BY DEF TrustInv, SessionOrigin, VerifySession
  <2>2. Logins \subseteq Logins'
    BY DEF Logins, VerifySession
  <2>3. \E g \in granted' : g.sess = s /\ g.at = now
    <3>1. [sess |-> s, chal |-> req[r].chal, dev |-> req[r].dev,
           key |-> req[r].key, arrived |-> req[r].at, seen |-> req[r].seen,
           at |-> now] \in granted'
      BY DEF VerifySession
    <3> QED BY <3>1
  <2>4. \A x \in sessions' :
          x \in sessions \/ (x.id = s /\ x.expires = now + SessionLifetime)
    BY DEF VerifySession
  <2>5. granted \subseteq granted' /\ loggedOut' = loggedOut
    BY DEF VerifySession
  <2> QED BY <2>1, <2>2, <2>3, <2>4, <2>5 DEF TrustInv, SessionOrigin
<1>7. ChallengeSingleUse'
  BY DEF TrustInv, VerifySession, ChallengeSingleUse, ChallengePlace, Taken,
        dbVars
<1>8. LoginProven'
  BY DEF TrustInv, VerifySession, LoginProven, ChallengeOrigin, PassedOK,
        Taken, Passed, StageOK, dbVars
<1>9. NoLoginAfterRevocation'
  BY DEF TrustInv, VerifySession, NoLoginAfterRevocation, PassedOK, Passed,
        dbVars
<1>10. /\ PairingOnce' /\ AuditTruthful'
  BY DEF TrustInv, VerifySession, PairingOnce, AuditTruthful, Registered,
        Revoked, dbVars
<1> QED BY <1>1, <1>2, <1>3, <1>4, <1>5, <1>6, <1>7, <1>8, <1>9, <1>10 DEF
        TrustInv

(* A session is used, or dropped when it has expired.                      *)
LEMMA ProtectedInv ==
  ASSUME TrustInv, NEW s \in Sess, Protected(s)
  PROVE  TrustInv'
<1>1. TypeOK'
  BY DEF TrustInv, Protected, TypeOK, Time, dbVars
<1>2. SessionOrigin'
  BY DEF TrustInv, Protected, SessionOrigin, Logins, dbVars
<1>3. /\ StageOK' /\ ChallengePlace' /\ ChallengeOrigin'
      /\ PassedOK' /\ ChallengeSingleUse' /\ LoginProven'
      /\ NoLoginAfterRevocation' /\ PairingOnce' /\ AuditTruthful'
  BY DEF TrustInv, Protected, StageOK, Taken, Revoked, ChallengePlace,
        ChallengeOrigin, PassedOK, Passed, ChallengeSingleUse, LoginProven,
        NoLoginAfterRevocation, PairingOnce, AuditTruthful, Registered,
        dbVars
<1> QED BY <1>1, <1>2, <1>3 DEF TrustInv

(* A session is given up.                                                  *)
LEMMA LogoutInv ==
  ASSUME TrustInv, NEW s \in Sess, Logout(s)
  PROVE  TrustInv'
<1>1. TypeOK'
  BY DEF TrustInv, Logout, TypeOK, Time, dbVars
<1>2. SessionOrigin'
  BY DEF TrustInv, Logout, SessionOrigin, Logins, dbVars
<1>3. /\ StageOK' /\ ChallengePlace' /\ ChallengeOrigin'
      /\ PassedOK' /\ ChallengeSingleUse' /\ LoginProven'
      /\ NoLoginAfterRevocation' /\ PairingOnce' /\ AuditTruthful'
  BY DEF TrustInv, Logout, StageOK, Taken, Revoked, ChallengePlace,
        ChallengeOrigin, PassedOK, Passed, ChallengeSingleUse, LoginProven,
        NoLoginAfterRevocation, PairingOnce, AuditTruthful, Registered,
        dbVars
<1> QED BY <1>1, <1>2, <1>3 DEF TrustInv

(* The web process loses its memory.                                       *)
LEMMA WebRestartInv ==
  ASSUME TrustInv, WebRestart
  PROVE  TrustInv'
<1>1. TypeOK'
  BY IdleOK DEF TrustInv, WebRestart, TypeOK, Time, dbVars, history
<1>2. StageOK'
  BY DEF TrustInv, WebRestart, StageOK, Taken, Revoked, TypeOK, ReqRec, Time,
        IdleReq, dbVars, history
<1>3. ChallengePlace'
  BY DEF TrustInv, WebRestart, ChallengePlace, Taken, TypeOK, ReqRec, Time,
        IdleReq, dbVars, history
<1>4. ChallengeOrigin'
  BY DEF TrustInv, WebRestart, ChallengeOrigin, Taken, TypeOK, ReqRec, Time,
        IdleReq, dbVars, history
<1>5. PassedOK'
  BY DEF TrustInv, WebRestart, PassedOK, Passed, Revoked, TypeOK, ReqRec,
        Time, IdleReq, dbVars, history
<1>6. SessionOrigin'
  BY DEF TrustInv, WebRestart, SessionOrigin, Logins, dbVars, history
<1>7. /\ ChallengeSingleUse' /\ LoginProven' /\ NoLoginAfterRevocation'
      /\ PairingOnce' /\ AuditTruthful'
  BY DEF TrustInv, WebRestart, ChallengeSingleUse, LoginProven,
        NoLoginAfterRevocation, PairingOnce, AuditTruthful, Registered,
        Revoked, dbVars, history
<1> QED BY <1>1, <1>2, <1>3, <1>4, <1>5, <1>6, <1>7 DEF TrustInv

(* One step of any actor, or none.                                         *)
LEMMA StepInv ==
  ASSUME TrustInv, [Next]_vars
  PROVE  TrustInv'
<1>1. CASE Tick
  BY <1>1, TickInv
<1>2. CASE \E t \in Token : PairingToken(t)
  BY <1>2, PairingTokenInv
<1>3. CASE \E p \in Cli : CliNext(p)
  BY <1>3, ReplaceParseInv, ReplaceReadInv, ReplaceCommitInv, RevokeUpdateInv,
     RevokeAuditInv, CliCrashInv DEF CliNext
<1>4. CASE \E r \in Req : ReqNext(r)
  BY <1>4, ChallengeArriveInv, ChallengeGetInv, ChallengeInsertInv,
     VerifyArriveInv, VerifyTakeInv, VerifyGetInv, VerifyAuditInv,
     VerifySessionInv DEF ReqNext
<1>5. CASE \E s \in Sess : Protected(s) \/ Logout(s)
  BY <1>5, ProtectedInv, LogoutInv
<1>6. CASE WebRestart
  BY <1>6, WebRestartInv
<1>7. CASE UNCHANGED vars
  <2>1. TypeOK' /\ StageOK'
    BY <1>7 DEF TrustInv, TypeOK, StageOK, Taken, Revoked, vars, dbVars,
        webVars, history
  <2>2. ChallengePlace' /\ ChallengeOrigin'
    BY <1>7 DEF TrustInv, ChallengePlace, ChallengeOrigin, Taken, vars,
        webVars, history
  <2>3. PassedOK' /\ SessionOrigin'
    BY <1>7 DEF TrustInv, PassedOK, Passed, Revoked, SessionOrigin, Logins,
        vars, dbVars, webVars, history
  <2>4. /\ ChallengeSingleUse' /\ LoginProven' /\ NoLoginAfterRevocation'
        /\ PairingOnce' /\ AuditTruthful'
    BY <1>7 DEF TrustInv, ChallengeSingleUse, LoginProven,
        NoLoginAfterRevocation, PairingOnce, AuditTruthful, Registered,
        Revoked, vars, dbVars, history
  <2> QED BY <2>1, <2>2, <2>3, <2>4 DEF TrustInv
<1> QED BY <1>1, <1>2, <1>3, <1>4, <1>5, <1>6, <1>7 DEF Next

------------------------------------------------------------------------------
(* The theorems.                                                           *)

(* TrustInv is an inductive invariant of the specification.                *)
THEOREM TrustInvariant == Spec => []TrustInv
<1>1. Init => TrustInv
  <2> SUFFICES ASSUME Init PROVE TrustInv
    OBVIOUS
  <2>1. TypeOK
    BY IdleOK, TimeAssumption DEF Init, TypeOK, Time
  <2>2. StageOK /\ ChallengePlace /\ ChallengeOrigin
    BY TimeAssumption DEF Init, StageOK, ChallengePlace, ChallengeOrigin, Taken,
        IdleCli, IdleReq
  <2>3. PassedOK /\ SessionOrigin
    BY DEF Init, PassedOK, SessionOrigin, Passed, IdleReq
  <2>4. /\ ChallengeSingleUse /\ LoginProven /\ NoLoginAfterRevocation
        /\ PairingOnce /\ AuditTruthful
    BY DEF Init, ChallengeSingleUse, LoginProven, NoLoginAfterRevocation,
        PairingOnce, AuditTruthful, Registered, Revoked
  <2> QED BY <2>1, <2>2, <2>3, <2>4 DEF TrustInv
<1>2. TrustInv /\ [Next]_vars => TrustInv'
  BY StepInv
<1> QED BY <1>1, <1>2, PTL DEF Spec

(* Every variable keeps its type.                                          *)
THEOREM TypeCorrect == Spec => []TypeOK
<1>1. TrustInv => TypeOK
  BY DEF TrustInv
<1> QED BY <1>1, TrustInvariant, PTL

(* One challenge never yields two sessions, however many handlers race for *)
(* it in Authenticator.Verify.                                             *)
THEOREM SingleUse == Spec => []ChallengeSingleUse
<1>1. TrustInv => ChallengeSingleUse
  BY DEF TrustInv
<1> QED BY <1>1, TrustInvariant, PTL

(* Every session rests on a fresh challenge issued to its device and on a  *)
(* signature by the key that device is registered under.                   *)
THEOREM Proven == Spec => []LoginProven
<1>1. TrustInv => LoginProven
  BY DEF TrustInv
<1> QED BY <1>1, TrustInvariant, PTL

(* A device revoked before the answer arrived does not log in.             *)
THEOREM RevokedStaysOut == Spec => []NoLoginAfterRevocation
<1>1. TrustInv => NoLoginAfterRevocation
  BY DEF TrustInv
<1> QED BY <1>1, TrustInvariant, PTL

(* Tokens are single-use and identities unique under concurrent pairing.   *)
THEOREM Pairing == Spec => []PairingOnce
<1>1. TrustInv => PairingOnce
  BY DEF TrustInv
<1> QED BY <1>1, TrustInvariant, PTL

(* The audit trail and the tables agree.                                   *)
THEOREM Audited == Spec => []AuditTruthful
<1>1. TrustInv => AuditTruthful
  BY DEF TrustInv
<1> QED BY <1>1, TrustInvariant, PTL

(* No step of anyone undoes a revocation or forgets a device.              *)
THEOREM Permanent == Spec => RevocationPermanent
<1>1. TrustInv /\ [Next]_vars =>
        [Revoked \subseteq Revoked' /\ Registered \subseteq Registered']_vars
  <2> SUFFICES ASSUME TrustInv, Next
               PROVE  Revoked \subseteq Revoked' /\ Registered \subseteq Registered'
    OBVIOUS
  <2>1. ASSUME NEW p \in Cli, NEW d \in Device, RevokeUpdate(p, d)
        PROVE  Revoked \subseteq Revoked' /\ Registered \subseteq Registered'
    BY <2>1, RevokeUpdateSets DEF TrustInv
  <2>2. ASSUME NEW p \in Cli, ReplaceCommit(p)
        PROVE  devices \subseteq devices'
    BY <2>2 DEF ReplaceCommit, dbVars
  <2>3. \/ devices' = devices
        \/ \E p \in Cli : ReplaceCommit(p)
        \/ \E p \in Cli, d \in Device : RevokeUpdate(p, d)
    BY DEF Next, CliNext, ReqNext, Tick, PairingToken, ReplaceParse,
        ReplaceRead, RevokeAudit, CliCrash, ChallengeArrive, ChallengeGet,
        ChallengeInsert, VerifyArrive, VerifyTake, VerifyGet, VerifyAudit,
        VerifySession, Protected, Logout, WebRestart, dbVars
  <2>4. devices \subseteq devices' =>
          Revoked \subseteq Revoked' /\ Registered \subseteq Registered'
    BY DEF Revoked, Registered
  <2> QED BY <2>1, <2>2, <2>3, <2>4
<1> QED BY <1>1, TrustInvariant, PTL DEF Spec, RevocationPermanent

(* Only a session whose login is recent enough and that was not logged out *)
(* is let through by `protected`.                                          *)
THEOREM ServedLive == Spec => ServedSessionLive
<1> DEFINE A == \A a \in served' \ served :
                  /\ a.sess \notin loggedOut
                  /\ \E g \in granted : g.sess = a.sess /\ a.at <= g.at + SessionLifetime
<1>1. TrustInv /\ [Next]_vars => [A]_vars
  <2> SUFFICES ASSUME TrustInv, Next
               PROVE  A
    OBVIOUS
  <2>1. ASSUME NEW s \in Sess, Protected(s)
        PROVE  A
    <3> SUFFICES ASSUME NEW a \in served' \ served
                 PROVE  /\ a.sess \notin loggedOut
                        /\ \E g \in granted :
                             g.sess = a.sess /\ a.at <= g.at + SessionLifetime
      OBVIOUS
    <3>1. PICK x \in sessions : x.id = s
      BY <2>1 DEF Protected
    <3>2. a = [sess |-> s, at |-> now] /\ ~(now > x.expires)
      BY <2>1, <3>1 DEF Protected
    <3>3. PICK g \in granted : g.sess = s /\ x.expires = g.at + SessionLifetime
      BY <3>1 DEF TrustInv, SessionOrigin
    <3>4. now <= g.at + SessionLifetime
      BY <3>2, <3>3, TimeAssumption DEF TrustInv, TypeOK, GrantRec, Time
    <3> QED BY <3>1, <3>2, <3>3, <3>4 DEF TrustInv, SessionOrigin
  <2>2. served' = served \/ \E s \in Sess : Protected(s)
    BY DEF Next, CliNext, ReqNext, Tick, PairingToken, ReplaceParse,
        ReplaceRead, ReplaceCommit, RevokeUpdate, RevokeAudit, CliCrash,
        ChallengeArrive, ChallengeGet, ChallengeInsert, VerifyArrive,
        VerifyTake, VerifyGet, VerifyAudit, VerifySession, Logout, WebRestart,
        history
  <2> QED BY <2>1, <2>2
<1> QED BY <1>1, TrustInvariant, PTL DEF Spec, ServedSessionLive
==============================================================================
