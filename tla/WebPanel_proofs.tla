---------------------------- MODULE WebPanel_proofs ---------------------------
(***************************************************************************)
(* Proofs about WebPanel, for any number of logins, loads and sign-outs    *)
(* under way in the tab.                                                   *)
(***************************************************************************)
EXTENDS WebPanel, FiniteSetTheorems, TLAPS

Hosts == [files : Opt(Device), agent : BOOLEAN, bridge : Opt(Device), drawn : SUBSET Device]
Logins == [text : {"searching", "detected", "missing", "unreachable", "signing", "refused"},
           id : Opt(Device), blind : BOOLEAN]

(* What a run of authenticate() has got so far.                            *)
FlowOK ==
    \A f \in Flow : /\ flows[f].pc \in {"sign", "verify", "judging"} => flows[f].chal \in Chal
                    /\ flows[f].pc # "granted" => flows[f].sess = None

(* The Login page has no token, and api() calls belong to the dashboard.   *)
PageOK ==
    /\ page = "login" => store = None
    /\ \A a \in Call : calls[a].pc # "idle" => page = "dashboard"

(* A dashboard either waits for its effect, or loads, or shows something.  *)
LoadOK ==
    /\ page # "dashboard" => dash = NewDash
    /\ dash.due => ~dash.error /\ dash.system = None
    /\ dash.error => dash.system = None
    /\ dash.due \/ dash.error \/ dash.system # None => \A a \in Loads : calls[a].pc = "idle"
    /\ \A a, b \in Loads : calls[a].pc # "idle" /\ calls[b].pc # "idle" => a = b

(* A token somewhere in the tab was granted; as long as authenticate() has *)
(* it, it is nowhere else.                                                 *)
TokenOK ==
    \A s \in Sess :
      /\ \/ store = s \/ s \in left
         \/ \E a \in Call : calls[a].tok = s
         \/ \E f \in Flow : flows[f].sess = s
         => sess[s] # "unused"
      /\ \A f \in Flow : flows[f].sess = s =>
           /\ store # s /\ s \notin left
           /\ \A a \in Call : calls[a].tok # s
           /\ \A g \in Flow \ {f} : flows[g].sess # s

(* Nothing lost, cut off or clicked twice: one login at a time, on the     *)
(* Login page; the tab waits for every verdict; and a sign-out is about    *)
(* the token the tab holds, and ends its session.                          *)
SmoothOK ==
    smooth =>
      /\ \A f \in Flow : flows[f].pc # "idle" =>
           page = "login" /\ \A g \in Flow \ {f} : flows[g].pc = "idle"
      /\ \A c \in Chal : chal[c] = "answering" =>
           \E f \in Flow : flows[f].pc = "judging" /\ flows[f].chal = c
      /\ \A a \in Logouts : calls[a].pc # "idle" =>
           /\ store \in {None, calls[a].tok}
           /\ calls[a].pc # "fail"
           /\ calls[a].pc = "ok" => \A s \in Sess : calls[a].tok = s => sess[s] # "live"

PanelInv ==
    /\ TypeOK /\ FlowOK /\ PageOK /\ LoadOK /\ TokenOK /\ SmoothOK
    /\ HeldSessions /\ SignedOutGone

------------------------------------------------------------------------------
(* Every action preserves PanelInv.                                        *)

(* The commands of the host touch nothing but the host.                    *)
LEMMA HostInv ==
  ASSUME PanelInv, HostNext
  PROVE  PanelInv'
<1>1. UNCHANGED <<chal, sess, store, page, leaving, login, dash, flows, calls, left, smooth>>
  BY DEF HostNext, SkCreate, SkDelete, AgentStart, AgentStop, server, tab, history
<1>2. FlowOK' /\ PageOK' /\ LoadOK' /\ TokenOK' /\ SmoothOK' /\ HeldSessions' /\ SignedOutGone'
  BY <1>1 DEF PanelInv, FlowOK, PageOK, LoadOK, TokenOK, SmoothOK, HeldSessions, SignedOutGone
<1>3. host' \in Hosts
  <2>0. host \in Hosts
    BY DEF PanelInv, TypeOK, Hosts
  <2>1. CASE \E d \in Device : SkCreate(d)
    <3>1. PICK d \in Device : SkCreate(d)
      BY <2>1
    <3>2. host' = [files |-> d, agent |-> host.agent, bridge |-> host.bridge,
                   drawn |-> host.drawn \cup {d}]
      BY <2>0, <3>1 DEF SkCreate, Hosts
    <3> QED BY <2>0, <3>2 DEF Hosts, Opt
  <2>2. CASE SkDelete
    BY <2>0, <2>2 DEF SkDelete, Hosts, Opt
  <2>3. CASE AgentStart
    <3>1. host' = [files |-> host.files, agent |-> TRUE, bridge |-> host.files,
                   drawn |-> host.drawn]
      BY <2>0, <2>3 DEF AgentStart, Hosts
    <3> QED BY <2>0, <3>1 DEF Hosts
  <2>4. CASE AgentStop
    <3>1. host' = [files |-> host.files, agent |-> FALSE, bridge |-> None,
                   drawn |-> host.drawn]
      BY <2>0, <2>4 DEF AgentStop, Hosts
    <3> QED BY <2>0, <3>1 DEF Hosts, Opt
  <2> QED BY <2>1, <2>2, <2>3, <2>4 DEF HostNext
<1>4. TypeOK'
  BY <1>1, <1>3 DEF PanelInv, TypeOK, Hosts
<1> QED BY <1>2, <1>4 DEF PanelInv

(* App renders the page the token stands for.                              *)
LEMMA MountInv ==
  ASSUME PanelInv, Mount
  PROVE  PanelInv'
<1>1. UNCHANGED <<chal, sess, host, store, leaving, flows, calls, left, smooth>>
  BY DEF Mount, App, NewDash, NewLogin, server, history
<1>2. FlowOK' /\ TokenOK' /\ HeldSessions' /\ SignedOutGone'
  BY <1>1 DEF PanelInv, FlowOK, TokenOK, HeldSessions, SignedOutGone
<1>3. TypeOK'
  BY <1>1 DEF PanelInv, Mount, App, NewDash, NewLogin, TypeOK, Opt, FlowRec, CallRec
<1>4. PageOK'
  BY <1>1 DEF PanelInv, Mount, App, NewDash, NewLogin, TypeOK, PageOK
<1>5. LoadOK'
  BY <1>1 DEF PanelInv, Mount, App, NewDash, NewLogin, TypeOK, PageOK, LoadOK, Call
<1>6. SmoothOK'
  BY <1>1 DEF PanelInv, Mount, App, NewDash, NewLogin, TypeOK, FlowOK, PageOK, SmoothOK,
     Call
<1> QED BY <1>2, <1>3, <1>4, <1>5, <1>6 DEF PanelInv

(* The document goes, its calls with it.                                   *)
LEMMA UnloadInv ==
  ASSUME PanelInv, Unload
  PROVE  PanelInv'
<1>1. UNCHANGED <<chal, sess, host, store, left>>
  BY DEF Unload, NewDash, NewLogin, IdleFlow, IdleCall, Busy, Pending, server
<1>2. SignedOutGone'
  BY <1>1 DEF PanelInv, SignedOutGone
<1>3. TypeOK'
  BY <1>1 DEF PanelInv, Unload, NewDash, NewLogin, IdleFlow, IdleCall, Busy, Pending,
     TypeOK, Opt, FlowRec, CallRec
<1>4. FlowOK'
  BY <1>1 DEF PanelInv, Unload, NewDash, NewLogin, IdleFlow, IdleCall, Busy, Pending,
     TypeOK, FlowRec, FlowOK
<1>5. PageOK'
  BY <1>1 DEF PanelInv, Unload, NewDash, NewLogin, IdleFlow, IdleCall, Busy, Pending,
     TypeOK, PageOK
<1>6. LoadOK'
  BY <1>1 DEF PanelInv, Unload, NewDash, NewLogin, IdleFlow, IdleCall, Busy, Pending,
     TypeOK, PageOK, LoadOK, Call
<1>7. TokenOK'
  <2>1. /\ \A f \in Flow : flows'[f].sess = None
        /\ \A a \in Call : calls'[a].tok = None
    BY DEF Unload, IdleFlow, IdleCall
  <2> QED BY <1>1, <2>1, NoneAssumption DEF PanelInv, TokenOK
<1>8. SmoothOK'
  <2>1. \A f \in Flow : flows'[f].pc = "idle"
    BY DEF Unload, IdleFlow
  <2>2. \A a \in Call : calls'[a].pc = "idle"
    BY DEF Unload, IdleCall
  <2>3. smooth' => smooth /\ \A f \in Flow : flows[f].pc = "idle"
    BY DEF Unload, Busy
  <2> QED BY <1>1, <2>1, <2>2, <2>3 DEF PanelInv, SmoothOK, Call
<1>9. HeldSessions'
  <2>1. smooth' => smooth /\ \A f \in Flow : flows[f].pc = "idle"
    BY DEF Unload, Busy
  <2> QED BY <1>1, <2>1, NoneAssumption DEF PanelInv, FlowOK, HeldSessions
<1> QED BY <1>2, <1>3, <1>4, <1>5, <1>6, <1>7, <1>8, <1>9 DEF PanelInv

(* discover() settles.                                                     *)
LEMMA LoginEffectInv ==
  ASSUME PanelInv, LoginEffect
  PROVE  PanelInv'
<1>1. UNCHANGED <<chal, sess, host, store, page, leaving, dash, flows, calls, left, smooth>>
  BY DEF LoginEffect, server, history
<1>2. FlowOK' /\ PageOK' /\ LoadOK' /\ TokenOK' /\ SmoothOK' /\ HeldSessions' /\ SignedOutGone'
  BY <1>1 DEF PanelInv, FlowOK, PageOK, LoadOK, TokenOK, SmoothOK, HeldSessions,
     SignedOutGone
<1>3. TypeOK'
  <2>1. PICK d \in DiscoverOutcomes :
          login' = [login EXCEPT
                      !.id = d.id,
                      !.text = IF ~d.ok THEN "unreachable"
                               ELSE IF d.id # None THEN "detected" ELSE "missing",
                      !.blind = @ /\ d.id = None /\ host.agent /\ host.files # None]
    BY DEF LoginEffect
  <2>2. d.id \in Opt(Device)
    BY <2>1 DEF PanelInv, TypeOK, DiscoverOutcomes, ServerDiscover, Opt
  <2>3. login \in Logins
    BY DEF PanelInv, TypeOK, Logins
  <2>4. /\ login' = [text |-> login'.text, id |-> login'.id, blind |-> login'.blind]
        /\ login'.text \in {"unreachable", "detected", "missing"}
        /\ login'.id = d.id
        /\ login'.blind \in BOOLEAN
    BY <2>1, <2>3 DEF Logins
  <2>5. login' \in Logins
    BY <2>2, <2>4 DEF Logins
  <2> QED BY <1>1, <2>5 DEF PanelInv, TypeOK, Logins
<1> QED BY <1>2, <1>3 DEF PanelInv

(* authenticate() starts.                                                  *)
LEMMA ClickLoginInv ==
  ASSUME PanelInv, NEW f \in Flow, ClickLogin(f)
  PROVE  PanelInv'
<1>1. UNCHANGED <<chal, sess, host, store, page, leaving, dash, calls, left>>
  BY DEF ClickLogin, LoginButton, IdleFlow, Busy, server
<1>2. PageOK' /\ LoadOK' /\ SignedOutGone'
  BY <1>1 DEF PanelInv, PageOK, LoadOK, SignedOutGone
<1>3. TypeOK'
  BY <1>1 DEF PanelInv, ClickLogin, LoginButton, IdleFlow, Busy, TypeOK, Opt, FlowRec,
     CallRec
<1>4. FlowOK'
  BY <1>1 DEF PanelInv, ClickLogin, LoginButton, IdleFlow, Busy, TypeOK, FlowRec, FlowOK
<1>5. TokenOK'
  BY <1>1 DEF PanelInv, ClickLogin, LoginButton, IdleFlow, Busy, TypeOK, FlowOK,
     TokenOK, Opt
<1>6. SmoothOK'
  BY <1>1 DEF PanelInv, ClickLogin, LoginButton, IdleFlow, Busy, TypeOK, FlowOK, PageOK,
     SmoothOK, Call
<1>7. HeldSessions'
  BY <1>1 DEF PanelInv, ClickLogin, LoginButton, IdleFlow, Busy, TypeOK, FlowOK, PageOK,
     SmoothOK, HeldSessions, Call
<1> QED BY <1>2, <1>3, <1>4, <1>5, <1>6, <1>7 DEF PanelInv

(* authenticate() throws: its run is over, and login() may show why.       *)
LEMMA Failing ==
  ASSUME PanelInv, NEW f \in Flow, AuthenticateFails(f)
  PROVE  /\ UNCHANGED <<host, store, page, leaving, dash, calls, left>>
         /\ login' \in Logins
         /\ flows' \in [Flow -> FlowRec] /\ flows'[f] = IdleFlow
         /\ \A g \in Flow \ {f} : flows'[g] = flows[g]
<1>1. flows \in [Flow -> FlowRec] /\ login \in Logins
  BY DEF PanelInv, TypeOK, Logins
<1>2. IdleFlow \in FlowRec
  BY DEF IdleFlow, FlowRec, Opt
<1> QED BY <1>1, <1>2 DEF AuthenticateFails, Logins

(* A run of authenticate() that has no session goes on or ends without     *)
(* one; if its challenge is being judged, it waits for the verdict.        *)
LEMMA FlowStep ==
  ASSUME PanelInv, NEW f \in Flow,
         UNCHANGED <<sess, host, store, page, leaving, dash, calls, left>>,
         login' \in Logins, chal' \in [Chal -> Server!ChalStates],
         smooth' \in BOOLEAN, smooth' => smooth,
         flows[f].pc # "idle", smooth' => flows[f].sess = None,
         flows' \in [Flow -> FlowRec], \A g \in Flow \ {f} : flows'[g] = flows[g],
         flows'[f].sess = None, flows'[f].pc # "granted",
         flows'[f].pc \in {"sign", "verify", "judging"} => flows'[f].chal \in Chal,
         smooth' => \A c \in Chal : chal'[c] = "answering" =>
           \/ chal[c] = "answering" /\ ~(flows[f].pc = "judging" /\ flows[f].chal = c)
           \/ flows'[f].pc = "judging" /\ flows'[f].chal = c
  PROVE  PanelInv'
<1>1. TypeOK'
  BY DEF PanelInv, TypeOK, Logins
<1>2. FlowOK' /\ PageOK' /\ LoadOK' /\ SignedOutGone'
  BY DEF PanelInv, FlowOK, PageOK, LoadOK, SignedOutGone
<1>3. TokenOK'
  <2>1. \A s \in Sess, g \in Flow : flows'[g].sess = s => g # f /\ flows[g].sess = s
    BY NoneAssumption
  <2> QED BY <2>1 DEF PanelInv, TokenOK
<1>4. SmoothOK'
  <2> SUFFICES ASSUME smooth'
               PROVE  /\ \A g \in Flow : flows'[g].pc # "idle" =>
                           page = "login" /\ \A h \in Flow \ {g} : flows'[h].pc = "idle"
                      /\ \A c \in Chal : chal'[c] = "answering" =>
                           \E g \in Flow : flows'[g].pc = "judging" /\ flows'[g].chal = c
    BY DEF PanelInv, SmoothOK
  <2>1. page = "login" /\ \A h \in Flow \ {f} : flows'[h].pc = "idle"
    BY DEF PanelInv, SmoothOK
  <2>2. ASSUME NEW c \in Chal, chal'[c] = "answering"
        PROVE  \E g \in Flow : flows'[g].pc = "judging" /\ flows'[g].chal = c
    <3>1. CASE chal[c] = "answering" /\ ~(flows[f].pc = "judging" /\ flows[f].chal = c)
      <4>1. PICK g \in Flow : flows[g].pc = "judging" /\ flows[g].chal = c
        BY <3>1 DEF PanelInv, SmoothOK
      <4> QED BY <3>1, <4>1
    <3>2. CASE flows'[f].pc = "judging" /\ flows'[f].chal = c
      BY <3>2
    <3> QED BY <2>2, <3>1, <3>2
  <2> QED BY <2>1, <2>2
<1>5. HeldSessions'
  <2>1. ASSUME smooth', NEW s \in Sess, NEW g \in Flow, flows[g].sess = s
        PROVE  flows'[g].sess = s
    BY <2>1, NoneAssumption
  <2> QED BY <2>1 DEF PanelInv, HeldSessions
<1> QED BY <1>1, <1>2, <1>3, <1>4, <1>5 DEF PanelInv

(* The challenge, or a refusal.                                            *)
LEMMA AuthChallengeInv ==
  ASSUME PanelInv, NEW f \in Flow, AuthChallenge(f)
  PROVE  PanelInv'
<1>1. /\ flows \in [Flow -> FlowRec] /\ login \in Logins /\ smooth \in BOOLEAN
      /\ chal \in [Chal -> Server!ChalStates]
      /\ flows[f].pc = "challenge" /\ flows[f].sess = None
  BY DEF PanelInv, TypeOK, Logins, FlowOK, AuthChallenge
<1>2. ASSUME NEW c \in Chal, Server!Issue(c), UNCHANGED <<host, tab, calls, left, smooth>>,
             flows' = [flows EXCEPT ![f].pc = "sign", ![f].chal = c]
      PROVE  PanelInv'
  <2>1. /\ flows' \in [Flow -> FlowRec] /\ flows'[f].pc = "sign" /\ flows'[f].chal = c
        /\ flows'[f].sess = None /\ \A g \in Flow \ {f} : flows'[g] = flows[g]
    <3>1. flows'[f] = [pc |-> "sign", dev |-> flows[f].dev, chal |-> c,
                     sig |-> flows[f].sig, sess |-> flows[f].sess]
      BY <1>1, <1>2 DEF FlowRec
    <3>2. flows'[f] \in FlowRec
      BY <1>1, <1>2, <3>1 DEF FlowRec, Opt
    <3>3. DOMAIN flows' = Flow /\ \A g \in Flow \ {f} : flows'[g] = flows[g]
      BY <1>1, <1>2
    <3>4. flows' = [g \in Flow |-> flows'[g]]
      BY <1>1, <1>2
    <3> QED BY <1>1, <3>1, <3>2, <3>3, <3>4
  <2>2. chal' \in [Chal -> Server!ChalStates] /\ sess' = sess
        /\ \A e \in Chal : chal'[e] = "answering" => chal[e] = "answering"
    BY <1>1, <1>2 DEF Server!Issue, Server!ChalStates
  <2> QED BY <1>1, <1>2, <2>1, <2>2, FlowStep DEF tab
<1>3. CASE AuthenticateFails(f) /\ UNCHANGED <<server, smooth>>
  BY <1>1, <1>3, Failing, FlowStep DEF IdleFlow, server
<1> QED BY <1>2, <1>3 DEF AuthChallenge

(* The signature, or a refusal.                                            *)
LEMMA AuthSignInv ==
  ASSUME PanelInv, NEW f \in Flow, AuthSign(f)
  PROVE  PanelInv'
<1>1. /\ flows \in [Flow -> FlowRec] /\ login \in Logins /\ smooth \in BOOLEAN
      /\ chal \in [Chal -> Server!ChalStates] /\ host.bridge \in Opt(Device)
      /\ flows[f].pc = "sign" /\ flows[f].sess = None /\ flows[f].chal \in Chal
      /\ UNCHANGED <<chal, sess, smooth>>
  BY DEF PanelInv, TypeOK, Logins, FlowOK, AuthSign, server
<1>2. CASE /\ flows' = [flows EXCEPT ![f].pc = "verify", ![f].sig = ServerSign]
           /\ UNCHANGED <<host, tab, calls, left>>
  <2>1. /\ flows' \in [Flow -> FlowRec] /\ flows'[f].pc = "verify"
        /\ flows'[f].chal = flows[f].chal /\ flows'[f].sess = None
        /\ \A g \in Flow \ {f} : flows'[g] = flows[g]
    <3>1. flows'[f] = [pc |-> "verify", dev |-> flows[f].dev, chal |-> flows[f].chal,
                     sig |-> ServerSign, sess |-> flows[f].sess]
      BY <1>1, <1>2 DEF FlowRec
    <3>2. flows'[f] \in FlowRec
      BY <1>1, <1>2, <3>1 DEF FlowRec, Opt, ServerSign
    <3>3. DOMAIN flows' = Flow /\ \A g \in Flow \ {f} : flows'[g] = flows[g]
      BY <1>1, <1>2
    <3>4. flows' = [g \in Flow |-> flows'[g]]
      BY <1>1, <1>2
    <3> QED BY <1>1, <3>1, <3>2, <3>3, <3>4
  <2> QED BY <1>1, <1>2, <2>1, FlowStep DEF tab
<1>3. CASE AuthenticateFails(f)
  BY <1>1, <1>3, Failing, FlowStep DEF IdleFlow
<1> QED BY <1>2, <1>3 DEF AuthSign

(* The answer takes the challenge, or comes too late.                      *)
LEMMA AuthVerifyInv ==
  ASSUME PanelInv, NEW f \in Flow, AuthVerify(f)
  PROVE  PanelInv'
<1>1. /\ flows \in [Flow -> FlowRec] /\ login \in Logins /\ smooth \in BOOLEAN
      /\ chal \in [Chal -> Server!ChalStates]
      /\ flows[f].pc = "verify" /\ flows[f].sess = None /\ flows[f].chal \in Chal
      /\ smooth' = smooth
  BY DEF PanelInv, TypeOK, Logins, FlowOK, AuthVerify
<1>2. CASE /\ Server!Take(flows[f].chal)
           /\ flows' = [flows EXCEPT ![f].pc = "judging"]
           /\ UNCHANGED <<host, tab, calls, left>>
  <2>1. /\ flows' \in [Flow -> FlowRec] /\ flows'[f].pc = "judging"
        /\ flows'[f].chal = flows[f].chal /\ flows'[f].sess = None
        /\ \A g \in Flow \ {f} : flows'[g] = flows[g]
    BY <1>1, <1>2 DEF FlowRec
  <2>2. chal' \in [Chal -> Server!ChalStates] /\ sess' = sess
        /\ \A e \in Chal : chal'[e] = "answering" => chal[e] = "answering" \/ e = flows[f].chal
    BY <1>1, <1>2 DEF Server!Take, Server!ChalStates
  <2> QED BY <1>1, <1>2, <2>1, <2>2, FlowStep DEF tab
<1>3. CASE /\ AuthenticateFails(f)
           /\ \/ Server!Refuse(flows[f].chal)
              \/ chal[flows[f].chal] # "open" /\ UNCHANGED server
  <2>1. chal' \in [Chal -> Server!ChalStates] /\ sess' = sess
        /\ \A e \in Chal : chal'[e] = "answering" => chal[e] = "answering"
    BY <1>1, <1>3 DEF Server!Refuse, Server!ChalStates, server
  <2> QED BY <1>1, <1>3, <2>1, Failing, FlowStep DEF IdleFlow
<1> QED BY <1>2, <1>3 DEF AuthVerify

(* A fresh session, or a refusal.                                          *)
LEMMA AuthVerdictInv ==
  ASSUME PanelInv, NEW f \in Flow, AuthVerdict(f)
  PROVE  PanelInv'
<1>1. /\ flows \in [Flow -> FlowRec] /\ login \in Logins /\ smooth \in BOOLEAN
      /\ chal \in [Chal -> Server!ChalStates]
      /\ flows[f].pc = "judging" /\ flows[f].sess = None /\ flows[f].chal \in Chal
      /\ smooth' = smooth
  BY DEF PanelInv, TypeOK, Logins, FlowOK, AuthVerdict
<1>2. ASSUME NEW s \in Sess, Server!Grant(flows[f].chal, s),
             flows' = [flows EXCEPT ![f].pc = "granted", ![f].sess = s],
             UNCHANGED <<host, tab, calls, left>>
      PROVE  PanelInv'
  <2>1. UNCHANGED <<host, store, page, leaving, login, dash, calls, left, smooth>>
    BY <1>1, <1>2 DEF tab
  <2>2. /\ flows' \in [Flow -> FlowRec] /\ flows'[f].pc = "granted" /\ flows'[f].sess = s
        /\ \A g \in Flow \ {f} : flows'[g] = flows[g]
    <3>1. flows'[f] = [pc |-> "granted", dev |-> flows[f].dev, chal |-> flows[f].chal,
                     sig |-> flows[f].sig, sess |-> s]
      BY <1>1, <1>2 DEF FlowRec
    <3>2. flows'[f] \in FlowRec
      BY <1>1, <1>2, <3>1 DEF FlowRec, Opt
    <3>3. DOMAIN flows' = Flow /\ \A g \in Flow \ {f} : flows'[g] = flows[g]
      BY <1>1, <1>2
    <3>4. flows' = [g \in Flow |-> flows'[g]]
      BY <1>1, <1>2
    <3> QED BY <1>1, <3>1, <3>2, <3>3, <3>4
  <2>3. /\ chal' \in [Chal -> Server!ChalStates] /\ chal'[flows[f].chal] = "done"
        /\ \A e \in Chal \ {flows[f].chal} : chal'[e] = chal[e]
    BY <1>1, <1>2 DEF Server!Grant, Server!ChalStates
  <2>4. /\ sess' \in [Sess -> Server!SessStates] /\ sess[s] = "unused" /\ sess'[s] = "live"
        /\ \A t \in Sess \ {s} : sess'[t] = sess[t]
    BY <1>2 DEF PanelInv, TypeOK, Server!Grant, Server!SessStates
  <2>5. TypeOK'
    BY <2>1, <2>2, <2>3, <2>4 DEF PanelInv, TypeOK
  <2>6. FlowOK' /\ PageOK' /\ LoadOK' /\ SignedOutGone'
    BY <2>1, <2>2 DEF PanelInv, FlowOK, PageOK, LoadOK, SignedOutGone
  <2>7. store # s /\ s \notin left /\ (\A a \in Call : calls[a].tok # s)
        /\ \A g \in Flow : flows[g].sess # s
    BY <2>4 DEF PanelInv, TokenOK
  <2>8. TokenOK'
    BY <2>1, <2>2, <2>4, <2>7 DEF PanelInv, TokenOK
  <2>9. SmoothOK'
    <3> SUFFICES ASSUME smooth
                 PROVE  /\ \A g \in Flow : flows'[g].pc # "idle" =>
                             page = "login" /\ \A h \in Flow \ {g} : flows'[h].pc = "idle"
                        /\ \A c \in Chal : chal'[c] = "answering" =>
                             \E g \in Flow : flows'[g].pc = "judging" /\ flows'[g].chal = c
      BY <2>1, <2>4, <2>7 DEF PanelInv, SmoothOK, Call
    <3>1. page = "login" /\ \A h \in Flow \ {f} : flows'[h].pc = "idle"
      BY <1>1, <2>2 DEF PanelInv, SmoothOK
    <3>2. \A c \in Chal : chal'[c] # "answering"
      BY <1>1, <2>2, <2>3, <3>1 DEF PanelInv, SmoothOK
    <3> QED BY <3>1, <3>2
  <2>10. HeldSessions'
    BY <1>1, <2>1, <2>2, <2>4, NoneAssumption DEF PanelInv, HeldSessions
  <2> QED BY <2>5, <2>6, <2>8, <2>9, <2>10 DEF PanelInv
<1>3. CASE Server!Refuse(flows[f].chal) /\ AuthenticateFails(f)
  <2>1. chal' \in [Chal -> Server!ChalStates] /\ sess' = sess
        /\ \A e \in Chal : chal'[e] = "answering" =>
             chal[e] = "answering" /\ e # flows[f].chal
    BY <1>1, <1>3 DEF Server!Refuse, Server!ChalStates
  <2> QED BY <1>1, <1>3, <2>1, Failing, FlowStep DEF IdleFlow
<1> QED BY <1>2, <1>3 DEF AuthVerdict

(* The token goes into sessionStorage.                                     *)
LEMMA AuthStoreInv ==
  ASSUME PanelInv, NEW f \in Flow, AuthStore(f)
  PROVE  PanelInv'
<1>1. UNCHANGED <<chal, sess, host, leaving, login, dash, calls, left, smooth>>
  BY DEF AuthStore, IdleFlow, server, history
<1>2. TypeOK'
  BY <1>1 DEF PanelInv, AuthStore, IdleFlow, TypeOK, Opt, FlowRec, CallRec
<1>3. FlowOK'
  BY <1>1 DEF PanelInv, AuthStore, IdleFlow, TypeOK, FlowRec, FlowOK
<1>4. PageOK'
  BY <1>1 DEF PanelInv, AuthStore, IdleFlow, TypeOK, PageOK
<1>5. LoadOK'
  BY <1>1 DEF PanelInv, AuthStore, IdleFlow, TypeOK, PageOK, LoadOK, Call
<1>6. TokenOK'
  <2>1. /\ store' = flows[f].sess /\ flows'[f].sess = None
        /\ \A g \in Flow \ {f} : flows'[g] = flows[g]
    BY DEF PanelInv, TypeOK, AuthStore, IdleFlow
  <2> QED BY <1>1, <2>1, NoneAssumption DEF PanelInv, TokenOK
<1>7. SmoothOK'
  BY <1>1 DEF PanelInv, AuthStore, IdleFlow, TypeOK, FlowOK, PageOK, SmoothOK, Call
<1>8. HeldSessions'
  BY <1>1 DEF PanelInv, AuthStore, IdleFlow, TypeOK, FlowOK, PageOK, SmoothOK,
     HeldSessions, Call
<1>9. SignedOutGone'
  BY <1>1 DEF PanelInv, AuthStore, IdleFlow, TypeOK, TokenOK, SignedOutGone
<1> QED BY <1>2, <1>3, <1>4, <1>5, <1>6, <1>7, <1>8, <1>9 DEF PanelInv

(* A request or an answer is lost.                                         *)
LEMMA AuthLostInv ==
  ASSUME PanelInv, NEW f \in Flow, AuthLost(f)
  PROVE  PanelInv'
<1>1. /\ chal' \in [Chal -> Server!ChalStates] /\ sess' = sess /\ smooth' = FALSE
      /\ flows[f].pc # "idle" /\ AuthenticateFails(f)
  BY DEF PanelInv, TypeOK, AuthLost, server
<1>2. flows'[f].sess = None /\ flows'[f].pc = "idle"
  BY <1>1, Failing DEF IdleFlow
<1> QED BY <1>1, <1>2, Failing, FlowStep

(* load() of a new dashboard.                                              *)
LEMMA LoadEffectInv ==
  ASSUME PanelInv, NEW a \in Loads, LoadEffect(a)
  PROVE  PanelInv'
<1>1. UNCHANGED <<chal, sess, host, store, page, leaving, login, flows, left, smooth>>
  BY DEF LoadEffect, Load, GetSystem, Api, Call, server, history
<1>2. FlowOK' /\ HeldSessions' /\ SignedOutGone'
  BY <1>1 DEF PanelInv, FlowOK, HeldSessions, SignedOutGone
<1>3. TypeOK'
  BY <1>1 DEF PanelInv, LoadEffect, Load, GetSystem, Api, Call, TypeOK, Opt, FlowRec,
     CallRec
<1>4. PageOK'
  BY <1>1 DEF PanelInv, LoadEffect, Load, GetSystem, Api, Call, TypeOK, PageOK
<1>5. LoadOK'
  BY <1>1 DEF PanelInv, LoadEffect, Load, GetSystem, Api, Call, TypeOK, PageOK, LoadOK
<1>6. TokenOK'
  BY <1>1 DEF PanelInv, LoadEffect, Load, GetSystem, Api, Call, TypeOK, FlowOK, TokenOK,
     Opt
<1>7. SmoothOK'
  BY <1>1 DEF PanelInv, LoadEffect, Load, GetSystem, Api, Call, TypeOK, FlowOK, PageOK,
     SmoothOK
<1> QED BY <1>2, <1>3, <1>4, <1>5, <1>6, <1>7 DEF PanelInv

(* load() again after an error.                                            *)
LEMMA ClickRetryInv ==
  ASSUME PanelInv, NEW a \in Loads, ClickRetry(a)
  PROVE  PanelInv'
<1>1. UNCHANGED <<chal, sess, host, store, page, leaving, login, flows, left, smooth>>
  BY DEF ClickRetry, ErrorState, Load, GetSystem, Api, Call, server, history
<1>2. FlowOK' /\ HeldSessions' /\ SignedOutGone'
  BY <1>1 DEF PanelInv, FlowOK, HeldSessions, SignedOutGone
<1>3. TypeOK'
  BY <1>1 DEF PanelInv, ClickRetry, ErrorState, Load, GetSystem, Api, Call, TypeOK, Opt,
     FlowRec, CallRec
<1>4. PageOK'
  BY <1>1 DEF PanelInv, ClickRetry, ErrorState, Load, GetSystem, Api, Call, TypeOK,
     PageOK
<1>5. LoadOK'
  BY <1>1 DEF PanelInv, ClickRetry, ErrorState, Load, GetSystem, Api, Call, TypeOK,
     PageOK, LoadOK
<1>6. TokenOK'
  BY <1>1 DEF PanelInv, ClickRetry, ErrorState, Load, GetSystem, Api, Call, TypeOK,
     FlowOK, TokenOK, Opt
<1>7. SmoothOK'
  BY <1>1 DEF PanelInv, ClickRetry, ErrorState, Load, GetSystem, Api, Call, TypeOK,
     FlowOK, PageOK, SmoothOK
<1> QED BY <1>2, <1>3, <1>4, <1>5, <1>6, <1>7 DEF PanelInv

(* logout() is called with the token the tab has.                          *)
LEMMA ClickLogoutInv ==
  ASSUME PanelInv, NEW a \in Logouts, ClickLogout(a)
  PROVE  PanelInv'
<1>1. UNCHANGED <<chal, sess, host, store, page, leaving, login, dash, flows, left, smooth>>
  BY DEF ClickLogout, Api, Call, server, tab, history
<1>2. FlowOK' /\ HeldSessions' /\ SignedOutGone'
  BY <1>1 DEF PanelInv, FlowOK, HeldSessions, SignedOutGone
<1>3. TypeOK'
  BY <1>1 DEF PanelInv, ClickLogout, Api, Call, TypeOK, Opt, FlowRec, CallRec
<1>4. PageOK'
  BY <1>1 DEF PanelInv, ClickLogout, Api, Call, TypeOK, PageOK
<1>5. LoadOK'
  <2>1. \A b \in Loads : calls'[b] = calls[b]
    BY CallAssumption DEF PanelInv, TypeOK, ClickLogout, Api, Call
  <2> QED BY <1>1, <2>1 DEF PanelInv, LoadOK
<1>6. TokenOK'
  BY <1>1 DEF PanelInv, ClickLogout, Api, Call, TypeOK, FlowOK, TokenOK, Opt
<1>7. SmoothOK'
  BY <1>1 DEF PanelInv, ClickLogout, Api, Call, TypeOK, FlowOK, PageOK, SmoothOK
<1> QED BY <1>2, <1>3, <1>4, <1>5, <1>6, <1>7 DEF PanelInv

(* The server answers a load.                                              *)
LEMMA SystemServedInv ==
  ASSUME PanelInv, NEW a \in Loads, SystemServed(a)
  PROVE  PanelInv'
<1>1. UNCHANGED <<chal, sess, host, store, page, leaving, login, dash, flows, left, smooth>>
  BY DEF SystemServed, Answer, Bears, Call, server, tab, history
<1>2. FlowOK' /\ HeldSessions' /\ SignedOutGone'
  BY <1>1 DEF PanelInv, FlowOK, HeldSessions, SignedOutGone
<1>3. TypeOK'
  BY <1>1 DEF PanelInv, SystemServed, Answer, Bears, Call, TypeOK, Opt, FlowRec, CallRec
<1>4. PageOK'
  BY <1>1 DEF PanelInv, SystemServed, Answer, Bears, Call, TypeOK, PageOK
<1>5. LoadOK'
  BY <1>1 DEF PanelInv, SystemServed, Answer, Bears, Call, TypeOK, PageOK, LoadOK
<1>6. TokenOK'
  <2>1. /\ calls'[a].tok = calls[a].tok
        /\ \A b \in Call \ {a} : calls'[b] = calls[b]
    BY DEF PanelInv, TypeOK, CallRec, SystemServed, Answer, Call
  <2> QED BY <1>1, <2>1, NoneAssumption DEF PanelInv, TokenOK
<1>7. SmoothOK'
  <2>1. \A b \in Logouts : calls'[b] = calls[b]
    BY CallAssumption DEF PanelInv, TypeOK, SystemServed, Answer, Call
  <2> QED BY <1>1, <2>1 DEF PanelInv, SmoothOK
<1> QED BY <1>2, <1>3, <1>4, <1>5, <1>6, <1>7 DEF PanelInv

(* The server ends the session it is asked to end.                         *)
LEMMA LogoutServedInv ==
  ASSUME PanelInv, NEW a \in Logouts, LogoutServed(a)
  PROVE  PanelInv'
<1>1. UNCHANGED <<chal, host, store, page, leaving, login, dash, flows, left, smooth>>
  BY DEF LogoutServed, Answer, Bears, Call, Server!End, server, tab, history
<1>2. FlowOK' /\ SignedOutGone'
  BY <1>1 DEF PanelInv, FlowOK, SignedOutGone
<1>3. TypeOK'
  <2>1. calls' \in [Call -> CallRec]
    BY DEF PanelInv, TypeOK, LogoutServed, Answer, CallRec
  <2>2. sess' \in [Sess -> Server!SessStates]
    BY DEF PanelInv, TypeOK, LogoutServed, server, Server!End, Server!SessStates
  <2> QED BY <1>1, <2>1, <2>2 DEF PanelInv, TypeOK
<1>4. PageOK'
  BY <1>1 DEF PanelInv, LogoutServed, Answer, Bears, Call, Server!End, TypeOK, PageOK
<1>5. LoadOK'
  BY <1>1 DEF PanelInv, LogoutServed, Answer, Bears, Call, Server!End, TypeOK, PageOK,
     LoadOK
<1>6. TokenOK'
  <2>1. /\ calls'[a].tok = calls[a].tok
        /\ \A b \in Call \ {a} : calls'[b] = calls[b]
    BY DEF PanelInv, TypeOK, CallRec, LogoutServed, Answer, Call
  <2>2. \A s \in Sess : sess'[s] = "unused" => sess[s] = "unused"
    BY DEF PanelInv, TypeOK, LogoutServed, Server!End, server
  <2> QED BY <1>1, <2>1, NoneAssumption, <2>2 DEF PanelInv, TokenOK
<1>7. SmoothOK'
  <2>1. /\ a \in Call /\ calls[a].pc = "sent" /\ calls'[a].pc = "ok"
        /\ calls'[a].tok = calls[a].tok /\ \A b \in Call \ {a} : calls'[b] = calls[b]
    BY DEF PanelInv, TypeOK, LogoutServed, Answer, Call, CallRec
  <2>2. /\ \A s \in Sess : sess'[s] = "live" => sess[s] = "live"
        /\ \A s \in Sess : calls[a].tok = s => sess'[s] # "live"
    <3>1. CASE \E s \in Sess : Bears(a, s) /\ Server!End(s)
      BY <3>1 DEF PanelInv, TypeOK, Server!End, Bears
    <3>2. CASE UNCHANGED server /\ ~\E s \in Sess : Bears(a, s) /\ sess[s] = "live"
      BY <3>2 DEF server, Bears
    <3> QED BY <3>1, <3>2 DEF LogoutServed
  <2> QED BY <1>1, <2>1, <2>2 DEF PanelInv, SmoothOK, Call
<1>8. HeldSessions'
  <2>1. \A s \in Sess : sess'[s] = "live" => sess[s] = "live"
    BY DEF PanelInv, TypeOK, LogoutServed, server, Server!End
  <2> QED BY <1>1, <2>1 DEF PanelInv, HeldSessions
<1> QED BY <1>2, <1>3, <1>4, <1>5, <1>6, <1>7, <1>8 DEF PanelInv

(* A call or its answer is lost.                                           *)
LEMMA CallLostInv ==
  ASSUME PanelInv, NEW a \in Call, CallLost(a)
  PROVE  PanelInv'
<1>1. UNCHANGED <<chal, sess, host, store, page, leaving, login, dash, flows, left>>
  BY DEF CallLost, Answer, server, tab
<1>2. FlowOK' /\ SignedOutGone'
  BY <1>1 DEF PanelInv, FlowOK, SignedOutGone
<1>3. TypeOK'
  <2>1. calls' \in [Call -> CallRec]
    BY DEF PanelInv, TypeOK, CallLost, Answer, CallRec
  <2>2. smooth' \in BOOLEAN
    BY DEF CallLost
  <2> QED BY <1>1, <2>1, <2>2 DEF PanelInv, TypeOK
<1>4. PageOK'
  BY <1>1 DEF PanelInv, CallLost, Answer, TypeOK, PageOK
<1>5. LoadOK'
  BY <1>1 DEF PanelInv, CallLost, Answer, TypeOK, PageOK, LoadOK, Call
<1>6. TokenOK'
  BY <1>1 DEF PanelInv, CallLost, Answer, TypeOK, FlowOK, TokenOK, Opt
<1>7. SmoothOK'
  BY <1>1 DEF PanelInv, CallLost, Answer, TypeOK, FlowOK, PageOK, SmoothOK, Call
<1>8. HeldSessions'
  BY <1>1 DEF PanelInv, CallLost, Answer, TypeOK, FlowOK, PageOK, SmoothOK,
     HeldSessions, Call
<1> QED BY <1>2, <1>3, <1>4, <1>5, <1>6, <1>7, <1>8 DEF PanelInv

(* The answer of a load is shown.                                          *)
LEMMA SystemSettledInv ==
  ASSUME PanelInv, NEW a \in Loads, SystemSettled(a)
  PROVE  PanelInv'
<1>1. UNCHANGED <<chal, sess, host, store, page, leaving, login, flows, left, smooth>>
  BY DEF SystemSettled, Settle, IdleCall, Call, server, history
<1>2. FlowOK' /\ HeldSessions' /\ SignedOutGone'
  BY <1>1 DEF PanelInv, FlowOK, HeldSessions, SignedOutGone
<1>3. TypeOK'
  BY <1>1 DEF PanelInv, SystemSettled, Settle, IdleCall, Call, TypeOK, Opt, FlowRec,
     CallRec
<1>4. PageOK'
  BY <1>1 DEF PanelInv, SystemSettled, Settle, IdleCall, Call, TypeOK, PageOK
<1>5. LoadOK'
  BY <1>1 DEF PanelInv, SystemSettled, Settle, IdleCall, Call, TypeOK, PageOK, LoadOK
<1>6. TokenOK'
  <2>1. /\ calls'[a].tok = None
        /\ \A b \in Call \ {a} : calls'[b] = calls[b]
    BY DEF PanelInv, TypeOK, CallRec, SystemSettled, Settle, IdleCall, Call
  <2> QED BY <1>1, <2>1, NoneAssumption DEF PanelInv, TokenOK
<1>7. SmoothOK'
  BY <1>1 DEF PanelInv, SystemSettled, Settle, IdleCall, Call, TypeOK, FlowOK, PageOK,
     SmoothOK
<1> QED BY <1>2, <1>3, <1>4, <1>5, <1>6, <1>7 DEF PanelInv

(* The tab forgets its token.                                              *)
LEMMA LogoutSettledInv ==
  ASSUME PanelInv, NEW a \in Logouts, LogoutSettled(a)
  PROVE  PanelInv'
<1>1. UNCHANGED <<chal, sess, host, page, login, dash, flows, smooth>>
  BY DEF LogoutSettled, Settle, IdleCall, Call, server
<1>2. FlowOK'
  BY <1>1 DEF PanelInv, FlowOK
<1>3. TypeOK'
  BY <1>1 DEF PanelInv, LogoutSettled, Settle, IdleCall, Call, TypeOK, Opt, FlowRec,
     CallRec
<1>4. PageOK'
  BY <1>1 DEF PanelInv, LogoutSettled, Settle, IdleCall, Call, TypeOK, PageOK
<1>5. LoadOK'
  BY <1>1 DEF PanelInv, LogoutSettled, Settle, IdleCall, Call, TypeOK, PageOK, LoadOK
<1>6. TokenOK'
  <2>1. /\ calls'[a].tok = None
        /\ \A b \in Call \ {a} : calls'[b] = calls[b]
    BY DEF PanelInv, TypeOK, CallRec, LogoutSettled, Settle, IdleCall, Call
  <2>2. store' = None /\ \A s \in Sess : s \in left' => s \in left \/ calls[a].tok = s
    BY DEF LogoutSettled
  <2>3. a \in Call
    BY DEF Call
  <2> QED BY <1>1, <2>1, NoneAssumption, <2>2, <2>3 DEF PanelInv, TokenOK
<1>7. SmoothOK'
  BY <1>1 DEF PanelInv, LogoutSettled, Settle, IdleCall, Call, TypeOK, FlowOK, PageOK,
     SmoothOK
<1>8. HeldSessions'
  BY <1>1 DEF PanelInv, LogoutSettled, Settle, IdleCall, Call, TypeOK, FlowOK, PageOK,
     SmoothOK, HeldSessions
<1>9. SignedOutGone'
  BY NoneAssumption DEF PanelInv, TypeOK, LogoutSettled, SignedOutGone
<1> QED BY <1>2, <1>3, <1>4, <1>5, <1>6, <1>7, <1>8, <1>9 DEF PanelInv

(* A session is over.                                                      *)
LEMMA ExpireInv ==
  ASSUME PanelInv, NEW s \in Sess, Expire(s)
  PROVE  PanelInv'
<1>1. UNCHANGED <<chal, host, store, page, leaving, login, dash, flows, calls, left, smooth>>
  BY DEF Expire, Server!End, tab, history
<1>2. FlowOK' /\ PageOK' /\ LoadOK' /\ SignedOutGone'
  BY <1>1 DEF PanelInv, FlowOK, PageOK, LoadOK, SignedOutGone
<1>3. TypeOK'
  BY <1>1 DEF PanelInv, Expire, Server!End, TypeOK, Opt, FlowRec, CallRec,
     Server!ChalStates, Server!SessStates
<1>4. TokenOK'
  BY <1>1 DEF PanelInv, Expire, Server!End, TypeOK, FlowOK, TokenOK, Opt
<1>5. SmoothOK'
  BY <1>1 DEF PanelInv, Expire, Server!End, TypeOK, FlowOK, PageOK, SmoothOK, Call
<1>6. HeldSessions'
  BY <1>1 DEF PanelInv, Expire, Server!End, TypeOK, FlowOK, PageOK, SmoothOK,
     HeldSessions, Call
<1> QED BY <1>2, <1>3, <1>4, <1>5, <1>6 DEF PanelInv

(* A verdict nobody waits for.                                             *)
LEMMA UnheardInv ==
  ASSUME PanelInv, NEW c \in Chal, Unheard(c)
  PROVE  PanelInv'
<1>1. UNCHANGED <<host, store, page, leaving, login, dash, flows, calls, left, smooth>>
  BY DEF Unheard, Server!Refuse, Server!Grant, tab, history
<1>2. FlowOK' /\ PageOK' /\ LoadOK' /\ SignedOutGone'
  BY <1>1 DEF PanelInv, FlowOK, PageOK, LoadOK, SignedOutGone
<1>3. TypeOK'
  BY <1>1 DEF PanelInv, Unheard, Server!Refuse, Server!Grant, TypeOK, Opt, FlowRec,
     CallRec, Server!ChalStates, Server!SessStates
<1>4. TokenOK'
  BY <1>1 DEF PanelInv, Unheard, Server!Refuse, Server!Grant, TypeOK, FlowOK, TokenOK,
     Opt
<1>5. SmoothOK'
  BY <1>1 DEF PanelInv, Unheard, Server!Refuse, Server!Grant, TypeOK, FlowOK, PageOK,
     SmoothOK, Call
<1>6. HeldSessions'
  BY <1>1 DEF PanelInv, Unheard, Server!Refuse, Server!Grant, TypeOK, FlowOK, PageOK,
     SmoothOK, HeldSessions, Call
<1> QED BY <1>2, <1>3, <1>4, <1>5, <1>6 DEF PanelInv

(* The server forgets everything.                                          *)
LEMMA WebRestartInv ==
  ASSUME PanelInv, WebRestart
  PROVE  PanelInv'
<1>1. UNCHANGED <<host, store, page, leaving, login, dash, flows, calls, left, smooth>>
  BY DEF WebRestart, Server!Restart, tab, history
<1>2. FlowOK' /\ PageOK' /\ LoadOK' /\ SignedOutGone'
  BY <1>1 DEF PanelInv, FlowOK, PageOK, LoadOK, SignedOutGone
<1>3. TypeOK'
  BY <1>1 DEF PanelInv, WebRestart, Server!Restart, TypeOK, Opt, FlowRec, CallRec,
     Server!ChalStates, Server!SessStates
<1>4. TokenOK'
  BY <1>1 DEF PanelInv, WebRestart, Server!Restart, TypeOK, FlowOK, TokenOK, Opt
<1>5. SmoothOK'
  BY <1>1 DEF PanelInv, WebRestart, Server!Restart, TypeOK, FlowOK, PageOK, SmoothOK,
     Call
<1>6. HeldSessions'
  BY <1>1 DEF PanelInv, WebRestart, Server!Restart, TypeOK, FlowOK, PageOK, SmoothOK,
     HeldSessions, Call
<1> QED BY <1>2, <1>3, <1>4, <1>5, <1>6 DEF PanelInv

------------------------------------------------------------------------------
(* A fresh tab in front of a fresh server.                                 *)
LEMMA InitInv == Init => PanelInv
<1> SUFFICES ASSUME Init PROVE PanelInv
  OBVIOUS
<1>1. /\ chal = [c \in Chal |-> "unused"] /\ sess = [s \in Sess |-> "unused"]
      /\ store = None /\ page = "blank" /\ leaving = FALSE
      /\ login = NewLogin /\ dash = NewDash /\ left = {} /\ smooth = TRUE
      /\ host = [files |-> None, agent |-> FALSE, bridge |-> None, drawn |-> {}]
      /\ flows = [f \in Flow |-> IdleFlow] /\ calls = [a \in Call |-> IdleCall]
  BY DEF Init, Server!Init
<1>2. /\ \A f \in Flow : flows[f].pc = "idle" /\ flows[f].sess = None
      /\ \A a \in Call : calls[a].pc = "idle" /\ calls[a].tok = None
  BY <1>1 DEF IdleFlow, IdleCall
<1>3. TypeOK
  <2>1. IdleFlow \in FlowRec /\ IdleCall \in CallRec
    BY DEF IdleFlow, FlowRec, IdleCall, CallRec, Opt
  <2>2. login \in Logins /\ host \in Hosts
    BY <1>1 DEF NewLogin, Logins, Hosts, Opt
  <2>3. dash \in [due : BOOLEAN, error : BOOLEAN, system : Opt(Sess)] /\ store \in Opt(Sess)
    BY <1>1 DEF NewDash, Opt
  <2> QED BY <1>1, <2>1, <2>2, <2>3 DEF TypeOK, Logins, Hosts, Server!ChalStates,
          Server!SessStates
<1>4. FlowOK /\ PageOK /\ SignedOutGone
  BY <1>1, <1>2 DEF FlowOK, PageOK, SignedOutGone
<1>5. LoadOK
  BY <1>1, <1>2 DEF LoadOK, NewDash, Call
<1>6. TokenOK /\ SmoothOK /\ HeldSessions
  BY <1>1, <1>2, NoneAssumption DEF TokenOK, SmoothOK, HeldSessions, Call
<1> QED BY <1>3, <1>4, <1>5, <1>6 DEF PanelInv

(* A stuttering step changes none of the parts.                            *)
LEMMA StutterInv ==
  ASSUME PanelInv, UNCHANGED vars
  PROVE  PanelInv'
BY DEF PanelInv, vars, server, tab, history, TypeOK, FlowOK, PageOK, LoadOK, TokenOK,
   SmoothOK, HeldSessions, SignedOutGone

(* PanelInv holds throughout, whatever is clicked, lost, reloaded or       *)
(* restarted, and in whatever order the answers arrive.                    *)
THEOREM PanelInvariant == Spec => []PanelInv
<1>1. Init => PanelInv
  BY InitInv
<1>2. PanelInv /\ [Next]_vars => PanelInv'
  <2> SUFFICES ASSUME PanelInv, [Next]_vars
               PROVE  PanelInv'
    OBVIOUS
  <2>1. CASE HostNext \/ Mount \/ Unload \/ LoginEffect
    BY <2>1, HostInv, MountInv, UnloadInv, LoginEffectInv
  <2>2. CASE ServerNext
    BY <2>2, ExpireInv, UnheardInv, WebRestartInv DEF ServerNext
  <2>3. ASSUME NEW f \in Flow, ClickLogin(f) \/ FlowNext(f)
        PROVE  PanelInv'
    BY <2>3, ClickLoginInv, AuthChallengeInv, AuthSignInv, AuthVerifyInv, AuthVerdictInv,
       AuthStoreInv, AuthLostInv DEF FlowNext
  <2>4. ASSUME NEW a \in Loads, LoadEffect(a) \/ ClickRetry(a) \/ LoadNext(a)
        PROVE  PanelInv'
    BY <2>4, LoadEffectInv, ClickRetryInv, SystemServedInv, SystemSettledInv, CallLostInv
       DEF LoadNext, Call
  <2>5. ASSUME NEW a \in Logouts, ClickLogout(a) \/ LogoutNext(a)
        PROVE  PanelInv'
    BY <2>5, ClickLogoutInv, LogoutServedInv, LogoutSettledInv, CallLostInv
       DEF LogoutNext, Call
  <2>6. CASE UNCHANGED vars
    BY <2>6, StutterInv
  <2> QED BY <2>1, <2>2, <2>3, <2>4, <2>5, <2>6 DEF Next
<1> QED BY <1>1, <1>2, PTL DEF Spec

(* Type correctness.                                                       *)
THEOREM TypeCorrect == Spec => []TypeOK
<1>1. PanelInv => TypeOK
  BY DEF PanelInv
<1> QED BY <1>1, PanelInvariant, PTL

(* authenticate() and logout() lose no session the server still honours,   *)
(* as long as nothing is lost, cut off or clicked twice.                   *)
THEOREM SessionsHeld == Spec => []HeldSessions
<1>1. PanelInv => HeldSessions
  BY DEF PanelInv
<1> QED BY <1>1, PanelInvariant, PTL

(* The token logout() was called with never comes back to sessionStorage.  *)
THEOREM SignedOut == Spec => []SignedOutGone
<1>1. PanelInv => SignedOutGone
  BY DEF PanelInv
<1> QED BY <1>1, PanelInvariant, PTL

(* load() never has a second getSystem() under way, so an answer is shown  *)
(* on the dashboard that asked for it.                                     *)
THEOREM SingleLoad == Spec => []OneLoad
<1>1. PanelInv => OneLoad
  <2> SUFFICES ASSUME PanelInv PROVE OneLoad
    OBVIOUS
  <2>1. Cardinality(Pending(Loads)) <= 1
    <3>1. CASE Pending(Loads) = {}
      BY <3>1, FS_EmptySet
    <3>2. CASE Pending(Loads) # {}
      <4>1. PICK a \in Loads : calls[a].pc # "idle"
        BY <3>2 DEF Pending
      <4>2. Pending(Loads) = {a}
        BY <4>1 DEF PanelInv, LoadOK, Pending
      <4>3. Cardinality({a}) = 1
        BY FS_Singleton
      <4> QED BY <4>2, <4>3
    <3> QED BY <3>1, <3>2
  <2>2. dash.error => dash.system = None /\ Pending(Loads) = {}
    BY DEF PanelInv, LoadOK, Pending
  <2> QED BY <2>1, <2>2 DEF OneLoad
<1> QED BY <1>1, PanelInvariant, PTL
==============================================================================
