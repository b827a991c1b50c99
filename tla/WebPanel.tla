------------------------------- MODULE WebPanel -------------------------------
(***************************************************************************)
(* A browser tab with the Web Panel in front of the web process.           *)
(*                                                                         *)
(* The tab keeps a session token in sessionStorage, which survives a       *)
(* reload, and React state, which does not.  Its asynchronous calls are    *)
(* the runs of authenticate() (Flow: the button is never disabled, so      *)
(* several may be under way), the api() calls of the dashboard (Call) and  *)
(* discover().  A call reads the token when it is made; the server acts on *)
(* it later; its answer, if it is not lost, is applied later still, to     *)
(* whatever page is there by then.                                         *)
(*                                                                         *)
(* The web process is AuthServer, which DeviceTrust implements; whether a  *)
(* device is paired is its choice.  The identity files are read as a whole *)
(* (LocalIdentity has their parts) and the bridge of the agent loads them  *)
(* once.  Texts are named after what they say, and the data of a dashboard *)
(* after the session it was served to.                                     *)
(***************************************************************************)
EXTENDS Naturals, FiniteSets

CONSTANTS
    Device,  \* device ids `sk create` may draw
    Chal,    \* challenge ids
    Sess,    \* session tokens
    Flow,    \* bound: runs of authenticate() under way at once
    Loads,   \* bound: calls of getSystem() under way at once
    Logouts, \* bound: calls of logout() under way at once
    None     \* no device, challenge or session

ASSUME NoneAssumption == None \notin Device \cup Chal \cup Sess

ASSUME CallAssumption == Loads \cap Logouts = {}

Call == Loads \cup Logouts

VARIABLES
    chal, sess,  \* the web process (AuthServer)
    host,        \* identity files, agent, what its bridge has loaded
    store,       \* sessionStorage 'infrapilot_session'
    page,        \* blank while (re)loading, else what App renders
    leaving,     \* location.reload() was called, the page is still there
    login,       \* state of the Login page
    dash,        \* state of the Dashboard page
    flows,       \* runs of authenticate()
    calls,       \* getSystem() and logout() under way
    left,        \* history: tokens whose logout() has settled
    smooth       \* history: nothing lost, cut off or clicked twice so far

server == <<chal, sess>>
tab == <<store, page, leaving, login, dash>>
history == <<left, smooth>>
vars == <<server, host, tab, flows, calls, history>>

Server == INSTANCE AuthServer

Opt(S) == S \cup {None}

FlowRec == [pc : {"idle", "challenge", "sign", "verify", "judging", "granted"},
            dev : Opt(Device), chal : Opt(Chal), sig : Opt(Device), sess : Opt(Sess)]
CallRec == [pc : {"idle", "sent", "ok", "fail"}, tok : Opt(Sess)]

IdleFlow == [pc |-> "idle", dev |-> None, chal |-> None, sig |-> None, sess |-> None]
IdleCall == [pc |-> "idle", tok |-> None]

\* useState of Login, which is searching until its discover() settles;
\* `blind` a history: agent and identity are there and it has not found them.
NewLogin == [text |-> "searching", id |-> None, blind |-> FALSE]

\* useState of Dashboard; `due` is the effect that will call load().
NewDash == [due |-> TRUE, error |-> FALSE, system |-> None]

Busy == {f \in Flow : flows[f].pc # "idle"}
Pending(C) == {a \in C : calls[a].pc # "idle"}

(* One type invariant for server, tab and calls.                           *)
TypeOK ==
    /\ chal \in [Chal -> Server!ChalStates] /\ sess \in [Sess -> Server!SessStates]
    /\ host \in [files : Opt(Device), agent : BOOLEAN, bridge : Opt(Device),
                 drawn : SUBSET Device]
    /\ store \in Opt(Sess)
    /\ page \in {"blank", "login", "dashboard"} /\ leaving \in BOOLEAN
    /\ login \in [text : {"searching", "detected", "missing", "unreachable",
                          "signing", "refused"},
                  id : Opt(Device), blind : BOOLEAN]
    /\ dash \in [due : BOOLEAN, error : BOOLEAN, system : Opt(Sess)]
    /\ flows \in [Flow -> FlowRec] /\ calls \in [Call -> CallRec]
    /\ left \subseteq Sess /\ smooth \in BOOLEAN

Init ==
    /\ Server!Init
    /\ host = [files |-> None, agent |-> FALSE, bridge |-> None, drawn |-> {}]
    /\ store = None /\ page = "blank" /\ leaving = FALSE
    /\ login = NewLogin /\ dash = NewDash
    /\ flows = [f \in Flow |-> IdleFlow]
    /\ calls = [a \in Call |-> IdleCall]
    /\ left = {} /\ smooth = TRUE

------------------------------------------------------------------------------
(* The host: `sk create`, `sk delete`, and the agent, whose signing bridge *)
(* loads the identity when the agent starts, or gives up for good.         *)

SkCreate(d) ==
    /\ host.files = None /\ d \notin host.drawn
    /\ host' = [host EXCEPT !.files = d, !.drawn = @ \cup {d}]
    /\ UNCHANGED <<server, tab, flows, calls, history>>

SkDelete ==
    /\ host.files # None
    /\ host' = [host EXCEPT !.files = None]
    /\ UNCHANGED <<server, tab, flows, calls, history>>

AgentStart ==
    /\ ~host.agent
    /\ host' = [host EXCEPT !.agent = TRUE, !.bridge = host.files]
    /\ UNCHANGED <<server, tab, flows, calls, history>>

AgentStop ==
    /\ host.agent
    /\ host' = [host EXCEPT !.agent = FALSE, !.bridge = None]
    /\ UNCHANGED <<server, tab, flows, calls, history>>

------------------------------------------------------------------------------
(* The page: main.tsx, a reload asked for by the code or by the user.      *)

\* App: a token in sessionStorage, dead or alive, stands for a login.
App == IF store # None THEN "dashboard" ELSE "login"

Mount ==
    /\ page = "blank"
    /\ page' = App
    /\ login' = [NewLogin EXCEPT !.blind = host.agent /\ host.files # None]
    /\ dash' = NewDash
    /\ UNCHANGED <<server, host, store, leaving, flows, calls, history>>

\* The document goes away and with it every promise of its script.
Unload ==
    /\ page # "blank"
    /\ page' = "blank" /\ leaving' = FALSE
    /\ login' = NewLogin /\ dash' = NewDash
    /\ flows' = [f \in Flow |-> IdleFlow]
    /\ calls' = [a \in Call |-> IdleCall]
    /\ smooth' = (smooth /\ Busy = {} /\ (leaving \/ Pending(Logouts) = {}))
    /\ UNCHANGED <<server, host, store, left>>

------------------------------------------------------------------------------
(* Login: discover() on mount, and its answer.                             *)

\* Server.discover names the device of the bridge, or answers
\* {available: false} when the bridge cannot be reached.
ServerDiscover == host.bridge

\* discover(): the answer, or a rejection.
DiscoverOutcomes == {[ok |-> TRUE, id |-> ServerDiscover], [ok |-> FALSE, id |-> None]}

LoginEffect ==
    /\ page = "login" /\ login.text = "searching"
    /\ \E d \in DiscoverOutcomes :
         login' = [login EXCEPT
                     !.id = d.id,
                     !.text = IF ~d.ok THEN "unreachable"
                              ELSE IF d.id # None THEN "detected" ELSE "missing",
                     !.blind = @ /\ d.id = None /\ host.agent /\ host.files # None]
    /\ UNCHANGED <<server, host, store, page, leaving, dash, flows, calls, history>>

------------------------------------------------------------------------------
(* Login: the button, and authenticate() request by request.               *)

\* The button is there once a device was detected, also while a run of
\* authenticate() is under way.
LoginButton == page = "login" /\ login.id # None

Signing == page = "login" /\ login.text = "signing"

ClickLogin(f) ==
    /\ LoginButton /\ flows[f].pc = "idle"
    /\ flows' = [flows EXCEPT ![f] = [IdleFlow EXCEPT !.pc = "challenge", !.dev = login.id]]
    /\ login' = [login EXCEPT !.text = "signing"]
    /\ smooth' = (smooth /\ Busy = {})
    /\ UNCHANGED <<server, host, store, page, leaving, dash, calls, left>>

AuthenticateFails_silent(f) ==       \* mutant: login() does not catch
    /\ flows' = [flows EXCEPT ![f] = IdleFlow]
    /\ UNCHANGED <<host, tab, calls, left>>

\* authenticate() throws and login() shows why, if its page is still there.
AuthenticateFails(f) ==
    /\ flows' = [flows EXCEPT ![f] = IdleFlow]
    /\ login' = IF page = "login" THEN [login EXCEPT !.text = "refused"] ELSE login
    /\ UNCHANGED <<host, store, page, leaving, dash, calls, left>>

AuthChallenge(f) ==
    /\ flows[f].pc = "challenge"
    /\ \/ \E c \in Chal :
            /\ Server!Issue(c)
            /\ flows' = [flows EXCEPT ![f].pc = "sign", ![f].chal = c]
            /\ UNCHANGED <<host, tab, calls, left>>
       \/ AuthenticateFails(f) /\ UNCHANGED server      \* 403
    /\ UNCHANGED smooth

\* Server.sign passes the challenge on to the bridge, whose identity need
\* not be the one that was discovered.
ServerSign == host.bridge

AuthSign(f) ==
    /\ flows[f].pc = "sign"
    /\ \/ /\ ServerSign # None
          /\ flows' = [flows EXCEPT ![f].pc = "verify", ![f].sig = ServerSign]
          /\ UNCHANGED <<host, tab, calls, left>>
       \/ AuthenticateFails(f)                          \* 503
    /\ UNCHANGED <<server, smooth>>

AuthVerify(f) ==
    /\ flows[f].pc = "verify"
    /\ \/ /\ Server!Take(flows[f].chal)
          /\ flows' = [flows EXCEPT ![f].pc = "judging"]
          /\ UNCHANGED <<host, tab, calls, left>>
       \/ /\ AuthenticateFails(f)                       \* 401: expired or gone
          /\ \/ Server!Refuse(flows[f].chal)
             \/ chal[flows[f].chal] # "open" /\ UNCHANGED server
    /\ UNCHANGED smooth

AuthVerdict(f) ==
    /\ flows[f].pc = "judging"
    /\ \/ \E s \in Sess :
            /\ flows[f].sig = flows[f].dev
            /\ Server!Grant(flows[f].chal, s)
            /\ flows' = [flows EXCEPT ![f].pc = "granted", ![f].sess = s]
            /\ UNCHANGED <<host, tab, calls, left>>
       \/ Server!Refuse(flows[f].chal) /\ AuthenticateFails(f)
    /\ UNCHANGED smooth

AuthStore_undefined(f) ==            \* mutant: a field the answer does not have
    /\ flows[f].pc = "granted"
    /\ store' = "undefined" /\ page' = "dashboard"
    /\ flows' = [flows EXCEPT ![f] = IdleFlow]
    /\ UNCHANGED <<server, host, leaving, login, dash, calls, history>>

\* sessionStorage.setItem, then onSuccess: App renders the dashboard, unless
\* an earlier run has made it do so.
AuthStore(f) ==
    /\ flows[f].pc = "granted"
    /\ store' = flows[f].sess
    /\ page' = "dashboard"
    /\ flows' = [flows EXCEPT ![f] = IdleFlow]
    /\ UNCHANGED <<server, host, leaving, login, dash, calls, history>>

\* A request or an answer is lost, perhaps with the web process.
AuthLost(f) ==
    /\ flows[f].pc # "idle"
    /\ AuthenticateFails(f)
    /\ smooth' = FALSE
    /\ UNCHANGED server

------------------------------------------------------------------------------
(* Dashboard: load(), "Try again" and "Log out".                           *)

\* What the dashboard shows: an error with "Try again", a spinner or data.
ErrorState == page = "dashboard" /\ dash.error
Loading == page = "dashboard" /\ ~dash.error /\ dash.system = None

Api_noBearer(a) ==                   \* mutant: the Authorization header is not set
    /\ calls[a].pc = "idle"
    /\ calls' = [calls EXCEPT ![a] = [pc |-> "sent", tok |-> None]]

\* api() reads the token now.
Api(a) ==
    /\ calls[a].pc = "idle"
    /\ calls' = [calls EXCEPT ![a] = [pc |-> "sent", tok |-> store]]

GetSystem(a) == Api(a)

Load_keepsError(a) ==                \* mutant: no setError('')
    /\ GetSystem(a)
    /\ dash' = [dash EXCEPT !.due = FALSE, !.system = None]

Load(a) ==
    /\ GetSystem(a)
    /\ dash' = [due |-> FALSE, error |-> FALSE, system |-> None]

LoadEffect(a) ==
    /\ page = "dashboard" /\ dash.due
    /\ Load(a)
    /\ UNCHANGED <<server, host, store, page, leaving, login, flows, history>>

ClickRetry(a) ==
    /\ ErrorState
    /\ Load(a)
    /\ UNCHANGED <<server, host, store, page, leaving, login, flows, history>>

ClickLogout(a) ==
    /\ page = "dashboard"
    /\ Api(a)
    /\ UNCHANGED <<server, host, tab, flows, history>>

Answer(a, pc) == calls' = [calls EXCEPT ![a].pc = pc]
Settle(a) == calls' = [calls EXCEPT ![a] = IdleCall]
Bears(a, s) == calls[a].tok = s

\* Server.protected in front of Server.system.
SystemServed(a) ==
    /\ calls[a].pc = "sent"
    /\ IF \E s \in Sess : Bears(a, s) /\ sess[s] = "live"
         THEN Answer(a, "ok") ELSE Answer(a, "fail")
    /\ UNCHANGED <<server, host, tab, flows, history>>

\* Server.logout: 204 whatever the token.
LogoutServed(a) ==
    /\ calls[a].pc = "sent"
    /\ \/ \E s \in Sess : Bears(a, s) /\ Server!End(s)
       \/ UNCHANGED server /\ ~\E s \in Sess : Bears(a, s) /\ sess[s] = "live"
    /\ Answer(a, "ok")
    /\ UNCHANGED <<host, tab, flows, history>>

CallLost(a) ==
    /\ calls[a].pc \in {"sent", "ok"}
    /\ Answer(a, "fail")
    /\ smooth' = FALSE
    /\ UNCHANGED <<server, host, tab, flows, left>>

SystemSettled_noCatch(a) ==          \* mutant: a rejected getSystem() is not caught
    /\ calls[a].pc \in {"ok", "fail"}
    /\ dash' = IF calls[a].pc = "ok" THEN [dash EXCEPT !.system = calls[a].tok] ELSE dash
    /\ Settle(a)
    /\ UNCHANGED <<server, host, store, page, leaving, login, flows, history>>

SystemSettled(a) ==
    /\ \/ calls[a].pc = "ok" /\ dash' = [dash EXCEPT !.system = calls[a].tok]
       \/ calls[a].pc = "fail" /\ dash' = [dash EXCEPT !.error = TRUE]
    /\ Settle(a)
    /\ UNCHANGED <<server, host, store, page, leaving, login, flows, history>>

LogoutSettled_then(a) ==             \* mutant: .then for .finally
    /\ calls[a].pc \in {"ok", "fail"}
    /\ store' = IF calls[a].pc = "ok" THEN None ELSE store
    /\ leaving' = (leaving \/ calls[a].pc = "ok")
    /\ Settle(a)
    /\ left' = left \cup ({calls[a].tok} \ {None})
    /\ UNCHANGED <<server, host, page, login, dash, flows, smooth>>

LogoutSettled_stays(a) ==            \* mutant: no location.reload()
    /\ calls[a].pc \in {"ok", "fail"}
    /\ store' = None /\ Settle(a)
    /\ left' = left \cup ({calls[a].tok} \ {None})
    /\ UNCHANGED <<server, host, page, leaving, login, dash, flows, smooth>>

\* .finally removes the token whatever the outcome; .then reloads only after
\* an answer.
LogoutSettled(a) ==
    /\ calls[a].pc \in {"ok", "fail"}
    /\ store' = None
    /\ leaving' = (leaving \/ calls[a].pc = "ok")
    /\ Settle(a)
    /\ left' = left \cup ({calls[a].tok} \ {None})
    /\ UNCHANGED <<server, host, page, login, dash, flows, smooth>>

------------------------------------------------------------------------------
(* The web process on its own: the fifteen minutes of a session are over;  *)
(* an answer is judged that nobody waits for any more; a restart.          *)

Expire(s) == Server!End(s) /\ UNCHANGED <<host, tab, flows, calls, history>>

Unheard(c) ==
    /\ ~\E f \in Flow : flows[f].pc = "judging" /\ flows[f].chal = c
    /\ chal[c] = "answering"
    /\ Server!Refuse(c) \/ \E s \in Sess : Server!Grant(c, s)
    /\ UNCHANGED <<host, tab, flows, calls, history>>

WebRestart == Server!Restart /\ UNCHANGED <<host, tab, flows, calls, history>>

HostNext == (\E d \in Device : SkCreate(d)) \/ SkDelete \/ AgentStart \/ AgentStop

FlowNext(f) ==
    \/ AuthChallenge(f) \/ AuthSign(f) \/ AuthVerify(f) \/ AuthVerdict(f)
    \/ AuthStore(f) \/ AuthLost(f)

LoadNext(a) == SystemServed(a) \/ SystemSettled(a) \/ CallLost(a)

LogoutNext(a) == LogoutServed(a) \/ LogoutSettled(a) \/ CallLost(a)

ServerNext ==
    \/ \E s \in Sess : Expire(s)
    \/ \E c \in Chal : Unheard(c)
    \/ WebRestart

Next ==
    \/ HostNext \/ Mount \/ Unload \/ LoginEffect \/ ServerNext
    \/ \E f \in Flow : ClickLogin(f) \/ FlowNext(f)
    \/ \E a \in Loads : LoadEffect(a) \/ ClickRetry(a) \/ LoadNext(a)
    \/ \E a \in Logouts : ClickLogout(a) \/ LogoutNext(a)

(* fetch() settles: the server and its bridge client have timeouts, and a  *)
(* broken connection rejects.  The browser runs effects and finishes       *)
(* reloads.  Nothing is assumed of the user, the host and the server.      *)
Fairness ==
    /\ \A f \in Flow : WF_vars(FlowNext(f))
    /\ \A a \in Loads : WF_vars(LoadNext(a))
    /\ \A a \in Logouts : WF_vars(LogoutNext(a))
    /\ WF_vars(\E a \in Loads : LoadEffect(a))
    /\ WF_vars(LoginEffect)
    /\ WF_vars(leaving /\ Unload)
    /\ WF_vars(Mount)

Spec == Init /\ [][Next]_vars /\ Fairness

------------------------------------------------------------------------------
(* Properties.                                                             *)

(* As long as no call was lost, no page was left in the middle of a login  *)
(* or sign-out and no login was started beside another one, the tab holds  *)
(* every session the server keeps for it: logout() sends the token it is   *)
(* about to forget, and authenticate() stores the one it was given.        *)
HeldSessions ==
    smooth => \A s \in Sess : sess[s] = "live" =>
                \/ store = s
                \/ \E f \in Flow : flows[f].sess = s

(* Once logout() has settled, whatever became of its request, the token it *)
(* was called with is not in sessionStorage, and no reload or late answer  *)
(* of a login brings it back.                                              *)
SignedOutGone == store \notin left

(* However fast "Try again" follows a failure, at most one getSystem() is  *)
(* under way, so a late answer never overwrites a later one, and an error  *)
(* is never shown over data or data beside an error.                       *)
OneLoad ==
    /\ Cardinality(Pending(Loads)) <= 1
    /\ dash.error => dash.system = None /\ Pending(Loads) = {}

(* Nothing the user waits for hangs, whatever is lost or restarted: the    *)
(* spinner of the dashboard ends in data, an error or another page, and    *)
(* "Signing challenge..." in the dashboard or a reason.                    *)
WaitingEnds ==
    /\ Loading ~> ~Loading
    /\ Signing ~> ~Signing

(* A sign-out the server has answered ends on the Login page, also when    *)
(* the session was dead already, unless a call was lost, the user reloads  *)
(* first, or a second login has been under way.                            *)
SignOutLands ==
    (\E a \in Pending(Logouts) : calls[a].pc = "ok") ~> page = "login" \/ ~smooth

(* Login.tsx says "Create a local identity, then refresh this page.": with *)
(* an identity on disk and the agent running when it is loaded, a page     *)
(* does not report that there is no device.                                *)
RefreshFindsIdentity == login.text = "missing" => ~login.blind
==============================================================================
