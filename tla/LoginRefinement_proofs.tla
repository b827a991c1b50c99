------------------------ MODULE LoginRefinement_proofs -----------------------
(***************************************************************************)
(* DeviceTrust implements AuthServer, for every set of handlers, devices,  *)
(* challenges and sessions: every step of a handler, a command or the web  *)
(* process is a step of AuthServer or changes nothing it can see.          *)
(***************************************************************************)
EXTENDS LoginRefinement, DeviceTrust_proofs

(* A challenge in the map, and one that a handler has taken out of it.     *)
Open(c) == \E x \in challenges : x.id = c
Answering(c) == \E r \in Req : Taken(r) /\ req[r].chal = c

(* A session in the map.                                                   *)
Live(s) == \E x \in sessions : x.id = s

------------------------------------------------------------------------------
(* Lemmas about the mapping.                                               *)

(* The four states of a challenge.                                         *)
LEMMA ChallengeStates ==
  ASSUME NEW c \in Chal, TrustInv
  PROVE  /\ c \notin Drawn => AbsChal[c] = "unused" /\ ~Open(c) /\ ~Answering(c)
         /\ Open(c) => AbsChal[c] = "open" /\ c \in Drawn /\ ~Answering(c)
         /\ Answering(c) => AbsChal[c] = "answering" /\ c \in Drawn /\ ~Open(c)
         /\ c \in Drawn /\ ~Open(c) /\ ~Answering(c) => AbsChal[c] = "done"
<1>1. Open(c) => c \in Drawn
  BY DEF TrustInv, ChallengeOrigin, Open, Drawn
<1>2. Answering(c) => c \in Drawn
  BY DEF TrustInv, ChallengeOrigin, Answering, Drawn
<1>3. ~(Open(c) /\ Answering(c))
  BY DEF TrustInv, ChallengePlace, Open, Answering
<1>4. AbsChal[c] = IF c \notin Drawn THEN "unused"
                   ELSE IF Open(c) THEN "open"
                   ELSE IF Answering(c) THEN "answering" ELSE "done"
  BY DEF AbsChal, ChallengeState, Open, Answering, Taken
<1> QED BY <1>1, <1>2, <1>3, <1>4

(* The same after a step.                                                  *)
LEMMA ChallengeStatesNext ==
  ASSUME NEW c \in Chal
  PROVE  AbsChal'[c] = IF c \notin Drawn' THEN "unused"
                       ELSE IF Open(c)' THEN "open"
                       ELSE IF Answering(c)' THEN "answering" ELSE "done"
  BY DEF AbsChal, ChallengeState, Open, Answering, Taken

(* A challenge whose place does not change keeps its state.                *)
LEMMA ChallengeKept ==
  ASSUME NEW c \in Chal, c \in Drawn' <=> c \in Drawn,
         Open(c)' <=> Open(c), Answering(c)' <=> Answering(c)
  PROVE  AbsChal'[c] = AbsChal[c]
  BY DEF AbsChal, ChallengeState, Open, Answering, Taken

(* The three states of a session.                                          *)
LEMMA SessionStates ==
  ASSUME NEW s \in Sess
  PROVE  /\ AbsSess[s] = IF s \notin Logins THEN "unused"
                         ELSE IF Live(s) THEN "live" ELSE "ended"
         /\ AbsSess'[s] = IF s \notin Logins' THEN "unused"
                          ELSE IF Live(s)' THEN "live" ELSE "ended"
  BY DEF AbsSess, SessionState, Live

(* Both maps of the abstract server are functions.                         *)
LEMMA AbsFunctions ==
  /\ AbsChal = [c \in Chal |-> AbsChal[c]] /\ AbsChal' = [c \in Chal |-> AbsChal'[c]]
  /\ AbsSess = [s \in Sess |-> AbsSess[s]] /\ AbsSess' = [s \in Sess |-> AbsSess'[s]]
  BY DEF AbsChal, AbsSess

(* A step that moves no challenge is invisible to the challenges.          *)
LEMMA ChallengesKept ==
  ASSUME UNCHANGED <<issued, challenges>>,
         \A c \in Chal : Answering(c)' <=> Answering(c)
  PROVE  AbsChal' = AbsChal
<1>1. \A c \in Chal : AbsChal'[c] = AbsChal[c]
  BY ChallengeKept DEF Drawn, Open
<1> QED BY <1>1, AbsFunctions

(* A step that touches no session is invisible to the sessions.            *)
LEMMA SessionsKept ==
  ASSUME UNCHANGED <<granted, sessions>>
  PROVE  AbsSess' = AbsSess
  BY DEF AbsSess, SessionState, Logins

------------------------------------------------------------------------------
(* Every step of DeviceTrust is one of AuthServer or invisible to it.      *)

(* What a step is to the abstract server.                                  *)
Visible == Promise!Next \/ UNCHANGED <<AbsChal, AbsSess>>

(* Commands, the clock, and handlers that hold no challenge.               *)
LEMMA Invisible ==
  ASSUME UNCHANGED <<issued, challenges, granted, sessions>>,
         \A r \in Req : \/ req'[r] = req[r]
                        \/ ~Taken(r) /\ ~Taken(r)'
                        \/ Taken(r) /\ Taken(r)' /\ req'[r].chal = req[r].chal
  PROVE  Visible
<1>1. \A r \in Req : /\ Taken(r)' <=> Taken(r)
                     /\ Taken(r) => req'[r].chal = req[r].chal
  BY DEF Taken
<1>2. \A c \in Chal : Answering(c)' <=> Answering(c)
  BY <1>1 DEF Answering
<1> QED BY <1>2, ChallengesKept, SessionsKept DEF Visible

(* Authenticator.Challenge stores a fresh challenge: Issue.                *)
LEMMA ChallengeInsertVisible ==
  ASSUME TrustInv, NEW r \in Req, NEW c \in Chal, ChallengeInsert(r, c)
  PROVE  Visible
<1>1. \A q \in Req : Taken(q)' <=> Taken(q)
  BY DEF TrustInv, TypeOK, ChallengeInsert, Taken, IdleReq
<1>2. \A q \in Req : Taken(q) => req'[q].chal = req[q].chal
  BY DEF TrustInv, TypeOK, ChallengeInsert, Taken
<1>3. \A e \in Chal : Answering(e)' <=> Answering(e)
  BY <1>1, <1>2 DEF Answering
<1>4. \A e \in Chal : e # c => (e \in Drawn' <=> e \in Drawn) /\ (Open(e)' <=> Open(e))
  BY DEF ChallengeInsert, Drawn, Open
<1>5. c \notin Drawn /\ c \in Drawn' /\ Open(c)'
  <2>1. PICK i, x : /\ i.id = c /\ issued' = issued \cup {i}
                    /\ x.id = c /\ challenges' = challenges \cup {x}
    BY DEF ChallengeInsert
  <2> QED BY <2>1 DEF ChallengeInsert, Drawn, Open
<1>6. AbsChal[c] = "unused" /\ AbsChal'[c] = "open"
  BY <1>5, ChallengeStates, ChallengeStatesNext
<1>7. \A e \in Chal : e # c => AbsChal'[e] = AbsChal[e]
  BY <1>3, <1>4, ChallengeKept
<1>8. AbsChal' = [AbsChal EXCEPT ![c] = "open"]
  BY <1>6, <1>7, AbsFunctions
<1>9. AbsSess' = AbsSess
  BY SessionsKept DEF ChallengeInsert
<1>10. Promise!Issue(c)
  BY <1>6, <1>8, <1>9 DEF Promise!Issue
<1> QED BY <1>10 DEF Visible, Promise!Next

(* A handler takes the challenge out of the map: Take if it is in time,    *)
(* Refuse if it has expired, and nothing if another handler was first.     *)
LEMMA VerifyTakeVisible ==
  ASSUME TrustInv, NEW r \in Req, VerifyTake(r)
  PROVE  Visible
<1>1. req[r].chal \in Chal /\ ~Taken(r)
  BY DEF TrustInv, StageOK, VerifyTake, Taken
<1>c. PICK c \in Chal : c = req[r].chal
  BY <1>1
<1>2. \A q \in Req : q # r => req'[q] = req[q]
  BY DEF TrustInv, TypeOK, VerifyTake
<1>3. UNCHANGED <<issued, granted, sessions>>
  BY DEF VerifyTake, history
<1>4. AbsSess' = AbsSess
  BY <1>3, SessionsKept
<1>5. CASE ~Open(c)
  <2>1. challenges' = challenges /\ ~Taken(r)'
    BY <1>c, <1>5 DEF TrustInv, TypeOK, VerifyTake, Open, Taken, IdleReq
  <2> QED BY <1>1, <1>2, <1>3, <2>1, Invisible
<1>6. CASE Open(c)
  <2>1. ~Open(c)' /\ c \in Drawn /\ Drawn' = Drawn
    BY <1>c, <1>3, <1>6, ChallengeStates DEF VerifyTake, Open, Drawn
  <2>2. \A e \in Chal : e # c => (Open(e)' <=> Open(e))
    BY <1>c DEF VerifyTake, Open
  <2>3. \A q \in Req : q # r => (Taken(q)' <=> Taken(q)) /\ req'[q].chal = req[q].chal
    BY <1>2 DEF Taken
  <2>4. AbsChal[c] = "open" /\ ~Answering(c)
    BY <1>1, <1>6, ChallengeStates
  <2>5. CASE Taken(r)'
    <3>1. req'[r].chal = c
      BY <1>c, <2>5 DEF TrustInv, TypeOK, ReqRec, VerifyTake, Taken, IdleReq
    <3>2. Answering(c)' /\ \A e \in Chal : e # c => (Answering(e)' <=> Answering(e))
      BY <1>1, <2>3, <2>5, <3>1 DEF Answering
    <3>3. AbsChal'[c] = "answering" /\ \A e \in Chal : e # c => AbsChal'[e] = AbsChal[e]
      BY <1>1, <2>1, <2>2, <3>2, ChallengeStatesNext, ChallengeKept
    <3>4. AbsChal' = [AbsChal EXCEPT ![c] = "answering"]
      BY <3>3, AbsFunctions
    <3>5. Promise!Take(c)
      BY <1>4, <2>4, <3>4 DEF Promise!Take
    <3> QED BY <1>1, <3>5 DEF Visible, Promise!Next
  <2>6. CASE ~Taken(r)'
    <3>1. \A e \in Chal : Answering(e)' <=> Answering(e)
      BY <1>1, <2>3, <2>6 DEF Answering
    <3>2. AbsChal'[c] = "done" /\ \A e \in Chal : e # c => AbsChal'[e] = AbsChal[e]
      BY <1>1, <2>1, <2>2, <2>4, <3>1, ChallengeStatesNext, ChallengeKept
    <3>3. AbsChal' = [AbsChal EXCEPT ![c] = "done"]
      BY <3>2, AbsFunctions
    <3>4. Promise!Refuse(c)
      BY <1>4, <2>4, <3>3 DEF Promise!Refuse
    <3> QED BY <1>1, <3>4 DEF Visible, Promise!Next
  <2> QED BY <2>5, <2>6
<1> QED BY <1>5, <1>6

(* A handler lets go of the challenge it holds: the challenge is done.     *)
LEMMA LetGo ==
  ASSUME TrustInv, NEW r \in Req, Taken(r), ~Taken(r)',
         \A q \in Req : q # r => req'[q] = req[q],
         UNCHANGED <<issued, challenges>>
  PROVE  /\ req[r].chal \in Chal
         /\ AbsChal[req[r].chal] = "answering"
         /\ AbsChal' = [AbsChal EXCEPT ![req[r].chal] = "done"]
<1>0. req[r].chal \in Chal
  BY DEF TrustInv, StageOK
<1>c. PICK c \in Chal : c = req[r].chal
  BY <1>0
<1>1. Answering(c)
  BY <1>c DEF Answering
<1>2. \A q \in Req : q # r => (Taken(q)' <=> Taken(q)) /\ req'[q].chal = req[q].chal
  BY DEF Taken
<1>3. ~Answering(c)'
  BY <1>2, <1>c DEF TrustInv, ChallengePlace, Answering
<1>4. \A e \in Chal : e # c => (Answering(e)' <=> Answering(e))
  BY <1>2, <1>c DEF Answering
<1>5. AbsChal[c] = "answering" /\ c \in Drawn /\ ~Open(c)
  BY <1>1, ChallengeStates
<1>6. Drawn' = Drawn /\ \A e \in Chal : Open(e)' <=> Open(e)
  BY DEF Drawn, Open
<1>7. AbsChal'[c] = "done" /\ \A e \in Chal : e # c => AbsChal'[e] = AbsChal[e]
  BY <1>1, <1>3, <1>4, <1>5, <1>6, ChallengeStatesNext, ChallengeKept
<1>8. AbsChal' = [AbsChal EXCEPT ![c] = "done"]
  BY <1>7, AbsFunctions
<1> QED BY <1>0, <1>5, <1>8, <1>c

(* The answer is judged: accepted, or the challenge is done.               *)
LEMMA VerifyGetVisible ==
  ASSUME TrustInv, NEW r \in Req, VerifyGet(r)
  PROVE  Visible
<1>1. /\ Taken(r) /\ UNCHANGED <<issued, challenges, granted, sessions>>
      /\ \A q \in Req : q # r => req'[q] = req[q]
  BY DEF TrustInv, TypeOK, VerifyGet, Taken, history
<1>2. CASE Taken(r)'
  <2>1. req'[r].chal = req[r].chal
    BY <1>2 DEF TrustInv, TypeOK, ReqRec, VerifyGet, Taken, IdleReq
  <2> QED BY <1>1, <1>2, <2>1, Invisible
<1>3. CASE ~Taken(r)'
  <2>1. Promise!Refuse(req[r].chal) /\ req[r].chal \in Chal
    BY <1>1, <1>3, LetGo, SessionsKept DEF Promise!Refuse
  <2> QED BY <2>1 DEF Visible, Promise!Next
<1> QED BY <1>2, <1>3

(* Server.verify stores the session: Grant.                                *)
LEMMA VerifySessionVisible ==
  ASSUME TrustInv, NEW r \in Req, NEW s \in Sess, VerifySession(r, s)
  PROVE  Visible
<1>1. /\ Taken(r) /\ ~Taken(r)' /\ UNCHANGED <<issued, challenges>>
      /\ \A q \in Req : q # r => req'[q] = req[q]
  BY DEF TrustInv, TypeOK, VerifySession, Taken, IdleReq
<1>2. /\ req[r].chal \in Chal /\ AbsChal[req[r].chal] = "answering"
      /\ AbsChal' = [AbsChal EXCEPT ![req[r].chal] = "done"]
  BY <1>1, LetGo
<1>3. s \notin Logins /\ s \in Logins' /\ Live(s)'
  <2>1. PICK g, x : /\ g.sess = s /\ granted' = granted \cup {g}
                    /\ x.id = s /\ sessions' = sessions \cup {x}
    BY DEF VerifySession
  <2> QED BY <2>1 DEF VerifySession, Logins, Live
<1>4. \A t \in Sess : t # s => (t \in Logins' <=> t \in Logins) /\ (Live(t)' <=> Live(t))
  BY DEF VerifySession, Logins, Live
<1>5. AbsSess[s] = "unused" /\ AbsSess'[s] = "live"
  BY <1>3, SessionStates
<1>6. \A t \in Sess : t # s => AbsSess'[t] = AbsSess[t]
  BY <1>4, SessionStates
<1>7. AbsSess' = [AbsSess EXCEPT ![s] = "live"]
  BY <1>5, <1>6, AbsFunctions
<1>8. Promise!Grant(req[r].chal, s)
  BY <1>2, <1>5, <1>7 DEF Promise!Grant
<1> QED BY <1>2, <1>8 DEF Visible, Promise!Next

(* A session leaves the map, by logout or because it was met expired: End, *)
(* or nothing if it was gone before.                                       *)
LEMMA SessionEndVisible ==
  ASSUME TrustInv, NEW s \in Sess,
         sessions' = {x \in sessions : x.id # s},
         UNCHANGED <<issued, challenges, req, granted>>
  PROVE  Visible
<1>1. AbsChal' = AbsChal
  BY ChallengesKept DEF Answering, Taken
<1>2. ~Live(s)' /\ Logins' = Logins /\ \A t \in Sess : t # s => (Live(t)' <=> Live(t))
  BY DEF Live, Logins
<1>3. \A t \in Sess : t # s => AbsSess'[t] = AbsSess[t]
  BY <1>2, SessionStates
<1>4. CASE Live(s)
  <2>1. s \in Logins
    BY <1>4 DEF TrustInv, SessionOrigin, Live, Logins
  <2>2. AbsSess[s] = "live" /\ AbsSess'[s] = "ended"
    BY <1>2, <1>4, <2>1, SessionStates
  <2>3. AbsSess' = [AbsSess EXCEPT ![s] = "ended"]
    BY <1>3, <2>2, AbsFunctions
  <2>4. Promise!End(s)
    BY <1>1, <2>2, <2>3 DEF Promise!End
  <2> QED BY <2>4 DEF Visible, Promise!Next
<1>5. CASE ~Live(s)
  <2>1. AbsSess'[s] = AbsSess[s]
    BY <1>2, <1>5, SessionStates
  <2>2. AbsSess' = AbsSess
    BY <1>3, <2>1, AbsFunctions
  <2> QED BY <1>1, <2>2 DEF Visible
<1> QED BY <1>4, <1>5

(* The web process forgets both maps and its handlers: Restart.            *)
LEMMA WebRestartVisible ==
  ASSUME TrustInv, WebRestart
  PROVE  Visible
<1>1. Drawn' = Drawn /\ Logins' = Logins
  BY DEF WebRestart, history, Drawn, Logins
<1>2. \A c \in Chal : ~Open(c)' /\ ~Answering(c)'
  BY DEF WebRestart, Open, Answering, Taken, IdleReq
<1>3. \A c \in Chal : AbsChal'[c] = IF AbsChal[c] = "unused" THEN "unused" ELSE "done"
  BY <1>1, <1>2, ChallengeStates, ChallengeStatesNext
<1>4. \A s \in Sess : ~Live(s)'
  BY DEF WebRestart, Live
<1>5. \A s \in Sess : AbsSess'[s] = IF AbsSess[s] = "unused" THEN "unused" ELSE "ended"
  BY <1>1, <1>4, SessionStates
<1>6. Promise!Restart
  BY <1>3, <1>5, AbsFunctions DEF Promise!Restart
<1> QED BY <1>6 DEF Visible, Promise!Next

(* Every step, one disjunct of Next after the other.                       *)
LEMMA StepVisible ==
  ASSUME TrustInv, Next
  PROVE  Visible
<1>1. ASSUME UNCHANGED <<webVars, issued, granted>>
      PROVE  Visible
  BY <1>1, Invisible DEF webVars
<1>2. CASE Tick
  BY <1>1, <1>2 DEF Tick, history
<1>3. CASE \E t \in Token : PairingToken(t)
  BY <1>1, <1>3 DEF PairingToken, history
<1>4. CASE \E p \in Cli : CliNext(p)
  BY <1>1, <1>4 DEF CliNext, ReplaceParse, ReplaceRead, ReplaceCommit, RevokeUpdate,
     RevokeAudit, CliCrash, history
<1>5. ASSUME NEW r \in Req, ReqNext(r)
      PROVE  Visible
  <2>1. ASSUME NEW d \in Device, ChallengeArrive(r, d)
        PROVE  Visible
    <3>1. \A q \in Req : req'[q] = req[q] \/ (~Taken(q) /\ ~Taken(q)')
      BY <2>1 DEF TrustInv, TypeOK, ChallengeArrive, Taken, IdleReq
    <3> QED BY <2>1, <3>1, Invisible DEF ChallengeArrive, history
  <2>2. CASE ChallengeGet(r)
    <3>1. \A q \in Req : req'[q] = req[q] \/ (~Taken(q) /\ ~Taken(q)')
      BY <2>2 DEF TrustInv, TypeOK, ReqRec, ChallengeGet, Taken, IdleReq
    <3> QED BY <2>2, <3>1, Invisible DEF ChallengeGet, history
  <2>3. ASSUME NEW c \in Chal, NEW k \in Key \cup {None}, VerifyArrive(r, c, k)
        PROVE  Visible
    <3>1. \A q \in Req : req'[q] = req[q] \/ (~Taken(q) /\ ~Taken(q)')
      BY <2>3 DEF TrustInv, TypeOK, VerifyArrive, Taken, IdleReq
    <3> QED BY <2>3, <3>1, Invisible DEF VerifyArrive, history
  <2>4. CASE VerifyAudit(r)
    <3>1. \A q \in Req : \/ req'[q] = req[q]
                         \/ Taken(q) /\ Taken(q)' /\ req'[q].chal = req[q].chal
      BY <2>4 DEF TrustInv, TypeOK, ReqRec, VerifyAudit, Taken
    <3> QED BY <2>4, <3>1, Invisible DEF VerifyAudit, history
  <2> QED BY <1>5, <2>1, <2>2, <2>3, <2>4, ChallengeInsertVisible, VerifyTakeVisible,
             VerifyGetVisible, VerifySessionVisible DEF ReqNext
<1>6. ASSUME NEW s \in Sess, Protected(s) \/ Logout(s)
      PROVE  Visible
  <2>1. UNCHANGED <<issued, challenges, req, granted>>
    BY <1>6 DEF Protected, Logout
  <2>2. sessions' = sessions \/ sessions' = {x \in sessions : x.id # s}
    BY <1>6 DEF Protected, Logout
  <2> QED BY <1>1, <2>1, <2>2, SessionEndVisible DEF webVars
<1> QED BY <1>2, <1>3, <1>4, <1>5, <1>6, WebRestartVisible DEF Next

------------------------------------------------------------------------------
(* The detailed server keeps the abstract promise: one challenge, one      *)
(* answer, at most one session, and nothing that ended comes back,         *)
(* whatever handlers, commands and restarts come in between.               *)
THEOREM KeepsPromise == Spec => ServerPromise
<1>1. Init => Promise!Init
  BY DEF Init, Promise!Init, AbsChal, AbsSess, ChallengeState, SessionState, Drawn, Logins
<1>2. TrustInv /\ [Next]_vars => [Promise!vars' # Promise!vars /\ Promise!Next]_(Promise!vars)
  <2>1. CASE Next
    BY <2>1, StepVisible DEF Visible, Promise!vars
  <2>2. CASE UNCHANGED vars
    <3>1. UNCHANGED <<AbsChal, AbsSess>>
      BY <2>2, ChallengesKept, SessionsKept
         DEF vars, webVars, history, Answering, Taken
    <3> QED BY <3>1 DEF Promise!vars
  <2> QED BY <2>1, <2>2
<1> QED BY <1>1, <1>2, TrustInvariant, PTL DEF Spec, ServerPromise, Promise!Spec
==============================================================================
