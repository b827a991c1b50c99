------------------------------ MODULE AuthServer ------------------------------
(***************************************************************************)
(* What the web process promises to those who log in, without its clock,   *)
(* its database and its handlers: a challenge is answered once and yields  *)
(* at most one session, and a session that has ended stays ended.          *)
(* DeviceTrust implements this (LoginRefinement); WebPanel is a browser    *)
(* tab in front of it.                                                     *)
(***************************************************************************)
CONSTANTS
    Chal,   \* challenge ids
    Sess    \* session tokens

VARIABLES
    chal,   \* per challenge: unused, open, answering or done
    sess    \* per session token: unused, live or ended

vars == <<chal, sess>>

ChalStates == {"unused", "open", "answering", "done"}
SessStates == {"unused", "live", "ended"}

Init ==
    /\ chal = [c \in Chal |-> "unused"]
    /\ sess = [s \in Sess |-> "unused"]

\* A fresh challenge is handed out.
Issue(c) ==
    /\ chal[c] = "unused"
    /\ chal' = [chal EXCEPT ![c] = "open"]
    /\ UNCHANGED sess

\* The first answer takes the challenge; no other answer will.
Take(c) ==
    /\ chal[c] = "open"
    /\ chal' = [chal EXCEPT ![c] = "answering"]
    /\ UNCHANGED sess

\* The challenge had expired, or its answer is refused.
Refuse(c) ==
    /\ chal[c] \in {"open", "answering"}
    /\ chal' = [chal EXCEPT ![c] = "done"]
    /\ UNCHANGED sess

\* The answer is good: one fresh session.
Grant(c, s) ==
    /\ chal[c] = "answering" /\ sess[s] = "unused"
    /\ chal' = [chal EXCEPT ![c] = "done"]
    /\ sess' = [sess EXCEPT ![s] = "live"]

\* Logout, or the end of a session's lifetime.
End(s) ==
    /\ sess[s] = "live"
    /\ sess' = [sess EXCEPT ![s] = "ended"]
    /\ UNCHANGED chal

\* Challenges and sessions are kept in memory only.
Restart ==
    /\ chal' = [c \in Chal |-> IF chal[c] = "unused" THEN "unused" ELSE "done"]
    /\ sess' = [s \in Sess |-> IF sess[s] = "unused" THEN "unused" ELSE "ended"]

Next ==
    \/ \E c \in Chal : Issue(c) \/ Take(c) \/ Refuse(c)
    \/ \E c \in Chal, s \in Sess : Grant(c, s)
    \/ \E s \in Sess : End(s)
    \/ Restart

\* The same as [][Next]_vars; written so that TLC, which meets mostly
\* stuttering steps in LoginRefinement, need not try every disjunct on them.
Spec == Init /\ [][vars' # vars /\ Next]_vars
==============================================================================
