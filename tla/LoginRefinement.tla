--------------------------- MODULE LoginRefinement ---------------------------
(***************************************************************************)
(* DeviceTrust, with its handlers, its two maps and its clock, implements  *)
(* AuthServer.  A challenge is open while it is in the map, and answering  *)
(* while the handler that took it is between the map of challenges and the *)
(* map of sessions; a session is live while it is in the map.              *)
(***************************************************************************)
EXTENDS DeviceTrust

ChallengeState(c) ==
    IF c \notin Drawn THEN "unused"
    ELSE IF \E x \in challenges : x.id = c THEN "open"
    ELSE IF \E r \in Req : req[r].chal = c /\ req[r].pc \in {"vget", "vaudit", "vsession"}
           THEN "answering"
    ELSE "done"

SessionState(s) ==
    IF s \notin Logins THEN "unused"
    ELSE IF \E x \in sessions : x.id = s THEN "live" ELSE "ended"

AbsChal == [c \in Chal |-> ChallengeState(c)]
AbsSess == [s \in Sess |-> SessionState(s)]

Promise == INSTANCE AuthServer WITH chal <- AbsChal, sess <- AbsSess

(* Every interleaving of the handlers of Server and Authenticator, with    *)
(* restarts, looks from outside like AuthServer: a challenge goes from the *)
(* map to one handler and from it to at most one session, and neither is   *)
(* ever reissued or revived.                                               *)
ServerPromise == Promise!Spec
==============================================================================
