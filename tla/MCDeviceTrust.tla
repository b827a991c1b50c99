---------------------------- MODULE MCDeviceTrust ----------------------------
(* Instances of DeviceTrust.  Two tokens carry the same device id under    *)
(* different keys, and a third repeats the second's key under another id,  *)
(* so that each refusal of Replace is met alone.                           *)
EXTENDS LoginRefinement, TLC

CONSTANTS d1, d2, k1, k2, t1, t2, t3

LoginTokenDevice == [t \in Token |-> d1]
LoginTokenKey == [t \in Token |-> k1]

PairTokenDevice == (t1 :> d1) @@ (t2 :> d1) @@ (t3 :> d2)
PairTokenKey == (t1 :> k1) @@ (t2 :> k2) @@ (t3 :> k2)

LoginSymmetry == Permutations(Req) \cup Permutations(Chal) \cup Permutations(Sess)
==============================================================================
