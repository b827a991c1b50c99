--------------------------- MODULE MCLocalIdentity ---------------------------
(* Instances of LocalIdentity; the cfg files give the constants.           *)
EXTENDS LocalIdentity, TLC

IdentitySymmetry == Permutations(Ident) \cup Permutations(Cli)
==============================================================================
