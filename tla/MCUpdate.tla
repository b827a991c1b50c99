------------------------------ MODULE MCUpdate -------------------------------
(* Instances of Update; the cfg files give the constants.                  *)
EXTENDS Update
==============================================================================
