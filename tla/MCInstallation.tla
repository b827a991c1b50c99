---------------------------- MODULE MCInstallation ----------------------------
(* Two prefixes, of which /usr/local is the default, and two user ids.      *)
EXTENDS Installation, TLC

Symmetry == Permutations(Uid)
==============================================================================
