------------------------------ MODULE MCWebPanel ------------------------------
(* Instances of WebPanel: one tab, two logins that may overtake each other, *)
(* and room for two loads, of which there is never more than one.           *)
EXTENDS WebPanel
==============================================================================
