---------------------------- MODULE MCMigrations -----------------------------
(* Instances of Migrations; the cfg files give the constants.              *)
EXTENDS Migrations
==============================================================================
