---------------------------- MODULE MCConnection ----------------------------
(* Instances of Connection for TLC: which calls, and which of the hazards  *)
(* the environment shows, is said in the .cfg files.                       *)
EXTENDS Connection
=============================================================================
