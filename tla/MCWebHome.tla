------------------------------- MODULE MCWebHome ------------------------------
(* Instances of WebHome for TLC. *)
EXTENDS WebHome
=============================================================================
