---------------------------- MODULE MCClientPrefs ----------------------------
(* An instance of ClientPrefs for TLC. *)
EXTENDS ClientPrefs
=============================================================================
