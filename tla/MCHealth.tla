------------------------------- MODULE MCHealth -------------------------------
(* One account, one call on it, and one administrator. *)
EXTENDS AccountHealth
=============================================================================
