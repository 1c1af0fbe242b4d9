----------------------------- MODULE MCProviders -----------------------------
(* Two accounts sign in one after the other; two rooms to save. *)
EXTENDS Providers
=============================================================================
