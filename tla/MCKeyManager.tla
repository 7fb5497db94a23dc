---------------------------- MODULE MCKeyManager ----------------------------
(* An instance of KeyManager for TLC. *)
EXTENDS KeyManager

=============================================================================
