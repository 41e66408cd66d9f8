----------------------------- MODULE MCKeyboard -----------------------------
(* An instance of Keyboard for TLC. *)
EXTENDS Keyboard
=============================================================================
