------------------------------- MODULE MCEngine -------------------------------
(* Three states, so that a request can name the state being left, the one being entered and *)
(* a third one, and two requests per call, so that an Exit and an Entry action can both ask. *)
EXTENDS Engine
=============================================================================
