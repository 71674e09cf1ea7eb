----------------------------- MODULE MCBitStream ------------------------------
(* Inputs of up to three chunks: shorter than a chunk, of exactly one and two chunks, and ones *)
(* that overflow a buffer the observer does not empty. *)
EXTENDS BitStream
=============================================================================
