---------------------------- MODULE MCParsePositions ----------------------------
(* Streams of two letters and both kinds of newlines, longer than two chunks and than the window. *)
EXTENDS ParsePositions

Strings(bytes, most) == UNION {[1 .. n -> bytes] : n \in 0 .. most}

MCStreams == Strings({0, 10, 13, 65, 66}, 4) \cup Strings({10, 13, 65, 66}, 5) \cup [1 .. 7 -> {10, 65}]
MCPushes == {[k \in 1 .. n |-> 70 + k] : n \in 0 .. 5}
=============================================================================
