----------------------------- MODULE MCSymbolizer -----------------------------
(* A concatenating category in two parts, with a one-byte and a two-byte symbol, a category   *)
(* that does not concatenate, a second concatenating one, and a symbol of no category. *)
EXTENDS Symbolizer

MCSymbols == {"a", "w", "n", "b", "u"}
MCWidth == [s \in MCSymbols |-> IF s = "w" THEN 2 ELSE 1]
MCRegistrations ==
    << [category |-> "A", symbols |-> {"a"}, concatenates |-> TRUE],
       [category |-> "A", symbols |-> {"w"}, concatenates |-> TRUE],
       [category |-> "N", symbols |-> {"n"}, concatenates |-> FALSE],
       [category |-> "B", symbols |-> {"b"}, concatenates |-> TRUE] >>
=============================================================================
