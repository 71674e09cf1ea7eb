---------------------------- MODULE LiteralVerdicts ----------------------------
(***************************************************************************)
(* What the Tokenizer is told of a literal by the parser it forwards the   *)
(* runs to.  Tokenizer uses this in place of the parsers; Literals, which  *)
(* models them, is checked against it.                                     *)
(***************************************************************************)

\* What GetParseResult can return after the literal parsers were given a run of a category.
Verdicts(state, category) ==
    CASE state = "NumericLiteral" /\ category = "Hash" -> {"Complete", "Error"}
      [] state = "NumericLiteral" /\ category \in {"Letters", "DecimalDigits"} -> {"NotComplete"}
      [] state = "NumericLiteral" /\ category \in {"EndOfLine", "Whitespace"} -> {"Error"}
      [] state = "StringLiteral" /\ category = "DoubleQuotes" -> {"Complete", "NotComplete", "Error"}
      [] OTHER -> {"NotComplete", "Error"}
=============================================================================
