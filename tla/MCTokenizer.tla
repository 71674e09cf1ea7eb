----------------------------- MODULE MCTokenizer ------------------------------
(* Every category the Symbolizer reports, but one of those that the Tokenizer handles alike. *)
EXTENDS Tokenizer

MCInputs ==
    {"Letters", "Underscore", "EndOfLine", "Whitespace", "Unknown", "Asterisk", "ForwardSlash",
     "Control", "DoubleQuotes", "Hash", "Backslash"}
=============================================================================
