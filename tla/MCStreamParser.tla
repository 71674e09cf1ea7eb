---------------------------- MODULE MCStreamParser ----------------------------
(* A header that settles the bit base, and statements of one format. *)
EXTENDS StreamParser

MCInputs == {"Letters", "Whitespace", "Control", "Period", "DoubleQuotes", "Hash", "Unknown", "ForwardSlash"}
MCFormats == [u4 |-> [signed |-> FALSE, number |-> 4]]
MCNumerals == [n \in {"1"} |-> 1]
MCWords == {"BFSDL_HEADER", "END_HEADER", "BitBase", "u4", "1"}
MCNumericLiterals == {1}
MCStringLiterals == {"Bit"}
MCCodings == {}
MCControls == {":", "=", ".", ";"}
=============================================================================
