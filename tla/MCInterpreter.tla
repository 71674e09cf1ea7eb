---------------------------- MODULE MCInterpreter -----------------------------
(* Formats around the limits of either bit base. *)
EXTENDS Interpreter

MCFormats ==
    [u1 |-> [signed |-> FALSE, number |-> 1], s8 |-> [signed |-> TRUE, number |-> 8],
     u0 |-> [signed |-> FALSE, number |-> 0], s0 |-> [signed |-> TRUE, number |-> 0],
     u64 |-> [signed |-> FALSE, number |-> 64], u65 |-> [signed |-> FALSE, number |-> 65],
     u8x |-> [signed |-> FALSE, number |-> Invalid],
     uHuge |-> [signed |-> FALSE, number |-> MaxVersion + 2]]

MCNumerals == [n \in {"1", "7", "64"} |-> CASE n = "1" -> 1 [] n = "7" -> 7 [] n = "64" -> 64]

MCWords ==
    Settings \cup DOMAIN MCFormats \cup DOMAIN MCNumerals
        \cup {"BFSDL_HEADER", "END_HEADER", "name"}

MCNumericLiterals == {-1, 65534, 65536}
MCStringLiterals == {"Bit", "Byte", "LE", "BE", "UTF8", "other"}
MCCodings == {"UTF8"}
MCControls == {":", "=", ".", ";"}
=============================================================================
