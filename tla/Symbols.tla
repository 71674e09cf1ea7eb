------------------------------- MODULE Symbols --------------------------------
(***************************************************************************)
(* The symbols of a specification stream as ASCII codes, the category that *)
(* the Tokenizer's category objects give each (CatAsterisk ...), and the   *)
(* runs that the Symbolizer therefore reports.                             *)
(***************************************************************************)
EXTENDS Integers, Sequences

DoubleQuotes == 34
Backslash == 92
Minus == 45
Plus == 43
Colon == 58

\* The category of a symbol; no object is registered for "~", which is Unknown.
Category(c) ==
    CASE c = 42 -> "Asterisk"
      [] c = Backslash -> "Backslash"
      [] c \in {91, 93, 59, Colon, 61} -> "Control"
      [] c \in 48 .. 57 -> "DecimalDigits"
      [] c = DoubleQuotes -> "DoubleQuotes"
      [] c \in {10, 13} -> "EndOfLine"
      [] c = 47 -> "ForwardSlash"
      [] c = 35 -> "Hash"
      [] c \in 65 .. 90 \cup 97 .. 122 -> "Letters"
      [] c \in {Plus, Minus} -> "Operators"
      [] c = 46 -> "Period"
      [] c = 95 -> "Underscore"
      [] c \in {9, 32} -> "Whitespace"
      [] OTHER -> "Unknown"

\* The categories whose objects are created with concatenation.
Concatenates(category) ==
    category \in {"DecimalDigits", "EndOfLine", "Letters", "Underscore", "Whitespace", "Unknown"}

\* The run that begins at a position of a text: one symbol, or as many of a category as there are.
RunAt(text, from) ==
    LET category == Category(text[from])
        Belongs(n) == /\ n \in from .. Len(text)
                      /\ \A i \in from .. n : Category(text[i]) = category
                      /\ Concatenates(category) \/ n = from
        last == CHOOSE n \in from .. Len(text) : Belongs(n) /\ ~Belongs(n + 1)
    IN [category |-> category, str |-> SubSeq(text, from, last)]
=============================================================================
