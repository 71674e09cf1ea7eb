------------------------- MODULE NumericLiteralParser -------------------------
(***************************************************************************)
(* BfsdlParser::Token::NumericLiteralParser, with the NumericLiteral and   *)
(* the FlexNumber it fills: the handlers of the categories of a run, as    *)
(* operators from the state of the parser to its next state.               *)
(*                                                                         *)
(* "~" has no category (Tokenizer.cpp never adds CatTilde), so that the    *)
(* base and the exponent are never defined; they are left out.             *)
(***************************************************************************)
EXTENDS Symbols, Digits

\* The parser with its literal as Reset leaves it.
ClearedNumeric ==
    [mHasPeriod |-> FALSE, mLastParseResult |-> "NotComplete", mUnparsedText |-> <<>>,
     mRadix |-> InvalidRadix, sign |-> "Unspecified", integral |-> <<>>, fractional |-> <<>>]

HasRadix(p) == p.mRadix # InvalidRadix
SignificandIsDefined(p) == p.sign # "Unspecified" /\ (p.integral # <<>> \/ p.fractional # <<>>)
IsIntegral(p) == p.sign # "Unspecified" /\ p.integral # <<>> /\ p.fractional = <<>>

NumericError(p) == [p EXCEPT !.mLastParseResult = "Error"]

UseOrSetDefaultRadix(p) == IF HasRadix(p) THEN p ELSE [p EXCEPT !.mRadix = 10]
UseOrSetDefaultSignificandSign(p) ==
    IF p.sign = "Unspecified" THEN [p EXCEPT !.sign = "Positive"] ELSE p

\* The text becomes a component, or, if it has a symbol that is no digit, an error; then it is gone.
SetIntegralDigits(p) ==
    IF AreDigits(p.mUnparsedText, p.mRadix)
    THEN [p EXCEPT !.integral = DigitsOf(p.mUnparsedText), !.mUnparsedText = <<>>]
    ELSE NumericError([p EXCEPT !.mUnparsedText = <<>>])

SetFractionalDigits(p) ==
    IF AreDigits(p.mUnparsedText, p.mRadix)
    THEN [p EXCEPT !.fractional = DigitsOf(p.mUnparsedText), !.mUnparsedText = <<>>]
    ELSE NumericError([p EXCEPT !.mUnparsedText = <<>>])

ParseDigits(p) ==
    LET ready == UseOrSetDefaultSignificandSign(UseOrSetDefaultRadix(p))
    IN CASE p.mUnparsedText = <<>> -> p
         [] p.mUnparsedText # <<>> /\ p.integral = <<>> -> SetIntegralDigits(ready)
         [] p.mUnparsedText # <<>> /\ p.integral # <<>> /\ p.mHasPeriod /\ p.fractional = <<>> ->
                SetFractionalDigits(ready)
         [] OTHER -> NumericError(p)

\* The closing hash: whatever ParseDigits found, the result is decided again.
ParseHash(p) ==
    IF p.mUnparsedText # <<>> \/ ~SignificandIsDefined(p)
    THEN NumericError(p)
    ELSE [p EXCEPT !.mLastParseResult = "Complete"]

ParsePeriod(p) ==
    IF p.integral = <<>> \/ p.mHasPeriod THEN NumericError(p) ELSE [p EXCEPT !.mHasPeriod = TRUE]

RadixMarkers == [b |-> 98, o |-> 111, d |-> 100, x |-> 120]
RadixOf(c) ==
    CASE c = RadixMarkers.b -> 2
      [] c = RadixMarkers.o -> 8
      [] c = RadixMarkers.d -> 10
      [] c = RadixMarkers.x -> 16
      [] OTHER -> InvalidRadix

ParseRadix(p) ==
    IF ~HasRadix(p) /\ Len(p.mUnparsedText) = 1 /\ RadixOf(p.mUnparsedText[1]) # InvalidRadix
    THEN [p EXCEPT !.mRadix = RadixOf(p.mUnparsedText[1]), !.mUnparsedText = <<>>]
    ELSE NumericError(p)

ParseControl(p, c) == IF c = Colon THEN ParseRadix(p) ELSE NumericError(p)

ParseSign(p, c) ==
    IF p.mUnparsedText = <<>> /\ ~SignificandIsDefined(p) /\ p.sign = "Unspecified"
    THEN [p EXCEPT !.sign = IF c = Minus THEN "Negative" ELSE "Positive"]
    ELSE NumericError(p)

\* Mutant: white space ends the digits before it, like other symbols.
NumericParseSymbolsLenient(p, run) ==
    CASE run.category = "Control" -> ParseControl(p, run.str[1])
      [] run.category \in {"DecimalDigits", "Letters"} ->
             [p EXCEPT !.mUnparsedText = @ \o run.str]
      [] run.category = "Hash" -> ParseHash(ParseDigits(p))
      [] run.category = "Operators" -> ParseSign(UseOrSetDefaultRadix(p), run.str[1])
      [] run.category = "Period" -> ParsePeriod(ParseDigits(p))
      [] OTHER -> ParseDigits(p)

\* A run of the literal.  What is neither digit nor marker ends the digits before it, and is ignored.
NumericParseSymbols(p, run) ==
    CASE run.category = "Control" -> ParseControl(p, run.str[1])
      [] run.category \in {"DecimalDigits", "Letters"} ->
             [p EXCEPT !.mUnparsedText = @ \o run.str]
      [] run.category = "Hash" -> ParseHash(ParseDigits(p))
      [] run.category = "Operators" -> ParseSign(UseOrSetDefaultRadix(p), run.str[1])
      [] run.category = "Period" -> ParsePeriod(ParseDigits(p))
      [] run.category \in {"EndOfLine", "Whitespace"} -> NumericError(p)
      [] OTHER -> ParseDigits(p)

\* GetUint: the value of an integral literal if it has no sign and fits, or NoNumber.
GetUint(p, maxBits) ==
    LET value == GetUint64(p.integral, p.mRadix)
    IN IF IsIntegral(p) /\ p.sign = "Positive" /\ maxBits # 0 /\ value < 2^maxBits
       THEN value
       ELSE NoNumber
=============================================================================
