-------------------------- MODULE StringLiteralParser --------------------------
(***************************************************************************)
(* BfsdlParser::Token::StringLiteralParser and the Data::StringMachine it  *)
(* fills: the handlers of the states of its machine, as operators from the *)
(* state of the parser and a run of symbols to the parser's next state.    *)
(*                                                                         *)
(* Strings are sequences of code points: that UTF-8, which they are kept   *)
(* in, gives back what was put in is checked with the codecs.  The symbols *)
(* of an escape sequence are ASCII, one byte each, for the Symbolizer      *)
(* decodes nothing else; escapeSymbolCount is therefore its length, and as *)
(* it is read before it is reset, nothing of it is left over.              *)
(***************************************************************************)
EXTENDS Symbols, Digits, Codecs

-----------------------------------------------------------------------------
(* StringMachine: text that was read out once is in mCache, later text in mBuffer *)

EmptyMachine == [mDefined |-> FALSE, mCache |-> <<>>, mBuffer |-> <<>>]

AppendUtf8(machine, cps) ==
    [machine EXCEPT !.mBuffer = @ \o cps, !.mDefined = TRUE]

Pack(machine) ==
    [machine EXCEPT !.mCache = @ \o machine.mBuffer, !.mBuffer = <<>>]

\* GetUtf8String; the reader packs the machine as well.
Content(machine) == Pack(machine).mCache

\* Mutant: the cache is left alone, too.
ResetMachineKeeping(machine) == [machine EXCEPT !.mDefined = FALSE]

\* The cache is cleared; the assignment to the buffer's string is one to a copy.
ResetMachine(machine) == [machine EXCEPT !.mDefined = FALSE, !.mCache = <<>>]

-----------------------------------------------------------------------------

NoEscape ==
    [escapeConverter |-> "None", escapeDigits |-> 0, escapeRadix |-> InvalidRadix,
     escapeSequence |-> <<>>]

InitialString ==
    [state |-> "Text", mLastParseResult |-> "NotComplete", literal |-> EmptyMachine,
     escape |-> NoEscape]

StringError(p) == [p EXCEPT !.mLastParseResult = "Error"]

\* Mutant: the text state has no entry handler.
ToTextKeeping(p) == [p EXCEPT !.state = "Text"]

\* A transition to the text state, whose entry handler resets the state variables.
ToText(p) == [p EXCEPT !.state = "Text", !.escape = NoEscape]

ResetString(p) ==
    ToText([p EXCEPT !.mLastParseResult = "NotComplete", !.literal = ResetMachine(@)])

AppendText(p, cps) == [p EXCEPT !.literal = AppendUtf8(@, cps)]

StateTextEvaluate(p, run) ==
    CASE run.category = "DoubleQuotes" -> [p EXCEPT !.mLastParseResult = "Complete"]
      [] run.category = "Backslash" -> [p EXCEPT !.state = "Backslash"]
      [] OTHER -> AppendText(p, run.str)

-----------------------------------------------------------------------------
(* After a backslash *)

\* The letters that stand for a code point of their own, and the quote and the backslash.
SimpleEscapes == {DoubleQuotes, Backslash, 110, 114, 116}
SimpleEscape(c) ==
    CASE c = 110 -> 10
      [] c = 114 -> 13
      [] c = 116 -> 8
      [] OTHER -> c

\* The letters that code points in digits begin with: the radix, the digits if their number was not
\* given, how many can be asked for, and the coding.
CodePointEscapes == {97, 98, 117, 119, 120}
CodePointEscape(c) ==
    CASE c = 97 -> [radix |-> 16, default |-> 2, most |-> 0, converter |-> "ASCII"]
      [] c = 98 -> [radix |-> 2, default |-> 8, most |-> 32, converter |-> "None"]
      [] c = 117 -> [radix |-> 16, default |-> 4, most |-> 8, converter |-> "None"]
      [] c = 119 -> [radix |-> 16, default |-> 2, most |-> 0, converter |-> "MS-1252"]
      [] c = 120 -> [radix |-> 16, default |-> 2, most |-> 8, converter |-> "None"]

BeginCodePoint(p, form) ==
    [p EXCEPT !.state = "EscapeDigits",
              !.escape.escapeDigits = IF @ = 0 THEN form.default ELSE @,
              !.escape.escapeRadix = form.radix,
              !.escape.escapeConverter = form.converter]

\* A run of more than one letter is no escape, whatever it begins with.
ParseEscapeChar(p, run) ==
    LET c == run.str[1]
    IN CASE Len(run.str) = 1 /\ c \in SimpleEscapes -> ToText(AppendText(p, <<SimpleEscape(c)>>))
         [] Len(run.str) = 1 /\ c \in CodePointEscapes
            /\ p.escape.escapeDigits <= CodePointEscape(c).most ->
                BeginCodePoint(p, CodePointEscape(c))
         [] OTHER -> StringError(p)

\* Mutant: the number is not limited.
ParseEscapeDigitsUnlimited(p, run) ==
    LET total == IF Len(run.str) = 1
                 THEN DigitValue(run.str[1])
                 ELSE 10 * DigitValue(run.str[1]) + DigitValue(run.str[2])
    IN IF p.escape.escapeDigits = 0 /\ Len(run.str) <= 2 /\ total >= 1
       THEN [p EXCEPT !.escape.escapeDigits = total]
       ELSE StringError(p)

\* How many digits the code point will have, in one or two decimal digits.
ParseEscapeDigits(p, run) ==
    LET total == IF Len(run.str) = 1
                 THEN DigitValue(run.str[1])
                 ELSE 10 * DigitValue(run.str[1]) + DigitValue(run.str[2])
    IN IF p.escape.escapeDigits = 0 /\ Len(run.str) <= 2 /\ total \in 1 .. 32
       THEN [p EXCEPT !.escape.escapeDigits = total]
       ELSE StringError(p)

StateBackslashEvaluate(p, run) ==
    IF run.category = "DecimalDigits" THEN ParseEscapeDigits(p, run) ELSE ParseEscapeChar(p, run)

-----------------------------------------------------------------------------
(* The digits of a code point *)

ToCodePoint(converter, cp) ==
    CASE converter = "ASCII" -> ToUnicode(AsciiTable, cp)
      [] converter = "MS-1252" -> ToUnicode(Ms1252Table, cp)
      [] OTHER -> cp

\* There are enough digits; what follows them in their run is text.
CompleteCodePoint(p, sequence) ==
    LET digits == SubSeq(sequence, 1, p.escape.escapeDigits)
        leftovers == SubSeq(sequence, p.escape.escapeDigits + 1, Len(sequence))
        cp == ToCodePoint(p.escape.escapeConverter,
                          Horner(DigitsOf(digits), p.escape.escapeRadix))
    IN IF AreDigits(digits, p.escape.escapeRadix) /\ cp # Undefined /\ IsValidCodePoint(cp)
       THEN ToText(AppendText(p, <<cp>> \o leftovers))
       ELSE StringError(p)

ParseEscapeCodePoint(p, run) ==
    LET sequence == p.escape.escapeSequence \o run.str
    IN IF Len(sequence) < p.escape.escapeDigits
       THEN [p EXCEPT !.escape.escapeSequence = sequence]
       ELSE CompleteCodePoint(p, sequence)

StateEscapeDigitsEvaluate(p, run) ==
    IF run.category = "DoubleQuotes" THEN StringError(p) ELSE ParseEscapeCodePoint(p, run)

StringParseSymbols(p, run) ==
    CASE p.state = "Text" -> StateTextEvaluate(p, run)
      [] p.state = "Backslash" -> StateBackslashEvaluate(p, run)
      [] p.state = "EscapeDigits" -> StateEscapeDigitsEvaluate(p, run)
=============================================================================
