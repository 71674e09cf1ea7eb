------------------------------- MODULE Literals --------------------------------
(***************************************************************************)
(* The literals of a stream: the Tokenizer enters the state of a literal,  *)
(* whose entry handler resets the literal's parser, gives the parser run   *)
(* after run, and stops at its verdict; a complete literal is shown to the *)
(* observer.  The parsers live as long as the Tokenizer, so that each      *)
(* literal meets what the ones before it have left.                        *)
(***************************************************************************)
EXTENDS NumericLiteralParser, StringLiteralParser, LiteralVerdicts

CONSTANTS
    NumericTexts, StringTexts,  \* what can follow the opening symbol of a literal
    MaxUnread,                  \* bound: symbols that an observer leaves unread
    MaxPair                     \* bound: symbols of two literals in a row; there are no three

ASSUME LiteralsAssumption ==
    /\ NumericTexts \subseteq Seq(0 .. 127) /\ StringTexts \subseteq Seq(0 .. 127)
    /\ MaxUnread \in Nat /\ MaxPair \in Nat

VARIABLES
    mCurState,         \* the Tokenizer's: the main sequence or the state of a literal
    mParseError,
    numeric, string,   \* the parsers
    text, next,        \* the symbols of the literal and the position of the next run
    last,              \* history: the category of the last run and the verdict on it
    second,            \* history: the literal is not the first
    unread, ahead      \* history: what the observer has not read of the strings it was shown, by
                       \* now and when the literal began

vars == <<mCurState, mParseError, numeric, string, text, next, last, second, unread, ahead>>

States == {"MainSequence", "NumericLiteral", "StringLiteral"}
Results == {"NotComplete", "Complete", "Error"}
CodePoints == 0 .. TheoreticalMaxUnicodePoint

NumericParsers ==
    [mHasPeriod : BOOLEAN, mLastParseResult : Results, mUnparsedText : Seq(0 .. 127),
     mRadix : {InvalidRadix, 2, 8, 10, 16}, sign : {"Unspecified", "Positive", "Negative"},
     integral : Seq(0 .. 35), fractional : Seq(0 .. 35)]

Machines == [mDefined : BOOLEAN, mCache : Seq(CodePoints), mBuffer : Seq(CodePoints)]
Escapes ==
    [escapeConverter : {"None", "ASCII", "MS-1252"}, escapeDigits : 0 .. 32,
     escapeRadix : {InvalidRadix, 2, 16}, escapeSequence : Seq(0 .. 127)]
StringParsers ==
    [state : {"Text", "Backslash", "EscapeDigits"}, mLastParseResult : Results,
     literal : Machines, escape : Escapes]

LiteralsTypeOK ==
    /\ mCurState \in States /\ mParseError \in BOOLEAN
    /\ numeric \in NumericParsers /\ string \in StringParsers
    /\ text \in Seq(0 .. 127) /\ next \in 1 .. Len(text) + 1
    /\ second \in BOOLEAN /\ unread \in Seq(CodePoints) /\ ahead \in Seq(CodePoints)

Init ==
    /\ mCurState = "MainSequence" /\ mParseError = FALSE
    /\ numeric = ClearedNumeric /\ string = InitialString
    /\ text = <<>> /\ next = 1
    /\ last = <<"None", "NotComplete">> /\ second = FALSE /\ unread = <<>> /\ ahead = <<>>

-----------------------------------------------------------------------------

\* Entry of the numeric literal's state.
StateNumericLiteralEntry(t) ==
    /\ mCurState = "MainSequence"
    /\ text = <<>> \/ (~second /\ Len(text) + Len(t) <= MaxPair)
    /\ mCurState' = "NumericLiteral"
    /\ numeric' = ClearedNumeric
    /\ text' = t /\ next' = 1 /\ last' = <<"None", "NotComplete">>
    /\ ahead' = unread /\ second' = (text # <<>>)
    /\ UNCHANGED <<mParseError, string, unread>>

\* Entry of the string literal's state.
StateStringLiteralEntry(t) ==
    /\ mCurState = "MainSequence"
    /\ text = <<>> \/ (~second /\ Len(text) + Len(t) <= MaxPair)
    /\ mCurState' = "StringLiteral"
    /\ string' = ResetString(string)
    /\ text' = t /\ next' = 1 /\ last' = <<"None", "NotComplete">>
    /\ ahead' = unread /\ second' = (text # <<>>)
    /\ UNCHANGED <<mParseError, numeric, unread>>

Run == RunAt(text, next)

\* A run was given to a parser, which returned a result.
Parsed(result) ==
    /\ next' = next + Len(Run.str)
    /\ last' = <<Run.category, result>>
    /\ mParseError' = (result = "Error")
    /\ mCurState' = IF result = "Complete" THEN "MainSequence" ELSE mCurState
    /\ UNCHANGED <<text, second, ahead>>

StateNumericLiteralEvaluate ==
    /\ mCurState = "NumericLiteral" /\ ~mParseError /\ next <= Len(text)
    /\ numeric' = NumericParseSymbols(numeric, Run)
    /\ Parsed(numeric'.mLastParseResult)
    /\ UNCHANGED <<string, unread>>

\* The literal is not complete.
StateStringLiteralEvaluate ==
    /\ mCurState = "StringLiteral" /\ ~mParseError /\ next <= Len(text)
    /\ string' = StringParseSymbols(string, Run)
    /\ string'.mLastParseResult # "Complete"
    /\ Parsed(string'.mLastParseResult)
    /\ UNCHANGED <<numeric, unread>>

\* The literal is complete, and the observer reads it.
StringIsRead ==
    LET parsed == StringParseSymbols(string, Run)
    IN /\ mCurState = "StringLiteral" /\ ~mParseError /\ next <= Len(text)
       /\ parsed.mLastParseResult = "Complete"
       /\ string' = [parsed EXCEPT !.literal = Pack(@)]
       /\ Parsed("Complete")
       /\ unread' = <<>>
       /\ UNCHANGED numeric

\* The literal is complete, and the observer does not look at it.
StringIsIgnored ==
    LET parsed == StringParseSymbols(string, Run)
    IN /\ mCurState = "StringLiteral" /\ ~mParseError /\ next <= Len(text)
       /\ parsed.mLastParseResult = "Complete"
       /\ Len(Content(parsed.literal)) <= MaxUnread
       /\ string' = parsed
       /\ Parsed("Complete")
       /\ unread' = Content(parsed.literal)
       /\ UNCHANGED numeric

Next ==
    \/ \E t \in NumericTexts : StateNumericLiteralEntry(t)
    \/ \E t \in StringTexts : StateStringLiteralEntry(t)
    \/ StateNumericLiteralEvaluate
    \/ StateStringLiteralEvaluate \/ StringIsRead \/ StringIsIgnored

Spec == Init /\ [][Next]_vars

-----------------------------------------------------------------------------
(* The number that the draft (3.1.3) says a text is: an optional radix marker, an optional sign, *)
(* numerals, and optionally a period and more numerals. *)

Period == 46
EndsOfLine == {10, 13}

\* How a text can be read: with or without a marker and a sign, and where the period or the end is.
Readings(t) == [marked : BOOLEAN, signed : BOOLEAN, point : 1 .. Len(t) + 1]

Skipped(n) == (IF n.marked THEN 2 ELSE 0) + (IF n.signed THEN 1 ELSE 0)
RadixRead(n, t) == IF n.marked THEN RadixOf(t[1]) ELSE 10

IsReading(n, t) ==
    /\ n.marked => Len(t) >= 2 /\ RadixOf(t[1]) # InvalidRadix /\ t[2] = Colon
    /\ Len(t) > Skipped(n)
    /\ n.signed => t[Skipped(n)] \in {Plus, Minus}
    /\ n.point > Skipped(n) + 1
    /\ n.point <= Len(t) => t[n.point] = Period /\ n.point < Len(t)
    /\ \A i \in Skipped(n) + 1 .. Len(t) : i = n.point \/ IsDigit(RadixRead(n, t), t[i])

IsNumber(t) == \E n \in Readings(t) : IsReading(n, t)

\* The value of digits, each counted by its place.
PlaceValue(digits, radix) ==
    LET weight[k \in 0 .. Len(digits)] == IF k = 0 THEN 1 ELSE radix * weight[k - 1]
        sum[i \in 0 .. Len(digits)] ==
            IF i = 0 THEN 0 ELSE sum[i - 1] + digits[i] * weight[Len(digits) - i]
    IN sum[Len(digits)]

-----------------------------------------------------------------------------
(* The string that the draft (3.2) says a text is *)

DigitsAfter(t, i) ==
    CHOOSE n \in 0 .. Len(t) - i :
        /\ \A j \in i + 1 .. i + n : Category(t[j]) = "DecimalDigits"
        /\ i + n = Len(t) \/ Category(t[i + n + 1]) # "DecimalDigits"

\* The numbers of digits that can be asked for.
Widths(c) ==
    CASE c \in {97, 119} -> {2}
      [] c = 98 -> 1 .. 32
      [] OTHER -> 1 .. 8

Malformed == <<Undefined>>
NoItem == [size |-> 0, cp |-> Undefined]

\* The escape at position i: how long it is, and its code point.
EscapeAt(t, i) ==
    LET n == DigitsAfter(t, i)
        at == i + n + 1
        c == t[at]
        width == IF n = 0 THEN CodePointEscape(c).default
                 ELSE PlaceValue(DigitsOf(SubSeq(t, i + 1, i + n)), 10)
        digits == SubSeq(t, at + 1, at + width)
        radix == CodePointEscape(c).radix
        cp == ToCodePoint(CodePointEscape(c).converter, PlaceValue(DigitsOf(digits), radix))
    IN CASE at > Len(t) -> NoItem
         [] at <= Len(t) /\ n = 0 /\ c \in SimpleEscapes ->
                [size |-> 2, cp |-> SimpleEscape(c)]
         [] at <= Len(t) /\ c \in CodePointEscapes /\ width \in Widths(c)
            /\ at + width <= Len(t) /\ AreDigits(digits, radix)
            /\ cp # Undefined /\ IsValidCodePoint(cp) ->
                [size |-> n + 2 + width, cp |-> cp]
         [] OTHER -> NoItem

\* An item of a string: an escape, or a symbol that stands for itself.
ItemAt(t, i) ==
    CASE t[i] = Backslash -> EscapeAt(t, i)
      [] t[i] \notin EndsOfLine \cup {Backslash, DoubleQuotes} -> [size |-> 1, cp |-> t[i]]
      [] OTHER -> NoItem

\* The position behind the items that begin among the first i symbols; nothing follows an item of size 0.
Behind(t) ==
    LET behind[i \in 0 .. Len(t)] ==
            IF i = 0 THEN 1
            ELSE IF behind[i - 1] = i THEN i + ItemAt(t, i).size ELSE behind[i - 1]
    IN behind

\* Their code points.
PointsOf(t) ==
    LET points[i \in 0 .. Len(t)] ==
            IF i = 0 THEN <<>>
            ELSE IF Behind(t)[i - 1] = i THEN Append(points[i - 1], ItemAt(t, i).cp) ELSE points[i - 1]
    IN points

\* The code points of a text, or Malformed.
StringOf(t) == IF Behind(t)[Len(t)] = Len(t) + 1 THEN PointsOf(t)[Len(t)] ELSE Malformed

IsString(t) == StringOf(t) # Malformed

\* The escapes that the parser knows: no letter follows the one that makes the escape, and the number
\* of digits is given in one or two, and only where there is a choice.
EscapesStandApart(t) ==
    \A i \in 1 .. Len(t) :
        LET n == DigitsAfter(t, i)
        IN t[i] = Backslash /\ i + n < Len(t) =>
               /\ n = 0 \/ (n <= 2 /\ t[i + n + 1] \notin {97, 119})
               /\ Category(t[i + n + 1]) = "Letters" /\ i + n + 1 < Len(t) =>
                      Category(t[i + n + 2]) # "Letters"

-----------------------------------------------------------------------------
(* Properties *)

IsComplete(category) == last = <<category, "Complete">>
Body == SubSeq(text, 1, next - 2)

\* A number that was accepted has the radix, the sign and the digits that were written, and its value
\* is theirs, or is refused as too wide.
NumbersMeanTheirText ==
    IsComplete("Hash") =>
        \A n \in Readings(Body) : IsReading(n, Body) =>
            /\ numeric.mRadix = RadixRead(n, Body)
            /\ numeric.sign = IF n.signed /\ Body[Skipped(n)] = Minus THEN "Negative" ELSE "Positive"
            /\ numeric.integral = DigitsOf(SubSeq(Body, Skipped(n) + 1, n.point - 1))
            /\ numeric.fractional = DigitsOf(SubSeq(Body, n.point + 1, Len(Body)))
            /\ GetUint(numeric, UintBits) \in {PlaceValue(numeric.integral, numeric.mRadix), NoNumber}

\* A string that was accepted is what was written, behind what strings that nobody read have left.
StringsMeanTheirText ==
    IsComplete("DoubleQuotes") /\ IsString(Body) =>
        Content(string.literal) = ahead \o StringOf(Body)

\* What the draft calls a string is not refused, but for escapes that run into what is around them, nor
\* is what it calls a number without an exponent; whatever stands behind the symbol that closes it.
LiteralsAreAccepted ==
    mParseError =>
        \A k \in 1 .. Len(text) :
            LET t == SubSeq(text, 1, k - 1)
            IN /\ mCurState = "NumericLiteral" /\ Category(text[k]) = "Hash" => ~IsNumber(t)
               /\ mCurState = "StringLiteral" /\ text[k] = DoubleQuotes =>
                      ~(IsString(t) /\ EscapesStandApart(t))

\* The Tokenizer is told what its model assumes.
VerdictsAsAssumed ==
    [][next' > next => last'[2] \in Verdicts(mCurState, last'[1])]_vars

=============================================================================
