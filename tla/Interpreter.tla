----------------------------- MODULE Interpreter ------------------------------
(***************************************************************************)
(* Token::Interpreter: turns the tokens it observes into the properties    *)
(* and fields of a specification tree.  A token is evaluated by the Engine *)
(* (see Engine.tla) in one step, with the Exit and Entry handlers of the   *)
(* transition that its Evaluate handler requests; no handler requests one  *)
(* on Entry or Exit.  With it the numeric field builder                    *)
(* (Objects/NumericFieldBuilder.cpp) and the part of the tree that the     *)
(* Interpreter uses (Objects/Tree.cpp).                                    *)
(*                                                                         *)
(* A word is a constant with what the code reads in its text: whether it   *)
(* is a format (u or s, and a digit) and with which number, or a number.   *)
(* The name of a field is left out: nothing is decided on it.              *)
(***************************************************************************)
EXTENDS Integers, Sequences

CONSTANTS
    Words,             \* the words of the stream
    Formats,           \* of those that IsNumericField accepts: sign and number
    Numerals,          \* of those that are all digits: the number
    NumericLiterals,   \* integers; a negative one also for those that are not integral
    StringLiterals,    \* the texts of string literals
    Codings,           \* of those, the codings that IsValidCoding knows
    Controls,          \* the control characters the Tokenizer reports
    UlongMax,          \* ULONG_MAX
    MaxFields          \* bound: fields in the tree

\* The number of a format whose text has something other than digits after the sign.
Invalid == -1

ASSUME InterpreterAssumption ==
    /\ DOMAIN Formats \subseteq Words
    /\ Formats \in [DOMAIN Formats -> [signed : BOOLEAN, number : Nat \cup {Invalid}]]
    /\ DOMAIN Numerals \subseteq Words
    /\ Numerals \in [DOMAIN Numerals -> Nat]
    /\ NumericLiterals \subseteq Int
    /\ Codings \subseteq StringLiterals
    /\ UlongMax \in Nat /\ MaxFields \in Nat

Byte == 8
Bit == 1
MAX_NUMERIC_FIELD_BITS == 64
MaxVersion == 65535

\* The names of the six settings that can be given a value.
Settings == {"Version", "BitBase", "DefaultByteOrder", "DefaultBitOrder", "DefaultStringCode",
             "DefaultStringTerm"}

TheoreticalMaxUnicodePoint == 2147483647
Noncharacters == 64976 .. 65007
PlaneSize == 65536
EndsPlane(code) == code % PlaneSize >= PlaneSize - 2

\* Unicode::IsCharacter: the last two codes of the first 17 planes are noncharacters too.
IsCharacter(code) ==
    /\ code \in Nat /\ code <= TheoreticalMaxUnicodePoint
    /\ code \notin Noncharacters
    /\ EndsPlane(code) => code \div PlaneSize > 16

IsValue(name, value) ==
    \/ name = "Version" /\ value \in 0 .. MaxVersion
    \/ name = "BitBase" /\ value \in {Bit, Byte}
    \/ name \in {"DefaultByteOrder", "DefaultBitOrder"} /\ value \in {"LE", "BE"}
    \/ name = "DefaultStringCode" /\ value \in Codings \cup {"ASCII"}
    \/ name = "DefaultStringTerm" /\ IsCharacter(value)

Defaults == [Version |-> 1, BitBase |-> Byte, DefaultByteOrder |-> "LE", DefaultBitOrder |-> "LE",
             DefaultStringCode |-> "ASCII", DefaultStringTerm |-> 0]

HeaderStates == {"HeaderBegin", "HeaderIdentifier", "HeaderEquals", "HeaderParameter"}
StatementStates == {"StatementBegin", "StatementFixedPointNumericId",
                    "StatementFixedPointNumericSuffix", "StatementEnd"}

VARIABLES
    mCurState,         \* of mStateMachine
    mHeaderStreamProgress, mIdentifier, mCurBitBase, mParseError,
    mBitBase, mIdentParsed, mComplete, mProps,    \* of mNumericFieldBuilder
    properties, fields,                           \* of the tree
    late,              \* tokens observed after an error
    statements         \* history: the formats of the statements, as they were written

headerVars == <<mHeaderStreamProgress, mIdentifier, mCurBitBase>>
builderVars == <<mBitBase, mIdentParsed, mComplete, mProps>>
vars == <<mCurState, headerVars, mParseError, builderVars, properties, fields, late, statements>>

Widths == [signed : BOOLEAN, integral : 0 .. MAX_NUMERIC_FIELD_BITS,
           fractional : 0 .. MAX_NUMERIC_FIELD_BITS]

TypeOK ==
    /\ mCurState \in HeaderStates \cup StatementStates
    /\ mHeaderStreamProgress \in {"StreamBegin", "StreamInProgress", "StreamDone"}
    /\ mIdentifier \in Words \cup {""}
    /\ mCurBitBase \in {Bit, Byte} /\ mBitBase \in {Bit, Byte}
    /\ mParseError \in BOOLEAN /\ mIdentParsed \in BOOLEAN /\ mComplete \in BOOLEAN
    /\ mProps \in Widths
    /\ DOMAIN properties \subseteq Settings
    /\ \A name \in DOMAIN properties : IsValue(name, properties[name])
    /\ fields \in Seq(Widths) /\ Len(fields) <= MaxFields
    /\ late \in 0 .. 1
    /\ statements \in Seq([signed : BOOLEAN, number : Nat \cup {Invalid}, suffix : Nat])

Init ==
    /\ mCurState = "HeaderBegin"
    /\ mHeaderStreamProgress = "StreamBegin" /\ mIdentifier = "" /\ mCurBitBase = Byte
    /\ mParseError = FALSE
    /\ mBitBase = Byte /\ mIdentParsed = FALSE /\ mComplete = FALSE
    /\ mProps = [signed |-> FALSE, integral |-> 0, fractional |-> 0]
    /\ properties = [name \in {} |-> 0] /\ fields = <<>>
    /\ late = 0 /\ statements = <<>>

LogError == mParseError' = TRUE
IsControl(type, value, character) == type = "Control" /\ value = character
IsEndOfLine(type, value) == type = "Control" /\ value \in {";", "\n", "\r"}

-----------------------------------------------------------------------------
(* The header *)

\* The Entry handler of HeaderBegin clears the identifier.
EnterHeaderBegin == mCurState' = "HeaderBegin" /\ mIdentifier' = ""

HeaderBeginEvaluate(type, value) ==
    /\ mCurState = "HeaderBegin"
    /\ IF IsControl(type, value, ":")
       THEN mCurState' = "HeaderIdentifier" /\ UNCHANGED mParseError
       ELSE LogError /\ UNCHANGED mCurState
    /\ UNCHANGED <<headerVars, builderVars, properties, fields, statements>>

\* A blank setting is ignored, whatever went before it.
HeaderBlank(type, value) ==
    /\ mCurState = "HeaderIdentifier"
    /\ IsControl(type, value, ":")
    /\ UNCHANGED <<mCurState, headerVars, mParseError, builderVars, properties, fields, statements>>

HeaderNoIdentifier(type, value) ==
    /\ mCurState = "HeaderIdentifier"
    /\ type # "Word" /\ ~IsControl(type, value, ":")
    /\ LogError
    /\ UNCHANGED <<mCurState, headerVars, builderVars, properties, fields, statements>>

HeaderWord(type, words) ==
    /\ mCurState = "HeaderIdentifier"
    /\ type = "Word" /\ words

HeaderOpens(type, value) ==
    /\ HeaderWord(type, value = "BFSDL_HEADER")
    /\ mHeaderStreamProgress = "StreamBegin"
    /\ mHeaderStreamProgress' = "StreamInProgress"
    /\ EnterHeaderBegin
    /\ UNCHANGED <<mCurBitBase, mParseError, builderVars, properties, fields, statements>>

\* BFDP_RETURNIF_E logs and returns: a misplaced keyword is no parse error, and is dropped.
HeaderKeywordMisplaced(type, value) ==
    /\ \/ HeaderWord(type, value = "BFSDL_HEADER") /\ mHeaderStreamProgress # "StreamBegin"
       \/ HeaderWord(type, value = "END_HEADER") /\ mHeaderStreamProgress # "StreamInProgress"
    /\ mIdentifier' = value
    /\ UNCHANGED <<mCurState, mHeaderStreamProgress, mCurBitBase, mParseError, builderVars,
                   properties, fields, statements>>

\* The properties with a default for each setting that was not defined.
WithDefaults ==
    [name \in Settings \cup DOMAIN properties |->
        IF name \in DOMAIN properties THEN properties[name] ELSE Defaults[name]]

\* With the Exit handler of HeaderIdentifier.
HeaderEnds(type, value) ==
    /\ HeaderWord(type, value = "END_HEADER")
    /\ mHeaderStreamProgress = "StreamInProgress"
    /\ mHeaderStreamProgress' = "StreamDone" /\ mIdentifier' = value
    /\ properties' = WithDefaults
    /\ mCurBitBase' = properties'["BitBase"]
    /\ mCurState' = "StatementBegin"
    /\ UNCHANGED <<mParseError, builderVars, fields, statements>>

HeaderSetting(type, value) ==
    /\ HeaderWord(type, value \notin {"BFSDL_HEADER", "END_HEADER"})
    /\ mIdentifier' = value
    /\ IF mHeaderStreamProgress = "StreamInProgress"
       THEN mCurState' = "HeaderEquals" /\ UNCHANGED mParseError
       ELSE LogError /\ UNCHANGED mCurState
    /\ UNCHANGED <<mHeaderStreamProgress, mCurBitBase, builderVars, properties, fields, statements>>

HeaderEqualsEvaluate(type, value) ==
    /\ mCurState = "HeaderEquals"
    /\ IF IsControl(type, value, "=")
       THEN mCurState' = "HeaderParameter" /\ UNCHANGED mParseError
       ELSE LogError /\ UNCHANGED mCurState
    /\ UNCHANGED <<headerVars, builderVars, properties, fields, statements>>

\* The parameters that the settings accept; DefaultFloatFormat and CustomExtension accept none.
Accepts(name, type, value) ==
    \/ type = "NumericLiteral" /\ name = "Version" /\ value \in 0 .. MaxVersion
    \/ type = "NumericLiteral" /\ name = "DefaultStringTerm" /\ IsCharacter(value)
    \/ type = "StringLiteral" /\ name = "BitBase" /\ value \in {"Bit", "Byte"}
    \/ /\ type = "StringLiteral" /\ name \in {"DefaultByteOrder", "DefaultBitOrder"}
       /\ value \in {"LE", "BE"}
    \/ type = "StringLiteral" /\ name = "DefaultStringCode" /\ value \in Codings

\* The value of the property that a parameter sets.
Converted(name, value) ==
    IF name = "BitBase" THEN (IF value = "Bit" THEN Bit ELSE Byte) ELSE value

\* Mutant: Tree::Add replaces the property.
AddReplacing(name, value) ==
    properties' = [n \in DOMAIN properties \cup {name} |-> IF n = name THEN value ELSE properties[n]]

\* Tree::Add refuses a second property of a name; Version and BitBase look for one before.
Add(name, value) ==
    /\ name \notin DOMAIN properties
    /\ properties' = [n \in DOMAIN properties \cup {name} |-> IF n = name THEN value ELSE properties[n]]

HeaderParameterAccepted(type, value) ==
    /\ mCurState = "HeaderParameter"
    /\ Accepts(mIdentifier, type, value)
    /\ Add(mIdentifier, Converted(mIdentifier, value))
    /\ EnterHeaderBegin
    /\ UNCHANGED <<mHeaderStreamProgress, mCurBitBase, mParseError, builderVars, fields, statements>>

HeaderParameterRefused(type, value) ==
    /\ mCurState = "HeaderParameter"
    /\ Accepts(mIdentifier, type, value) => mIdentifier \in DOMAIN properties
    /\ LogError
    /\ UNCHANGED <<mCurState, headerVars, builderVars, properties, fields, statements>>

Header(type, value) ==
    \/ HeaderBeginEvaluate(type, value)
    \/ HeaderBlank(type, value) \/ HeaderNoIdentifier(type, value)
    \/ HeaderOpens(type, value) \/ HeaderKeywordMisplaced(type, value)
    \/ HeaderEnds(type, value) \/ HeaderSetting(type, value)
    \/ HeaderEqualsEvaluate(type, value)
    \/ HeaderParameterAccepted(type, value) \/ HeaderParameterRefused(type, value)

-----------------------------------------------------------------------------
(* The numeric field builder *)

\* Mutant: the number is not checked against the limit.
CalcBitsUnlimited(number, base) ==
    IF number = Invalid THEN Invalid ELSE number * base

\* strtoul saturates, the multiplication wraps.
CalcBits(number, base) ==
    LET v == IF number > UlongMax THEN UlongMax ELSE number
        bits == (v * base) % (UlongMax + 1)
    IN IF number # Invalid /\ bits <= MAX_NUMERIC_FIELD_BITS THEN bits ELSE Invalid

\* Mutant: Reset keeps mComplete.
ParseIdentifierKeepingComplete(format) ==
    LET bits == CalcBits(format.number, mCurBitBase)
    IN /\ mBitBase' = mCurBitBase
       /\ UNCHANGED mComplete
       /\ mProps' = [mProps EXCEPT !.signed = format.signed,
                                   !.integral = IF bits = Invalid THEN @ ELSE bits]
       /\ mIdentParsed' = (bits # Invalid /\ (format.signed => bits > 0))

\* Reset, SetBitBase and ParseIdentifier: mIdentParsed is ParseIdentifier's result, and mProps
\* keeps what the last statement left where it fails.
ParseIdentifier(format) ==
    LET bits == CalcBits(format.number, mCurBitBase)
    IN /\ mBitBase' = mCurBitBase
       /\ mComplete' = FALSE
       /\ mProps' = [mProps EXCEPT !.signed = format.signed,
                                   !.integral = IF bits = Invalid THEN @ ELSE bits]
       /\ mIdentParsed' = (bits # Invalid /\ (format.signed => bits > 0))

\* ParseSuffix, for the number that the suffix is: mComplete is its result.  A suffix that is not
\* there counts as zero, one that is no number leaves the builder as it is.
ParseSuffix(number) ==
    LET bits == CalcBits(number, mBitBase)
    IN /\ mProps' = [mProps EXCEPT !.fractional = IF bits = Invalid THEN @ ELSE bits]
       /\ mComplete' = IF bits = Invalid THEN mComplete
                       ELSE mProps.integral + bits \in 1 .. MAX_NUMERIC_FIELD_BITS
       /\ UNCHANGED <<mBitBase, mIdentParsed>>

-----------------------------------------------------------------------------
(* The statements *)

StatementEmpty(type, value) ==
    /\ mCurState = "StatementBegin"
    /\ IsEndOfLine(type, value)
    /\ UNCHANGED <<mCurState, headerVars, mParseError, builderVars, properties, fields, statements>>

StatementNoWord(type, value) ==
    /\ mCurState = "StatementBegin"
    /\ type # "Word" /\ ~IsEndOfLine(type, value)
    /\ LogError
    /\ UNCHANGED <<mCurState, headerVars, builderVars, properties, fields, statements>>

StatementUnknown(type, value) ==
    /\ mCurState = "StatementBegin"
    /\ type = "Word" /\ value \notin DOMAIN Formats
    /\ mIdentifier' = ""
    /\ mIdentParsed' = FALSE /\ mComplete' = FALSE /\ mBitBase' = mCurBitBase
    /\ LogError
    /\ UNCHANGED <<mCurState, mHeaderStreamProgress, mCurBitBase, mProps, properties, fields,
                   statements>>

StatementNumeric(type, value) ==
    /\ mCurState = "StatementBegin"
    /\ type = "Word" /\ value \in DOMAIN Formats
    /\ mIdentifier' = ""
    /\ ParseIdentifier(Formats[value])
    /\ IF mIdentParsed' THEN mCurState' = "StatementFixedPointNumericId" /\ UNCHANGED mParseError
       ELSE LogError /\ UNCHANGED mCurState
    /\ statements' = Append(statements, [signed |-> Formats[value].signed,
                                         number |-> Formats[value].number, suffix |-> 0])
    /\ UNCHANGED <<mHeaderStreamProgress, mCurBitBase, properties, fields>>

NumericPeriod(type, value) ==
    /\ mCurState = "StatementFixedPointNumericId"
    /\ IsControl(type, value, ".") /\ ~mComplete
    /\ mCurState' = "StatementFixedPointNumericSuffix"
    /\ UNCHANGED <<headerVars, mParseError, builderVars, properties, fields, statements>>

NumericNoName(type, value) ==
    /\ mCurState = "StatementFixedPointNumericId"
    /\ type # "Word" /\ ~(IsControl(type, value, ".") /\ ~mComplete)
    /\ LogError
    /\ UNCHANGED <<mCurState, headerVars, builderVars, properties, fields, statements>>

\* Mutant: the statement is left without adding the field.
NumericNameDropped(type, value) ==
    /\ mCurState = "StatementFixedPointNumericId"
    /\ type = "Word"
    /\ IF mComplete THEN UNCHANGED builderVars ELSE ParseSuffix(0)
    /\ IF mComplete' THEN mCurState' = "StatementEnd" /\ UNCHANGED mParseError
       ELSE LogError /\ UNCHANGED mCurState
    /\ UNCHANGED <<headerVars, properties, fields, statements>>

\* The name of the field, which Tree::Add appends as it is.
NumericName(type, value) ==
    /\ mCurState = "StatementFixedPointNumericId"
    /\ type = "Word" /\ Len(fields) < MaxFields
    /\ IF mComplete THEN UNCHANGED builderVars ELSE ParseSuffix(0)
    /\ IF mComplete'
       THEN /\ fields' = Append(fields, mProps')
            /\ mCurState' = "StatementEnd"
            /\ UNCHANGED mParseError
       ELSE LogError /\ UNCHANGED <<mCurState, fields>>
    /\ UNCHANGED <<headerVars, properties, statements>>

NumericNoSuffix(type, value) ==
    /\ mCurState = "StatementFixedPointNumericSuffix"
    /\ ~(type = "Word" /\ value \in DOMAIN Numerals)
    /\ LogError
    /\ UNCHANGED <<mCurState, headerVars, builderVars, properties, fields, statements>>

NumericSuffix(type, value) ==
    /\ mCurState = "StatementFixedPointNumericSuffix"
    /\ type = "Word" /\ value \in DOMAIN Numerals
    /\ ParseSuffix(Numerals[value])
    /\ IF mComplete' THEN mCurState' = "StatementFixedPointNumericId" /\ UNCHANGED mParseError
       ELSE LogError /\ UNCHANGED mCurState
    /\ statements' = [statements EXCEPT ![Len(statements)].suffix = Numerals[value]]
    /\ UNCHANGED <<headerVars, properties, fields>>

StatementEndEvaluate(type, value) ==
    /\ mCurState = "StatementEnd"
    /\ IF IsEndOfLine(type, value) THEN mCurState' = "StatementBegin" /\ UNCHANGED mParseError
       ELSE LogError /\ UNCHANGED mCurState
    /\ UNCHANGED <<headerVars, builderVars, properties, fields, statements>>

Statement(type, value) ==
    \/ StatementEmpty(type, value) \/ StatementNoWord(type, value)
    \/ StatementUnknown(type, value) \/ StatementNumeric(type, value)
    \/ NumericPeriod(type, value) \/ NumericNoName(type, value) \/ NumericName(type, value)
    \/ NumericNoSuffix(type, value) \/ NumericSuffix(type, value)
    \/ StatementEndEvaluate(type, value)

-----------------------------------------------------------------------------
(* The tokens *)

\* The observer's method for a token; it answers whether there was no error so far.
Evaluate(type, value) ==
    /\ late' = IF mParseError THEN late + 1 ELSE late
    /\ Header(type, value) \/ Statement(type, value)

\* After an error the Tokenizer tells one more token at the most, and that one a control character
\* (AtMostOneAfterRefusal in Tokenizer.tla, and StreamParser.tla for the two together).
Observe(type, value) ==
    /\ mParseError => type = "Control" /\ late = 0
    /\ Evaluate(type, value)

Next ==
    \/ \E value \in Controls : Observe("Control", value)
    \/ \E value \in NumericLiterals : Observe("NumericLiteral", value)
    \/ \E value \in StringLiterals : Observe("StringLiteral", value)
    \/ \E value \in Words : Observe("Word", value)

Spec == Init /\ [][Next]_vars

-----------------------------------------------------------------------------
(* Properties *)

\* Each field of the tree has the sign and the widths that its own statement declared, counted in
\* units of the bit base that the header settled: nothing of another statement, or of a bit base
\* that was not in force, goes into it.
FieldsAsDeclared ==
    \A i \in 1 .. Len(fields) :
        /\ i <= Len(statements)
        /\ fields[i] = [signed |-> statements[i].signed,
                        integral |-> statements[i].number * properties["BitBase"],
                        fractional |-> statements[i].suffix * properties["BitBase"]]

\* Between statements, as long as nothing failed, every statement that was begun has its field.
NoStatementLost ==
    mCurState \in {"StatementBegin", "StatementEnd"} /\ ~mParseError =>
        Len(statements) = Len(fields)

\* The tree is filled in order: settings once each, then all of them settled, then well-formed
\* fields, and nothing after an error.
Tree == INSTANCE SpecificationTree WITH
    MaxBits <- MAX_NUMERIC_FIELD_BITS,
    sealed <- mHeaderStreamProgress = "StreamDone",
    closed <- mParseError

ImplementsTree == Tree!Spec
=============================================================================
