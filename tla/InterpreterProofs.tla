-------------------------- MODULE InterpreterProofs ---------------------------
(***************************************************************************)
(* Proofs about the Interpreter, for all words, literals and widths of     *)
(* unsigned long.                                                          *)
(***************************************************************************)
EXTENDS Interpreter, TLAPS

\* A token of the kind that the observer's method was called for.
Token(type, value) ==
    /\ type = "Word" => value \in Words
    /\ type = "NumericLiteral" => value \in NumericLiterals
    /\ type = "StringLiteral" => value \in StringLiterals

-----------------------------------------------------------------------------
(* The operators *)

\* Multiples of the bit base, reduced, are natural numbers: CalcBits is a width or Invalid.
LEMMA CalcBitsRange ==
    ASSUME NEW number \in Nat \cup {Invalid}, NEW base \in {Bit, Byte}
    PROVE  /\ CalcBits(number, base) \in (0 .. MAX_NUMERIC_FIELD_BITS) \cup {Invalid}
           /\ CalcBits(number, base) # Invalid => number # Invalid
  <1> DEFINE v == IF number > UlongMax THEN UlongMax ELSE number
             bits == (v * base) % (UlongMax + 1)
  <1>1. UlongMax + 1 \in Nat \ {0}
    BY InterpreterAssumption
  <1>2. CASE number = Invalid
    BY <1>2 DEF CalcBits, Invalid
  <1>3. CASE number \in Nat
    <2>1. v * base \in Nat
      BY <1>3, InterpreterAssumption DEF Bit, Byte
    <2>2. bits \in Nat
      <3> HIDE DEF v
      <3> QED
        BY <1>1, <2>1
    <2>3. CalcBits(number, base) = IF number # Invalid /\ bits <= MAX_NUMERIC_FIELD_BITS
                                   THEN bits ELSE Invalid
      BY DEF CalcBits
    <2> QED
      <3> HIDE DEF bits
      <3> QED
        BY <1>3, <2>2, <2>3 DEF Invalid, MAX_NUMERIC_FIELD_BITS
  <1> QED
    BY <1>2, <1>3

\* What a setting makes of a parameter is one of its values.
LEMMA ConvertedIsValue ==
    ASSUME NEW name, NEW type, NEW value, Accepts(name, type, value)
    PROVE  name \in Settings /\ IsValue(name, Converted(name, value))
  BY DEF Accepts, Converted, Settings, IsValue

LEMMA DefaultsAreValues == \A name \in Settings : IsValue(name, Defaults[name])
  <1>1. /\ Defaults["Version"] = 1 /\ Defaults["DefaultStringTerm"] = 0
        /\ Defaults["BitBase"] = Byte
    BY DEF Defaults
  <1>2. /\ Defaults["DefaultByteOrder"] = "LE" /\ Defaults["DefaultBitOrder"] = "LE"
        /\ Defaults["DefaultStringCode"] = "ASCII"
    BY DEF Defaults
  <1>3. IsCharacter(0)
    <2>1. 0 <= TheoreticalMaxUnicodePoint
      BY SMT DEF TheoreticalMaxUnicodePoint
    <2>2. 0 \notin Noncharacters
      BY SMT DEF Noncharacters
    <2>3. ~EndsPlane(0)
      BY SMT DEF EndsPlane, PlaneSize
    <2> QED
      BY <2>1, <2>2, <2>3, Zenon DEF IsCharacter
  <1>4. /\ IsValue("Version", 1) /\ IsValue("DefaultStringTerm", 0) /\ IsValue("BitBase", Byte)
    <2>1. 1 \in 0 .. MaxVersion
      BY SMT DEF MaxVersion
    <2> QED
      BY <1>3, <2>1, Zenon DEF IsValue
  <1>5. /\ IsValue("DefaultByteOrder", "LE") /\ IsValue("DefaultBitOrder", "LE")
        /\ IsValue("DefaultStringCode", "ASCII")
    BY Zenon DEF IsValue
  <1> QED
    BY <1>1, <1>2, <1>4, <1>5 DEF Settings

LEMMA NothingIsZero == ASSUME NEW base \in {Bit, Byte} PROVE CalcBits(0, base) = 0
  <1>1. UlongMax + 1 \in Nat \ {0}
    BY InterpreterAssumption
  <1>2. ~(0 > UlongMax)
    BY InterpreterAssumption
  <1>3. 0 * base = 0
    BY DEF Bit, Byte
  <1>4. 0 % (UlongMax + 1) = 0
    BY <1>1
  <1>5. (0 * base) % (UlongMax + 1) = 0
    BY <1>3, <1>4
  <1>6. 0 # Invalid /\ 0 <= MAX_NUMERIC_FIELD_BITS
    BY DEF Invalid, MAX_NUMERIC_FIELD_BITS
  <1> QED
    BY <1>2, <1>5, <1>6 DEF CalcBits

-----------------------------------------------------------------------------
(* The inductive invariant *)

InStatement == mCurState \in {"StatementFixedPointNumericId", "StatementFixedPointNumericSuffix"}

\* The header is sealed once the statements begin, and the bit base is then the property's.
HeaderInv ==
    /\ mCurState \in StatementStates <=> mHeaderStreamProgress = "StreamDone"
    /\ mHeaderStreamProgress = "StreamDone" =>
          DOMAIN properties = Settings /\ mCurBitBase = properties["BitBase"]
    /\ mHeaderStreamProgress # "StreamDone" => fields = <<>> /\ statements = <<>>

\* What is in the builder during a statement that has not failed is that statement's.
BuilderInv ==
    ~mParseError /\ InStatement =>
        /\ Len(statements) = Len(fields) + 1
        /\ mBitBase = mCurBitBase
        /\ mProps.signed = statements[Len(statements)].signed
        /\ mProps.integral = CalcBits(statements[Len(statements)].number, mBitBase)
        /\ mProps.signed => mProps.integral > 0
        /\ mComplete =>
              /\ mCurState = "StatementFixedPointNumericId"
              /\ mProps.fractional = CalcBits(statements[Len(statements)].suffix, mBitBase)
              /\ mProps.integral + mProps.fractional \in 1 .. MAX_NUMERIC_FIELD_BITS
        /\ ~mComplete => statements[Len(statements)].suffix = 0

\* Each field is what CalcBits made of its statement.
Computed(field, statement, base) ==
    /\ field.signed = statement.signed
    /\ field.integral = CalcBits(statement.number, base)
    /\ field.fractional = CalcBits(statement.suffix, base)

FieldsInv ==
    /\ Len(fields) <= Len(statements)
    /\ \A i \in 1 .. Len(fields) : Computed(fields[i], statements[i], mCurBitBase)

StatementsInv == ~mParseError /\ ~InStatement => Len(statements) = Len(fields)

IInv == TypeOK /\ HeaderInv /\ BuilderInv /\ FieldsInv /\ StatementsInv

LEMMA Initially == Init => IInv
  <1> SUFFICES ASSUME Init PROVE IInv
    OBVIOUS
  <1>1. fields = <<>> /\ statements = <<>> /\ Len(fields) = 0 /\ Len(statements) = 0
    BY DEF Init
  <1>2. DOMAIN properties = {}
    BY DEF Init
  <1>3. mProps \in Widths
    <2>1. 0 \in 0 .. MAX_NUMERIC_FIELD_BITS
      BY DEF MAX_NUMERIC_FIELD_BITS
    <2>2. mProps = [signed |-> FALSE, integral |-> 0, fractional |-> 0]
      BY DEF Init
    <2> QED
      BY <2>1, <2>2 DEF Widths
  <1>4. TypeOK
    <2>1. /\ fields \in Seq(Widths)
          /\ statements \in Seq([signed : BOOLEAN, number : Nat \cup {Invalid}, suffix : Nat])
      BY <1>1
    <2>3. Len(fields) <= MaxFields /\ late \in 0 .. 1
      <3>1. late = 0
        BY DEF Init
      <3> QED
        BY <1>1, <3>1, InterpreterAssumption
    <2>2. /\ mCurState \in HeaderStates \cup StatementStates
          /\ mHeaderStreamProgress \in {"StreamBegin", "StreamInProgress", "StreamDone"}
          /\ mIdentifier \in Words \cup {""}
          /\ mCurBitBase \in {Bit, Byte} /\ mBitBase \in {Bit, Byte}
          /\ mParseError \in BOOLEAN /\ mIdentParsed \in BOOLEAN /\ mComplete \in BOOLEAN
      BY DEF Init, HeaderStates
    <2> QED
      BY <1>2, <1>3, <2>1, <2>2, <2>3 DEF TypeOK
  <1>5. HeaderInv /\ BuilderInv
    BY DEF Init, HeaderInv, BuilderInv, InStatement, StatementStates
  <1>6. FieldsInv /\ StatementsInv
    BY <1>1 DEF FieldsInv, StatementsInv
  <1> QED
    BY <1>4, <1>5, <1>6 DEF IInv

-----------------------------------------------------------------------------
(* The steps *)

LEMMA WithDefaultsAreValues ==
    ASSUME TypeOK
    PROVE  DOMAIN WithDefaults = Settings /\ \A name \in Settings : IsValue(name, WithDefaults[name])
  <1>1. DOMAIN properties \subseteq Settings
    BY DEF TypeOK
  <1>2. DOMAIN WithDefaults = Settings
    BY <1>1 DEF WithDefaults
  <1>3. ASSUME NEW name \in Settings PROVE IsValue(name, WithDefaults[name])
    <2>1. WithDefaults[name] =
            IF name \in DOMAIN properties THEN properties[name] ELSE Defaults[name]
      BY DEF WithDefaults
    <2> QED
      BY <2>1, DefaultsAreValues DEF TypeOK
  <1> QED
    BY <1>2, <1>3

\* A step in the header leaves the builder, the fields and the statements alone.
LEMMA HeaderStep ==
    ASSUME IInv, NEW type, NEW value, Token(type, value), Header(type, value), late' \in 0 .. 1
    PROVE  IInv'
  <1> USE DEF IInv
  <1>1. /\ mCurState \in HeaderStates /\ ~InStatement /\ ~InStatement'
        /\ UNCHANGED <<builderVars, fields, statements>>
    BY DEF Header, HeaderBeginEvaluate, HeaderBlank, HeaderNoIdentifier, HeaderOpens, HeaderWord,
           HeaderKeywordMisplaced, HeaderEnds, HeaderSetting, HeaderEqualsEvaluate,
           HeaderParameterAccepted, HeaderParameterRefused, InStatement, HeaderStates,
           EnterHeaderBegin
  <1>2. fields = <<>> /\ statements = <<>> /\ mHeaderStreamProgress # "StreamDone"
    BY <1>1 DEF HeaderInv, HeaderStates, StatementStates
  <1>3. BuilderInv' /\ FieldsInv' /\ StatementsInv'
    <2>1. Len(fields') = 0 /\ Len(statements') = 0
      BY <1>1, <1>2
    <2> QED
      BY <1>1, <2>1 DEF BuilderInv, FieldsInv, StatementsInv
  <1>4. TypeOK' /\ HeaderInv'
    <2>1. CASE HeaderEnds(type, value)
      <3>1. properties' = WithDefaults /\ mHeaderStreamProgress' = "StreamDone"
            /\ mCurState' = "StatementBegin" /\ mIdentifier' \in Words
            /\ mCurBitBase' = properties'["BitBase"] /\ UNCHANGED mParseError
        BY <2>1 DEF HeaderEnds, HeaderWord, Token
      <3>2. DOMAIN properties' = Settings /\ \A name \in Settings : IsValue(name, properties'[name])
        BY <3>1, WithDefaultsAreValues
      <3>3. mCurBitBase' \in {Bit, Byte}
        BY <3>1, <3>2 DEF Settings, IsValue
      <3>4. HeaderInv'
        BY <3>1, <3>2 DEF HeaderInv, StatementStates
      <3>5. TypeOK'
        BY <1>1, <3>1, <3>2, <3>3 DEF TypeOK, StatementStates, builderVars
      <3> QED
        BY <3>4, <3>5
    <2>2. CASE HeaderParameterAccepted(type, value)
      <3>1. /\ mCurState' = "HeaderBegin" /\ mIdentifier' = "" 
            /\ UNCHANGED <<mHeaderStreamProgress, mCurBitBase, mParseError>>
        BY <2>2 DEF HeaderParameterAccepted, EnterHeaderBegin
      <3>2. mIdentifier \in Settings /\ IsValue(mIdentifier, Converted(mIdentifier, value))
        BY <2>2, ConvertedIsValue DEF HeaderParameterAccepted
      <3>3. properties' = [n \in DOMAIN properties \cup {mIdentifier} |->
                              IF n = mIdentifier THEN Converted(mIdentifier, value)
                              ELSE properties[n]]
        BY <2>2 DEF HeaderParameterAccepted, Add
      <3>4. /\ DOMAIN properties' \subseteq Settings
            /\ \A name \in DOMAIN properties' : IsValue(name, properties'[name])
        BY <3>2, <3>3 DEF TypeOK
      <3>5. HeaderInv'
        BY <1>1, <1>2, <3>1 DEF HeaderInv, StatementStates
      <3>6. TypeOK'
        BY <1>1, <3>1, <3>4 DEF TypeOK, HeaderStates, builderVars
      <3> QED
        BY <3>5, <3>6
    <2>3. ASSUME ~HeaderEnds(type, value), ~HeaderParameterAccepted(type, value)
          PROVE  TypeOK' /\ HeaderInv'
      <3>1. /\ UNCHANGED <<properties, mCurBitBase>>
            /\ mCurState' \in HeaderStates
            /\ mHeaderStreamProgress' \in {mHeaderStreamProgress, "StreamInProgress"}
            /\ mIdentifier' \in Words \cup {""}
            /\ mParseError' \in BOOLEAN
        BY <1>1, <2>3
        DEF Header, HeaderBeginEvaluate, HeaderBlank, HeaderNoIdentifier, HeaderOpens, HeaderWord,
            HeaderKeywordMisplaced, HeaderSetting, HeaderEqualsEvaluate, HeaderParameterRefused,
            EnterHeaderBegin, TypeOK, headerVars, Token, LogError, HeaderStates
      <3>2. HeaderInv'
        BY <1>1, <1>2, <3>1 DEF HeaderInv, HeaderStates, StatementStates
      <3>3. TypeOK'
        BY <1>1, <3>1 DEF TypeOK, builderVars
      <3> QED
        BY <3>2, <3>3
    <2> QED
      BY <2>1, <2>2, <2>3
  <1> QED
    BY <1>3, <1>4

FormatsOfStatements == [signed : BOOLEAN, number : Nat \cup {Invalid}, suffix : Nat]

\* Every statement leaves the header alone.
LEMMA StatementFrame ==
    ASSUME IInv, NEW type, NEW value, Token(type, value), Statement(type, value)
    PROVE  /\ mCurState \in StatementStates /\ mCurState' \in StatementStates
           /\ UNCHANGED <<mHeaderStreamProgress, mCurBitBase, properties>>
           /\ mIdentifier' \in Words \cup {""} /\ mParseError' \in BOOLEAN
           /\ HeaderInv'
  <1> USE DEF IInv
  <1>1. /\ mCurState \in StatementStates /\ mCurState' \in StatementStates
        /\ UNCHANGED <<mHeaderStreamProgress, mCurBitBase, properties>>
        /\ mIdentifier' \in {mIdentifier, ""} /\ mParseError' \in {mParseError, TRUE}
    BY DEF Statement, StatementEmpty, StatementNoWord, StatementUnknown, StatementNumeric,
           NumericPeriod, NumericNoName, NumericName, NumericNoSuffix, NumericSuffix,
           StatementEndEvaluate, StatementStates, headerVars, LogError
  <1>2. mHeaderStreamProgress = "StreamDone"
    BY <1>1 DEF HeaderInv
  <1> QED
    BY <1>1, <1>2 DEF HeaderInv, TypeOK

\* The steps that leave the builder, the tree and the statements as they are.
Quiet(type, value) ==
    \/ StatementEmpty(type, value) \/ StatementNoWord(type, value)
    \/ NumericPeriod(type, value) \/ NumericNoName(type, value)
    \/ NumericNoSuffix(type, value) \/ StatementEndEvaluate(type, value)

LEMMA QuietStep ==
    ASSUME IInv, NEW type, NEW value, Token(type, value), Statement(type, value),
           Quiet(type, value), late' \in 0 .. 1
    PROVE  IInv'
  <1> USE DEF IInv
  <1>1. UNCHANGED <<builderVars, fields, statements, mCurBitBase>>
    BY DEF Quiet, StatementEmpty, StatementNoWord, NumericPeriod, NumericNoName, NumericNoSuffix,
           StatementEndEvaluate, headerVars
  <1>2. TypeOK'
    BY <1>1, StatementFrame DEF TypeOK, builderVars
  <1>3. FieldsInv'
    BY <1>1 DEF FieldsInv
  <1>4. ~mParseError' =>
          /\ ~mParseError
          /\ InStatement' <=> InStatement
          /\ InStatement => mCurState' = mCurState \/ ~mComplete
    BY DEF Quiet, StatementEmpty, StatementNoWord, NumericPeriod, NumericNoName, NumericNoSuffix,
           StatementEndEvaluate, InStatement, LogError
  <1>5. BuilderInv' /\ StatementsInv'
    BY <1>1, <1>4 DEF BuilderInv, StatementsInv, builderVars
  <1> QED
    BY <1>2, <1>3, <1>5, StatementFrame

\* After an error the statement and the builder may be left in the middle.
LEMMA UnknownStep ==
    ASSUME IInv, NEW type, NEW value, Token(type, value), Statement(type, value),
           StatementUnknown(type, value), late' \in 0 .. 1
    PROVE  IInv'
  <1> USE DEF IInv
  <1>1. /\ UNCHANGED <<fields, statements, mCurBitBase, mProps>>
        /\ mParseError' = TRUE
        /\ mIdentParsed' = FALSE /\ mComplete' = FALSE /\ mBitBase' = mCurBitBase
    BY DEF StatementUnknown, LogError
  <1>2. TypeOK'
    BY <1>1, StatementFrame DEF TypeOK
  <1> QED
    BY <1>1, <1>2, StatementFrame DEF FieldsInv, BuilderInv, StatementsInv

LEMMA IdentifierParsed ==
    ASSUME IInv, NEW format \in [signed : BOOLEAN, number : Nat \cup {Invalid}],
           ParseIdentifier(format)
    PROVE  /\ mBitBase' = mCurBitBase /\ mComplete' = FALSE /\ mIdentParsed' \in BOOLEAN
           /\ mProps' \in Widths
           /\ mIdentParsed' =>
                 /\ mProps'.signed = format.signed
                 /\ mProps'.integral = CalcBits(format.number, mCurBitBase)
                 /\ mProps'.signed => mProps'.integral > 0
  <1> DEFINE bits == CalcBits(format.number, mCurBitBase)
  <1>1. mCurBitBase \in {Bit, Byte} /\ mProps \in Widths
    BY DEF IInv, TypeOK
  <1>2. bits \in (0 .. MAX_NUMERIC_FIELD_BITS) \cup {Invalid}
    BY <1>1, CalcBitsRange
  <1>3. /\ mBitBase' = mCurBitBase /\ mComplete' = FALSE
        /\ mProps' = [mProps EXCEPT !.signed = format.signed,
                                    !.integral = IF bits = Invalid THEN @ ELSE bits]
        /\ mIdentParsed' = (bits # Invalid /\ (format.signed => bits > 0))
    BY DEF ParseIdentifier
  <1> HIDE DEF bits
  <1>4. /\ mProps'.signed = format.signed
        /\ mProps'.integral = IF bits = Invalid THEN mProps.integral ELSE bits
        /\ mProps'.fractional = mProps.fractional
        /\ mProps' \in Widths
    BY <1>1, <1>2, <1>3 DEF Widths
  <1> QED
    BY <1>3, <1>4 DEF bits

LEMMA SuffixParsed ==
    ASSUME IInv, ~mComplete, NEW number \in Nat, ParseSuffix(number)
    PROVE  /\ UNCHANGED <<mBitBase, mIdentParsed>> /\ mComplete' \in BOOLEAN
           /\ mProps' \in Widths
           /\ mProps'.signed = mProps.signed /\ mProps'.integral = mProps.integral
           /\ mComplete' =>
                 /\ mProps'.fractional = CalcBits(number, mBitBase)
                 /\ mProps'.integral + mProps'.fractional \in 1 .. MAX_NUMERIC_FIELD_BITS
  <1> DEFINE bits == CalcBits(number, mBitBase)
  <1>1. mBitBase \in {Bit, Byte} /\ mProps \in Widths /\ mComplete = FALSE
    BY DEF IInv, TypeOK
  <1>2. bits \in (0 .. MAX_NUMERIC_FIELD_BITS) \cup {Invalid}
    BY <1>1, CalcBitsRange
  <1>3. /\ mProps' = [mProps EXCEPT !.fractional = IF bits = Invalid THEN @ ELSE bits]
        /\ mComplete' = IF bits = Invalid THEN mComplete
                        ELSE mProps.integral + bits \in 1 .. MAX_NUMERIC_FIELD_BITS
        /\ UNCHANGED <<mBitBase, mIdentParsed>>
    BY DEF ParseSuffix
  <1> HIDE DEF bits
  <1>4. /\ mProps'.signed = mProps.signed /\ mProps'.integral = mProps.integral
        /\ mProps'.fractional = IF bits = Invalid THEN mProps.fractional ELSE bits
        /\ mProps' \in Widths
    BY <1>1, <1>2, <1>3 DEF Widths
  <1>5. CASE bits = Invalid
    BY <1>1, <1>3, <1>4, <1>5
  <1>6. CASE bits # Invalid
    <2>1. mComplete' = (mProps.integral + bits \in 1 .. MAX_NUMERIC_FIELD_BITS)
      BY <1>3, <1>6
    <2>2. mComplete' \in BOOLEAN
      BY <2>1
    <2>3. mProps'.fractional = bits
      BY <1>4, <1>6
    <2>4. mComplete' => mProps'.integral + mProps'.fractional \in 1 .. MAX_NUMERIC_FIELD_BITS
      BY <1>4, <2>1, <2>3
    <2> QED
      BY <1>3, <1>4, <2>2, <2>3, <2>4 DEF bits
  <1> QED
    BY <1>5, <1>6

LEMMA NumericStep ==
    ASSUME IInv, NEW type, NEW value, Token(type, value), Statement(type, value),
           StatementNumeric(type, value), ~mParseError, late' \in 0 .. 1
    PROVE  IInv'
  <1> USE DEF IInv
  <1> DEFINE format == Formats[value]
             statement == [signed |-> format.signed, number |-> format.number, suffix |-> 0]
  <1>1. format \in [signed : BOOLEAN, number : Nat \cup {Invalid}]
    BY InterpreterAssumption DEF StatementNumeric
  <1>2. /\ mCurState = "StatementBegin"
        /\ ParseIdentifier(format)
        /\ statements' = Append(statements, statement)
        /\ UNCHANGED <<fields, mCurBitBase>>
        /\ ~mParseError' => mIdentParsed' /\ mCurState' = "StatementFixedPointNumericId"
        /\ mParseError' => mCurState' = "StatementBegin"
    BY DEF StatementNumeric, LogError
  <1>3. statement \in FormatsOfStatements
    BY <1>1 DEF FormatsOfStatements
  <1>4. /\ mBitBase' = mCurBitBase /\ mComplete' = FALSE /\ mIdentParsed' \in BOOLEAN
        /\ mProps' \in Widths
        /\ mIdentParsed' =>
              /\ mProps'.signed = format.signed
              /\ mProps'.integral = CalcBits(format.number, mCurBitBase)
              /\ mProps'.signed => mProps'.integral > 0
    BY <1>1, <1>2, IdentifierParsed
  <1>5. statements \in Seq(FormatsOfStatements) /\ fields \in Seq(Widths)
    BY DEF TypeOK, FormatsOfStatements
  <1> HIDE DEF statement, format
  <1>6. /\ statements' \in Seq(FormatsOfStatements)
        /\ Len(statements') = Len(statements) + 1
        /\ statements'[Len(statements')] = statement
        /\ \A i \in 1 .. Len(statements) : statements'[i] = statements[i]
    BY <1>2, <1>3, <1>5
  <1>7. TypeOK'
    BY <1>2, <1>4, <1>6, StatementFrame DEF TypeOK, FormatsOfStatements
  <1>8. Len(statements) = Len(fields)
    BY <1>2 DEF StatementsInv, InStatement
  <1>9. FieldsInv'
    BY <1>2, <1>5, <1>6 DEF FieldsInv
  <1>10. BuilderInv' /\ StatementsInv'
    <2>1. CASE mParseError'
      BY <2>1 DEF BuilderInv, StatementsInv
    <2>2. CASE ~mParseError'
      <3>1. /\ statement.signed = format.signed /\ statement.number = format.number
            /\ statement.suffix = 0
        BY DEF statement
      <3> QED
        BY <2>2, <1>2, <1>4, <1>6, <1>8, <3>1 DEF BuilderInv, StatementsInv, InStatement
    <2> QED
      BY <2>1, <2>2
  <1> QED
    BY <1>7, <1>9, <1>10, StatementFrame

LEMMA NameStep ==
    ASSUME IInv, NEW type, NEW value, Token(type, value), Statement(type, value),
           NumericName(type, value), ~mParseError, late' \in 0 .. 1
    PROVE  IInv'
  <1> USE DEF IInv
  <1>1. /\ mCurState = "StatementFixedPointNumericId"
        /\ Len(fields) < MaxFields
        /\ IF mComplete THEN UNCHANGED builderVars ELSE ParseSuffix(0)
        /\ UNCHANGED <<mCurBitBase, statements>>
        /\ IF mComplete' THEN fields' = Append(fields, mProps') /\ mCurState' = "StatementEnd"
                              /\ ~mParseError'
           ELSE mParseError' /\ UNCHANGED fields
    BY DEF NumericName, LogError, headerVars
  <1>2. /\ mBitBase \in {Bit, Byte} /\ mCurBitBase = mBitBase /\ mComplete \in BOOLEAN
        /\ fields \in Seq(Widths) /\ mProps \in Widths /\ mIdentParsed \in BOOLEAN
        /\ statements \in Seq(FormatsOfStatements) /\ Len(statements) = Len(fields) + 1
    BY <1>1 DEF TypeOK, BuilderInv, InStatement, FormatsOfStatements
  <1>3. /\ UNCHANGED <<mBitBase, mIdentParsed>> /\ mComplete' \in BOOLEAN
        /\ mProps' \in Widths
        /\ mProps'.signed = mProps.signed /\ mProps'.integral = mProps.integral
        /\ mComplete' => mProps'.fractional = CalcBits(statements[Len(statements)].suffix, mBitBase)
    <2>1. CASE mComplete
      BY <2>1, <1>1, <1>2 DEF BuilderInv, InStatement, builderVars
    <2>2. CASE ~mComplete
      <3>1. statements[Len(statements)].suffix = 0
        BY <2>2, <1>1 DEF BuilderInv, InStatement
      <3>2. ParseSuffix(0)
        BY <2>2, <1>1
      <3> QED
        BY <2>2, <3>1, <3>2, SuffixParsed
    <2> QED
      BY <2>1, <2>2
  <1>4. CASE ~mComplete'
    <2>1. mParseError' /\ UNCHANGED fields
      BY <1>1, <1>4
    <2>2. TypeOK'
      BY <1>1, <1>2, <1>3, <2>1, StatementFrame DEF TypeOK
    <2>3. FieldsInv'
      BY <1>1, <2>1 DEF FieldsInv
    <2> QED
      BY <2>1, <2>2, <2>3, StatementFrame DEF BuilderInv, StatementsInv
  <1>5. CASE mComplete'
    <2>1. fields' = Append(fields, mProps') /\ mCurState' = "StatementEnd" /\ ~mParseError'
      BY <1>1, <1>5
    <2>2. /\ fields' \in Seq(Widths) /\ Len(fields') = Len(fields) + 1
          /\ fields'[Len(fields')] = mProps'
          /\ \A i \in 1 .. Len(fields) : fields'[i] = fields[i]
      BY <1>2, <1>3, <2>1
    <2>3. TypeOK'
      <3>1. Len(fields') <= MaxFields
        BY <1>1, <1>2, <2>2, InterpreterAssumption
      <3>2. /\ mProps' \in Widths /\ fields' \in Seq(Widths)
            /\ mComplete' \in BOOLEAN /\ mIdentParsed' \in BOOLEAN
            /\ mBitBase' \in {Bit, Byte} /\ mCurBitBase' \in {Bit, Byte}
            /\ UNCHANGED statements
        BY <1>1, <1>2, <1>3, <2>2
      <3> QED
        BY <3>1, <3>2, StatementFrame DEF TypeOK
    <2>4. Computed(mProps', statements[Len(statements)], mCurBitBase)
      BY <1>1, <1>2, <1>3, <1>5 DEF BuilderInv, InStatement, Computed
    <2>5. FieldsInv'
      <3>1. Len(fields') = Len(statements')
        BY <1>1, <1>2, <2>2
      <3>2. ASSUME NEW i \in 1 .. Len(fields')
            PROVE  Computed(fields'[i], statements'[i], mCurBitBase')
        <4>1. CASE i = Len(fields')
          BY <4>1, <1>1, <1>2, <2>2, <2>4
        <4>2. CASE i # Len(fields')
          <5>1. i \in 1 .. Len(fields)
            BY <4>2, <1>2, <2>2
          <5> QED
            BY <5>1, <1>1, <2>2 DEF FieldsInv
        <4> QED
          BY <4>1, <4>2
      <3> QED
        BY <3>1, <3>2, <1>1, <1>2, <2>2 DEF FieldsInv
    <2>6. BuilderInv' /\ StatementsInv'
      BY <1>1, <1>2, <2>1, <2>2 DEF BuilderInv, StatementsInv, InStatement
    <2> QED
      BY <2>3, <2>5, <2>6, StatementFrame
  <1> QED
    BY <1>3, <1>4, <1>5

LEMMA SuffixStep ==
    ASSUME IInv, NEW type, NEW value, Token(type, value), Statement(type, value),
           NumericSuffix(type, value), ~mParseError, late' \in 0 .. 1
    PROVE  IInv'
  <1> USE DEF IInv
  <1> DEFINE last == Len(statements)
  <1>1. /\ mCurState = "StatementFixedPointNumericSuffix"
        /\ ParseSuffix(Numerals[value]) /\ Numerals[value] \in Nat
        /\ UNCHANGED <<mCurBitBase, fields>>
        /\ statements' = [statements EXCEPT ![last].suffix = Numerals[value]]
        /\ IF mComplete' THEN mCurState' = "StatementFixedPointNumericId" /\ ~mParseError'
           ELSE mParseError'
    BY InterpreterAssumption DEF NumericSuffix, LogError, headerVars
  <1>2. /\ mBitBase \in {Bit, Byte} /\ mCurBitBase = mBitBase /\ mComplete = FALSE
        /\ fields \in Seq(Widths) /\ mIdentParsed \in BOOLEAN
        /\ statements \in Seq(FormatsOfStatements) /\ last = Len(fields) + 1
    BY <1>1 DEF TypeOK, BuilderInv, InStatement, FormatsOfStatements
  <1>3. /\ UNCHANGED <<mBitBase, mIdentParsed>> /\ mComplete' \in BOOLEAN
        /\ mProps' \in Widths
        /\ mProps'.signed = mProps.signed /\ mProps'.integral = mProps.integral
        /\ mComplete' =>
              /\ mProps'.fractional = CalcBits(Numerals[value], mBitBase)
              /\ mProps'.integral + mProps'.fractional \in 1 .. MAX_NUMERIC_FIELD_BITS
    BY <1>1, <1>2, SuffixParsed
  <1>4. last \in 1 .. Len(statements) /\ statements[last] \in FormatsOfStatements
    BY <1>2
  <1>5. [statements[last] EXCEPT !.suffix = Numerals[value]] \in FormatsOfStatements
    BY <1>1, <1>4 DEF FormatsOfStatements
  <1>6. /\ statements' \in Seq(FormatsOfStatements) /\ Len(statements') = last
        /\ statements'[last] = [statements[last] EXCEPT !.suffix = Numerals[value]]
        /\ \A i \in 1 .. Len(fields) : statements'[i] = statements[i]
    BY <1>1, <1>2, <1>4, <1>5
  <1>7. /\ statements'[last].suffix = Numerals[value]
        /\ statements'[last].signed = statements[last].signed
        /\ statements'[last].number = statements[last].number
    BY <1>1, <1>4, <1>6 DEF FormatsOfStatements
  <1> HIDE DEF last
  <1>8. TypeOK'
    BY <1>1, <1>3, <1>6, StatementFrame DEF TypeOK, FormatsOfStatements
  <1>9. FieldsInv'
    BY <1>1, <1>2, <1>6 DEF FieldsInv
  <1>10. CASE mParseError'
    BY <1>8, <1>9, <1>10, StatementFrame DEF BuilderInv, StatementsInv
  <1>11. CASE ~mParseError'
    <2>1. mComplete' /\ mCurState' = "StatementFixedPointNumericId"
      BY <1>1, <1>11
    <2>2. /\ mProps.signed = statements[last].signed
          /\ mProps.integral = CalcBits(statements[last].number, mBitBase)
          /\ mProps.signed => mProps.integral > 0
      BY <1>1 DEF BuilderInv, InStatement, last
    <2>3. BuilderInv'
      BY <1>1, <1>2, <1>3, <1>6, <1>7, <2>1, <2>2 DEF BuilderInv
    <2> QED
      BY <1>8, <1>9, <2>1, <2>3, StatementFrame DEF StatementsInv, InStatement
  <1> QED
    BY <1>10, <1>11

LEMMA Preserved == IInv /\ [Next]_vars => IInv'
  <1> SUFFICES ASSUME IInv, [Next]_vars PROVE IInv'
    OBVIOUS
  <1>1. CASE UNCHANGED vars
    BY <1>1 DEF vars, headerVars, builderVars, IInv, TypeOK, HeaderInv, BuilderInv, FieldsInv,
                StatementsInv, InStatement
  <1>2. CASE Next
    <2>1. PICK type, value : Observe(type, value) /\ Token(type, value)
      BY <1>2 DEF Next, Token
    <2>2. late' \in 0 .. 1 /\ (mParseError => type = "Control")
      <3>1. late \in 0 .. 1 /\ mParseError \in BOOLEAN
        BY DEF IInv, TypeOK
      <3>2. /\ mParseError => type = "Control" /\ late = 0
            /\ late' = IF mParseError THEN late + 1 ELSE late
        BY <2>1 DEF Observe, Evaluate
      <3> QED
        BY <3>1, <3>2
    <2>3. CASE Header(type, value)
      BY <2>1, <2>2, <2>3, HeaderStep
    <2>4. CASE Statement(type, value)
      <3>1. CASE mParseError
        <4>1. Quiet(type, value)
          BY <2>2, <2>4, <3>1 DEF Statement, Quiet, StatementUnknown, StatementNumeric,
                                 NumericName, NumericSuffix
        <4> QED
          BY <2>1, <2>2, <2>4, <4>1, QuietStep
      <3>2. CASE ~mParseError
        BY <2>1, <2>2, <2>4, <3>2, QuietStep, UnknownStep, NumericStep, NameStep, SuffixStep
        DEF Statement, Quiet
      <3> QED
        BY <3>1, <3>2
    <2> QED
      BY <2>1, <2>3, <2>4 DEF Observe, Evaluate
  <1> QED
    BY <1>1, <1>2

\* Stated for any words and literals, and any width of unsigned long.
THEOREM TypeCorrect == Spec => []TypeOK
  <1>1. IInv => TypeOK
    BY DEF IInv
  <1> QED
    BY <1>1, Initially, Preserved, PTL DEF Spec

-----------------------------------------------------------------------------
(* What is built *)

\* Between statements every statement that was begun has its field, as long as nothing failed.
THEOREM EveryStatementCounts == Spec => []NoStatementLost
  <1>1. IInv => NoStatementLost
    BY DEF IInv, StatementsInv, NoStatementLost, InStatement
  <1> QED
    BY <1>1, Initially, Preserved, PTL DEF Spec

\* The numbers of the stream are small enough for CalcBits: their products do not wrap.
NumbersFit ==
    /\ \A word \in DOMAIN Formats : Formats[word].number * Byte <= UlongMax
    /\ \A word \in DOMAIN Numerals : Numerals[word] * Byte <= UlongMax

Small(statement) == statement.number * Byte <= UlongMax /\ statement.suffix * Byte <= UlongMax

LEMMA CalcBitsExact ==
    ASSUME NEW number \in Nat \cup {Invalid}, NEW base \in {Bit, Byte},
           number * Byte <= UlongMax, CalcBits(number, base) # Invalid
    PROVE  CalcBits(number, base) = number * base
  <1>1. number \in Nat
    BY CalcBitsRange
  <1>2. number * base \in Nat /\ number * base <= UlongMax /\ number <= UlongMax
    BY <1>1, InterpreterAssumption DEF Bit, Byte
  <1>3. (number * base) % (UlongMax + 1) = number * base
    <2> DEFINE product == number * base
    <2>1. product \in Nat /\ product < UlongMax + 1 /\ UlongMax + 1 \in Nat \ {0}
      BY <1>2, InterpreterAssumption
    <2> HIDE DEF product
    <2>2. product % (UlongMax + 1) = product
      BY <2>1
    <2> QED
      BY <2>2 DEF product
  <1>4. ~(number > UlongMax)
    BY <1>1, <1>2, InterpreterAssumption
  <1> QED
    BY <1>3, <1>4 DEF CalcBits

SmallInv == \A i \in 1 .. Len(statements) : Small(statements[i])

LEMMA SmallStep ==
    ASSUME NumbersFit, IInv, SmallInv, [Next]_vars
    PROVE  SmallInv'
  <1>0. statements \in Seq(FormatsOfStatements)
    BY DEF IInv, TypeOK, FormatsOfStatements
  <1>1. CASE UNCHANGED statements
    BY <1>1 DEF SmallInv
  <1>2. ASSUME NEW type, NEW value, StatementNumeric(type, value) PROVE SmallInv'
    <2> DEFINE statement == [signed |-> Formats[value].signed,
                             number |-> Formats[value].number, suffix |-> 0]
    <2>1. statements' = Append(statements, statement) /\ value \in DOMAIN Formats
      BY <1>2 DEF StatementNumeric
    <2>2. statement \in FormatsOfStatements
      BY <2>1, InterpreterAssumption DEF FormatsOfStatements
    <2>3. Small(statement)
      <3>1. Formats[value].number * Byte <= UlongMax
        BY <2>1 DEF NumbersFit
      <3>2. 0 * Byte <= UlongMax
        BY InterpreterAssumption DEF Byte
      <3> QED
        BY <3>1, <3>2 DEF Small
    <2> HIDE DEF statement
    <2> QED
      BY <2>1, <2>2, <2>3, <1>0 DEF SmallInv
  <1>3. ASSUME NEW type, NEW value, NumericSuffix(type, value), ~mParseError PROVE SmallInv'
    <2> DEFINE last == Len(statements)
    <2>1. /\ statements' = [statements EXCEPT ![last].suffix = Numerals[value]]
          /\ value \in DOMAIN Numerals /\ Numerals[value] \in Nat
      BY <1>3, InterpreterAssumption DEF NumericSuffix
    <2>2. last \in 1 .. Len(statements) /\ statements[last] \in FormatsOfStatements
      <3>1. Len(statements) = Len(fields) + 1 /\ fields \in Seq(Widths)
        BY <1>3 DEF NumericSuffix, IInv, BuilderInv, InStatement, TypeOK
      <3> QED
        BY <1>0, <3>1
    <2>3. Numerals[value] * Byte <= UlongMax
      BY <2>1 DEF NumbersFit
    <2>4. /\ Len(statements') = Len(statements)
          /\ \A i \in 1 .. Len(statements) :
                statements'[i] = IF i = last
                                 THEN [statements[last] EXCEPT !.suffix = Numerals[value]]
                                 ELSE statements[i]
      BY <2>1, <2>2, <1>0
    <2>5. Small([statements[last] EXCEPT !.suffix = Numerals[value]])
      <3>1. Small(statements[last])
        BY <2>2 DEF SmallInv
      <3>2. /\ [statements[last] EXCEPT !.suffix = Numerals[value]].suffix = Numerals[value]
            /\ [statements[last] EXCEPT !.suffix = Numerals[value]].number = statements[last].number
        BY <2>1, <2>2 DEF FormatsOfStatements
      <3> QED
        BY <3>1, <3>2, <2>3 DEF Small
    <2> HIDE DEF last
    <2> QED
      BY <2>4, <2>5 DEF SmallInv
  <1>4. CASE ~UNCHANGED statements
    <2>1. PICK type, value : Observe(type, value) /\ Token(type, value)
      BY <1>4 DEF Next, Token, vars
    <2>2. StatementNumeric(type, value) \/ NumericSuffix(type, value)
      BY <1>4, <2>1
      DEF Observe, Evaluate, Header, Statement, HeaderBeginEvaluate, HeaderBlank, HeaderNoIdentifier,
          HeaderOpens, HeaderKeywordMisplaced, HeaderEnds, HeaderSetting, HeaderEqualsEvaluate,
          HeaderParameterAccepted, HeaderParameterRefused, StatementEmpty, StatementNoWord,
          StatementUnknown, NumericPeriod, NumericNoName, NumericName, NumericNoSuffix,
          StatementEndEvaluate
    <2>3. NumericSuffix(type, value) => ~mParseError
      BY <2>1 DEF Observe, Evaluate, NumericSuffix
    <2> QED
      BY <1>2, <1>3, <2>2, <2>3
  <1> QED
    BY <1>1, <1>4

LEMMA SmallIsExact == ASSUME IInv, SmallInv PROVE FieldsAsDeclared
  <1>1. /\ fields \in Seq(Widths) /\ statements \in Seq(FormatsOfStatements)
        /\ mCurBitBase \in {Bit, Byte} /\ Len(fields) <= Len(statements)
    BY DEF IInv, TypeOK, FormatsOfStatements, FieldsInv
  <1>2. ASSUME NEW i \in 1 .. Len(fields)
        PROVE  /\ i <= Len(statements)
               /\ fields[i] = [signed |-> statements[i].signed,
                               integral |-> statements[i].number * properties["BitBase"],
                               fractional |-> statements[i].suffix * properties["BitBase"]]
    <2>1. i \in 1 .. Len(statements) /\ fields[i] \in Widths
          /\ statements[i] \in FormatsOfStatements
      BY <1>1
    <2>2. mCurBitBase = properties["BitBase"]
      <3>1. mHeaderStreamProgress = "StreamDone"
        BY <1>1 DEF IInv, HeaderInv
      <3> QED
        BY <3>1 DEF IInv, HeaderInv
    <2>3. Computed(fields[i], statements[i], mCurBitBase)
      BY DEF IInv, FieldsInv
    <2>4. /\ fields[i].signed = statements[i].signed
          /\ fields[i].integral = CalcBits(statements[i].number, mCurBitBase)
          /\ fields[i].fractional = CalcBits(statements[i].suffix, mCurBitBase)
      BY <2>3 DEF Computed
    <2>5. /\ fields[i].integral # Invalid /\ fields[i].fractional # Invalid
          /\ statements[i].number \in Nat \cup {Invalid}
          /\ statements[i].suffix \in Nat \cup {Invalid}
      <3>1. /\ fields[i].integral \in 0 .. MAX_NUMERIC_FIELD_BITS
            /\ fields[i].fractional \in 0 .. MAX_NUMERIC_FIELD_BITS
        BY <2>1 DEF Widths
      <3>2. statements[i].number \in Nat \cup {Invalid} /\ statements[i].suffix \in Nat
        BY <2>1 DEF FormatsOfStatements
      <3> QED
        BY <3>1, <3>2 DEF Invalid
    <2>6. Small(statements[i])
      BY <2>1 DEF SmallInv
    <2>7. /\ fields[i].integral = statements[i].number * mCurBitBase
          /\ fields[i].fractional = statements[i].suffix * mCurBitBase
      BY <1>1, <2>4, <2>5, <2>6, CalcBitsExact DEF Small
    <2>8. fields[i] = [signed |-> fields[i].signed, integral |-> fields[i].integral,
                       fractional |-> fields[i].fractional]
      BY <2>1 DEF Widths
    <2> QED
      BY <2>1, <2>2, <2>4, <2>7, <2>8
  <1> QED
    BY <1>2 DEF FieldsAsDeclared

\* Each field has the sign and widths of its own statement in units of the settled bit base, if
\* no number in the stream is so large that CalcBits' multiplication wraps.
THEOREM FieldsAreDeclared == NumbersFit /\ Spec => []FieldsAsDeclared
  <1> SUFFICES ASSUME NumbersFit PROVE Spec => []FieldsAsDeclared
    OBVIOUS
  <1>1. Init => SmallInv
    <2>1. Init => Len(statements) = 0
      BY DEF Init
    <2> QED
      BY <2>1 DEF SmallInv
  <1>2. IInv /\ SmallInv /\ [Next]_vars => SmallInv'
    BY SmallStep
  <1>3. IInv /\ SmallInv => FieldsAsDeclared
    BY SmallIsExact
  <1> QED
    BY <1>1, <1>2, <1>3, Initially, Preserved, PTL DEF Spec

-----------------------------------------------------------------------------
(* The tree is filled in order *)

Sealed == mHeaderStreamProgress = "StreamDone"

\* The steps that do not touch the tree: the header goes on, or the parsing fails.
LEMMA OtherStep ==
    ASSUME IInv, NEW type, NEW value, Token(type, value), Observe(type, value),
           ~HeaderEnds(type, value), ~HeaderParameterAccepted(type, value),
           ~(NumericName(type, value) /\ mComplete')
    PROVE  UNCHANGED <<properties, fields, Sealed>> /\ mParseError' \in {mParseError, TRUE}
  <1>1. CASE Header(type, value)
    <2>1. CASE HeaderOpens(type, value)
      BY <2>1 DEF HeaderOpens, Sealed
    <2>2. CASE ~HeaderOpens(type, value)
      BY <1>1, <2>2
      DEF Header, HeaderBeginEvaluate, HeaderBlank, HeaderNoIdentifier, HeaderKeywordMisplaced,
          HeaderSetting, HeaderEqualsEvaluate, HeaderParameterRefused, headerVars, LogError, Sealed
    <2> QED
      BY <2>1, <2>2
  <1>2. CASE Statement(type, value)
    BY <1>2
    DEF Statement, StatementEmpty, StatementNoWord, StatementUnknown, StatementNumeric,
        NumericPeriod, NumericNoName, NumericName, NumericNoSuffix, NumericSuffix,
        StatementEndEvaluate, headerVars, LogError, Sealed
  <1> QED
    BY <1>1, <1>2 DEF Observe, Evaluate

LEMMA TreeStep == IInv /\ [Next]_vars => [Tree!Next]_Tree!vars
  <1> SUFFICES ASSUME IInv, [Next]_vars PROVE [Tree!Next]_Tree!vars
    OBVIOUS
  <1>1. CASE UNCHANGED vars
    BY <1>1 DEF vars, headerVars, Tree!vars
  <1>2. CASE Next
    <2>1. PICK type, value : Observe(type, value) /\ Token(type, value)
      BY <1>2 DEF Next, Token
    <2>2. mParseError \in BOOLEAN /\ (mParseError => type = "Control")
      BY <2>1 DEF Observe, IInv, TypeOK
    <2>3. CASE HeaderEnds(type, value)
      <3>1. /\ ~mParseError /\ mHeaderStreamProgress # "StreamDone"
            /\ mHeaderStreamProgress' = "StreamDone"
            /\ properties' = WithDefaults
            /\ UNCHANGED <<fields, mParseError>>
        BY <2>2, <2>3 DEF HeaderEnds, HeaderWord
      <3>2. /\ DOMAIN properties' = Settings
            /\ \A name \in Settings : IsValue(name, properties'[name])
        BY <3>1, WithDefaultsAreValues DEF IInv
      <3>3. \A name \in DOMAIN properties :
                name \in DOMAIN properties' /\ properties'[name] = properties[name]
        BY <3>1, <3>2 DEF WithDefaults, IInv, TypeOK
      <3>4. Tree!Seal
        BY <3>1, <3>2, <3>3 DEF Tree!Seal, Tree!Keeps
      <3> QED
        BY <3>4 DEF Tree!Next
    <2>4. CASE HeaderParameterAccepted(type, value)
      <3> DEFINE converted == Converted(mIdentifier, value)
      <3>1. /\ mIdentifier \in Settings /\ IsValue(mIdentifier, converted)
            /\ mIdentifier \notin DOMAIN properties
            /\ properties' = [n \in DOMAIN properties \cup {mIdentifier} |->
                                 IF n = mIdentifier THEN converted ELSE properties[n]]
        BY <2>4, ConvertedIsValue DEF HeaderParameterAccepted, Add
      <3>2. /\ ~mParseError /\ mHeaderStreamProgress # "StreamDone"
            /\ UNCHANGED <<fields, mHeaderStreamProgress, mParseError>>
        <4>1. type # "Control" /\ mCurState = "HeaderParameter"
              /\ UNCHANGED <<fields, mHeaderStreamProgress, mParseError>>
          BY <2>4 DEF HeaderParameterAccepted, Accepts
        <4> QED
          BY <4>1, <2>2 DEF IInv, HeaderInv, StatementStates
      <3> HIDE DEF converted
      <3>3. /\ DOMAIN properties' = DOMAIN properties \cup {mIdentifier}
            /\ properties'[mIdentifier] = converted
            /\ \A name \in DOMAIN properties :
                  name \in DOMAIN properties' /\ properties'[name] = properties[name]
        BY <3>1
      <3>4. Tree!Define(mIdentifier)
        BY <3>1, <3>2, <3>3 DEF Tree!Define, Tree!Keeps
      <3> QED
        BY <3>1, <3>4 DEF Tree!Next
    <2>5. CASE NumericName(type, value) /\ mComplete'
      <3>1. ~mParseError /\ mCurState = "StatementFixedPointNumericId"
        BY <2>2, <2>5 DEF NumericName
      <3>2. /\ fields' = Append(fields, mProps')
            /\ UNCHANGED <<properties, mHeaderStreamProgress, mParseError>>
        BY <2>5, <3>1 DEF NumericName, headerVars
      <3>3. mHeaderStreamProgress = "StreamDone"
        BY <3>1 DEF IInv, HeaderInv, StatementStates
      <3>4. Tree!WellFormed(mProps')
        <4>2. mProps.signed => mProps.integral > 0
          BY <3>1 DEF IInv, BuilderInv, InStatement
        <4>3. CASE mComplete
          <5>1. UNCHANGED builderVars
            BY <2>5, <4>3 DEF NumericName
          <5>2. mProps.integral + mProps.fractional \in 1 .. MAX_NUMERIC_FIELD_BITS
            BY <3>1, <4>3 DEF IInv, BuilderInv, InStatement
          <5> QED
            BY <4>2, <5>1, <5>2 DEF Tree!WellFormed, builderVars
        <4>4. CASE ~mComplete
          <5>1. ParseSuffix(0)
            BY <2>5, <4>4 DEF NumericName
          <5> QED
            BY <2>5, <4>2, <4>4, <5>1, SuffixParsed DEF Tree!WellFormed
        <4> QED
          BY <4>3, <4>4
      <3>5. /\ Len(fields') \in DOMAIN fields' /\ fields'[Len(fields')] = mProps'
        <4>1. fields \in Seq(Widths) /\ fields' \in Seq(Widths)
          BY <2>1, <1>2, Preserved DEF IInv, TypeOK
        <4> QED
          BY <3>2, <4>1
      <3>6. Tree!AppendField
        <4>1. \E i \in DOMAIN fields' :
                 Tree!WellFormed(fields'[i]) /\ fields' = Append(fields, fields'[i])
          BY <3>2, <3>4, <3>5
        <4> QED
          BY <3>1, <3>2, <3>3, <4>1 DEF Tree!AppendField
      <3> QED
        BY <3>6 DEF Tree!Next
    <2>6. CASE /\ ~HeaderEnds(type, value) /\ ~HeaderParameterAccepted(type, value)
               /\ ~(NumericName(type, value) /\ mComplete')
      <3>1. /\ UNCHANGED <<properties, fields, mHeaderStreamProgress = "StreamDone">>
            /\ mParseError' \in {mParseError, TRUE}
        BY <2>1, <2>6, OtherStep DEF Sealed
      <3>2. CASE mParseError' = mParseError
        BY <3>1, <3>2 DEF Tree!vars
      <3>3. CASE mParseError' # mParseError
        <4>1. ~mParseError /\ mParseError' = TRUE
          BY <2>2, <3>1, <3>3
        <4>2. Tree!Close
          BY <3>1, <4>1 DEF Tree!Close
        <4> QED
          BY <4>2 DEF Tree!Next
      <3> QED
        BY <3>2, <3>3
    <2> QED
      BY <2>3, <2>4, <2>5, <2>6
  <1> QED
    BY <1>1, <1>2

\* The Interpreter implements the promise of SpecificationTree: each setting is defined at most
\* once, all have values before the first field, fields are well-formed, and nothing is added
\* after an error, whatever tokens come.
THEOREM TreeIsFilledInOrder == Spec => ImplementsTree
  <1>1. Init => Tree!Init
    <2> SUFFICES ASSUME Init PROVE Tree!Init
      OBVIOUS
    <2>1. DOMAIN properties = {} /\ fields = <<>> /\ mParseError = FALSE
          /\ mHeaderStreamProgress = "StreamBegin"
      BY DEF Init
    <2> QED
      BY <2>1 DEF Tree!Init
  <1> QED
    BY <1>1, TreeStep, Initially, Preserved, PTL DEF Spec, ImplementsTree, Tree!Spec
=============================================================================
