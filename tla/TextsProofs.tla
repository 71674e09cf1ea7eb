------------------------------ MODULE TextsProofs ------------------------------
(***************************************************************************)
(* Texts of every kind: string fields and the iterator over code points,   *)
(* and the literals of a specification.                                    *)
(*                                                                         *)
(* The fields are those declared, and texts are read as they were written, *)
(* in any of the codings.  They rest on one fact about the converters,     *)
(* RoundTrip: the bytes of a code point, with anything behind them, are    *)
(* converted back to it.                                                   *)
(*                                                                         *)
(* Literals are read run by run: numbers and strings mean what their text  *)
(* says, and are not refused.  The invariant says what the parser holds of *)
(* each way to read the text in front of any position (NumericAt,          *)
(* StringAt), and each kind of run leads from one such state to another or *)
(* to an error that no reading allows.                                     *)
(***************************************************************************)
EXTENDS FieldTexts, Literals, SetInduction, FiniteSetTheorems, SequenceTheorems

-----------------------------------------------------------------------------
(* The builder of string fields *)

BuilderRecords ==
    [mComplete : BOOLEAN, mError : BOOLEAN, mIdentParsed : BOOLEAN,
     mAllowUnterminated : {"Unset", "True", "False"}, mCode : CodingIds,
     mLengthType : {"Unknown", "Bounded", "Prefixed"}, mLengthValue : Nat,
     mTermChar : Nat,
     mDefaultCode : CodingIds, mDefaultTermChar : Nat]

Declarations ==
    [identifier : Identifiers \cup {"none"}, unterm : BOOLEAN, coding : CodingIds]

BuilderTypeOK ==
    /\ builder \in BuilderRecords /\ declared \in Declarations /\ lengthLeft \in BOOLEAN

\* A builder that is complete leaves nothing open but the coding and the terminator.
CompleteInv ==
    builder.mComplete =>
        builder.mIdentParsed /\ builder.mLengthType # "Unknown" /\ builder.mAllowUnterminated # "Unset"

\* What the builder has kept of the declarations, and of a pstring that was refused.
IsDeclared(b, d, left) ==
    /\ b.mIdentParsed <=> d.identifier \in {"string", "cstring", "pstring"}
    /\ d.identifier \in {"none", "string", "cstring", "pstring"}
    /\ b.mCode = d.coding
    /\ b.mAllowUnterminated =
           IF d.unterm \/ d.identifier = "pstring" THEN "True" ELSE "Unset"
    /\ b.mLengthType = CASE d.identifier = "pstring" \/ left -> "Prefixed"
                         [] d.identifier = "cstring" /\ ~left -> "Bounded"
                         [] OTHER -> "Unknown"
    /\ b.mLengthValue = IF d.identifier = "pstring" \/ left THEN 8 ELSE 0
    /\ d.identifier = "cstring" => b.mTermChar = 0 /\ ~left

BuilderInv ==
    /\ BuilderTypeOK /\ CompleteInv
    /\ ~builder.mComplete => IsDeclared(builder, declared, lengthLeft)

LEMMA CodingIdsAreKnown == \A name \in CodingNames : GetCodingId(name) \in CodingIds
  BY DEF GetCodingId, CodingIds, InvalidCodingId

LEMMA BuilderInitially == BuilderInit => BuilderInv
  <1>1. GetCodingId(Ascii) \in CodingIds
    BY DEF GetCodingId, Ascii, CodingIds
  <1>2. NothingDeclared \in Declarations
    BY DEF NothingDeclared, Declarations, CodingIds, InvalidCodingId
  <1>3. InvalidCodingId \in CodingIds
    BY DEF CodingIds
  <1>4. InitialBuilder \in BuilderRecords
    BY <1>1, <1>3 DEF InitialBuilder, BuilderRecords
  <1>5. BuilderInit => CompleteInv /\ IsDeclared(builder, declared, lengthLeft)
    <2> SUFFICES ASSUME BuilderInit PROVE CompleteInv /\ IsDeclared(builder, declared, lengthLeft)
      OBVIOUS
    <2>1. /\ ~builder.mComplete /\ ~builder.mIdentParsed /\ builder.mAllowUnterminated = "Unset"
          /\ builder.mCode = InvalidCodingId /\ builder.mLengthType = "Unknown"
          /\ builder.mLengthValue = 0
      BY DEF BuilderInit, InitialBuilder
    <2>2. /\ declared.identifier = "none" /\ ~declared.unterm /\ declared.coding = InvalidCodingId
          /\ ~lengthLeft
      BY DEF BuilderInit, NothingDeclared
    <2> QED
      BY <2>1, <2>2 DEF CompleteInv, IsDeclared
  <1> QED
    BY <1>2, <1>4, <1>5 DEF BuilderInit, BuilderInv, BuilderTypeOK

LEMMA NoneIsACodePoint == InvalidCodePoint \in Nat /\ InvalidCodingId \in CodingIds
  BY DEF InvalidCodePoint, CodingIds

LEMMA Defaults ==
  ASSUME NEW b \in BuilderRecords
  PROVE  /\ WithDefaults(b) \in BuilderRecords
         /\ WithDefaults(b).mComplete
         /\ WithDefaults(b).mIdentParsed = b.mIdentParsed
         /\ WithDefaults(b).mLengthValue = b.mLengthValue
         /\ WithDefaults(b).mLengthType =
                IF b.mLengthType = "Unknown" THEN "Bounded" ELSE b.mLengthType
         /\ WithDefaults(b).mTermChar =
                IF b.mTermChar = InvalidCodePoint THEN b.mDefaultTermChar ELSE b.mTermChar
         /\ WithDefaults(b).mAllowUnterminated =
                IF b.mAllowUnterminated = "Unset" THEN "False" ELSE b.mAllowUnterminated
         /\ WithDefaults(b).mCode = IF b.mCode = InvalidCodingId THEN b.mDefaultCode ELSE b.mCode
  <1> DEFINE length == IF b.mLengthType = "Unknown" THEN "Bounded" ELSE b.mLengthType
             term == IF b.mTermChar = InvalidCodePoint THEN b.mDefaultTermChar ELSE b.mTermChar
             unterm == IF b.mAllowUnterminated = "Unset" THEN "False" ELSE b.mAllowUnterminated
             code == IF b.mCode = InvalidCodingId THEN b.mDefaultCode ELSE b.mCode
  <1>1. WithDefaults(b) = [b EXCEPT !.mLengthType = length, !.mTermChar = term,
                                    !.mAllowUnterminated = unterm, !.mCode = code, !.mComplete = TRUE]
    BY DEF WithDefaults
  <1>2. /\ length \in {"Unknown", "Bounded", "Prefixed"} /\ term \in Nat
        /\ unterm \in {"Unset", "True", "False"} /\ code \in CodingIds
    BY DEF BuilderRecords
  <1> HIDE DEF length, term, unterm, code
  <1>3. WithDefaults(b) \in BuilderRecords
    BY <1>1, <1>2 DEF BuilderRecords
  <1>4. /\ WithDefaults(b).mComplete
        /\ WithDefaults(b).mIdentParsed = b.mIdentParsed
        /\ WithDefaults(b).mLengthValue = b.mLengthValue
        /\ WithDefaults(b).mLengthType = length /\ WithDefaults(b).mTermChar = term
        /\ WithDefaults(b).mAllowUnterminated = unterm /\ WithDefaults(b).mCode = code
    BY <1>1 DEF BuilderRecords
  <1> QED
    BY <1>3, <1>4 DEF length, term, unterm, code

LEMMA BuilderStep == BuilderInv /\ BuilderNext => BuilderInv'
  <1> SUFFICES ASSUME BuilderInv, BuilderNext PROVE BuilderInv'
    OBVIOUS
  <1> USE NoneIsACodePoint DEF BuilderInv, BuilderTypeOK, CompleteInv, IsDeclared
  <1>1. ASSUME NEW id \in Identifiers, ParseIdentifier(id) PROVE BuilderInv'
    <2>1. CASE id = "string"
      BY <1>1, <2>1 DEF ParseIdentifier, TakesIdentifier, WithIdentifier, BuilderRecords, Declarations,
                        Identifiers
    <2>2. CASE id = "cstring" /\ TakesTerm(builder)
      BY <1>1, <2>2 DEF ParseIdentifier, TakesIdentifier, WithIdentifier, BuilderRecords, Declarations,
                        Identifiers, TakesTerm, SetTermAttr
    <2>3. CASE id = "pstring" /\ TakesPlen(builder) /\ TakesUnterm(builder)
      BY <1>1, <2>3 DEF ParseIdentifier, TakesIdentifier, WithIdentifier, BuilderRecords, Declarations,
                        Identifiers, TakesPlen, TakesUnterm, SetPlenAttr, SetUntermAttr
    <2>4. CASE id = "pstring" /\ TakesPlen(builder) /\ ~TakesUnterm(builder)
      BY <1>1, <2>4 DEF ParseIdentifier, TakesIdentifier, WithIdentifier, BuilderRecords, Declarations,
                        Identifiers, TakesPlen, TakesUnterm, SetPlenAttr
    <2>5. CASE ~TakesIdentifier(builder, id) /\ WithIdentifier(builder, id) = builder
      <3>1. TakesIdentifier(builder, id) = FALSE
        BY <2>5 DEF TakesIdentifier
      <3>2. builder' = [builder EXCEPT !.mIdentParsed = FALSE] /\ declared' = declared
        BY <1>1, <2>5, <3>1 DEF ParseIdentifier
      <3>3. ~(id = "pstring" /\ TakesPlen(builder) /\ ~TakesUnterm(builder))
        BY <2>5 DEF WithIdentifier, TakesPlen, SetPlenAttr, BuilderRecords
      <3> QED
        BY <1>1, <3>2, <3>3 DEF ParseIdentifier, BuilderRecords
    <2> QED
      BY <1>1, <2>1, <2>2, <2>3, <2>4, <2>5 DEF TakesIdentifier, WithIdentifier
  <1>2. ASSUME NEW name \in CodingNames, ParseCode(name) PROVE BuilderInv'
    <2>1. GetCodingId(name) \in CodingIds
      BY CodingIdsAreKnown
    <2> QED
      BY <1>2, <2>1 DEF ParseCode, TakesCode, SetCodeAttr, BuilderRecords, Declarations
  <1>3. CASE ParseUnterm
    BY <1>3 DEF ParseUnterm, TakesUnterm, SetUntermAttr, BuilderRecords, Declarations
  <1>4. CASE RefusesAttribute
    BY <1>4 DEF RefusesAttribute, BuilderRecords
  <1>5. CASE Finalize
    <2>1. /\ builder' = WithDefaults(builder) /\ builder.mIdentParsed
          /\ UNCHANGED <<lengthLeft, declared>>
      BY <1>5 DEF Finalize
    <2>2. WithDefaults(builder) \in BuilderRecords
      BY Defaults
    <2>3. /\ builder'.mComplete /\ builder'.mIdentParsed /\ builder'.mLengthType # "Unknown"
          /\ builder'.mAllowUnterminated # "Unset"
      BY <2>1, Defaults
    <2> QED
      BY <2>1, <2>2, <2>3
  <1>6. CASE Reset
    BY <1>6 DEF Reset, ResetBuilder, NothingDeclared, BuilderRecords, Declarations
  <1>7. ASSUME NEW name \in CodingNames, SetDefaultCoding(GetCodingId(name)) PROVE BuilderInv'
    <2>1. GetCodingId(name) \in CodingIds
      BY CodingIdsAreKnown
    <2> QED
      BY <1>7, <2>1 DEF SetDefaultCoding, BuilderRecords
  <1>8. ASSUME NEW cp \in TermChars, SetDefaultTermChar(cp) PROVE BuilderInv'
    <2>1. cp \in Nat
      BY StringFieldsAssumption
    <2> QED
      BY <1>8, <2>1 DEF SetDefaultTermChar, BuilderRecords
  <1> QED
    BY <1>1, <1>2, <1>3, <1>4, <1>5, <1>6, <1>7, <1>8 DEF BuilderNext
-----------------------------------------------------------------------------
(* What the builder promises *)

LEMMA BuilderUnchanged ==
  ASSUME BuilderInv, UNCHANGED builderVars
  PROVE  BuilderInv'
  BY DEF builderVars, BuilderInv, BuilderTypeOK, CompleteInv, IsDeclared

\* Every step is one of the builder's or leaves it alone.
LEMMA BuilderOrNot ==
  ASSUME [FieldTextsNext]_fieldTextVars
  PROVE  BuilderNext \/ UNCHANGED builderVars
  BY DEF FieldTextsNext, fieldTextVars, BuildsField, OpensText, OpensBytes, Opens, Closes,
         Dereference, PreIncrement, PostIncrement

\* What a step may change of a finished field.
FieldStays ==
    GetField(builder') =
        [GetField(builder) EXCEPT
            !.mCode = IF @ = InvalidCodingId THEN builder'.mCode ELSE @,
            !.mTermChar = IF @ = InvalidCodePoint THEN builder'.mTermChar ELSE @]

FieldOf(length, value, term, unterm, code) ==
    [mLengthType |-> length, mLengthValue |-> value, mTermChar |-> term,
     mAllowUnterminated |-> unterm, mCode |-> code]
Filled(field, code, term) == [field EXCEPT !.mCode = code, !.mTermChar = term]

LEMMA FieldsAreFilled ==
  ASSUME NEW length, NEW value, NEW term, NEW unterm, NEW code, NEW term2, NEW code2
  PROVE  Filled(FieldOf(length, value, term, unterm, code), code2, term2)
             = FieldOf(length, value, term2, unterm, code2)
  <1> DEFINE Field(t, c) == FieldOf(length, value, t, unterm, c)
  <1>1. [Field(term, code) EXCEPT !.mCode = code2] = Field(term, code2)
    BY DEF FieldOf
  <1>2. [Field(term, code2) EXCEPT !.mTermChar = term2] = Field(term2, code2)
    BY DEF FieldOf
  <1>3. Filled(Field(term, code), code2, term2)
            = [[Field(term, code) EXCEPT !.mCode = code2] EXCEPT !.mTermChar = term2]
    BY DEF Filled
  <1> QED
    BY <1>1, <1>2, <1>3

LEMMA StaysByParts ==
  ASSUME builder'.mLengthType = builder.mLengthType, builder'.mLengthValue = builder.mLengthValue,
         builder'.mAllowUnterminated = builder.mAllowUnterminated,
         builder'.mTermChar =
             IF builder.mTermChar = InvalidCodePoint THEN builder'.mTermChar ELSE builder.mTermChar,
         builder'.mCode = IF builder.mCode = InvalidCodingId THEN builder'.mCode ELSE builder.mCode
  PROVE  FieldStays
  <1> DEFINE field == GetField(builder)
             term == IF builder.mTermChar = InvalidCodePoint THEN builder'.mTermChar
                     ELSE builder.mTermChar
             code == IF builder.mCode = InvalidCodingId THEN builder'.mCode ELSE builder.mCode
  <1>1. field.mTermChar = builder.mTermChar /\ field.mCode = builder.mCode
    BY DEF GetField
  <1>2. [field EXCEPT !.mCode = IF @ = InvalidCodingId THEN builder'.mCode ELSE @,
                      !.mTermChar = IF @ = InvalidCodePoint THEN builder'.mTermChar ELSE @]
            = Filled(field, code, term)
    BY <1>1 DEF Filled
  <1>3. builder'.mTermChar = term /\ builder'.mCode = code
    OBVIOUS
  <1> HIDE DEF term, code
  <1>4. Filled(field, code, term) = GetField(builder')
    <2> DEFINE unterm == builder.mAllowUnterminated = "True"
    <2>1. /\ field = FieldOf(builder.mLengthType, builder.mLengthValue, builder.mTermChar, unterm,
                             builder.mCode)
          /\ GetField(builder') = FieldOf(builder.mLengthType, builder.mLengthValue, term, unterm, code)
      BY <1>3 DEF GetField, FieldOf
    <2> HIDE DEF field, unterm
    <2> QED
      BY <2>1, FieldsAreFilled
  <1> QED
    BY <1>2, <1>4 DEF FieldStays

LEMMA FinishedStays ==
  ASSUME BuilderInv, BuilderNext,
         builder.mComplete, builder'.mComplete
  PROVE  FieldStays
  <1> USE DEF BuilderInv, BuilderTypeOK, CompleteInv
  <1>1. builder.mIdentParsed /\ builder.mLengthType # "Unknown" /\ builder.mAllowUnterminated # "Unset"
    OBVIOUS
  <1>2. ~ParseUnterm /\ ~Reset /\ \A id : ~ParseIdentifier(id)
    <2>1. ~Reset
      BY DEF Reset, ResetBuilder, BuilderRecords
    <2> QED
      BY <1>1, <2>1 DEF ParseUnterm, TakesUnterm, ParseIdentifier
  <1>3. CASE RefusesAttribute
    BY <1>3, StaysByParts DEF RefusesAttribute, BuilderRecords
  <1>4. CASE Finalize
    <2>1. builder' = WithDefaults(builder)
      BY <1>4 DEF Finalize
    <2>2. /\ builder'.mLengthType = builder.mLengthType /\ builder'.mLengthValue = builder.mLengthValue
          /\ builder'.mAllowUnterminated = builder.mAllowUnterminated
          /\ builder'.mTermChar =
                 IF builder.mTermChar = InvalidCodePoint THEN builder'.mTermChar ELSE builder.mTermChar
          /\ builder'.mCode = IF builder.mCode = InvalidCodingId THEN builder'.mCode ELSE builder.mCode
      BY <1>1, <2>1, Defaults
    <2> QED
      BY <2>2, StaysByParts
  <1>5. ASSUME NEW name, ParseCode(name) PROVE FieldStays
    BY <1>5, StaysByParts DEF ParseCode, TakesCode, SetCodeAttr, BuilderRecords
  <1>6. ASSUME NEW id, SetDefaultCoding(id) PROVE FieldStays
    BY <1>6, StaysByParts DEF SetDefaultCoding, BuilderRecords
  <1>7. ASSUME NEW cp, SetDefaultTermChar(cp) PROVE FieldStays
    BY <1>7, StaysByParts DEF SetDefaultTermChar, BuilderRecords
  <1> QED
    BY <1>2, <1>3, <1>4, <1>5, <1>6, <1>7 DEF BuilderNext

LEMMA IsAsDescribed ==
  ASSUME BuilderInv, BuilderNext,
         ~builder.mComplete, builder'.mComplete,
         builder.mTermChar = InvalidCodePoint \/ declared.identifier = "cstring"
  PROVE  GetField(builder') = Described(builder, declared, lengthLeft)
  <1> USE DEF BuilderInv, BuilderTypeOK
  <1>1. CASE Finalize
    <2>1. IsDeclared(builder, declared, lengthLeft) /\ builder.mIdentParsed /\ builder' = WithDefaults(builder)
      BY <1>1 DEF Finalize
    <2>2. declared.identifier \in {"string", "cstring", "pstring"}
      BY <2>1 DEF IsDeclared
    <2>3. /\ builder'.mLengthType =
                 IF builder.mLengthType = "Unknown" THEN "Bounded" ELSE builder.mLengthType
          /\ builder'.mTermChar = IF builder.mTermChar = InvalidCodePoint
                                  THEN builder.mDefaultTermChar ELSE builder.mTermChar
          /\ builder'.mAllowUnterminated = IF builder.mAllowUnterminated = "Unset"
                                           THEN "False" ELSE builder.mAllowUnterminated
          /\ builder'.mCode =
                 IF builder.mCode = InvalidCodingId THEN builder.mDefaultCode ELSE builder.mCode
          /\ builder'.mLengthValue = builder.mLengthValue
      BY <2>1, Defaults
    <2>4. /\ builder'.mLengthType = Described(builder, declared, lengthLeft).mLengthType
          /\ builder'.mLengthValue = Described(builder, declared, lengthLeft).mLengthValue
      BY <2>1, <2>2, <2>3 DEF IsDeclared, Described
    <2>5. builder'.mTermChar = Described(builder, declared, lengthLeft).mTermChar
      BY <2>1, <2>2, <2>3 DEF IsDeclared, Described, InvalidCodePoint
    <2>6. /\ (builder'.mAllowUnterminated = "True")
                 = Described(builder, declared, lengthLeft).mAllowUnterminated
          /\ builder'.mCode = Described(builder, declared, lengthLeft).mCode
      BY <2>1, <2>2, <2>3 DEF IsDeclared, Described, Declarations
    <2> QED
      BY <2>4, <2>5, <2>6 DEF GetField, Described
  <1>2. CASE ~Finalize
    <2> USE DEF BuilderRecords
    <2>1. ASSUME NEW id \in Identifiers, ParseIdentifier(id) PROVE ~builder'.mComplete
      <3>1. /\ WithIdentifier(builder, id) \in BuilderRecords
            /\ ~WithIdentifier(builder, id).mComplete
        BY DEF WithIdentifier, SetTermAttr, SetPlenAttr, SetUntermAttr
      <3> QED
        BY <2>1, <3>1 DEF ParseIdentifier
    <2>2. ASSUME NEW name, ParseCode(name) PROVE ~builder'.mComplete
      BY <2>2 DEF ParseCode, SetCodeAttr
    <2>3. ASSUME NEW id, SetDefaultCoding(id) PROVE ~builder'.mComplete
      BY <2>3 DEF SetDefaultCoding
    <2>4. ASSUME NEW cp, SetDefaultTermChar(cp) PROVE ~builder'.mComplete
      BY <2>4 DEF SetDefaultTermChar
    <2>5. (RefusesAttribute => ~builder'.mComplete) /\ (ParseUnterm => ~builder'.mComplete)
          /\ (Reset => ~builder'.mComplete)
      BY DEF RefusesAttribute, ParseUnterm, SetUntermAttr, Reset, ResetBuilder
    <2> QED
      BY <1>2, <2>1, <2>2, <2>3, <2>4, <2>5 DEF BuilderNext
  <1> QED
    BY <1>1, <1>2

-----------------------------------------------------------------------------
(* The codings by table *)

Tables == Seq([other : Nat, unicode : Nat, blockLen : Nat])

\* The blocks follow one another, so that a code is in one of them at most.
IsOrdered(table) ==
    \A i, j \in DOMAIN table : i < j => table[i].other + table[i].blockLen <= table[j].other

LEMMA TablesAreOrdered == \A coding \in Codings \ {"UTF8"} :
                              TableOf(coding) \in Tables /\ IsOrdered(TableOf(coding))
  <1>1. AsciiTable \in Tables /\ IsOrdered(AsciiTable)
    BY SMT DEF AsciiTable, Tables, IsOrdered
  <1>2. Ms1252Table \in Tables /\ Len(Ms1252Table) = 26
    BY SMTT(60) DEF Ms1252Table, Block, Tables
  <1>3. \A i, j \in 1 .. 26 :
            i < j => Ms1252Table[i].other + Ms1252Table[i].blockLen <= Ms1252Table[j].other
    BY SMTT(60) DEF Ms1252Table, Block
  <1>4. DOMAIN Ms1252Table = 1 .. 26
    BY <1>2 DEF Tables
  <1> QED
    BY <1>1, <1>2, <1>3, <1>4 DEF TableOf, IsOrdered

LEMMA BlocksHaveCodes ==
  ASSUME NEW table \in Tables, NEW i \in DOMAIN table
  PROVE  /\ i \in Nat
         /\ table[i].other \in Nat /\ table[i].unicode \in Nat /\ table[i].blockLen \in Nat
  <1> DEFINE Blocks == [other : Nat, unicode : Nat, blockLen : Nat]
  <1>1. table \in Seq(Blocks)
    BY DEF Tables
  <1>2. i \in Nat /\ table[i] \in Blocks
    <2> HIDE DEF Blocks
    <2> QED
      BY <1>1
  <1> QED
    BY <1>2

LEMMA TranscodeFinds ==
  ASSUME NEW table \in Tables, NEW from, NEW to, NEW code
  PROVE  IF BlocksWith(table, from, code) = {} THEN Transcode(table, from, to, code) = Undefined
         ELSE \E i \in BlocksWith(table, from, code) :
                  Transcode(table, from, to, code) = table[i][to] + code - table[i][from]
  <1> DEFINE blocks == BlocksWith(table, from, code)
             first == CHOOSE i \in blocks : \A j \in blocks : i <= j
  <1>1. CASE blocks # {}
    <2>1. blocks \in SUBSET Nat
      BY DEF BlocksWith, Tables
    <2>2. \E i \in blocks : \A j \in blocks : ~(j < i)
      <3> HIDE DEF blocks
      <3> QED
        BY <1>1, <2>1, LeastNumber
    <2>3. \E i \in blocks : \A j \in blocks : i <= j
      <3> HIDE DEF blocks
      <3> QED
        BY <2>1, <2>2
    <2>4. first \in blocks
      <3> HIDE DEF blocks
      <3> QED
        BY <2>3
    <2>5. Transcode(table, from, to, code) = table[first][to] + code - table[first][from]
      BY <1>1 DEF Transcode
    <2> HIDE DEF first
    <2> QED
      BY <2>4, <2>5
  <1> QED
    BY <1>1 DEF Transcode

LEMMA TableRoundTrip ==
  ASSUME NEW table \in Tables, IsOrdered(table), NEW cp \in Nat, FromUnicode(table, cp) # Undefined
  PROVE  /\ FromUnicode(table, cp) \in Nat
         /\ ToUnicode(table, FromUnicode(table, cp)) = cp
  <1> DEFINE code == FromUnicode(table, cp)
  <1>1. PICK i \in BlocksWith(table, "unicode", cp) : code = table[i].other + cp - table[i].unicode
    BY TranscodeFinds DEF FromUnicode
  <1> HIDE DEF code
  <1>2. /\ i \in DOMAIN table
        /\ cp \in table[i].unicode .. table[i].unicode + table[i].blockLen - 1
    BY DEF BlocksWith
  <1>3. /\ table[i].unicode \in Nat /\ table[i].other \in Nat /\ table[i].blockLen \in Nat
    BY <1>2, BlocksHaveCodes
  <1>4. /\ code \in Nat /\ code \in table[i].other .. table[i].other + table[i].blockLen - 1
    BY <1>1, <1>2, <1>3
  <1>5. i \in BlocksWith(table, "other", code)
    BY <1>2, <1>4 DEF BlocksWith
  <1>6. ASSUME NEW j \in BlocksWith(table, "other", code) PROVE j = i
    <2>1. /\ j \in DOMAIN table
          /\ code \in table[j].other .. table[j].other + table[j].blockLen - 1
      BY DEF BlocksWith
    <2>2. table[j].other \in Nat /\ table[j].blockLen \in Nat /\ i \in Nat /\ j \in Nat
      BY <1>2, <2>1, BlocksHaveCodes
    <2>3. ~(i < j) /\ ~(j < i)
      BY <1>2, <1>3, <1>4, <2>1, <2>2 DEF IsOrdered
    <2> QED
      BY <2>2, <2>3
  <1>7. ToUnicode(table, code) = table[i].unicode + code - table[i].other
    <2>1. BlocksWith(table, "other", code) # {}
      BY <1>5
    <2> QED
      BY <1>6, <2>1, TranscodeFinds DEF ToUnicode
  <1> QED
    BY <1>1, <1>2, <1>3, <1>4, <1>7 DEF code

-----------------------------------------------------------------------------
(* UTF-8 *)

LEMMA FirstNumbers ==
  ASSUME NEW k \in Nat, NEW S \in SUBSET Nat, \A n \in Nat : n \in S <=> 1 <= n /\ n <= k
  PROVE  Cardinality(S) = k
  <1>1. \A n : n \in S <=> n \in 1 .. k
    <2>1. ASSUME NEW n \in S PROVE n \in 1 .. k
      OBVIOUS
    <2>2. ASSUME NEW n \in 1 .. k PROVE n \in S
      OBVIOUS
    <2> QED
      BY <2>1, <2>2
  <1>2. Cardinality(1 .. k) = IF 1 > k THEN 0 ELSE k - 1 + 1
    <2>1. 1 \in Int /\ k \in Int
      OBVIOUS
    <2> QED
      BY <2>1, FS_Interval, Zenon
  <1>3. S = 1 .. k
    BY <1>1, Zenon
  <1> QED
    BY <1>2, <1>3, SMT

\* The bytes that begin with k ones.
Announcing(k) ==
    CASE k = 0 -> 0 .. 127
      [] k = 1 -> 128 .. 191
      [] k = 2 -> 192 .. 223
      [] k = 3 -> 224 .. 239
      [] k = 4 -> 240 .. 247
      [] k = 5 -> 248 .. 251
      [] k = 6 -> 252 .. 253

LEMMA HeaderBits ==
  ASSUME NEW k \in 0 .. 6, NEW byte \in Announcing(k)
  PROVE  CountHeaderBits(byte) = k
  <1>1. /\ 2^(8 - 1) = 128 /\ 2^(8 - 2) = 64 /\ 2^(8 - 3) = 32 /\ 2^(8 - 4) = 16
        /\ 2^(8 - 5) = 8 /\ 2^(8 - 6) = 4 /\ 2^(8 - 7) = 2 /\ 2^(8 - 8) = 1
    BY SMT
  <1>2. /\ byte \in Nat
        /\ \/ k = 0 /\ byte < 128
           \/ k = 1 /\ 128 <= byte /\ byte < 192
           \/ k = 2 /\ 192 <= byte /\ byte < 224
           \/ k = 3 /\ 224 <= byte /\ byte < 240
           \/ k = 4 /\ 240 <= byte /\ byte < 248
           \/ k = 5 /\ 248 <= byte /\ byte < 252
           \/ k = 6 /\ 252 <= byte /\ byte < 254
    <2>1. k = 0 \/ k = 1 \/ k = 2 \/ k = 3 \/ k = 4 \/ k = 5 \/ k = 6
      BY SMT
    <2> QED
      BY <2>1, SMT DEF Announcing
  <1> DEFINE one(n) == byte >= 256 - 2^(8 - n)
             ones == {n \in 1 .. 8 : one(n)}
  <1>3. /\ (one(1) <=> 1 <= k) /\ (one(2) <=> 2 <= k) /\ (one(3) <=> 3 <= k)
        /\ (one(4) <=> 4 <= k) /\ (one(5) <=> 5 <= k) /\ (one(6) <=> 6 <= k)
        /\ (one(7) <=> 7 <= k) /\ (one(8) <=> 8 <= k)
    BY <1>1, <1>2, SMT
  <1>4. ones \in SUBSET Nat /\ \A n \in Nat : n \in ones <=> 1 <= n /\ n <= k
    <2> HIDE DEF one
    <2>1. ASSUME NEW n \in 1 .. 8 PROVE one(n) <=> n <= k
      <3>1. n = 1 \/ n = 2 \/ n = 3 \/ n = 4 \/ n = 5 \/ n = 6 \/ n = 7 \/ n = 8
        BY SMT
      <3> QED
        BY <1>3, <3>1
    <2>2. ones \subseteq 1 .. 8 /\ \A n \in 1 .. 8 : n \in ones <=> n <= k
      BY <2>1
    <2> HIDE DEF ones
    <2> QED
      BY <2>2
  <1> QED
    BY <1>4, FirstNumbers DEF CountHeaderBits

\* The first code point that takes a byte more.
Limit(size) == IF size = 0 THEN 0 ELSE IF size = 6 THEN 2147483648 ELSE 2^Utf8Bits(size)

LEMMA SizeIsBetweenLimits ==
  ASSUME NEW cp \in Nat, IsValidCodePoint(cp)
  PROVE  /\ Utf8Size(cp) \in 1 .. 6
         /\ Limit(Utf8Size(cp) - 1) <= cp /\ cp < Limit(Utf8Size(cp))
  <1>1. cp <= 2147483647
    BY CodecsAssumption, SMT DEF IsValidCodePoint
  <1>2. /\ 2^Utf8Bits(1) = 128 /\ 2^Utf8Bits(2) = 2048 /\ 2^Utf8Bits(3) = 65536
        /\ 2^Utf8Bits(4) = 2097152 /\ 2^Utf8Bits(5) = 67108864
    BY SMT DEF Utf8Bits
  <1>3. \E k \in 0 .. 5 : Limit(k) <= cp /\ cp < Limit(k + 1)
    <2>1. /\ Limit(0) = 0 /\ Limit(0 + 1) = 128 /\ Limit(1) = 128 /\ Limit(1 + 1) = 2048
          /\ Limit(2) = 2048 /\ Limit(2 + 1) = 65536 /\ Limit(3) = 65536
          /\ Limit(3 + 1) = 2097152 /\ Limit(4) = 2097152 /\ Limit(4 + 1) = 67108864
          /\ Limit(5) = 67108864 /\ Limit(5 + 1) = 2147483648
      BY <1>2, SMT DEF Limit
    <2>2. \/ cp < 128
          \/ 128 <= cp /\ cp < 2048
          \/ 2048 <= cp /\ cp < 65536
          \/ 65536 <= cp /\ cp < 2097152
          \/ 2097152 <= cp /\ cp < 67108864
          \/ 67108864 <= cp /\ cp < 2147483648
      BY <1>1, SMT
    <2> QED
      BY <2>1, <2>2, SMT
  <1>4. PICK k \in 0 .. 5 : Limit(k) <= cp /\ cp < Limit(k + 1)
    BY <1>3
  <1>5. k = 0 \/ k = 1 \/ k = 2 \/ k = 3 \/ k = 4 \/ k = 5
    BY SMT
  <1>6. ASSUME NEW n \in 1 .. 5 PROVE cp >= 2^Utf8Bits(n) <=> n <= k
    <2>1. n = 1 \/ n = 2 \/ n = 3 \/ n = 4 \/ n = 5
      BY SMT
    <2> QED
      BY <1>2, <1>4, <1>5, <2>1, SMT DEF Limit
  <1> DEFINE reached == {n \in 1 .. 5 : cp >= 2^Utf8Bits(n)}
  <1>7. reached \in SUBSET Nat /\ \A n \in Nat : n \in reached <=> 1 <= n /\ n <= k
    <2>1. \A n \in 1 .. 5 : n \in reached <=> n <= k
      BY <1>6
    <2>2. reached \subseteq 1 .. 5
      OBVIOUS
    <2> HIDE DEF reached
    <2> QED
      BY <2>1, <2>2
  <1>8. Cardinality(reached) = k
    <2> HIDE DEF reached
    <2> QED
      BY <1>7, FirstNumbers
  <1>9. Utf8Size(cp) = k + 1
    BY <1>8, SMT DEF Utf8Size
  <1> QED
    BY <1>4, <1>9, SMT

\* What is left of a code point without its last j groups of six bits.
Power64(j) == CASE j = 0 -> 1 [] j = 1 -> 64 [] j = 2 -> 4096 [] j = 3 -> 262144
                [] j = 4 -> 16777216 [] j = 5 -> 1073741824

Leading(cp, j) == cp \div Power64(j)

LEMMA PowersOf64 == \A j \in 0 .. 5 : 64^j = Power64(j)
  <1>1. 64^0 = 1 /\ 64^1 = 64 /\ 64^2 = 4096 /\ 64^3 = 262144 /\ 64^4 = 16777216 /\ 64^5 = 1073741824
    BY SMT
  <1> DEFINE power(j) == 64^j
  <1>2. /\ power(0) = 1 /\ power(1) = 64 /\ power(2) = 4096 /\ power(3) = 262144
        /\ power(4) = 16777216 /\ power(5) = 1073741824
    BY <1>1, SMT
  <1>3. ASSUME NEW j \in 0 .. 5 PROVE power(j) = Power64(j)
    <2> HIDE DEF power
    <2>1. j = 0 \/ j = 1 \/ j = 2 \/ j = 3 \/ j = 4 \/ j = 5
      BY SMT
    <2> QED
      BY <1>2, <2>1, SMT DEF Power64
  <1> QED
    BY <1>3, Zenon

LEMMA LeadingBits ==
  ASSUME NEW cp \in Nat
  PROVE  /\ \A j \in 0 .. 5 : Leading(cp, j) \in Nat
         /\ Leading(cp, 0) = cp
         /\ \A j \in 0 .. 4 : Leading(cp, j + 1) * 64 + (Leading(cp, j) % 64) = Leading(cp, j)
  <1>1. ASSUME NEW j \in 0 .. 5 PROVE Leading(cp, j) \in Nat
    <2>1. j = 0 \/ j = 1 \/ j = 2 \/ j = 3 \/ j = 4 \/ j = 5
      BY SMT
    <2> QED
      BY <2>1, SMTT(30) DEF Leading, Power64
  <1>2. ASSUME NEW j \in 0 .. 4
        PROVE  Leading(cp, j + 1) * 64 + (Leading(cp, j) % 64) = Leading(cp, j)
    <2>1. j = 0 \/ j = 1 \/ j = 2 \/ j = 3 \/ j = 4
      BY SMT
    <2> QED
      BY <2>1, SMTT(30) DEF Leading, Power64
  <1> QED
    BY <1>1, <1>2, SMTT(30) DEF Leading, Power64

\* The bytes of a code point: the first announces the size and has the leading bits, of which there
\* are as many as it has room for, and each of the others has six more.
LEMMA Utf8Bytes ==
  ASSUME NEW cp \in Nat, IsValidCodePoint(cp)
  PROVE  LET size == Utf8Size(cp)
             s == Utf8ConvertSymbol(cp)
             header == IF size = 1 THEN 0 ELSE size
         IN  /\ s \in Seq(Nat) /\ Len(s) = size /\ size \in 1 .. 6
             /\ s[1] \in Announcing(header)
             /\ s[1] % 2^(7 - header) = Leading(cp, size - 1)
             /\ \A i \in 2 .. size : /\ s[i] \in Announcing(1)
                                     /\ s[i] % 64 = Leading(cp, size - i) % 64
  <1> DEFINE size == Utf8Size(cp)
             s == Utf8ConvertSymbol(cp)
             header == IF size = 1 THEN 0 ELSE size
             byte(i) == CASE i = 1 /\ size = 1 -> cp
                          [] i = 1 /\ size > 1 -> 256 - 2^(8 - size) + cp \div 64^(size - 1)
                          [] OTHER -> 128 + ((cp \div 64^(size - i)) % 64)
  <1>1. s = [i \in 1 .. size |-> byte(i)]
    BY SMT DEF Utf8ConvertSymbol
  <1>2. size \in 1 .. 6 /\ Limit(size - 1) <= cp /\ cp < Limit(size)
    BY SizeIsBetweenLimits
  <1>3. size = 1 \/ size = 2 \/ size = 3 \/ size = 4 \/ size = 5 \/ size = 6
    BY <1>2, SMT
  <1>4. /\ 2^(8 - 2) = 64 /\ 2^(8 - 3) = 32 /\ 2^(8 - 4) = 16 /\ 2^(8 - 5) = 8 /\ 2^(8 - 6) = 4
    BY SMT
  <1>5. /\ 2^(7 - 0) = 128 /\ 2^(7 - 2) = 32 /\ 2^(7 - 3) = 16 /\ 2^(7 - 4) = 8
        /\ 2^(7 - 5) = 4 /\ 2^(7 - 6) = 2
    BY SMT
  <1>6. /\ 2^Utf8Bits(1) = 128 /\ 2^Utf8Bits(2) = 2048 /\ 2^Utf8Bits(3) = 65536
        /\ 2^Utf8Bits(4) = 2097152 /\ 2^Utf8Bits(5) = 67108864
    BY SMT DEF Utf8Bits
  <1>7. /\ byte(1) \in Nat /\ byte(1) \in Announcing(header)
        /\ byte(1) % 2^(7 - header) = Leading(cp, size - 1)
    <2>1. CASE size = 1
      BY <1>2, <1>5, <1>6, <2>1, SMT DEF Limit, Announcing, Leading, Power64
    <2>2. CASE size = 2
      BY <1>2, <1>4, <1>5, <1>6, <2>2, PowersOf64, SMT DEF Limit, Announcing, Leading, Power64
    <2>3. CASE size = 3
      BY <1>2, <1>4, <1>5, <1>6, <2>3, PowersOf64, SMT DEF Limit, Announcing, Leading, Power64
    <2>4. CASE size = 4
      BY <1>2, <1>4, <1>5, <1>6, <2>4, PowersOf64, SMT DEF Limit, Announcing, Leading, Power64
    <2>5. CASE size = 5
      BY <1>2, <1>4, <1>5, <1>6, <2>5, PowersOf64, SMT DEF Limit, Announcing, Leading, Power64
    <2>6. CASE size = 6
      BY <1>2, <1>4, <1>5, <1>6, <2>6, PowersOf64, SMT DEF Limit, Announcing, Leading, Power64
    <2> QED
      BY <1>3, <2>1, <2>2, <2>3, <2>4, <2>5, <2>6
  <1>8. ASSUME NEW i \in 2 .. size
        PROVE  /\ byte(i) \in Nat /\ byte(i) \in Announcing(1)
               /\ byte(i) % 64 = Leading(cp, size - i) % 64
    <2>1. size - i \in 0 .. 5 /\ i # 1 /\ size # 1
      BY <1>2, SMT
    <2>2. byte(i) = 128 + (Leading(cp, size - i) % 64)
      BY <2>1, PowersOf64 DEF Leading
    <2>3. Leading(cp, size - i) \in Nat
      BY <2>1, LeadingBits
    <2> HIDE DEF byte
    <2> QED
      BY <2>2, <2>3, SMT DEF Announcing
  <1> HIDE DEF byte, s, size
  <1>9. /\ s \in Seq(Nat) /\ Len(s) = size /\ s[1] = byte(1)
        /\ \A i \in 2 .. size : s[i] = byte(i)
    <2>1. \A i \in 1 .. size : byte(i) \in Nat
      BY <1>2, <1>7, <1>8, SMT
    <2> QED
      BY <1>1, <1>2, <2>1, SMT
  <1> QED
    BY <1>2, <1>7, <1>8, <1>9 DEF s, size

\* What ConvertBytes computes byte by byte.
AreSymbols(f, first, b, k) ==
    f = [i \in 1 .. k |-> IF i = 1 THEN first ELSE f[i - 1] * 64 + (b[i] % 64)]

LEMMA SymbolsExist ==
  ASSUME NEW first, NEW b, NEW k \in Nat
  PROVE  \E f : AreSymbols(f, first, b, k)
  <1> DEFINE S == {n \in Nat : \E f : AreSymbols(f, first, b, n)}
  <1>1. 0 \in S
    <2>1. AreSymbols([i \in 1 .. 0 |-> first], first, b, 0)
      BY DEF AreSymbols
    <2> QED
      BY <2>1
  <1>2. ASSUME NEW n \in S PROVE n + 1 \in S
    <2>1. PICK f : AreSymbols(f, first, b, n)
      OBVIOUS
    <2> DEFINE g == [i \in 1 .. n + 1 |->
                        IF i = n + 1 THEN IF n = 0 THEN first ELSE f[n] * 64 + (b[n + 1] % 64)
                        ELSE f[i]]
    <2>2. ASSUME NEW i \in 1 .. n + 1
          PROVE  g[i] = IF i = 1 THEN first ELSE g[i - 1] * 64 + (b[i] % 64)
      <3>1. CASE i = n + 1
        <4>1. i # 1 => i - 1 = n /\ n \in 1 .. n + 1 /\ n # n + 1
          BY <3>1
        <4>2. i = 1 <=> n = 0
          BY <3>1
        <4> QED
          BY <3>1, <4>1, <4>2
      <3>2. CASE i \in 1 .. n
        <4>1. f[i] = IF i = 1 THEN first ELSE f[i - 1] * 64 + (b[i] % 64)
          BY <2>1, <3>2 DEF AreSymbols
        <4>2. g[i] = f[i] /\ (i # 1 => g[i - 1] = f[i - 1])
          BY <3>2
        <4> QED
          BY <4>1, <4>2
      <3> QED
        BY <3>1, <3>2
    <2>3. g = [i \in 1 .. n + 1 |-> IF i = 1 THEN first ELSE g[i - 1] * 64 + (b[i] % 64)]
      <3> HIDE DEF g
      <3>1. g = [i \in 1 .. n + 1 |-> g[i]]
        BY DEF g
      <3> QED
        BY <2>2, <3>1
    <2>4. AreSymbols(g, first, b, n + 1)
      BY <2>3 DEF AreSymbols
    <2> HIDE DEF g
    <2> QED
      BY <2>4
  <1>3. S = Nat
    <2> HIDE DEF S
    <2>1. S \in SUBSET Nat
      BY DEF S
    <2> QED
      BY <1>1, <1>2, <2>1, Induction
  <1> QED
    BY <1>3

LEMMA WhatUtf8Converts ==
  ASSUME NEW b, IsUtf8(b), NEW header, header = CountHeaderBits(b[1]),
         NEW size, size = IF header = 0 THEN 1 ELSE header
  PROVE  Utf8ConvertBytes(b) =
            [size |-> size,
             symbol |-> (CHOOSE f : f = [i \in 1 .. size |->
                                            IF i = 1 THEN b[1] % 2^(7 - header)
                                            ELSE f[i - 1] * 64 + (b[i] % 64)])[size]]
  BY DEF Utf8ConvertBytes

LEMMA Utf8RoundTrip ==
  ASSUME NEW cp \in Nat, IsValidCodePoint(cp), NEW tail \in Seq(Nat)
  PROVE  Utf8ConvertBytes(Utf8ConvertSymbol(cp) \o tail)
             = [size |-> Len(Utf8ConvertSymbol(cp)), symbol |-> cp]
  <1> DEFINE size == Utf8Size(cp)
             s == Utf8ConvertSymbol(cp)
             b == s \o tail
             header == IF size = 1 THEN 0 ELSE size
  <1>1. /\ s \in Seq(Nat) /\ Len(s) = size /\ size \in 1 .. 6
        /\ s[1] \in Announcing(header) /\ s[1] % 2^(7 - header) = Leading(cp, size - 1)
        /\ \A i \in 2 .. size : /\ s[i] \in Announcing(1)
                                /\ s[i] % 64 = Leading(cp, size - i) % 64
    BY Utf8Bytes, Zenon
  <1> HIDE DEF size, s
  <1>2. /\ Len(b) \in Nat /\ size <= Len(b) /\ \A i \in 1 .. size : b[i] = s[i]
    BY <1>1
  <1> HIDE DEF b
  <1>3. b[1] = s[1] /\ \A i \in 2 .. size : b[i] = s[i]
    BY <1>1, <1>2
  <1>4. CountHeaderBits(b[1]) = header /\ header \in 0 .. 6 /\ header # 1
    BY <1>1, <1>3, HeaderBits
  <1>5. \A i \in 2 .. size : CountHeaderBits(b[i]) = 1
    BY <1>1, <1>3, HeaderBits
  <1>6. (IF header = 0 THEN 1 ELSE header) = size
    BY <1>1
  <1>7. IsUtf8(b)
    BY <1>1, <1>2, <1>4, <1>5 DEF IsUtf8
  <1> DEFINE first == b[1] % 2^(7 - header)
             symbol == CHOOSE f : f = [i \in 1 .. size |-> IF i = 1 THEN b[1] % 2^(7 - header)
                                                        ELSE f[i - 1] * 64 + (b[i] % 64)]
  <1>8. Utf8ConvertBytes(b) = [size |-> size, symbol |-> symbol[size]]
    <2> HIDE DEF header
    <2> QED
      BY <1>4, <1>6, <1>7, WhatUtf8Converts
  <1>9. AreSymbols(symbol, first, b, size)
    <2>1. \E f : AreSymbols(f, first, b, size)
      <3> HIDE DEF first
      <3>1. size \in Nat
        BY <1>1
      <3> QED
        BY <3>1, SymbolsExist
    <2> QED
      BY <2>1, Zenon DEF AreSymbols
  <1>10. first = Leading(cp, size - 1)
    BY <1>1, <1>3
  <1> HIDE DEF symbol, first, header
  <1> DEFINE S == {n \in Nat : n + 1 <= size => symbol[n + 1] = Leading(cp, size - (n + 1))}
  <1>11. 0 \in S
    <2>1. symbol[1] = first
      BY <1>1, <1>9 DEF AreSymbols
    <2> QED
      BY <1>10, <2>1
  <1>12. ASSUME NEW n \in S PROVE n + 1 \in S
    <2>1. SUFFICES ASSUME n + 2 <= size PROVE symbol[n + 2] = Leading(cp, size - (n + 2))
      OBVIOUS
    <2> DEFINE j == size - (n + 2)
    <2>2. j \in 0 .. 4 /\ size - (n + 1) = j + 1 /\ n + 2 \in 2 .. size /\ n + 2 \in 1 .. size
          /\ n + 2 # 1 /\ (n + 2) - 1 = n + 1
      <3>1. PICK z \in 1 .. 6 : z = size
        BY <1>1
      <3>2. n \in Nat /\ n + 2 <= z
        BY <2>1, <3>1
      <3>3. z - (n + 2) \in 0 .. 4 /\ z - (n + 1) = z - (n + 2) + 1 /\ n + 2 \in 2 .. z
            /\ n + 2 \in 1 .. z /\ n + 2 # 1 /\ (n + 2) - 1 = n + 1
        BY <3>2
      <3> QED
        BY <3>1, <3>3, Zenon
    <2>3. symbol[n + 2] = symbol[n + 1] * 64 + (b[n + 2] % 64)
      BY <1>9, <2>2 DEF AreSymbols
    <2>4. symbol[n + 1] = Leading(cp, j + 1)
      <3>1. n + 1 <= size
        BY <1>1, <2>1
      <3>2. symbol[n + 1] = Leading(cp, size - (n + 1))
        BY <3>1
      <3> QED
        BY <2>2, <3>2
    <2>5. b[n + 2] % 64 = Leading(cp, j) % 64
      BY <1>1, <1>3, <2>2
    <2>6. Leading(cp, j + 1) * 64 + (Leading(cp, j) % 64) = Leading(cp, j)
      BY <2>2, LeadingBits
    <2> QED
      BY <2>3, <2>4, <2>5, <2>6
  <1>13. S = Nat
    <2> HIDE DEF S
    <2>1. S \in SUBSET Nat
      BY DEF S
    <2> QED
      BY <1>11, <1>12, <2>1, Induction
  <1>14. symbol[size] = cp
    <2>1. size - 1 \in Nat /\ (size - 1) + 1 = size /\ size - size = 0
      BY <1>1
    <2>2. size - 1 \in S
      BY <1>13, <2>1
    <2>3. symbol[size] = Leading(cp, size - size)
      BY <2>1, <2>2
    <2> QED
      BY <2>1, <2>3, LeadingBits
  <1> QED
    BY <1>1, <1>8, <1>14 DEF b, s

-----------------------------------------------------------------------------
(* The converters *)

\* What is written is read, whatever follows it.
LEMMA RoundTrip ==
  ASSUME NEW coding \in Codings, NEW cp \in Nat, ConvertSymbol(coding, cp) # <<>>,
         NEW tail \in Seq(Nat)
  PROVE  LET s == ConvertSymbol(coding, cp)
         IN  /\ s \in Seq(Nat) /\ Len(s) \in Nat /\ Len(s) > 0
             /\ ConvertBytes(coding, s \o tail) = [size |-> Len(s), symbol |-> cp]
  <1>1. CASE coding = "UTF8"
    <2>1. ConvertSymbol(coding, cp) = Utf8ConvertSymbol(cp)
      BY <1>1 DEF ConvertSymbol
    <2>2. \A b : ConvertBytes(coding, b) = Utf8ConvertBytes(b)
      BY <1>1 DEF ConvertBytes
    <2>3. IsValidCodePoint(cp)
      BY <2>1 DEF Utf8ConvertSymbol
    <2>4. /\ Utf8ConvertSymbol(cp) \in Seq(Nat)
          /\ Len(Utf8ConvertSymbol(cp)) = Utf8Size(cp) /\ Utf8Size(cp) \in 1 .. 6
      BY <2>3, Utf8Bytes, Zenon
    <2>5. Len(Utf8ConvertSymbol(cp)) \in Nat /\ Len(Utf8ConvertSymbol(cp)) > 0
      BY <2>4
    <2>6. Utf8ConvertBytes(Utf8ConvertSymbol(cp) \o tail)
              = [size |-> Len(Utf8ConvertSymbol(cp)), symbol |-> cp]
      BY <2>3, Utf8RoundTrip
    <2> QED
      BY <2>1, <2>2, <2>4, <2>5, <2>6, Zenon
  <1>2. CASE coding # "UTF8"
    <2> DEFINE table == TableOf(coding)
               code == FromUnicode(table, cp)
    <2>1. table \in Tables /\ IsOrdered(table)
      BY <1>2, TablesAreOrdered
    <2> HIDE DEF table
    <2>2. ConvertSymbol(coding, cp) = <<code>> /\ code # Undefined
      BY <1>2 DEF ConvertSymbol, table
    <2>3. code \in Nat /\ ToUnicode(table, code) = cp
      BY <2>1, <2>2, TableRoundTrip
    <2> HIDE DEF code
    <2> DEFINE b == <<code>> \o tail
    <2>4. b[1] = code /\ <<code>> \in Seq(Nat) /\ Len(<<code>>) = 1
      BY <2>3
    <2> HIDE DEF b
    <2>5. ToUnicode(table, b[1]) = cp /\ cp # Undefined
      BY <2>3, <2>4 DEF Undefined
    <2>6. ConvertBytes(coding, b) = [size |-> 1, symbol |-> cp]
      BY <1>2, <2>5 DEF ConvertBytes, table
    <2> QED
      BY <2>2, <2>4, <2>6 DEF b
  <1> QED
    BY <1>1, <1>2

\* Of bytes that there are, no more are taken than there are.
LEMMA SizeFits ==
  ASSUME NEW coding \in Codings, NEW b \in Seq(Nat), b # <<>>
  PROVE  ConvertBytes(coding, b).size \in 0 .. Len(b)
  <1>1. Len(b) \in Nat /\ Len(b) > 0
    BY EmptySeq
  <1>2. CASE coding = "UTF8"
    <2> DEFINE header == CountHeaderBits(b[1])
               ones == {n \in 1 .. 8 : b[1] >= 256 - 2^(8 - n)}
    <2>1. header \in Nat
      <3>1. ones \subseteq 1 .. 8
        OBVIOUS
      <3>2. header = Cardinality(ones)
        BY Zenon DEF CountHeaderBits
      <3> HIDE DEF ones
      <3>3. IsFiniteSet(1 .. 8)
        <4>1. 1 \in Int /\ 8 \in Int
          BY SMT
        <4> QED
          BY <4>1, FS_Interval, Zenon
      <3>4. IsFiniteSet(ones)
        BY <3>1, <3>3, FS_Subset
      <3>5. Cardinality(ones) \in Nat
        BY <3>4, FS_CardinalityType, Zenon
      <3> HIDE DEF header
      <3> QED
        BY <3>2, <3>5
    <2>2. ConvertBytes(coding, b) = Utf8ConvertBytes(b)
      BY <1>2 DEF ConvertBytes
    <2>3. CASE IsUtf8(b)
      <3>1. header <= Len(b)
        BY <2>3 DEF IsUtf8
      <3>2. Utf8ConvertBytes(b).size = IF header = 0 THEN 1 ELSE header
        BY <2>3 DEF Utf8ConvertBytes
      <3> HIDE DEF header
      <3> QED
        BY <1>1, <2>1, <2>2, <3>1, <3>2
    <2>4. CASE ~IsUtf8(b)
      BY <1>1, <2>2, <2>4 DEF Utf8ConvertBytes, Utf8Failure
    <2> QED
      BY <2>3, <2>4
  <1>3. CASE coding # "UTF8"
    BY <1>1, <1>3 DEF ConvertBytes, Utf8Failure
  <1> QED
    BY <1>2, <1>3

-----------------------------------------------------------------------------
(* Texts of code points *)

LEMMA BytesAreJoined ==
  /\ \A s, t \in Seq(Nat) : s \o t \in Seq(Nat) /\ Len(s \o t) = Len(s) + Len(t)
  /\ \A s, t, u \in Seq(Nat) : (s \o t) \o u = s \o (t \o u)
  <1>1. ASSUME NEW s \in Seq(Nat), NEW t \in Seq(Nat)
        PROVE  s \o t \in Seq(Nat) /\ Len(s \o t) = Len(s) + Len(t)
    BY ConcatProperties
  <1>2. ASSUME NEW s \in Seq(Nat), NEW t \in Seq(Nat), NEW u \in Seq(Nat)
        PROVE  (s \o t) \o u = s \o (t \o u)
    BY SMT
  <1> QED
    BY <1>1, <1>2

LEMMA BehindTheJoint ==
  ASSUME NEW a \in Seq(Nat), NEW b \in Seq(Nat)
  PROVE  SubSeq(a \o b, Len(a) + 1, Len(a \o b)) = b
  <1>1. Len(a \o b) = Len(a) + Len(b) /\ Len(a) \in Nat /\ Len(b) \in Nat
    BY ConcatProperties
  <1> DEFINE c == SubSeq(a \o b, Len(a) + 1, Len(a \o b))
  <1>2. a \o b \in Seq(Nat)
    BY ConcatProperties
  <1>3. c \in Seq(Nat) /\ Len(c) = Len(b)
    BY <1>1, <1>2
  <1>4. \A i \in 1 .. Len(c) : c[i] = b[i]
    BY <1>1, <1>2, <1>3
  <1> HIDE DEF c
  <1>5. c = b
    BY <1>3, <1>4, SeqEqual
  <1> QED
    BY <1>5 DEF c

\* What the loop of GetString makes of the first code points, w[i] being the bytes of the i-th.
AreTexts(f, w, k) == f = [i \in 0 .. k |-> IF i = 0 THEN <<>> ELSE f[i - 1] \o w[i]]

LEMMA TextsExist ==
  ASSUME NEW w, NEW k \in Nat
  PROVE  \E f : AreTexts(f, w, k)
  <1> DEFINE S == {n \in Nat : \E f : AreTexts(f, w, n)}
  <1>1. 0 \in S
    <2>1. AreTexts([i \in 0 .. 0 |-> <<>>], w, 0)
      BY DEF AreTexts
    <2> QED
      BY <2>1
  <1>2. ASSUME NEW n \in S PROVE n + 1 \in S
    <2>1. PICK f : AreTexts(f, w, n)
      OBVIOUS
    <2> DEFINE g == [i \in 0 .. n + 1 |-> IF i = n + 1 THEN f[n] \o w[n + 1] ELSE f[i]]
    <2>2. ASSUME NEW i \in 0 .. n + 1
          PROVE  g[i] = IF i = 0 THEN <<>> ELSE g[i - 1] \o w[i]
      <3>1. CASE i = n + 1
        <4>1. i # 0 /\ i - 1 = n /\ n \in 0 .. n + 1 /\ n # n + 1
          BY <3>1
        <4> QED
          BY <3>1, <4>1
      <3>2. CASE i \in 0 .. n
        <4>1. f[i] = IF i = 0 THEN <<>> ELSE f[i - 1] \o w[i]
          BY <2>1, <3>2 DEF AreTexts
        <4>2. g[i] = f[i] /\ (i # 0 => g[i - 1] = f[i - 1])
          BY <3>2
        <4> QED
          BY <4>1, <4>2
      <3> QED
        BY <3>1, <3>2
    <2>3. g = [i \in 0 .. n + 1 |-> IF i = 0 THEN <<>> ELSE g[i - 1] \o w[i]]
      <3> HIDE DEF g
      <3>1. g = [i \in 0 .. n + 1 |-> g[i]]
        BY DEF g
      <3> QED
        BY <2>2, <3>1
    <2>4. AreTexts(g, w, n + 1)
      BY <2>3 DEF AreTexts
    <2> HIDE DEF g
    <2> QED
      BY <2>4
  <1>3. S = Nat
    <2> HIDE DEF S
    <2>1. S \in SUBSET Nat
      BY DEF S
    <2> QED
      BY <1>1, <1>2, <2>1, Induction
  <1> QED
    BY <1>3

\* The text of the first code points is the beginning of the text of them all.
LEMMA TextsAreUnique ==
  ASSUME NEW k \in Nat, NEW f, NEW v, AreTexts(f, v, k),
         NEW m \in Nat, NEW g, NEW w, AreTexts(g, w, m), k <= m, \A i \in 1 .. k : v[i] = w[i]
  PROVE  f[k] = g[k]
  <1> DEFINE S == {n \in Nat : n <= k => f[n] = g[n]}
  <1>1. 0 \in S
    BY DEF AreTexts
  <1>2. ASSUME NEW n \in S PROVE n + 1 \in S
    <2>1. ASSUME n + 1 <= k PROVE f[n + 1] = g[n + 1]
      <3>1. n + 1 \in 0 .. k /\ n + 1 \in 0 .. m /\ n + 1 # 0 /\ (n + 1) - 1 = n /\ n + 1 \in 1 .. k
        BY <2>1
      <3>2. f[n + 1] = f[n] \o v[n + 1] /\ g[n + 1] = g[n] \o w[n + 1]
        BY <3>1 DEF AreTexts
      <3>3. f[n] = g[n] /\ v[n + 1] = w[n + 1]
        BY <2>1, <3>1
      <3> QED
        BY <3>2, <3>3, Zenon
    <2> QED
      BY <2>1
  <1>3. S = Nat
    <2> HIDE DEF S
    <2>1. S \in SUBSET Nat
      BY DEF S
    <2> QED
      BY <1>1, <1>2, <2>1, Induction
  <1> QED
    BY <1>3

LEMMA TextsAreBytes ==
  ASSUME NEW k \in Nat, NEW f, NEW w, AreTexts(f, w, k), \A i \in 1 .. k : w[i] \in Seq(Nat)
  PROVE  \A i \in 0 .. k : f[i] \in Seq(Nat)
  <1> DEFINE S == {n \in Nat : n <= k => f[n] \in Seq(Nat)}
  <1>1. 0 \in S
    BY DEF AreTexts
  <1>2. ASSUME NEW n \in S PROVE n + 1 \in S
    <2>1. ASSUME n + 1 <= k PROVE f[n + 1] \in Seq(Nat)
      <3>1. n + 1 \in 0 .. k /\ n + 1 # 0 /\ (n + 1) - 1 = n /\ n + 1 \in 1 .. k
        BY <2>1
      <3>2. f[n + 1] = f[n] \o w[n + 1]
        BY <3>1 DEF AreTexts
      <3>3. f[n] \in Seq(Nat) /\ w[n + 1] \in Seq(Nat)
        BY <2>1, <3>1
      <3> QED
        BY <3>2, <3>3, BytesAreJoined, Zenon
    <2> QED
      BY <2>1
  <1>3. S = Nat
    <2> HIDE DEF S
    <2>1. S \in SUBSET Nat
      BY DEF S
    <2> QED
      BY <1>1, <1>2, <2>1, Induction
  <1> QED
    BY <1>3

LEMMA TextsBeginAlike ==
  ASSUME NEW k \in Nat, NEW f, NEW w, AreTexts(f, w, k), \A i \in 1 .. k : w[i] \in Seq(Nat),
         NEW m \in 0 .. k
  PROVE  \E tail \in Seq(Nat) : f[k] = f[m] \o tail
  <1>1. \A i \in 0 .. k : f[i] \in Seq(Nat)
    BY TextsAreBytes
  <1> DEFINE S == {n \in Nat : m + n <= k => \E tail \in Seq(Nat) : f[m + n] = f[m] \o tail}
  <1>2. 0 \in S
    <2>1. m + 0 = m /\ f[m] \in Seq(Nat)
      BY <1>1
    <2>2. f[m] = f[m] \o <<>> /\ <<>> \in Seq(Nat)
      BY <2>1, ConcatEmptySeq
    <2> QED
      BY <2>1, <2>2
  <1>3. ASSUME NEW n \in S PROVE n + 1 \in S
    <2>1. ASSUME m + (n + 1) <= k
          PROVE  \E tail \in Seq(Nat) : f[m + (n + 1)] = f[m] \o tail
      <3>1. /\ m + n \in 0 .. k /\ m + (n + 1) \in 0 .. k /\ m + (n + 1) # 0
            /\ (m + (n + 1)) - 1 = m + n /\ m + (n + 1) \in 1 .. k
        BY <2>1
      <3>2. PICK tail \in Seq(Nat) : f[m + n] = f[m] \o tail
        BY <2>1, <3>1
      <3>3. f[m + (n + 1)] = f[m + n] \o w[m + (n + 1)]
        BY <3>1 DEF AreTexts
      <3>4. w[m + (n + 1)] \in Seq(Nat) /\ f[m] \in Seq(Nat)
        BY <1>1, <3>1
      <3>5. f[m + (n + 1)] = f[m] \o (tail \o w[m + (n + 1)])
        <4>1. ASSUME NEW u \in Seq(Nat), NEW v \in Seq(Nat)
              PROVE  (u \o tail) \o v = u \o (tail \o v)
          BY BytesAreJoined
        <4>2. (f[m] \o tail) \o w[m + (n + 1)] = f[m] \o (tail \o w[m + (n + 1)])
          BY <3>4, <4>1, Zenon
        <4> QED
          BY <3>2, <3>3, <4>2, Zenon
      <3>6. tail \o w[m + (n + 1)] \in Seq(Nat)
        BY <3>4, BytesAreJoined, Zenon
      <3> DEFINE behind == tail \o w[m + (n + 1)]
      <3> HIDE DEF behind
      <3>7. behind \in Seq(Nat) /\ f[m + (n + 1)] = f[m] \o behind
        BY <3>5, <3>6, Zenon DEF behind
      <3> QED
        BY <3>7, Zenon
    <2>2. n + 1 \in Nat
      OBVIOUS
    <2> QED
      BY <2>1, <2>2, Zenon
  <1>4. S = Nat
    <2> HIDE DEF S
    <2>1. S \in SUBSET Nat
      BY DEF S
    <2> QED
      BY <1>2, <1>3, <2>1, Induction
  <1>5. k - m \in S /\ m + (k - m) = k
    <2>1. k - m \in Nat /\ m + (k - m) = k
      OBVIOUS
    <2> QED
      BY <1>4, <2>1
  <1> QED
    BY <1>5

LEMMA EncodedIsAText ==
  ASSUME NEW coding, NEW cps \in Seq(Nat)
  PROVE  \E f : /\ AreTexts(f, [i \in 1 .. Len(cps) |-> ConvertSymbol(coding, cps[i])], Len(cps))
               /\ Encoded(coding, cps) = f[Len(cps)]
  <1> DEFINE k == Len(cps)
             w == [i \in 1 .. k |-> ConvertSymbol(coding, cps[i])]
             f == CHOOSE f : f = [i \in 0 .. k |->
                                     IF i = 0 THEN <<>> ELSE f[i - 1] \o ConvertSymbol(coding, cps[i])]
  <1>1. k \in Nat
    OBVIOUS
  <1>2. \A g : AreTexts(g, w, k) <=>
                  g = [i \in 0 .. k |-> IF i = 0 THEN <<>> ELSE g[i - 1] \o ConvertSymbol(coding, cps[i])]
    <2> TAKE g
    <2>1. [i \in 0 .. k |-> IF i = 0 THEN <<>> ELSE g[i - 1] \o w[i]]
              = [i \in 0 .. k |-> IF i = 0 THEN <<>> ELSE g[i - 1] \o ConvertSymbol(coding, cps[i])]
      OBVIOUS
    <2> QED
      BY <2>1 DEF AreTexts
  <1>3. \E g : AreTexts(g, w, k)
    <2> HIDE DEF w, k
    <2> QED
      BY <1>1, TextsExist
  <1>4. AreTexts(f, w, k)
    BY <1>2, <1>3, Zenon
  <1>5. Encoded(coding, cps) = f[k]
    BY Zenon DEF Encoded
  <1> HIDE DEF f
  <1> QED
    BY <1>4, <1>5

\* Where so many code points of a text have been read, the next one follows, unless it is the end.
LEMMA TextAt ==
  ASSUME NEW coding \in Codings, NEW cps \in Seq(Nat), IsEncodable(coding, cps),
         NEW k \in 0 .. Len(cps)
  PROVE  LET whole == Encoded(coding, cps)
             place == Len(Encoded(coding, SubSeq(cps, 1, k)))
         IN  /\ whole \in Seq(Nat) /\ place \in 0 .. Len(whole)
             /\ k = 0 => place = 0
             /\ k = Len(cps) => place = Len(whole)
             /\ k < Len(cps) =>
                    LET s == ConvertSymbol(coding, cps[k + 1])
                    IN  /\ Len(s) \in Nat /\ Len(s) > 0
                        /\ ConvertBytes(coding, SubSeq(whole, place + 1, Len(whole)))
                               = [size |-> Len(s), symbol |-> cps[k + 1]]
                        /\ Len(Encoded(coding, SubSeq(cps, 1, k + 1))) = place + Len(s)
  <1> DEFINE whole == Encoded(coding, cps)
             place == Len(Encoded(coding, SubSeq(cps, 1, k)))
             w == [i \in 1 .. Len(cps) |-> ConvertSymbol(coding, cps[i])]
  <1>1. Len(cps) \in Nat /\ \A i \in 1 .. Len(cps) : cps[i] \in Nat
    OBVIOUS
  <1>2. PICK f : AreTexts(f, w, Len(cps)) /\ whole = f[Len(cps)]
    BY EncodedIsAText, Zenon
  <1>3. ASSUME NEW i \in 1 .. Len(cps)
        PROVE  /\ w[i] = ConvertSymbol(coding, cps[i]) /\ w[i] \in Seq(Nat)
               /\ Len(w[i]) \in Nat /\ Len(w[i]) > 0
    <2>1. cps[i] \in Nat /\ ConvertSymbol(coding, cps[i]) # <<>> /\ <<>> \in Seq(Nat)
      BY <1>1 DEF IsEncodable
    <2>2. /\ ConvertSymbol(coding, cps[i]) \in Seq(Nat)
          /\ Len(ConvertSymbol(coding, cps[i])) \in Nat /\ Len(ConvertSymbol(coding, cps[i])) > 0
      BY <2>1, RoundTrip, Zenon
    <2> QED
      BY <2>2
  <1>4. ASSUME NEW m \in 0 .. Len(cps) PROVE Encoded(coding, SubSeq(cps, 1, m)) = f[m]
    <2> DEFINE first == SubSeq(cps, 1, m)
               v == [i \in 1 .. m |-> ConvertSymbol(coding, first[i])]
    <2>1. first \in Seq(Nat) /\ Len(first) = m /\ m \in Nat /\ \A i \in 1 .. m : first[i] = cps[i]
      BY <1>1
    <2> HIDE DEF first
    <2>2. PICK g : AreTexts(g, v, m) /\ Encoded(coding, first) = g[m]
      BY <2>1, EncodedIsAText
    <2>3. \A i \in 1 .. m : v[i] = w[i]
      BY <1>1, <2>1
    <2>4. m <= Len(cps)
      BY <1>1
    <2> HIDE DEF v, w
    <2>5. g[m] = f[m]
      BY <1>1, <1>2, <2>1, <2>2, <2>3, <2>4, TextsAreUnique
    <2> QED
      BY <2>2, <2>5 DEF first
  <1>5. \A i \in 0 .. Len(cps) : f[i] \in Seq(Nat)
    <2> HIDE DEF w
    <2> QED
      BY <1>1, <1>2, <1>3, TextsAreBytes
  <1>6. place = Len(f[k]) /\ f[k] \in Seq(Nat) /\ place \in Nat /\ whole \in Seq(Nat)
    <2>1. Len(cps) \in 0 .. Len(cps)
      BY <1>1
    <2> QED
      BY <1>2, <1>4, <1>5, <2>1
  <1>7. PICK tail \in Seq(Nat) : f[Len(cps)] = f[k] \o tail
    <2> HIDE DEF w
    <2> QED
      BY <1>1, <1>2, <1>3, TextsBeginAlike
  <1>8. place <= Len(whole)
    <2>1. Len(f[k] \o tail) = Len(f[k]) + Len(tail) /\ Len(tail) \in Nat
      BY <1>6, <1>7, BytesAreJoined
    <2> QED
      BY <1>2, <1>6, <1>7, <2>1
  <1>9. k = 0 => place = 0
    <2>1. f[0] = <<>>
      BY <1>1, <1>2 DEF AreTexts
    <2> QED
      BY <1>6, <2>1
  <1>10. k = Len(cps) => place = Len(whole)
    BY <1>2, <1>6
  <1>11. ASSUME k < Len(cps)
         PROVE  LET s == ConvertSymbol(coding, cps[k + 1])
                IN  /\ Len(s) \in Nat /\ Len(s) > 0
                    /\ ConvertBytes(coding, SubSeq(whole, place + 1, Len(whole)))
                           = [size |-> Len(s), symbol |-> cps[k + 1]]
                    /\ Len(Encoded(coding, SubSeq(cps, 1, k + 1))) = place + Len(s)
    <2> DEFINE s == ConvertSymbol(coding, cps[k + 1])
    <2>1. /\ k + 1 \in 1 .. Len(cps) /\ k + 1 \in 0 .. Len(cps) /\ k + 1 # 0 /\ (k + 1) - 1 = k
      BY <1>1, <1>11
    <2>2. s = w[k + 1] /\ s \in Seq(Nat) /\ Len(s) \in Nat /\ Len(s) > 0
      BY <1>3, <2>1
    <2>3. f[k + 1] = f[k] \o s
      <3>1. f[k + 1] = f[k] \o w[k + 1]
        <4> HIDE DEF w
        <4> QED
          BY <1>2, <2>1 DEF AreTexts
      <3> QED
        BY <2>2, <3>1
    <2>4. PICK rest \in Seq(Nat) : f[Len(cps)] = f[k + 1] \o rest
      <3> HIDE DEF w
      <3> QED
        BY <1>1, <1>2, <1>3, <2>1, TextsBeginAlike
    <2> HIDE DEF s
    <2>5. whole = f[k] \o (s \o rest) /\ s \o rest \in Seq(Nat)
      <3>1. (f[k] \o s) \o rest = f[k] \o (s \o rest)
        <4>1. ASSUME NEW a \in Seq(Nat), NEW b \in Seq(Nat)
              PROVE  (a \o b) \o rest = a \o (b \o rest)
          BY BytesAreJoined
        <4> QED
          BY <1>6, <2>2, <4>1, Zenon
      <3>2. s \o rest \in Seq(Nat)
        BY <2>2, BytesAreJoined, Zenon
      <3> QED
        BY <1>2, <2>3, <2>4, <3>1, <3>2, Zenon
    <2>6. SubSeq(whole, place + 1, Len(whole)) = s \o rest
      <3>1. PICK a \in Seq(Nat) : a = f[k]
        BY <1>6
      <3>2. PICK b \in Seq(Nat) : b = s \o rest
        BY <2>5
      <3>3. SubSeq(a \o b, Len(a) + 1, Len(a \o b)) = b
        BY BehindTheJoint, Zenon
      <3> QED
        BY <1>6, <2>5, <3>1, <3>2, <3>3
    <2>7. ConvertBytes(coding, s \o rest) = [size |-> Len(s), symbol |-> cps[k + 1]]
      <3>1. cps[k + 1] \in Nat /\ s # <<>> /\ <<>> \in Seq(Nat)
        BY <1>1, <2>1 DEF IsEncodable, s
      <3> QED
        BY <3>1, RoundTrip, Zenon DEF s
    <2>8. Len(Encoded(coding, SubSeq(cps, 1, k + 1))) = place + Len(s)
      <3>1. Encoded(coding, SubSeq(cps, 1, k + 1)) = f[k] \o s
        BY <1>4, <2>1, <2>3
      <3>2. Len(f[k] \o s) = Len(f[k]) + Len(s)
        BY <1>6, <2>2, BytesAreJoined, Zenon
      <3> QED
        BY <1>6, <3>1, <3>2, Zenon
    <2> QED
      BY <2>2, <2>6, <2>7, <2>8 DEF s
  <1> QED
    BY <1>6, <1>8, <1>9, <1>10, <1>11

-----------------------------------------------------------------------------
(* The iterator *)

IsIterator(i) ==
    \E p, z, x \in Nat, e, n \in BOOLEAN : \E c :
        i = [mPtr |-> p, mCodePoint |-> c, mCodePointSize |-> z, mIndex |-> x,
             mError |-> e, mNeedConvert |-> n]

\* It is at a place of the text, and it knows the size of what is there if it has converted it.
PlaceInv(i) ==
    /\ IsIterator(i) /\ i.mPtr \in 0 .. Len(bytes) /\ i.mPtr \in Beginnings
    /\ i.mNeedConvert => i.mCodePointSize = 0
    /\ ~i.mNeedConvert => /\ i.mPtr < Len(bytes)
                          /\ i.mCodePointSize = ConvertBytes(codec, Rest(i)).size
    /\ i.mError => i.mPtr < Len(bytes) /\ ConvertBytes(codec, Rest(i)).size = 0

\* Of a text that was written, it has read so many code points, k.
IsAt(i, u, k) ==
    /\ i.mPtr = Len(Encoded(codec, SubSeq(written, 1, k)))
    /\ i.mCodePointSize # 0 => k < Len(written) /\ i.mCodePoint = written[k + 1]
    /\ ~i.mError
    /\ i.mIndex \in Nat /\ k <= i.mIndex /\ u \in BOOLEAN /\ (u <=> i.mIndex # k)

WrittenInv(i, u) == written # NoText => \E k \in 0 .. Len(written) : IsAt(i, u, k)

TextInv ==
    /\ codec \in Codings /\ bytes \in Seq(Nat)
    /\ written # NoText => /\ written \in Seq(Nat) /\ IsEncodable(codec, written)
                           /\ bytes = Encoded(codec, written)

IteratorInv ==
    IF codec = InvalidCodingId
    THEN iter = StartedIterator /\ bytes = NoText /\ written = NoText
    ELSE TextInv /\ PlaceInv(iter) /\ WrittenInv(iter, unseen)

\* From a place, with what it converts there, to a place.
LEMMA PlacesAreClosed ==
  ASSUME TextInv, NEW p \in Beginnings, p < Len(bytes)
  PROVE  /\ ConvertBytes(codec, From(p)).size \in Nat
         /\ p + ConvertBytes(codec, From(p)).size \in Beginnings
  <1> DEFINE size == ConvertBytes(codec, From(p)).size
  <1>1. /\ p \in 0 .. Len(bytes) /\ Len(bytes) \in Nat /\ codec \in Codings /\ bytes \in Seq(Nat)
        /\ p \in Nat
    BY DEF Beginnings, TextInv
  <1>2. From(p) \in Seq(Nat) /\ Len(From(p)) = Len(bytes) - p /\ From(p) # <<>>
    <2> DEFINE rest == SubSeq(bytes, p + 1, Len(bytes))
    <2>1. rest \in Seq(Nat) /\ Len(rest) = Len(bytes) - p
      BY <1>1
    <2> HIDE DEF rest
    <2>2. rest # <<>>
      BY <1>1, <2>1, EmptySeq
    <2> QED
      BY <2>1, <2>2 DEF From, rest
  <1>3. size \in 0 .. Len(bytes) - p
    <2>1. size \in 0 .. Len(From(p))
      BY <1>1, <1>2, SizeFits
    <2> QED
      BY <1>2, <2>1, Zenon
  <1>4. size \in Nat /\ p + size \in 0 .. Len(bytes)
    <2> HIDE DEF size
    <2> QED
      BY <1>1, <1>3
  <1>5. ASSUME NEW places \in SUBSET (0 .. Len(bytes)), IsClosed(places) PROVE p + size \in places
    <2>1. p \in places
      BY <1>5 DEF Beginnings
    <2> QED
      BY <1>5, <2>1 DEF IsClosed
  <1> HIDE DEF size
  <1>6. p + size \in Beginnings
    BY <1>4, <1>5, Zenon DEF Beginnings
  <1> QED
    BY <1>4, <1>6 DEF size

LEMMA TheBeginningIsAPlace == ASSUME TextInv PROVE 0 \in Beginnings
  <1>1. 0 \in 0 .. Len(bytes)
    BY DEF TextInv
  <1> QED
    BY <1>1, Zenon DEF Beginnings, IsClosed

LEMMA IteratorIsMade ==
  ASSUME NEW p \in Nat, NEW z \in Nat, NEW x \in Nat, NEW e \in BOOLEAN, NEW n \in BOOLEAN, NEW c
  PROVE  IsIterator([mPtr |-> p, mCodePoint |-> c, mCodePointSize |-> z, mIndex |-> x,
                     mError |-> e, mNeedConvert |-> n])
  BY DEF IsIterator

LEMMA WhatConvertDoes ==
  ASSUME NEW i, IsIterator(i), i.mNeedConvert, Remains(i) # 0,
         ConvertBytes(codec, Rest(i)).size \in Nat
  PROVE  LET converted == ConvertBytes(codec, Rest(i))
             j == Convert(i)
         IN  /\ IsIterator(j) /\ j.mPtr = i.mPtr /\ j.mIndex = i.mIndex /\ ~j.mNeedConvert
             /\ j.mCodePointSize = converted.size
             /\ j.mError <=> i.mError \/ converted.size = 0
             /\ converted.size # 0 => j.mCodePoint = converted.symbol
  <1> DEFINE converted == ConvertBytes(codec, Rest(i))
  <1>1. converted.size \in Nat
    OBVIOUS
  <1> HIDE DEF converted
  <1>0. PICK p, z, x \in Nat, e, n \in BOOLEAN :
            \E c : i = [mPtr |-> p, mCodePoint |-> c, mCodePointSize |-> z, mIndex |-> x,
                        mError |-> e, mNeedConvert |-> n]
    BY DEF IsIterator
  <1>2. PICK c :
            i = [mPtr |-> p, mCodePoint |-> c, mCodePointSize |-> z, mIndex |-> x,
                 mError |-> e, mNeedConvert |-> n]
    BY <1>0
  <1> DEFINE point == IF converted.size = 0 THEN c ELSE converted.symbol
             failed == e \/ converted.size = 0
  <1>3. Convert(i) = [mPtr |-> p, mCodePoint |-> point, mCodePointSize |-> converted.size,
                      mIndex |-> x, mError |-> failed, mNeedConvert |-> FALSE]
    BY <1>2 DEF Convert, converted
  <1>4. /\ failed \in BOOLEAN /\ (failed <=> i.mError \/ converted.size = 0)
        /\ converted.size # 0 => point = converted.symbol
    BY <1>2
  <1> HIDE DEF point, failed
  <1>5. IsIterator(Convert(i))
    <2>1. IsIterator([mPtr |-> p, mCodePoint |-> point, mCodePointSize |-> converted.size,
                      mIndex |-> x, mError |-> failed, mNeedConvert |-> FALSE])
      BY <1>1, <1>4, FALSE \in BOOLEAN, IteratorIsMade, Zenon
    <2> QED
      BY <1>3, <2>1, Zenon
  <1>6. /\ Convert(i).mPtr = i.mPtr /\ Convert(i).mIndex = i.mIndex /\ ~Convert(i).mNeedConvert
        /\ Convert(i).mCodePointSize = converted.size /\ Convert(i).mError = failed
        /\ Convert(i).mCodePoint = point
    BY <1>2, <1>3
  <1> QED
    BY <1>4, <1>5, <1>6 DEF converted

LEMMA WhatAdvanceDoes ==
  ASSUME NEW i, IsIterator(i)
  PROVE  LET j == Advance(i)
         IN  /\ IsIterator(j) /\ j.mPtr = i.mPtr + i.mCodePointSize /\ j.mIndex = i.mIndex + 1
             /\ j.mNeedConvert /\ j.mCodePointSize = 0 /\ j.mError = i.mError
  <1>0. PICK p, z, x \in Nat, e, n \in BOOLEAN :
            \E c : i = [mPtr |-> p, mCodePoint |-> c, mCodePointSize |-> z, mIndex |-> x,
                        mError |-> e, mNeedConvert |-> n]
    BY DEF IsIterator
  <1>1. PICK c :
            i = [mPtr |-> p, mCodePoint |-> c, mCodePointSize |-> z, mIndex |-> x,
                 mError |-> e, mNeedConvert |-> n]
    BY <1>0
  <1>2. i.mPtr = p /\ i.mCodePointSize = z /\ i.mIndex = x /\ i.mError = e
    BY <1>1
  <1>3. Advance(i) = [mPtr |-> p + z, mCodePoint |-> InvalidCodePoint, mCodePointSize |-> 0,
                      mIndex |-> x + 1, mError |-> e, mNeedConvert |-> TRUE]
    BY <1>2, Zenon DEF Advance
  <1>4. IsIterator(Advance(i))
    <2>1. p + z \in Nat /\ x + 1 \in Nat /\ 0 \in Nat /\ TRUE \in BOOLEAN
      OBVIOUS
    <2> QED
      BY <1>3, <2>1, Zenon DEF IsIterator
  <1> QED
    BY <1>2, <1>3, <1>4

LEMMA ConvertKeepsPlace ==
  ASSUME TextInv, NEW i, PlaceInv(i)
  PROVE  /\ PlaceInv(Convert(i))
         /\ i.mPtr < Len(bytes) => ~Convert(i).mNeedConvert
  <1>1. /\ Len(bytes) \in Nat /\ i.mPtr \in Nat /\ i.mPtr <= Len(bytes) /\ IsIterator(i)
        /\ i.mPtr \in Beginnings
    BY DEF TextInv, PlaceInv
  <1>2. Remains(i) = 0 <=> i.mPtr = Len(bytes)
    BY <1>1 DEF Remains
  <1>3. CASE ~i.mNeedConvert \/ Remains(i) = 0
    <2>1. Convert(i) = i
      BY <1>3 DEF Convert
    <2> QED
      BY <1>1, <1>2, <1>3, <2>1
  <1>4. CASE i.mNeedConvert /\ Remains(i) # 0
    <2>1. ConvertBytes(codec, Rest(i)).size \in Nat
      BY <1>1, <1>2, <1>4, PlacesAreClosed DEF Rest
    <2>2. /\ IsIterator(Convert(i)) /\ Convert(i).mPtr = i.mPtr /\ ~Convert(i).mNeedConvert
          /\ Convert(i).mCodePointSize = ConvertBytes(codec, Rest(i)).size
          /\ Convert(i).mError <=> i.mError \/ ConvertBytes(codec, Rest(i)).size = 0
      BY <1>1, <1>4, <2>1, WhatConvertDoes
    <2>3. Rest(Convert(i)) = Rest(i)
      BY <2>2 DEF Rest
    <2> QED
      BY <1>1, <1>2, <1>4, <2>1, <2>2, <2>3 DEF PlaceInv
  <1> QED
    BY <1>3, <1>4

LEMMA AdvanceKeepsPlace ==
  ASSUME TextInv, NEW i, PlaceInv(i)
  PROVE  PlaceInv(Advance(i))
  <1>1. Len(bytes) \in Nat /\ i.mPtr \in Nat /\ IsIterator(i) /\ i.mPtr \in Beginnings
    BY DEF TextInv, PlaceInv
  <1>2. /\ IsIterator(Advance(i)) /\ Advance(i).mPtr = i.mPtr + i.mCodePointSize
        /\ Advance(i).mNeedConvert /\ Advance(i).mCodePointSize = 0 /\ Advance(i).mError = i.mError
    BY <1>1, WhatAdvanceDoes
  <1>3. i.mPtr + i.mCodePointSize \in Beginnings /\ (i.mError => i.mCodePointSize = 0)
    <2>1. CASE i.mNeedConvert
      BY <1>1, <2>1 DEF PlaceInv
    <2>2. CASE ~i.mNeedConvert
      BY <1>1, <2>2, PlacesAreClosed DEF PlaceInv, Rest
    <2> QED
      BY <2>1, <2>2
  <1>4. i.mPtr + i.mCodePointSize \in 0 .. Len(bytes)
    BY <1>3 DEF Beginnings
  <1>5. i.mError => Rest(Advance(i)) = Rest(i) /\ Advance(i).mPtr = i.mPtr
    <2>1. i.mError => Advance(i).mPtr = i.mPtr
      BY <1>1, <1>2, <1>3
    <2> QED
      BY <2>1 DEF Rest
  <1> QED
    BY <1>2, <1>3, <1>4, <1>5 DEF PlaceInv

\* What is at the place of a code point that was written.
LEMMA WrittenIsThere ==
  ASSUME TextInv, written # NoText, NEW i, PlaceInv(i), NEW u, NEW k \in 0 .. Len(written),
         IsAt(i, u, k), i.mPtr < Len(bytes)
  PROVE  /\ k < Len(written)
         /\ LET s == ConvertSymbol(codec, written[k + 1])
            IN  /\ Len(s) \in Nat /\ Len(s) > 0
                /\ ConvertBytes(codec, Rest(i)) = [size |-> Len(s), symbol |-> written[k + 1]]
                /\ Len(Encoded(codec, SubSeq(written, 1, k + 1))) = i.mPtr + Len(s)
  <1>1. /\ codec \in Codings /\ written \in Seq(Nat) /\ IsEncodable(codec, written)
        /\ bytes = Encoded(codec, written) /\ Len(written) \in Nat
    BY DEF TextInv
  <1>2. i.mPtr = Len(Encoded(codec, SubSeq(written, 1, k)))
    BY DEF IsAt
  <1>3. i.mPtr \in Nat /\ Len(bytes) \in Nat
    BY DEF PlaceInv, TextInv
  <1>4. k = Len(written) => i.mPtr = Len(bytes)
    BY <1>1, <1>2, TextAt
  <1>5. k < Len(written)
    BY <1>1, <1>3, <1>4
  <1>6. Rest(i) = SubSeq(bytes, i.mPtr + 1, Len(bytes))
    BY DEF Rest, From
  <1> DEFINE whole == Encoded(codec, written)
             place == Len(Encoded(codec, SubSeq(written, 1, k)))
             s == ConvertSymbol(codec, written[k + 1])
  <1>7. /\ Len(s) \in Nat /\ Len(s) > 0
        /\ ConvertBytes(codec, SubSeq(whole, place + 1, Len(whole)))
               = [size |-> Len(s), symbol |-> written[k + 1]]
        /\ Len(Encoded(codec, SubSeq(written, 1, k + 1))) = place + Len(s)
    BY <1>1, <1>5, TextAt
  <1> QED
    BY <1>1, <1>2, <1>5, <1>6, <1>7

LEMMA ConvertReads ==
  ASSUME TextInv, written # NoText, NEW i, PlaceInv(i), NEW u, NEW k \in 0 .. Len(written),
         IsAt(i, u, k)
  PROVE  IsAt(Convert(i), u, k)
  <1>1. Len(bytes) \in Nat /\ i.mPtr \in Nat /\ i.mPtr <= Len(bytes) /\ IsIterator(i)
    BY DEF TextInv, PlaceInv
  <1>2. CASE ~i.mNeedConvert \/ Remains(i) = 0
    BY <1>2 DEF Convert
  <1>3. CASE i.mNeedConvert /\ Remains(i) # 0
    <2> DEFINE s == ConvertSymbol(codec, written[k + 1])
    <2>1. i.mPtr < Len(bytes)
      BY <1>1, <1>3 DEF Remains
    <2>2. /\ k < Len(written) /\ Len(s) \in Nat /\ Len(s) > 0
          /\ ConvertBytes(codec, Rest(i)) = [size |-> Len(s), symbol |-> written[k + 1]]
      BY <2>1, WrittenIsThere
    <2> HIDE DEF s
    <2>3. /\ ConvertBytes(codec, Rest(i)).size \in Nat /\ ConvertBytes(codec, Rest(i)).size # 0
          /\ ConvertBytes(codec, Rest(i)).symbol = written[k + 1]
      BY <2>2
    <2>4. /\ Convert(i).mPtr = i.mPtr /\ Convert(i).mIndex = i.mIndex
          /\ Convert(i).mError <=> i.mError
          /\ Convert(i).mCodePoint = written[k + 1]
      BY <1>1, <1>3, <2>3, WhatConvertDoes
    <2> QED
      BY <2>2, <2>4 DEF IsAt
  <1> QED
    BY <1>2, <1>3

LEMMA AdvanceReads ==
  ASSUME TextInv, written # NoText, NEW i, PlaceInv(i), NEW u, NEW k \in 0 .. Len(written),
         IsAt(i, u, k)
  PROVE  \E m \in 0 .. Len(written) : IsAt(Advance(i), u \/ i.mNeedConvert, m)
  <1>1. /\ IsIterator(i) /\ Len(written) \in Nat /\ i.mPtr \in Nat
    BY DEF TextInv, PlaceInv
  <1>2. /\ Advance(i).mPtr = i.mPtr + i.mCodePointSize /\ Advance(i).mIndex = i.mIndex + 1
        /\ Advance(i).mCodePointSize = 0 /\ Advance(i).mError = i.mError
    BY <1>1, WhatAdvanceDoes
  <1>3. i.mNeedConvert \in BOOLEAN
    BY DEF PlaceInv, IsIterator
  <1>4. CASE i.mNeedConvert
    <2>1. Advance(i).mPtr = i.mPtr
      BY <1>1, <1>2, <1>4 DEF PlaceInv
    <2>2. IsAt(Advance(i), u \/ i.mNeedConvert, k)
      BY <1>1, <1>2, <1>4, <2>1 DEF IsAt
    <2> QED
      BY <2>2
  <1>5. CASE ~i.mNeedConvert
    <2> DEFINE s == ConvertSymbol(codec, written[k + 1])
    <2>1. /\ k < Len(written) /\ Len(s) \in Nat
          /\ ConvertBytes(codec, Rest(i)) = [size |-> Len(s), symbol |-> written[k + 1]]
          /\ Len(Encoded(codec, SubSeq(written, 1, k + 1))) = i.mPtr + Len(s)
      BY <1>5, WrittenIsThere DEF PlaceInv
    <2> HIDE DEF s
    <2>2. i.mCodePointSize = Len(s)
      BY <1>5, <2>1 DEF PlaceInv
    <2>3. k + 1 \in 0 .. Len(written)
      BY <1>1, <2>1
    <2>4. IsAt(Advance(i), u \/ i.mNeedConvert, k + 1)
      BY <1>1, <1>2, <1>5, <2>1, <2>2 DEF IsAt
    <2> QED
      BY <2>3, <2>4
  <1> QED
    BY <1>3, <1>4, <1>5

-----------------------------------------------------------------------------
(* The invariant of builder and iterator, and what follows from it *)

IInv == BuilderInv /\ IteratorInv

LEMMA TextsInitially == FieldTextsInit => IInv
  BY BuilderInitially DEF FieldTextsInit, IInv, IteratorInv

\* The places do not move while the text is read.
LEMMA IteratorMoves ==
  ASSUME UNCHANGED <<codec, bytes, written>>, codec # InvalidCodingId, TextInv,
         PlaceInv(iter'), WrittenInv(iter', unseen')
  PROVE  IteratorInv'
  <1>1. codec' = codec /\ bytes' = bytes /\ written' = written
    OBVIOUS
  <1>2. Beginnings' = Beginnings
    BY <1>1 DEF Beginnings, IsClosed, From
  <1>3. TextInv'
    BY <1>1 DEF TextInv
  <1>4. PlaceInv(iter)'
    BY <1>1, <1>2 DEF PlaceInv, Rest, From
  <1>5. WrittenInv(iter, unseen)'
    BY <1>1 DEF WrittenInv, IsAt
  <1> QED
    BY <1>1, <1>3, <1>4, <1>5 DEF IteratorInv

LEMMA IteratorStep == IteratorInv /\ [FieldTextsNext]_fieldTextVars => IteratorInv'
  <1> SUFFICES ASSUME IteratorInv, [FieldTextsNext]_fieldTextVars PROVE IteratorInv'
    OBVIOUS
  <1>0. ASSUME UNCHANGED iteratorVars PROVE IteratorInv'
    <2>1. UNCHANGED <<codec, iter, bytes, written, unseen>>
      BY <1>0 DEF iteratorVars
    <2>2. CASE codec = InvalidCodingId
      BY <2>1, <2>2 DEF IteratorInv
    <2>3. CASE codec # InvalidCodingId
      BY <2>1, <2>3, IteratorMoves DEF IteratorInv
    <2> QED
      BY <2>2, <2>3
  <1>1. ASSUME NEW coding \in Codings, NEW b \in Seq(Nat), NEW cps, Opens(coding, b, cps),
               cps # NoText => cps \in Seq(Nat) /\ IsEncodable(coding, cps)
                               /\ b = Encoded(coding, cps)
        PROVE  IteratorInv'
    <2>1. codec' = coding /\ iter' = StartedIterator /\ bytes' = b /\ written' = cps
          /\ unseen' = FALSE /\ codec' # InvalidCodingId
      BY <1>1 DEF Opens, Codings
    <2>2. TextInv'
      BY <1>1, <2>1 DEF TextInv
    <2>3. (0 \in Beginnings)'
      <3>1. 0 \in 0 .. Len(bytes')
        BY <2>1
      <3> QED
        BY <3>1, Zenon DEF Beginnings, IsClosed
    <2>4. PlaceInv(iter)'
      <3>1. IsIterator(StartedIterator)
        <4>1. 0 \in Nat /\ TRUE \in BOOLEAN /\ FALSE \in BOOLEAN
          OBVIOUS
        <4> QED
          BY <4>1, Zenon DEF IsIterator, StartedIterator
      <3>2. /\ StartedIterator.mPtr = 0 /\ StartedIterator.mNeedConvert /\ ~StartedIterator.mError
            /\ StartedIterator.mCodePointSize = 0
        BY DEF StartedIterator
      <3>3. 0 \in 0 .. Len(bytes')
        BY <2>1
      <3> QED
        BY <2>1, <2>3, <3>1, <3>2, <3>3 DEF PlaceInv
    <2>5. WrittenInv(iter, unseen)'
      <3>1. SUFFICES ASSUME cps # NoText
                     PROVE  \E k \in 0 .. Len(cps) : IsAt(iter, unseen, k)'
        BY <2>1 DEF WrittenInv
      <3>2. 0 \in 0 .. Len(cps) /\ cps \in Seq(Nat) /\ IsEncodable(coding, cps)
        BY <1>1, <3>1
      <3>3. Len(Encoded(coding, SubSeq(cps, 1, 0))) = 0
        BY <3>2, TextAt
      <3>4. IsAt(iter, unseen, 0)'
        <4>1. /\ StartedIterator.mPtr = 0 /\ ~StartedIterator.mError
              /\ StartedIterator.mCodePointSize = 0 /\ StartedIterator.mIndex = 0
          BY DEF StartedIterator
        <4>2. /\ iter'.mPtr = Len(Encoded(codec', SubSeq(written', 1, 0)))
              /\ ~iter'.mError /\ iter'.mCodePointSize = 0 /\ iter'.mIndex = 0
              /\ unseen' = FALSE
          BY <2>1, <3>3, <4>1, Zenon
        <4> QED
          BY <4>2, 0 \in Nat, 0 <= 0, FALSE \in BOOLEAN, Zenon DEF IsAt
      <3> QED
        BY <3>2, <3>4
    <2> QED
      BY <2>1, <2>2, <2>4, <2>5 DEF IteratorInv
  <1>2. CASE OpensText
    <2>1. PICK coding \in Codings, cps \in Texts :
              IsEncodable(coding, cps) /\ Opens(coding, Encoded(coding, cps), cps)
      BY <1>2 DEF OpensText
    <2>2. cps \in Seq(Nat)
      BY FieldTextsAssumption
    <2>3. Encoded(coding, cps) \in Seq(Nat)
      <3>1. 0 \in 0 .. Len(cps)
        BY <2>2
      <3> QED
        BY <2>1, <2>2, <3>1, TextAt
    <2> QED
      BY <1>1, <2>1, <2>2, <2>3
  <1>3. CASE OpensBytes
    <2>1. PICK coding \in Codings, b \in Bytes : Opens(coding, b, NoText)
      BY <1>3 DEF OpensBytes
    <2>2. b \in Seq(Nat)
      <3> DEFINE Octets == 0 .. 255
      <3>1. b \in Seq(Octets)
        BY FieldTextsAssumption
      <3>2. Octets \subseteq Nat
        OBVIOUS
      <3> HIDE DEF Octets
      <3>3. Len(b) \in Nat /\ b \in [1 .. Len(b) -> Octets]
        BY <3>1
      <3>4. b \in [1 .. Len(b) -> Nat]
        BY <3>2, <3>3
      <3> QED
        BY <3>3, <3>4
    <2> QED
      BY <1>1, <2>1, <2>2
  <1>4. CASE Closes
    BY <1>4 DEF Closes, IteratorInv
  <1>5. CASE BuildsField
    BY <1>0, <1>5 DEF BuildsField
  <1>6. ASSUME IsValid
        PROVE  /\ codec # InvalidCodingId /\ TextInv /\ PlaceInv(iter) /\ WrittenInv(iter, unseen)
               /\ iter.mPtr < Len(bytes)
    <2>1. codec # InvalidCodingId /\ TextInv /\ PlaceInv(iter) /\ WrittenInv(iter, unseen)
      BY <1>6 DEF IsValid, IteratorInv
    <2>2. iter.mPtr \in Nat /\ Len(bytes) \in Nat /\ iter.mPtr <= Len(bytes)
      BY <2>1 DEF PlaceInv, TextInv
    <2> QED
      BY <1>6, <2>1, <2>2 DEF IsValid, Remains
  <1>7. CASE Dereference
    <2>1. /\ IsValid /\ iter' = Convert(iter) /\ UNCHANGED <<codec, bytes, written, unseen>>
      BY <1>7 DEF Dereference
    <2>2. PlaceInv(iter')
      BY <1>6, <2>1, ConvertKeepsPlace
    <2>3. WrittenInv(iter', unseen')
      BY <1>6, <2>1, ConvertReads DEF WrittenInv
    <2> QED
      BY <1>6, <2>1, <2>2, <2>3, IteratorMoves
  <1>8. CASE PreIncrement
    <2>1. /\ IsValid /\ iter' = Convert(Advance(iter)) /\ unseen' = (unseen \/ iter.mNeedConvert)
          /\ UNCHANGED <<codec, bytes, written>>
      BY <1>8 DEF PreIncrement
    <2>2. PlaceInv(Advance(iter))
      BY <1>6, <2>1, AdvanceKeepsPlace
    <2>3. PlaceInv(iter')
      BY <1>6, <2>1, <2>2, ConvertKeepsPlace
    <2>4. WrittenInv(Advance(iter), unseen')
      BY <1>6, <2>1, AdvanceReads DEF WrittenInv
    <2>5. WrittenInv(iter', unseen')
      BY <1>6, <2>1, <2>2, <2>4, ConvertReads DEF WrittenInv
    <2> QED
      BY <1>6, <2>1, <2>3, <2>5, IteratorMoves
  <1>9. CASE PostIncrement
    <2>1. /\ IsValid /\ iter' = Advance(Convert(iter)) /\ UNCHANGED <<codec, bytes, written, unseen>>
      BY <1>9 DEF PostIncrement
    <2>2. PlaceInv(Convert(iter)) /\ ~Convert(iter).mNeedConvert
      BY <1>6, <2>1, ConvertKeepsPlace
    <2>3. PlaceInv(iter')
      BY <1>6, <2>1, <2>2, AdvanceKeepsPlace
    <2>4. WrittenInv(iter', unseen')
      <3>1. SUFFICES ASSUME written # NoText
                     PROVE  \E m \in 0 .. Len(written) : IsAt(iter', unseen, m)
        BY <2>1 DEF WrittenInv
      <3>2. PICK k \in 0 .. Len(written) : IsAt(iter, unseen, k)
        BY <1>6, <2>1, <3>1 DEF WrittenInv
      <3>3. IsAt(Convert(iter), unseen, k)
        BY <1>6, <2>1, <3>1, <3>2, ConvertReads
      <3>4. PICK m \in 0 .. Len(written) :
                IsAt(iter', unseen \/ Convert(iter).mNeedConvert, m)
        BY <1>6, <2>1, <2>2, <3>1, <3>3, AdvanceReads
      <3>5. unseen \in BOOLEAN /\ (unseen \/ Convert(iter).mNeedConvert) = unseen
        BY <2>2, <3>2 DEF IsAt
      <3> QED
        BY <3>4, <3>5
    <2> QED
      BY <1>6, <2>1, <2>3, <2>4, IteratorMoves
  <1>10. CASE UNCHANGED fieldTextVars
    BY <1>0, <1>10 DEF fieldTextVars
  <1> QED
    BY <1>2, <1>3, <1>4, <1>5, <1>7, <1>8, <1>9, <1>10 DEF FieldTextsNext

LEMMA TextsStepwise == IInv /\ [FieldTextsNext]_fieldTextVars => IInv'
  BY BuilderStep, BuilderUnchanged, BuilderOrNot, IteratorStep DEF IInv

LEMMA TextsInvariant == FieldTextsSpec => []IInv
  <1> QED
    BY TextsInitially, TextsStepwise, PTL DEF FieldTextsSpec

\* A text that was written in a coding is read as it was written, whatever the coding, the text and
\* the order in which the iterator is looked at and advanced.
THEOREM TextsAreRead == FieldTextsSpec => []TextsAreReadAsWritten
  <1>1. IInv => TextsAreReadAsWritten
    <2> SUFFICES ASSUME IInv, written # NoText PROVE TextsAreReadAsWritten
      BY DEF TextsAreReadAsWritten
    <2>1. WrittenInv(iter, unseen)
      BY DEF IInv, IteratorInv
    <2>2. PICK k \in 0 .. Len(written) : IsAt(iter, unseen, k)
      BY <2>1 DEF WrittenInv
    <2> QED
      BY <2>2 DEF IsAt, TextsAreReadAsWritten
  <1> QED
    BY <1>1, TextsInvariant, PTL

\* Of any bytes, the iterator is never within a code point and never passes what it cannot convert.
THEOREM NothingIsPassed == FieldTextsSpec => []NothingIsSkipped
  <1>1. IInv => NothingIsSkipped
    BY DEF IInv, IteratorInv, PlaceInv, NothingIsSkipped, StartedIterator
  <1> QED
    BY <1>1, TextsInvariant, PTL

\* The field that is finished is the one that was declared, whatever the order and whatever was refused,
\* with the length of a pstring that was refused after it had set it.
THEOREM FieldsAreAsDescribed == FieldTextsSpec => FieldIsAsDescribed
  <1>1. IInv /\ [FieldTextsNext]_fieldTextVars =>
            [/\ ~builder.mComplete /\ builder'.mComplete
             /\ builder.mTermChar = InvalidCodePoint \/ declared.identifier = "cstring"
             => GetField(builder') = Described(builder, declared, lengthLeft)]_fieldTextVars
    BY BuilderOrNot, IsAsDescribed DEF IInv, builderVars
  <1> QED
    BY <1>1, TextsInvariant, PTL DEF FieldTextsSpec, FieldIsAsDescribed

\* A finished field stays as it is until the builder is reset, but for a coding or a terminator that
\* its defaults left open.
THEOREM FinishedFieldsStay == FieldTextsSpec => FinishedFieldStays
  <1>1. IInv /\ [FieldTextsNext]_fieldTextVars =>
            [builder.mComplete /\ builder'.mComplete => FieldStays]_fieldTextVars
    <2> SUFFICES ASSUME IInv, [FieldTextsNext]_fieldTextVars, ~UNCHANGED builderVars,
                        builder.mComplete, builder'.mComplete
                 PROVE  FieldStays
      <3>1. UNCHANGED builderVars => FieldStays
        BY DEF builderVars, FieldStays, GetField
      <3> QED
        BY <3>1
    <2> QED
      BY BuilderOrNot, FinishedStays DEF IInv
  <1> QED
    BY <1>1, TextsInvariant, PTL DEF FieldTextsSpec, FinishedFieldStays, FieldStays


-----------------------------------------------------------------------------
(* Literals: runs *)

\* The symbols from one position to another are a run.
IsRun(t, from, to) ==
    /\ to \in from .. Len(t)
    /\ \A i \in from .. to : Category(t[i]) = Category(t[from])
    /\ ~Concatenates(Category(t[from])) => to = from
    /\ Concatenates(Category(t[from])) /\ to < Len(t) => Category(t[to + 1]) # Category(t[from])

\* A part of a sequence.
LEMMA Cuts ==
  ASSUME NEW S, NEW t \in Seq(S), NEW m \in Int, NEW n \in Int, 1 <= m, n <= Len(t), m <= n + 1
  PROVE  /\ SubSeq(t, m, n) \in Seq(S)
         /\ Len(SubSeq(t, m, n)) = n - m + 1
         /\ \A i \in 1 .. n - m + 1 : SubSeq(t, m, n)[i] = t[m + i - 1]
  OBVIOUS

\* The length of a part of a sequence.
LEMMA CutLength ==
  ASSUME NEW S, NEW t \in Seq(S), NEW m \in Int, NEW n \in Int, 1 <= m, n <= Len(t), m <= n + 1
  PROVE  Len(SubSeq(t, m, n)) = n - m + 1
  BY Cuts

\* The part of t from m to n is a sequence, as long as it should be, of the elements there.
Piece(S, t, m, n) ==
    /\ SubSeq(t, m, n) \in Seq(S)
    /\ Len(SubSeq(t, m, n)) = n - m + 1
    /\ \A i \in 1 .. n - m + 1 : SubSeq(t, m, n)[i] = t[m + i - 1]

\* A part of a sequence is a piece of it.
LEMMA Pieces ==
  ASSUME NEW S, NEW t \in Seq(S), NEW m \in Int, NEW n \in Int, 1 <= m, n <= Len(t), m <= n + 1
  PROVE  Piece(S, t, m, n)
  BY Cuts DEF Piece

\* What RunAt gives is a run.
LEMMA RunsAreRuns ==
  ASSUME NEW t \in Seq(0 .. 127), NEW from \in 1 .. Len(t)
  PROVE  \E to \in from .. Len(t) :
             /\ IsRun(t, from, to)
             /\ RunAt(t, from) = [category |-> Category(t[from]), str |-> SubSeq(t, from, to)]
  <1> DEFINE category == Category(t[from])
             belongs(n) == /\ n \in from .. Len(t)
                           /\ \A i \in from .. n : Category(t[i]) = category
                           /\ Concatenates(category) \/ n = from
             ends == {n \in from .. Len(t) : belongs(n) /\ ~belongs(n + 1)}
             later == {n \in from .. Len(t) : ~belongs(n + 1)}
  <1> HIDE DEF category
  <1>0. from \in Nat /\ Len(t) \in Nat /\ from >= 1
    OBVIOUS
  <1>1. belongs(from)
    BY <1>0 DEF category
  <1>2. PICK n \in later : \A m \in later : ~(m < n)
    <2>1. later \in SUBSET Nat
      BY <1>0
    <2>2. Len(t) \in later
      BY <1>0
    <2> QED
      BY <2>1, <2>2, LeastNumber
  <1>3. n \in ends
    <2>1. CASE n = from
      BY <2>1, <1>1, <1>2
    <2>2. CASE n # from
      <3>1. n - 1 \in from .. Len(t) /\ n - 1 < n /\ (n - 1) + 1 = n
        BY <2>2, <1>0, <1>2
      <3>2. n - 1 \notin later
        BY <3>1, <1>2
      <3>3. belongs(n)
        BY <3>1, <3>2
      <3> QED
        BY <3>3, <1>2
    <2> QED
      BY <2>1, <2>2
  <1> DEFINE to == CHOOSE m \in from .. Len(t) : belongs(m) /\ ~belongs(m + 1)
  <1>4. to \in ends
    BY <1>3
  <1>5. RunAt(t, from) = [category |-> category, str |-> SubSeq(t, from, to)]
    BY DEF RunAt, category
  <1>6. PICK e : e = to
    OBVIOUS
  <1>7. IsRun(t, from, e)
    <2>1. e \in from .. Len(t) /\ belongs(e) /\ ~belongs(e + 1)
      BY <1>4, <1>6
    <2>2. ASSUME Concatenates(category), e < Len(t), Category(t[e + 1]) = category PROVE FALSE
      <3>1. e + 1 \in from .. Len(t) /\ \A i \in from .. e + 1 : i \in from .. e \/ i = e + 1
        BY <2>1, <2>2, <1>0
      <3>2. belongs(e + 1)
        BY <3>1, <2>1, <2>2
      <3> QED
        BY <3>2, <2>1
    <2> QED
      BY <2>1, <2>2 DEF IsRun, category
  <1> QED
    BY <1>4, <1>5, <1>6, <1>7 DEF category

\* What IsRun says of a run that is given to a parser.
LEMMA RunFacts ==
  ASSUME NEW t \in Seq(0 .. 127), NEW from \in 1 .. Len(t)
  PROVE  /\ RunAt(t, from).category = Category(t[from])
         /\ RunAt(t, from).str \in Seq(0 .. 127)
         /\ RunAt(t, from).str # <<>>
         /\ Len(RunAt(t, from).str) \in 1 .. Len(t) - from + 1
         /\ RunAt(t, from).str[1] = t[from]
  <1>1. PICK to \in from .. Len(t) :
             /\ IsRun(t, from, to)
             /\ RunAt(t, from) = [category |-> Category(t[from]), str |-> SubSeq(t, from, to)]
    BY RunsAreRuns
  <1>2. from \in Int /\ to \in Int /\ from <= to /\ 1 <= from /\ to <= Len(t) /\ from <= to + 1
    OBVIOUS
  <1>3. /\ SubSeq(t, from, to) \in Seq(0 .. 127)
        /\ Len(SubSeq(t, from, to)) = to - from + 1
        /\ \A i \in 1 .. to - from + 1 : SubSeq(t, from, to)[i] = t[from + i - 1]
    BY <1>2, Cuts, Zenon
  <1>4. SubSeq(t, from, to)[1] = t[from]
    <2>1. 1 \in 1 .. to - from + 1 /\ from + 1 - 1 = from
      BY <1>2
    <2> QED
      BY <2>1, <1>3
  <1>5. SubSeq(t, from, to) # <<>>
    BY <1>3, <1>2
  <1>6. to - from + 1 \in 1 .. Len(t) - from + 1
    BY <1>2
  <1>7. RunAt(t, from).category = Category(t[from]) /\ RunAt(t, from).str = SubSeq(t, from, to)
    BY <1>1
  <1> QED
    BY <1>3, <1>4, <1>5, <1>6, <1>7, Zenon

-----------------------------------------------------------------------------
(* The parser of numbers: types *)

\* A symbol has a value as a digit.
LEMMA DigitValues == \A c \in Int : DigitValue(c) \in 0 .. 36
  BY DEF DigitValue

\* The values of digits.
LEMMA DigitsAreTyped ==
  ASSUME NEW t \in Seq(0 .. 127), NEW radix, AreDigits(t, radix)
  PROVE  DigitsOf(t) \in Seq(0 .. 35) /\ Len(DigitsOf(t)) = Len(t)
  <1>1. ASSUME NEW i \in 1 .. Len(t) PROVE DigitValue(t[i]) \in 0 .. 35
    <2>0. t[i] \in 0 .. 127
      BY ElementOfSeq, Zenon
    <2>1. PICK c \in 0 .. 127 : c = t[i]
      BY <2>0
    <2>2. PICK v \in 0 .. 36 : v = DigitValue(c)
      <3>1. c \in Int
        OBVIOUS
      <3> QED
        BY <3>1, DigitValues, Zenon
    <2>3. radix \in 2 .. 36 /\ DigitValue(t[i]) < radix
      BY DEF AreDigits, IsDigit, IsValidRadix
    <2>4. v < radix
      BY <2>1, <2>2, <2>3
    <2>5. v \in 0 .. 35
      BY <2>3, <2>4
    <2> QED
      BY <2>1, <2>2, <2>5
  <1> QED
    BY <1>1 DEF DigitsOf

LEMMA ComponentsTyped ==
  ASSUME NEW p \in NumericParsers, NEW d \in Seq(0 .. 35), NEW u \in Seq(0 .. 127)
  PROVE  /\ [p EXCEPT !.integral = d, !.mUnparsedText = u] \in NumericParsers
         /\ [p EXCEPT !.fractional = d, !.mUnparsedText = u] \in NumericParsers
  BY DEF NumericParsers

LEMMA SetIntegralTyped ==
  ASSUME NEW p \in NumericParsers, p.mLastParseResult = "NotComplete"
  PROVE  /\ SetIntegralDigits(p) \in NumericParsers
         /\ SetIntegralDigits(p).mLastParseResult \in {"NotComplete", "Error"}
  <1>1. p.mUnparsedText \in Seq(0 .. 127) /\ <<>> \in Seq(0 .. 127)
    BY DEF NumericParsers
  <1>2. CASE AreDigits(p.mUnparsedText, p.mRadix)
    <2>1. PICK d \in Seq(0 .. 35) : d = DigitsOf(p.mUnparsedText)
      BY <1>1, <1>2, DigitsAreTyped
    <2>2. PICK q : q = [p EXCEPT !.integral = d, !.mUnparsedText = <<>>]
      OBVIOUS
    <2>3. q = SetIntegralDigits(p)
      BY <1>2, <2>1, <2>2 DEF SetIntegralDigits
    <2>4. q \in NumericParsers
      BY <1>1, <2>2, ComponentsTyped, Zenon
    <2>5. q.mLastParseResult = "NotComplete"
      BY <2>2 DEF NumericParsers
    <2> QED
      BY <2>3, <2>4, <2>5
  <1>3. CASE ~AreDigits(p.mUnparsedText, p.mRadix)
    <2>1. PICK q : q = [p EXCEPT !.mUnparsedText = <<>>, !.mLastParseResult = "Error"]
      OBVIOUS
    <2>2. SetIntegralDigits(p) = q
      BY <1>3, <2>1 DEF SetIntegralDigits, NumericError, NumericParsers
    <2>3. q \in NumericParsers
      BY <1>1, <2>1 DEF NumericParsers, Results
    <2>4. q.mLastParseResult = "Error"
      BY <2>1 DEF NumericParsers
    <2> QED
      BY <2>2, <2>3, <2>4, Zenon
  <1> QED
    BY <1>2, <1>3

LEMMA SetFractionalTyped ==
  ASSUME NEW p \in NumericParsers, p.mLastParseResult = "NotComplete"
  PROVE  /\ SetFractionalDigits(p) \in NumericParsers
         /\ SetFractionalDigits(p).mLastParseResult \in {"NotComplete", "Error"}
  <1>1. p.mUnparsedText \in Seq(0 .. 127) /\ <<>> \in Seq(0 .. 127)
    BY DEF NumericParsers
  <1>2. CASE AreDigits(p.mUnparsedText, p.mRadix)
    <2>1. PICK d \in Seq(0 .. 35) : d = DigitsOf(p.mUnparsedText)
      BY <1>1, <1>2, DigitsAreTyped
    <2>2. PICK q : q = [p EXCEPT !.fractional = d, !.mUnparsedText = <<>>]
      OBVIOUS
    <2>3. q = SetFractionalDigits(p)
      BY <1>2, <2>1, <2>2 DEF SetFractionalDigits
    <2>4. q \in NumericParsers
      BY <1>1, <2>2, ComponentsTyped, Zenon
    <2>5. q.mLastParseResult = "NotComplete"
      BY <2>2 DEF NumericParsers
    <2> QED
      BY <2>3, <2>4, <2>5
  <1>3. CASE ~AreDigits(p.mUnparsedText, p.mRadix)
    <2>1. PICK q : q = [p EXCEPT !.mUnparsedText = <<>>, !.mLastParseResult = "Error"]
      OBVIOUS
    <2>2. SetFractionalDigits(p) = q
      BY <1>3, <2>1 DEF SetFractionalDigits, NumericError, NumericParsers
    <2>3. q \in NumericParsers
      BY <1>1, <2>1 DEF NumericParsers, Results
    <2>4. q.mLastParseResult = "Error"
      BY <2>1 DEF NumericParsers
    <2> QED
      BY <2>2, <2>3, <2>4, Zenon
  <1> QED
    BY <1>2, <1>3

\* A parser that has not decided, or has found an error.
Undecided(p) == p \in NumericParsers /\ p.mLastParseResult = "NotComplete"
NotAccepted(p) == p \in NumericParsers /\ p.mLastParseResult \in {"NotComplete", "Error"}

LEMMA ErrorIsNotAccepted ==
  ASSUME NEW p \in NumericParsers
  PROVE  NotAccepted(NumericError(p)) /\ NumericError(p).mLastParseResult = "Error"
  BY DEF NumericError, NumericParsers, NotAccepted, Results

LEMMA DefaultsTyped ==
  ASSUME NEW p, Undecided(p)
  PROVE  Undecided(UseOrSetDefaultRadix(p)) /\ Undecided(UseOrSetDefaultSignificandSign(p))
  BY DEF Undecided, UseOrSetDefaultRadix, UseOrSetDefaultSignificandSign, NumericParsers, HasRadix,
         InvalidRadix

LEMMA ParseDigitsTyped ==
  ASSUME NEW p, Undecided(p)
  PROVE  NotAccepted(ParseDigits(p))
  <1> DEFINE ready == UseOrSetDefaultSignificandSign(UseOrSetDefaultRadix(p))
  <1>1. Undecided(ready)
    BY DefaultsTyped
  <1>2. NotAccepted(SetIntegralDigits(ready)) /\ NotAccepted(SetFractionalDigits(ready))
    BY <1>1, SetIntegralTyped, SetFractionalTyped DEF Undecided, NotAccepted
  <1>3. NotAccepted(p) /\ NotAccepted(NumericError(p))
    BY ErrorIsNotAccepted DEF Undecided, NotAccepted
  <1>4. ParseDigits(p) \in {p, SetIntegralDigits(ready), SetFractionalDigits(ready), NumericError(p)}
    BY DEF ParseDigits
  <1> QED
    BY <1>2, <1>3, <1>4

LEMMA ParseSymbolTyped ==
  ASSUME NEW p, Undecided(p), NEW c
  PROVE  NotAccepted(ParseControl(p, c)) /\ NotAccepted(ParseSign(p, c))
  <1>1. NotAccepted(NumericError(p)) /\ <<>> \in Seq(0 .. 127)
    BY ErrorIsNotAccepted DEF Undecided
  <1>2. NotAccepted(ParseRadix(p))
    <2>1. ASSUME RadixOf(p.mUnparsedText[1]) # InvalidRadix
          PROVE  RadixOf(p.mUnparsedText[1]) \in {2, 8, 10, 16}
      BY <2>1 DEF RadixOf
    <2>2. ASSUME NEW r \in {2, 8, 10, 16}
          PROVE  NotAccepted([p EXCEPT !.mRadix = r, !.mUnparsedText = <<>>])
      BY <1>1 DEF Undecided, NotAccepted, NumericParsers
    <2> QED
      BY <1>1, <2>1, <2>2 DEF ParseRadix
  <1>3. NotAccepted(ParseSign(p, c))
    <2>1. ASSUME NEW s \in {"Positive", "Negative"} PROVE NotAccepted([p EXCEPT !.sign = s])
      BY DEF Undecided, NotAccepted, NumericParsers
    <2> QED
      BY <1>1, <2>1 DEF ParseSign
  <1> QED
    BY <1>1, <1>2, <1>3 DEF ParseControl

LEMMA ParsePeriodTyped ==
  ASSUME NEW p, NotAccepted(p)
  PROVE  NotAccepted(ParsePeriod(p))
  <1>1. NotAccepted(NumericError(p))
    BY ErrorIsNotAccepted DEF NotAccepted
  <1>2. NotAccepted([p EXCEPT !.mHasPeriod = TRUE])
    BY DEF NotAccepted, NumericParsers
  <1> QED
    BY <1>1, <1>2 DEF ParsePeriod

LEMMA ParseHashTyped ==
  ASSUME NEW p, NotAccepted(p)
  PROVE  ParseHash(p) \in NumericParsers /\ ParseHash(p).mLastParseResult \in {"Complete", "Error"}
  <1>1. NumericError(p) \in NumericParsers /\ NumericError(p).mLastParseResult = "Error"
    BY ErrorIsNotAccepted DEF NotAccepted
  <1>2. [p EXCEPT !.mLastParseResult = "Complete"] \in NumericParsers
        /\ [p EXCEPT !.mLastParseResult = "Complete"].mLastParseResult = "Complete"
    BY DEF NotAccepted, NumericParsers, Results
  <1> QED
    BY <1>1, <1>2 DEF ParseHash

\* A run that is given to the parser of numbers: its type and its verdict.
LEMMA NumericRunTyped ==
  ASSUME NEW p, Undecided(p), NEW run, run.str \in Seq(0 .. 127), NEW q, q = NumericParseSymbols(p, run)
  PROVE  q \in NumericParsers /\ q.mLastParseResult \in Verdicts("NumericLiteral", run.category)
  <1>1. /\ NotAccepted(ParseDigits(p)) /\ NotAccepted(ParseControl(p, run.str[1]))
        /\ NotAccepted(ParsePeriod(ParseDigits(p)))
        /\ NotAccepted(ParseSign(UseOrSetDefaultRadix(p), run.str[1]))
    BY ParseDigitsTyped, ParseSymbolTyped, ParsePeriodTyped, DefaultsTyped
  <1>2. CASE run.category \in {"DecimalDigits", "Letters"}
    <2>1. q = [p EXCEPT !.mUnparsedText = @ \o run.str]
      BY <1>2 DEF NumericParseSymbols
    <2>2. p.mUnparsedText \o run.str \in Seq(0 .. 127)
      BY DEF Undecided, NumericParsers
    <2>3. PICK u \in Seq(0 .. 127) : u = p.mUnparsedText \o run.str
      BY <2>2
    <2>4. q = [p EXCEPT !.mUnparsedText = u]
      BY <2>1, <2>3
    <2>5. q \in NumericParsers
      BY <2>4 DEF Undecided, NumericParsers
    <2>6. q.mLastParseResult = "NotComplete"
      BY <2>4 DEF Undecided, NumericParsers
    <2> QED
      BY <1>2, <2>5, <2>6 DEF Verdicts
  <1>3. CASE run.category = "Hash"
    <2>1. q = ParseHash(ParseDigits(p))
      BY <1>3 DEF NumericParseSymbols
    <2> QED
      BY <1>1, <1>3, <2>1, ParseHashTyped DEF Verdicts
  <1>4. CASE run.category \in {"EndOfLine", "Whitespace"}
    <2>1. q = NumericError(p)
      BY <1>4 DEF NumericParseSymbols
    <2> QED
      BY <1>4, <2>1, ErrorIsNotAccepted DEF Verdicts, Undecided, NotAccepted
  <1>5. CASE run.category \notin {"DecimalDigits", "Letters", "Hash", "EndOfLine", "Whitespace"}
    <2>1. NotAccepted(q)
      BY <1>1, <1>5 DEF NumericParseSymbols
    <2>2. Verdicts("NumericLiteral", run.category) = {"NotComplete", "Error"}
      BY <1>5 DEF Verdicts
    <2> QED
      BY <2>1, <2>2 DEF NotAccepted
  <1> QED
    BY <1>2, <1>3, <1>4, <1>5

-----------------------------------------------------------------------------
(* Recursive functions *)

\* f begins with a, and each of its values is G's of the one before it.
AreSteps(f, G, a, k) == f = [i \in 0 .. k |-> IF i = 0 THEN a ELSE G[i][f[i - 1]]]

\* There is such a function.
LEMMA StepsExist ==
  ASSUME NEW G, NEW a, NEW k \in Nat
  PROVE  \E f : AreSteps(f, G, a, k)
  <1> DEFINE S == {n \in Nat : \E f : AreSteps(f, G, a, n)}
  <1>1. 0 \in S
    <2> DEFINE f == [i \in 0 .. 0 |-> a]
    <2>1. AreSteps(f, G, a, 0)
      BY DEF AreSteps
    <2> QED
      BY <2>1
  <1>2. ASSUME NEW n \in S PROVE n + 1 \in S
    <2>1. PICK f : AreSteps(f, G, a, n)
      OBVIOUS
    <2> DEFINE g == [i \in 0 .. n + 1 |-> IF i = n + 1 THEN G[n + 1][f[n]] ELSE f[i]]
    <2>2. ASSUME NEW i \in 0 .. n + 1
          PROVE  g[i] = IF i = 0 THEN a ELSE G[i][g[i - 1]]
      <3>1. CASE i = n + 1
        <4>1. i # 0 /\ i - 1 = n /\ n \in 0 .. n + 1 /\ n # n + 1
          BY <3>1
        <4> QED
          BY <3>1, <4>1
      <3>2. CASE i \in 0 .. n
        <4>1. f[i] = IF i = 0 THEN a ELSE G[i][f[i - 1]]
          BY <2>1, <3>2 DEF AreSteps
        <4>2. g[i] = f[i] /\ (i # 0 => g[i - 1] = f[i - 1])
          BY <3>2
        <4> QED
          BY <4>1, <4>2
      <3> QED
        BY <3>1, <3>2
    <2>3. g = [i \in 0 .. n + 1 |-> IF i = 0 THEN a ELSE G[i][g[i - 1]]]
      <3> HIDE DEF g
      <3>1. g = [i \in 0 .. n + 1 |-> g[i]]
        BY DEF g
      <3> QED
        BY <2>2, <3>1
    <2>4. AreSteps(g, G, a, n + 1)
      BY <2>3 DEF AreSteps
    <2> HIDE DEF g
    <2> QED
      BY <2>4
  <1>3. S = Nat
    <2> HIDE DEF S
    <2>1. S \in SUBSET Nat
      BY DEF S
    <2> QED
      BY <1>1, <1>2, <2>1, Induction
  <1> QED
    BY <1>3

\* What holds at 0 and from one number to the next holds of all up to a bound.
LEMMA UpTo ==
  ASSUME NEW A, NEW k \in Nat, 0 \in A, \A i \in 1 .. k : i - 1 \in A => i \in A
  PROVE  \A i \in 0 .. k : i \in A
  <1> DEFINE S == {n \in Nat : n <= k => n \in A}
  <1>1. 0 \in S
    OBVIOUS
  <1>2. ASSUME NEW n \in S PROVE n + 1 \in S
    <2>1. ASSUME n + 1 <= k PROVE n + 1 \in A
      <3>1. n + 1 \in 1 .. k /\ (n + 1) - 1 = n /\ n <= k
        BY <2>1
      <3>2. n \in A
        BY <3>1
      <3> QED
        BY <3>1, <3>2
    <2> QED
      BY <2>1
  <1>3. S = Nat
    <2> HIDE DEF S
    <2>1. S \in SUBSET Nat
      BY DEF S
    <2> QED
      BY <1>1, <1>2, <2>1, Induction
  <1> QED
    BY <1>3

\* The steps of a recursion that stays in a set.
LEMMA StepsInSet ==
  ASSUME NEW A, NEW G, NEW a \in A, NEW k \in Nat, \A x \in A : \A i \in 1 .. k : G[i][x] \in A
  PROVE  \E f : /\ AreSteps(f, G, a, k)
                /\ \A i \in 0 .. k : f[i] \in A
  <1>1. PICK f : AreSteps(f, G, a, k)
    BY StepsExist
  <1> DEFINE T == {i \in 0 .. k : f[i] \in A}
  <1>2. 0 \in T
    BY <1>1 DEF AreSteps
  <1>3. ASSUME NEW i \in 1 .. k, i - 1 \in T PROVE i \in T
    <2>1. i \in 0 .. k /\ i # 0
      OBVIOUS
    <2>2. f[i] = G[i][f[i - 1]]
      BY <1>1, <2>1 DEF AreSteps
    <2> QED
      BY <1>3, <2>1, <2>2
  <1>4. \A i \in 0 .. k : i \in T
    <2> HIDE DEF T
    <2> QED
      BY <1>2, <1>3, UpTo
  <1> QED
    BY <1>1, <1>4

\* Horner's rule, digit after digit.
LEMMA HornerSteps ==
  ASSUME NEW digits \in Seq(Nat), NEW base \in Nat
  PROVE  \E f : /\ f[0] = 0
                /\ \A i \in 0 .. Len(digits) : f[i] \in Nat
                /\ \A i \in 1 .. Len(digits) : f[i] = f[i - 1] * base + digits[i]
                /\ Horner(digits, base) = f[Len(digits)]
  <1> DEFINE f == CHOOSE f : f = [i \in 0 .. Len(digits) |->
                                     IF i = 0 THEN 0 ELSE f[i - 1] * base + digits[i]]
             G == [i \in 1 .. Len(digits) |-> [x \in Nat |-> x * base + digits[i]]]
  <1>0. Len(digits) \in Nat /\ \A i \in 1 .. Len(digits) : digits[i] \in Nat
    OBVIOUS
  <1>1. \A x \in Nat : \A i \in 1 .. Len(digits) : G[i][x] \in Nat
    BY <1>0
  <1>2. PICK g : AreSteps(g, G, 0, Len(digits)) /\ \A i \in 0 .. Len(digits) : g[i] \in Nat
    <2> HIDE DEF G
    <2> QED
      BY <1>0, <1>1, StepsInSet
  <1>3. g = [i \in 0 .. Len(digits) |-> IF i = 0 THEN 0 ELSE g[i - 1] * base + digits[i]]
    <2>1. ASSUME NEW i \in 0 .. Len(digits), i # 0 PROVE G[i][g[i - 1]] = g[i - 1] * base + digits[i]
      <3>1. i - 1 \in 0 .. Len(digits) /\ i \in 1 .. Len(digits)
        BY <1>0, <2>1
      <3>2. g[i - 1] \in Nat
        BY <1>2, <3>1
      <3> QED
        BY <3>1, <3>2
    <2> HIDE DEF G
    <2> QED
      BY <1>2, <2>1 DEF AreSteps
  <1>4. f = [i \in 0 .. Len(digits) |-> IF i = 0 THEN 0 ELSE f[i - 1] * base + digits[i]]
    BY <1>3, Zenon
  <1>5. Horner(digits, base) = f[Len(digits)]
    BY Zenon DEF Horner
  <1> HIDE DEF f
  <1>6. f[0] = 0 /\ \A i \in 1 .. Len(digits) : f[i] = f[i - 1] * base + digits[i]
    <2>1. 0 \in 0 .. Len(digits)
      BY <1>0
    <2>2. \A i \in 1 .. Len(digits) : i \in 0 .. Len(digits) /\ i # 0
      BY <1>0
    <2> QED
      BY <1>4, <2>1, <2>2
  <1>7. \A i \in 0 .. Len(digits) : f[i] \in Nat
    <2> DEFINE T == {i \in 0 .. Len(digits) : f[i] \in Nat}
    <2>1. 0 \in T
      BY <1>0, <1>6
    <2>2. ASSUME NEW i \in 1 .. Len(digits), i - 1 \in T PROVE i \in T
      <3>1. i \in 0 .. Len(digits)
        BY <1>0
      <3>2. f[i - 1] \in Nat /\ digits[i] \in Nat /\ f[i] = f[i - 1] * base + digits[i]
        BY <1>0, <1>6, <2>2
      <3>3. PICK x \in Nat, y \in Nat : x = f[i - 1] /\ y = digits[i]
        BY <3>2
      <3>4. x * base + y \in Nat
        OBVIOUS
      <3>5. f[i] = x * base + y
        BY <3>2, <3>3, Zenon
      <3> QED
        BY <3>1, <3>4, <3>5
    <2>3. \A i \in 0 .. Len(digits) : i \in T
      <3> HIDE DEF T
      <3> QED
        BY <1>0, <2>1, <2>2, UpTo
    <2> QED
      BY <2>3
  <1> QED
    BY <1>5, <1>6, <1>7

\* What a code point can be in the table of a coding.
LEMMA CodePointsOfTables ==
  ASSUME NEW table \in Tables, NEW code \in Nat
  PROVE  ToUnicode(table, code) # Undefined => ToUnicode(table, code) \in Nat
  <1>1. CASE BlocksWith(table, "other", code) = {}
    BY <1>1, TranscodeFinds DEF ToUnicode
  <1>2. CASE BlocksWith(table, "other", code) # {}
    <2>1. PICK i \in BlocksWith(table, "other", code) :
               Transcode(table, "other", "unicode", code) = table[i]["unicode"] + code - table[i]["other"]
      BY <1>2, TranscodeFinds
    <2>2. i \in DOMAIN table /\ code >= table[i].other
      <3>1. i \in DOMAIN table /\ code \in table[i]["other"] .. table[i]["other"] + table[i].blockLen - 1
        BY DEF BlocksWith
      <3>2. table[i].other \in Nat /\ table[i].blockLen \in Nat
        BY <3>1, BlocksHaveCodes
      <3> QED
        BY <3>1, <3>2
    <2>3. table[i].other \in Nat /\ table[i].unicode \in Nat
      BY <2>2, BlocksHaveCodes
    <2> QED
      BY <2>1, <2>2, <2>3 DEF ToUnicode
  <1> QED
    BY <1>1, <1>2

LEMMA Largest == TheoreticalMaxUnicodePoint \in Int /\ TheoreticalMaxUnicodePoint >= 127
  BY CodecsAssumption, SMT

LEMMA EscapedCodePoints ==
  ASSUME NEW converter, NEW code \in Nat, NEW cp, cp = ToCodePoint(converter, code),
         cp # Undefined, IsValidCodePoint(cp)
  PROVE  cp \in CodePoints
  <1>1. "ASCII" \in Codings \ {"UTF8"} /\ "MS-1252" \in Codings \ {"UTF8"}
    BY DEF Codings, CodingIds, InvalidCodingId
  <1>2. AsciiTable \in Tables /\ Ms1252Table \in Tables
    BY <1>1, TablesAreOrdered DEF TableOf
  <1>3. cp \in Nat
    BY <1>2, CodePointsOfTables DEF ToCodePoint
  <1>4. cp <= TheoreticalMaxUnicodePoint /\ TheoreticalMaxUnicodePoint \in Int
    BY Largest DEF IsValidCodePoint
  <1> QED
    BY <1>3, <1>4 DEF CodePoints

LEMMA AsciiIsUnicode == 0 .. 127 \subseteq CodePoints
  BY Largest DEF CodePoints

LEMMA SymbolsAreCodePoints ==
  ASSUME NEW s \in Seq(0 .. 127)
  PROVE  s \in Seq(CodePoints)
  <1>1. ASSUME NEW i \in 1 .. Len(s) PROVE s[i] \in CodePoints
    <2>1. s[i] \in 0 .. 127
      BY ElementOfSeq, Zenon
    <2> QED
      BY <2>1, AsciiIsUnicode
  <1>2. Len(s) \in Nat /\ s = [i \in 1 .. Len(s) |-> s[i]]
    OBVIOUS
  <1>3. [i \in 1 .. Len(s) |-> s[i]] \in Seq(CodePoints)
    <2>1. PICK n \in Nat : n = Len(s)
      BY <1>2
    <2>2. \A i \in 1 .. n : s[i] \in CodePoints
      BY <1>1, <2>1
    <2>3. [i \in 1 .. n |-> s[i]] \in Seq(CodePoints)
      BY <2>2
    <2> QED
      BY <2>1, <2>3
  <1> QED
    BY <1>2, <1>3

LEMMA Joined ==
  ASSUME NEW S, NEW s \in Seq(S), NEW t \in Seq(S)
  PROVE  s \o t \in Seq(S)
  OBVIOUS

-----------------------------------------------------------------------------
(* The parser of strings: types, and what is left alone *)

\* A parser of strings that has made p of q, and has a result of some.
FollowsAs(p, q, results) ==
    /\ q \in StringParsers /\ q.literal.mCache = p.literal.mCache
    /\ q.mLastParseResult \in results

ReadsOn(p) == p \in StringParsers /\ p.mLastParseResult = "NotComplete"

LEMMA ErrorTyped ==
  ASSUME NEW p \in StringParsers
  PROVE  FollowsAs(p, StringError(p), {"Error"})
  BY DEF FollowsAs, StringError, StringParsers, Results

LEMMA AppendTyped ==
  ASSUME NEW p \in StringParsers, NEW cps \in Seq(CodePoints)
  PROVE  FollowsAs(p, AppendText(p, cps), {p.mLastParseResult})
  <1>1. PICK m \in Machines : m = p.literal
    BY DEF StringParsers
  <1>2. m.mBuffer \in Seq(CodePoints) /\ m.mBuffer \o cps \in Seq(CodePoints)
    BY Joined DEF Machines
  <1>3. PICK b \in Seq(CodePoints) : b = m.mBuffer \o cps
    BY <1>2
  <1>4. PICK n \in Machines : n = [m EXCEPT !.mBuffer = b, !.mDefined = TRUE] /\ n.mCache = m.mCache
    <2>1. PICK n : n = [m EXCEPT !.mBuffer = b, !.mDefined = TRUE]
      OBVIOUS
    <2>2. n \in Machines
      BY <2>1 DEF Machines
    <2>3. n.mCache = m.mCache
      BY <2>1 DEF Machines
    <2> QED
      BY <2>1, <2>2, <2>3
  <1>5. AppendText(p, cps) = [p EXCEPT !.literal = n]
    <2>1. AppendUtf8(m, cps) = n
      BY <1>3, <1>4 DEF AppendUtf8, Machines
    <2>2. AppendText(p, cps) = [p EXCEPT !.literal = AppendUtf8(p.literal, cps)]
      BY DEF AppendText
    <2> QED
      BY <1>1, <2>1, <2>2
  <1> QED
    BY <1>1, <1>4, <1>5 DEF FollowsAs, StringParsers

LEMMA ToTextTyped ==
  ASSUME NEW p \in StringParsers
  PROVE  FollowsAs(p, ToText(p), {p.mLastParseResult})
  <1>1. NoEscape \in Escapes
    BY DEF NoEscape, Escapes, InvalidRadix
  <1> QED
    BY <1>1 DEF FollowsAs, ToText, StringParsers

LEMMA AppendToTextTyped ==
  ASSUME NEW p, ReadsOn(p), NEW cps \in Seq(CodePoints)
  PROVE  FollowsAs(p, ToText(AppendText(p, cps)), {"NotComplete"})
  <1>1. PICK q : q = AppendText(p, cps)
    OBVIOUS
  <1>2. FollowsAs(p, q, {"NotComplete"})
    BY <1>1, AppendTyped DEF ReadsOn
  <1>3. FollowsAs(q, ToText(q), {"NotComplete"})
    BY <1>2, ToTextTyped DEF FollowsAs
  <1> QED
    BY <1>1, <1>2, <1>3 DEF FollowsAs

LEMMA TextRunTyped ==
  ASSUME NEW p, ReadsOn(p), NEW run, run.str \in Seq(0 .. 127)
  PROVE  /\ FollowsAs(p, StateTextEvaluate(p, run), Results)
         /\ run.category # "DoubleQuotes" =>
                StateTextEvaluate(p, run).mLastParseResult \in {"NotComplete", "Error"}
  <1>1. CASE run.category = "DoubleQuotes"
    BY <1>1 DEF StateTextEvaluate, ReadsOn, FollowsAs, StringParsers, Results
  <1>2. CASE run.category = "Backslash"
    BY <1>2 DEF StateTextEvaluate, ReadsOn, FollowsAs, StringParsers, Results
  <1>3. CASE run.category \notin {"DoubleQuotes", "Backslash"}
    <2>1. FollowsAs(p, AppendText(p, run.str), {"NotComplete"})
      BY SymbolsAreCodePoints, AppendTyped DEF ReadsOn
    <2>2. StateTextEvaluate(p, run) = AppendText(p, run.str)
      BY <1>3 DEF StateTextEvaluate
    <2> QED
      BY <2>1, <2>2 DEF FollowsAs, Results
  <1> QED
    BY <1>1, <1>2, <1>3

LEMMA DigitsGivenTyped ==
  ASSUME NEW p, ReadsOn(p), NEW run
  PROVE  FollowsAs(p, ParseEscapeDigits(p, run), {"NotComplete", "Error"})
  <1>1. FollowsAs(p, StringError(p), {"NotComplete", "Error"})
    BY ErrorTyped DEF ReadsOn, FollowsAs
  <1>2. ASSUME NEW n \in 1 .. 32
        PROVE  FollowsAs(p, [p EXCEPT !.escape.escapeDigits = n], {"NotComplete", "Error"})
    <2>1. p.escape \in Escapes
      BY DEF ReadsOn, StringParsers
    <2>2. [p.escape EXCEPT !.escapeDigits = n] \in Escapes
      BY <2>1 DEF Escapes
    <2>3. PICK e \in Escapes : e = [p.escape EXCEPT !.escapeDigits = n]
      BY <2>2
    <2>4. [p EXCEPT !.escape.escapeDigits = n] = [p EXCEPT !.escape = e]
      BY <2>3
    <2> QED
      BY <2>4 DEF ReadsOn, FollowsAs, StringParsers
  <1> QED
    BY <1>1, <1>2 DEF ParseEscapeDigits

LEMMA EscapeForms ==
  ASSUME NEW c \in CodePointEscapes
  PROVE  /\ CodePointEscape(c).radix \in {2, 16}
         /\ CodePointEscape(c).default \in 0 .. 32
         /\ CodePointEscape(c).converter \in {"None", "ASCII", "MS-1252"}
  <1>1. c \in {97, 98, 117, 119, 120}
    BY DEF CodePointEscapes
  <1>2. c = 97 \/ c = 98 \/ c = 117 \/ c = 119 \/ c = 120
    BY <1>1
  <1> QED
    BY <1>2 DEF CodePointEscape

LEMMA Single == ASSUME NEW S, NEW x \in S PROVE <<x>> \in Seq(S)
  OBVIOUS

LEMMA EscapeCharTyped ==
  ASSUME NEW p, ReadsOn(p), NEW run, run.str \in Seq(0 .. 127), run.str # <<>>
  PROVE  FollowsAs(p, ParseEscapeChar(p, run), {"NotComplete", "Error"})
  <1> DEFINE c == run.str[1]
  <1>0. FollowsAs(p, StringError(p), {"NotComplete", "Error"})
    BY ErrorTyped DEF ReadsOn, FollowsAs
  <1>1. CASE Len(run.str) = 1 /\ c \in SimpleEscapes
    <2>1. SimpleEscape(c) \in 0 .. 127
      BY <1>1 DEF SimpleEscape, SimpleEscapes, DoubleQuotes, Backslash
    <2>2. <<SimpleEscape(c)>> \in Seq(CodePoints)
      <3>1. SimpleEscape(c) \in CodePoints
        BY <2>1, AsciiIsUnicode, Zenon
      <3> QED
        BY <3>1, Single, Zenon
    <2>3. ParseEscapeChar(p, run) = ToText(AppendText(p, <<SimpleEscape(c)>>))
      <3>1. c \notin CodePointEscapes
        BY <1>1 DEF SimpleEscapes, CodePointEscapes, DoubleQuotes, Backslash
      <3> QED
        BY <1>1, <3>1 DEF ParseEscapeChar
    <2> QED
      BY <2>2, <2>3, AppendToTextTyped DEF FollowsAs
  <1>2. CASE ~(Len(run.str) = 1 /\ c \in SimpleEscapes) /\ Len(run.str) = 1 /\ c \in CodePointEscapes
             /\ p.escape.escapeDigits <= CodePointEscape(c).most
    <2>1. PICK form : /\ form = CodePointEscape(c)
                      /\ form.radix \in {2, 16} /\ form.default \in 0 .. 32
                      /\ form.converter \in {"None", "ASCII", "MS-1252"}
      BY <1>2, EscapeForms
    <2>2. ParseEscapeChar(p, run) = BeginCodePoint(p, form)
      BY <1>2, <2>1 DEF ParseEscapeChar
    <2>3. PICK e \in Escapes : e = p.escape
      BY DEF ReadsOn, StringParsers
    <2>4. PICK n \in 0 .. 32 : n = IF e.escapeDigits = 0 THEN form.default ELSE e.escapeDigits
      BY <2>1 DEF Escapes
    <2>5. PICK f \in Escapes :
               f = [e EXCEPT !.escapeDigits = n, !.escapeRadix = form.radix,
                             !.escapeConverter = form.converter]
      BY <2>1 DEF Escapes
    <2>6. BeginCodePoint(p, form) = [p EXCEPT !.state = "EscapeDigits", !.escape = f]
      BY <2>3, <2>4, <2>5 DEF BeginCodePoint, ReadsOn, StringParsers, Escapes
    <2>7. FollowsAs(p, [p EXCEPT !.state = "EscapeDigits", !.escape = f], {"NotComplete", "Error"})
      BY <2>5 DEF FollowsAs, ReadsOn, StringParsers
    <2> QED
      BY <2>2, <2>6, <2>7
  <1>3. CASE ~(Len(run.str) = 1 /\ c \in SimpleEscapes)
             /\ ~(Len(run.str) = 1 /\ c \in CodePointEscapes
                  /\ p.escape.escapeDigits <= CodePointEscape(c).most)
    BY <1>0, <1>3 DEF ParseEscapeChar
  <1> QED
    BY <1>1, <1>2, <1>3

LEMMA Retyped ==
  ASSUME NEW S, NEW T, NEW s \in Seq(S), \A i \in 1 .. Len(s) : s[i] \in T
  PROVE  s \in Seq(T)
  OBVIOUS

LEMMA HornerTyped ==
  ASSUME NEW digits \in Seq(Nat), NEW base \in Nat
  PROVE  Horner(digits, base) \in Nat
  <1>1. Len(digits) \in 0 .. Len(digits)
    OBVIOUS
  <1> QED
    BY <1>1, HornerSteps

LEMMA CompleteTyped ==
  ASSUME NEW p, ReadsOn(p), NEW sequence \in Seq(0 .. 127), Len(sequence) >= p.escape.escapeDigits
  PROVE  FollowsAs(p, CompleteCodePoint(p, sequence), {"NotComplete", "Error"})
  <1>1. PICK n \in 0 .. 32 : n = p.escape.escapeDigits
    BY DEF ReadsOn, StringParsers, Escapes
  <1>2. PICK radix \in {InvalidRadix, 2, 16} : radix = p.escape.escapeRadix
    BY DEF ReadsOn, StringParsers, Escapes
  <1> DEFINE digits == SubSeq(sequence, 1, n)
             leftovers == SubSeq(sequence, n + 1, Len(sequence))
             cp == ToCodePoint(p.escape.escapeConverter, Horner(DigitsOf(digits), radix))
  <1>3. digits \in Seq(0 .. 127)
    <2>0. Len(sequence) \in Nat /\ n <= Len(sequence)
      BY <1>1
    <2>1. 1 \in Int /\ n \in Int /\ 1 <= 1 /\ n <= Len(sequence) /\ 1 <= n + 1
      BY <2>0
    <2> QED
      BY <2>1, Cuts, Zenon
  <1>4. leftovers \in Seq(0 .. 127)
    <2>0. Len(sequence) \in Nat /\ n <= Len(sequence)
      BY <1>1
    <2>1. n + 1 \in Int /\ 1 <= n + 1 /\ Len(sequence) <= Len(sequence) /\ n + 1 <= Len(sequence) + 1
          /\ Len(sequence) \in Int
      BY <2>0
    <2> QED
      BY <2>1, Cuts, Zenon
  <1>5. FollowsAs(p, StringError(p), {"NotComplete", "Error"})
    BY ErrorTyped DEF ReadsOn, FollowsAs
  <1>6. ASSUME AreDigits(digits, radix), cp # Undefined, IsValidCodePoint(cp)
        PROVE  FollowsAs(p, ToText(AppendText(p, <<cp>> \o leftovers)), {"NotComplete", "Error"})
    <2>1. DigitsOf(digits) \in Seq(0 .. 35)
      BY <1>3, <1>6, DigitsAreTyped, Zenon
    <2>2. DigitsOf(digits) \in Seq(Nat) /\ radix \in Nat
      <3>1. ASSUME NEW s \in Seq(0 .. 35) PROVE s \in Seq(Nat)
        <4>1. \A i \in 1 .. Len(s) : s[i] \in 0 .. 35
          BY ElementOfSeq, Zenon
        <4>2. \A x \in 0 .. 35 : x \in Nat
          OBVIOUS
        <4> QED
          BY <4>1, <4>2, Retyped, Zenon
      <3> QED
        BY <2>1, <3>1 DEF InvalidRadix
    <2>3. Horner(DigitsOf(digits), radix) \in Nat
      BY <2>2, HornerTyped, Zenon
    <2>4. cp \in CodePoints
      BY <1>6, <2>3, EscapedCodePoints, Zenon
    <2>5. <<cp>> \in Seq(CodePoints) /\ leftovers \in Seq(CodePoints)
      <3>1. ASSUME NEW x \in CodePoints PROVE <<x>> \in Seq(CodePoints)
        OBVIOUS
      <3> QED
        BY <1>4, <2>4, <3>1, SymbolsAreCodePoints, Zenon
    <2>6. <<cp>> \o leftovers \in Seq(CodePoints)
      BY <2>5, Joined, Zenon
    <2>7. FollowsAs(p, ToText(AppendText(p, <<cp>> \o leftovers)), {"NotComplete"})
      BY <2>6, AppendToTextTyped, Zenon
    <2> QED
      BY <2>7 DEF FollowsAs
  <1>7. CompleteCodePoint(p, sequence) =
            IF AreDigits(digits, radix) /\ cp # Undefined /\ IsValidCodePoint(cp)
            THEN ToText(AppendText(p, <<cp>> \o leftovers))
            ELSE StringError(p)
    BY <1>1, <1>2 DEF CompleteCodePoint
  <1> HIDE DEF digits, leftovers, cp
  <1> QED
    BY <1>5, <1>6, <1>7

LEMMA EscapeCodePointTyped ==
  ASSUME NEW p, ReadsOn(p), NEW run, run.str \in Seq(0 .. 127)
  PROVE  FollowsAs(p, ParseEscapeCodePoint(p, run), {"NotComplete", "Error"})
  <1>1. PICK e \in Escapes : e = p.escape
    BY DEF ReadsOn, StringParsers
  <1>2. PICK sequence \in Seq(0 .. 127) : sequence = e.escapeSequence \o run.str
    BY Joined DEF Escapes
  <1>3. CASE Len(sequence) < e.escapeDigits
    <2>1. PICK f \in Escapes : f = [e EXCEPT !.escapeSequence = sequence]
      BY DEF Escapes
    <2>2. ParseEscapeCodePoint(p, run) = [p EXCEPT !.escape = f]
      BY <1>1, <1>2, <1>3, <2>1 DEF ParseEscapeCodePoint, ReadsOn, StringParsers, Escapes
    <2> QED
      BY <2>2 DEF FollowsAs, ReadsOn, StringParsers
  <1>4. CASE ~(Len(sequence) < e.escapeDigits)
    <2>1. ParseEscapeCodePoint(p, run) = CompleteCodePoint(p, sequence)
      BY <1>1, <1>2, <1>4 DEF ParseEscapeCodePoint
    <2>2. Len(sequence) >= p.escape.escapeDigits
      <3>1. PICK n \in 0 .. 32 : n = e.escapeDigits
        BY DEF Escapes
      <3>2. \A s \in Seq(0 .. 127) : \A m \in 0 .. 32 : ~(Len(s) < m) => Len(s) >= m
        BY SMT
      <3>3. ~(Len(sequence) < n)
        BY <1>4, <3>1, Zenon
      <3>4. Len(sequence) >= n
        BY <3>2, <3>3, Zenon
      <3> QED
        BY <1>1, <3>1, <3>4, Zenon
    <2> QED
      BY <2>1, <2>2, CompleteTyped
  <1> QED
    BY <1>3, <1>4

\* A run that is given to the parser of strings: its type and its verdict.
LEMMA StringRunTyped ==
  ASSUME NEW p, ReadsOn(p), NEW run, run.str \in Seq(0 .. 127), run.str # <<>>,
         NEW q, q = StringParseSymbols(p, run)
  PROVE  FollowsAs(p, q, Verdicts("StringLiteral", run.category))
  <1>1. FollowsAs(p, StateTextEvaluate(p, run), Verdicts("StringLiteral", run.category))
    BY TextRunTyped DEF FollowsAs, Verdicts, Results
  <1>2. {"NotComplete", "Error"} \subseteq Verdicts("StringLiteral", run.category)
    BY DEF Verdicts
  <1>3. FollowsAs(p, StateBackslashEvaluate(p, run), {"NotComplete", "Error"})
    BY DigitsGivenTyped, EscapeCharTyped DEF StateBackslashEvaluate
  <1>4. FollowsAs(p, StateEscapeDigitsEvaluate(p, run), {"NotComplete", "Error"})
    <2>1. FollowsAs(p, StringError(p), {"NotComplete", "Error"})
      BY ErrorTyped DEF ReadsOn, FollowsAs
    <2> QED
      BY <2>1, EscapeCodePointTyped DEF StateEscapeDigitsEvaluate
  <1>5. p.state \in {"Text", "Backslash", "EscapeDigits"}
    BY DEF ReadsOn, StringParsers
  <1>6. q \in {StateTextEvaluate(p, run), StateBackslashEvaluate(p, run),
               StateEscapeDigitsEvaluate(p, run)}
    BY <1>5 DEF StringParseSymbols
  <1> QED
    BY <1>1, <1>2, <1>3, <1>4, <1>6 DEF FollowsAs

-----------------------------------------------------------------------------
(* The invariant of the parsers, and what follows from it *)

\* A parser that is given runs has not decided.
Parsing ==
    /\ mCurState = "MainSequence" => ~mParseError
    /\ mCurState = "NumericLiteral" /\ ~mParseError => numeric.mLastParseResult = "NotComplete"
    /\ mCurState = "StringLiteral" /\ ~mParseError => string.mLastParseResult = "NotComplete"

\* What nobody has read is in the buffer, and only there while a string is parsed.
UnreadIsKept ==
    /\ mCurState # "StringLiteral" => string.literal.mBuffer = unread
    /\ mCurState = "StringLiteral" => string.literal.mCache = <<>>

LiteralsInv == LiteralsTypeOK /\ Parsing /\ UnreadIsKept

LEMMA LiteralsInitially == Init => LiteralsInv
  <1> SUFFICES ASSUME Init PROVE LiteralsInv
    OBVIOUS
  <1>1. ClearedNumeric \in NumericParsers
    BY DEF ClearedNumeric, NumericParsers, Results, InvalidRadix
  <1>2. InitialString \in StringParsers /\ InitialString.literal = EmptyMachine
    <2>1. EmptyMachine \in Machines
      BY DEF EmptyMachine, Machines
    <2>2. NoEscape \in Escapes
      BY DEF NoEscape, Escapes, InvalidRadix
    <2> QED
      BY <2>1, <2>2 DEF InitialString, StringParsers, Results
  <1>3. \A S : <<>> \in Seq(S)
    OBVIOUS
  <1>4. LiteralsTypeOK
    <2>1. /\ text \in Seq(0 .. 127) /\ next \in 1 .. Len(text) + 1
          /\ unread \in Seq(CodePoints) /\ ahead \in Seq(CodePoints)
      BY <1>3 DEF Init
    <2>2. mCurState \in States /\ mParseError \in BOOLEAN /\ second \in BOOLEAN
      BY DEF Init, States
    <2> QED
      BY <1>1, <1>2, <2>1, <2>2 DEF Init, LiteralsTypeOK
  <1>5. Parsing /\ UnreadIsKept
    BY <1>2 DEF Init, Parsing, UnreadIsKept, EmptyMachine
  <1> QED
    BY <1>4, <1>5 DEF LiteralsInv

LEMMA ResetTyped ==
  ASSUME NEW p \in StringParsers, NEW q, q = ResetString(p)
  PROVE  /\ ReadsOn(q) /\ q.state = "Text"
         /\ q.literal.mCache = <<>> /\ q.literal.mBuffer = p.literal.mBuffer
         /\ q.escape = NoEscape
  <1>1. PICK m \in Machines : m = p.literal
    BY DEF StringParsers
  <1>2. PICK n : n = ResetMachine(m)
    OBVIOUS
  <1>3. n \in Machines /\ n.mCache = <<>> /\ n.mBuffer = m.mBuffer
    <2>1. <<>> \in Seq(CodePoints)
      OBVIOUS
    <2> QED
      BY <1>2, <2>1 DEF ResetMachine, Machines
  <1>4. NoEscape \in Escapes
    BY DEF NoEscape, Escapes, InvalidRadix
  <1>5. q = [p EXCEPT !.mLastParseResult = "NotComplete", !.literal = n, !.state = "Text",
                      !.escape = NoEscape]
    BY <1>1, <1>2 DEF ResetString, ToText, StringParsers
  <1> QED
    BY <1>1, <1>3, <1>4, <1>5 DEF ReadsOn, StringParsers, Results

LEMMA EntryKeeps ==
  ASSUME LiteralsInv, NEW t,
         \/ t \in NumericTexts /\ StateNumericLiteralEntry(t)
         \/ t \in StringTexts /\ StateStringLiteralEntry(t)
  PROVE  LiteralsInv' /\ ~(next' > next)
  <1>1. t \in Seq(0 .. 127) /\ text' = t /\ next' = 1 /\ 1 \in 1 .. Len(t) + 1
    <2>1. t \in Seq(0 .. 127) /\ text' = t /\ next' = 1
      BY LiteralsAssumption DEF StateNumericLiteralEntry, StateStringLiteralEntry
    <2>2. Len(t) \in Nat
      BY <2>1
    <2> QED
      BY <2>1, <2>2
  <1>2. ~(next' > next)
    BY <1>1 DEF LiteralsInv, LiteralsTypeOK
  <1>3. CASE StateNumericLiteralEntry(t)
    <2>1. ClearedNumeric \in NumericParsers /\ ClearedNumeric.mLastParseResult = "NotComplete"
      BY DEF ClearedNumeric, NumericParsers, Results, InvalidRadix
    <2>2. LiteralsTypeOK'
      BY <1>1, <1>3, <2>1 DEF StateNumericLiteralEntry, LiteralsInv, LiteralsTypeOK, States
    <2>3. Parsing' /\ UnreadIsKept'
      BY <1>3, <2>1 DEF StateNumericLiteralEntry, LiteralsInv, Parsing, UnreadIsKept
    <2> QED
      BY <1>2, <2>2, <2>3 DEF LiteralsInv
  <1>4. CASE StateStringLiteralEntry(t)
    <2>1. /\ string' \in StringParsers /\ string'.mLastParseResult = "NotComplete"
          /\ string'.literal.mCache = <<>>
      BY <1>4, ResetTyped DEF StateStringLiteralEntry, LiteralsInv, LiteralsTypeOK, ReadsOn
    <2>2. LiteralsTypeOK'
      BY <1>1, <1>4, <2>1 DEF StateStringLiteralEntry, LiteralsInv, LiteralsTypeOK, States
    <2>3. Parsing' /\ UnreadIsKept'
      BY <1>4, <2>1 DEF StateStringLiteralEntry, LiteralsInv, Parsing, UnreadIsKept
    <2> QED
      BY <1>2, <2>2, <2>3 DEF LiteralsInv
  <1> QED
    BY <1>3, <1>4

\* The run that is next.
LEMMA RunIsTyped ==
  ASSUME LiteralsTypeOK, next <= Len(text)
  PROVE  /\ Run.str \in Seq(0 .. 127) /\ Run.str # <<>>
         /\ next + Len(Run.str) \in 1 .. Len(text) + 1 /\ next + Len(Run.str) > next
  <1>1. text \in Seq(0 .. 127) /\ next \in 1 .. Len(text)
    BY DEF LiteralsTypeOK
  <1>2. PICK n : n = Len(Run.str)
    OBVIOUS
  <1>3. Run.str \in Seq(0 .. 127) /\ Run.str # <<>> /\ n \in 1 .. Len(text) - next + 1
    BY <1>1, <1>2, RunFacts DEF Run
  <1>4. next + n \in 1 .. Len(text) + 1 /\ next + n > next
    BY <1>1, <1>3
  <1> QED
    BY <1>2, <1>3, <1>4

\* What a run does to a parser, and to nothing else.
LEMMA ParsedKeeps ==
  ASSUME LiteralsTypeOK, next <= Len(text), NEW result \in Results, Parsed(result)
  PROVE  /\ text' \in Seq(0 .. 127) /\ next' \in 1 .. Len(text') + 1
         /\ second' \in BOOLEAN /\ ahead' \in Seq(CodePoints)
         /\ mCurState' \in States /\ mParseError' \in BOOLEAN
         /\ last' = <<Run.category, result>>
         /\ next' > next
  <1>1. next' \in 1 .. Len(text') + 1 /\ next' > next
    BY RunIsTyped DEF Parsed
  <1> QED
    BY <1>1 DEF Parsed, LiteralsTypeOK, States

LEMMA NumericKeeps ==
  ASSUME LiteralsInv, StateNumericLiteralEvaluate
  PROVE  LiteralsInv' /\ last'[2] \in Verdicts(mCurState, last'[1])
  <1>1. Undecided(numeric) /\ Run.str \in Seq(0 .. 127)
    BY RunIsTyped DEF LiteralsInv, LiteralsTypeOK, Parsing, StateNumericLiteralEvaluate, Undecided
  <1>2. numeric' \in NumericParsers
        /\ numeric'.mLastParseResult \in Verdicts("NumericLiteral", Run.category)
    BY <1>1, NumericRunTyped DEF StateNumericLiteralEvaluate
  <1>3. PICK result \in Results : result = numeric'.mLastParseResult
    BY <1>2 DEF NumericParsers
  <1>4. Parsed(result)
    BY <1>3 DEF StateNumericLiteralEvaluate
  <1>5. /\ text' \in Seq(0 .. 127) /\ next' \in 1 .. Len(text') + 1
        /\ second' \in BOOLEAN /\ ahead' \in Seq(CodePoints)
        /\ mCurState' \in States /\ mParseError' \in BOOLEAN
        /\ last' = <<Run.category, result>>
    BY <1>4, ParsedKeeps DEF LiteralsInv, StateNumericLiteralEvaluate
  <1>6. LiteralsTypeOK'
    BY <1>2, <1>5 DEF StateNumericLiteralEvaluate, LiteralsInv, LiteralsTypeOK
  <1>7. Parsing'
    BY <1>3, <1>4 DEF StateNumericLiteralEvaluate, Parsed, Parsing, Results
  <1>8. UnreadIsKept'
    BY <1>4 DEF StateNumericLiteralEvaluate, Parsed, LiteralsInv, UnreadIsKept
  <1>9. last'[2] \in Verdicts(mCurState, last'[1])
    BY <1>2, <1>3, <1>5 DEF StateNumericLiteralEvaluate
  <1> QED
    BY <1>6, <1>7, <1>8, <1>9 DEF LiteralsInv

\* What all three ways to evaluate a run of a string have in common.
LEMMA StringRun ==
  ASSUME LiteralsInv, mCurState = "StringLiteral", ~mParseError, next <= Len(text),
         NEW q, q = StringParseSymbols(string, Run),
         NEW result, result = q.mLastParseResult, Parsed(result)
  PROVE  /\ FollowsAs(string, q, Results) /\ result \in Verdicts(mCurState, Run.category)
         /\ text' \in Seq(0 .. 127) /\ next' \in 1 .. Len(text') + 1
         /\ second' \in BOOLEAN /\ ahead' \in Seq(CodePoints)
         /\ mCurState' \in States /\ mParseError' \in BOOLEAN
         /\ last' = <<Run.category, result>>
         /\ q.literal.mCache = <<>>
  <1>1. ReadsOn(string) /\ Run.str \in Seq(0 .. 127) /\ Run.str # <<>>
    BY RunIsTyped DEF LiteralsInv, LiteralsTypeOK, Parsing, ReadsOn
  <1>2. FollowsAs(string, q, Verdicts("StringLiteral", Run.category))
    BY <1>1, StringRunTyped
  <1>3. FollowsAs(string, q, Results) /\ result \in Results
        /\ result \in Verdicts(mCurState, Run.category)
    BY <1>2 DEF FollowsAs, StringParsers
  <1>4. q.literal.mCache = <<>>
    BY <1>2 DEF FollowsAs, LiteralsInv, UnreadIsKept
  <1> QED
    BY <1>3, <1>4, ParsedKeeps DEF LiteralsInv

\* Packing.
LEMMA Packed ==
  ASSUME NEW m \in Machines, NEW n, n = Pack(m)
  PROVE  /\ n \in Machines /\ n.mBuffer = <<>> /\ n.mCache = Content(m) /\ Content(n) = Content(m)
         /\ Content(m) \in Seq(CodePoints)
         /\ m.mCache = <<>> => Content(m) = m.mBuffer
  <1>1. m.mCache \in Seq(CodePoints) /\ m.mBuffer \in Seq(CodePoints)
    BY DEF Machines
  <1>2. m.mCache \o m.mBuffer \in Seq(CodePoints)
    BY <1>1, Joined, Zenon
  <1>3. PICK s \in Seq(CodePoints) : s = m.mCache \o m.mBuffer
    BY <1>2
  <1>4. n = [m EXCEPT !.mCache = s, !.mBuffer = <<>>]
    BY <1>3 DEF Pack, Machines
  <1>5. \A S : <<>> \in Seq(S)
    OBVIOUS
  <1>6. n \in Machines /\ n.mBuffer = <<>> /\ n.mCache = s
    BY <1>4, <1>5 DEF Machines
  <1>7. Content(m) = s
    BY <1>6 DEF Content
  <1>8. Content(n) = s
    <2>1. Content(n) = n.mCache \o n.mBuffer
      BY <1>6 DEF Content, Pack, Machines
    <2>2. s \o <<>> = s
      BY ConcatEmptySeq
    <2> QED
      BY <1>6, <2>1, <2>2
  <1>9. m.mCache = <<>> => s = m.mBuffer
    BY <1>1, <1>3, ConcatEmptySeq
  <1> QED
    BY <1>6, <1>7, <1>8, <1>9

LEMMA StringKeeps ==
  ASSUME LiteralsInv, StateStringLiteralEvaluate \/ StringIsRead \/ StringIsIgnored
  PROVE  LiteralsInv' /\ last'[2] \in Verdicts(mCurState, last'[1])
  <1> DEFINE q == StringParseSymbols(string, Run)
  <1>0. PICK result : result = q.mLastParseResult
    OBVIOUS
  <1>1. /\ mCurState = "StringLiteral" /\ ~mParseError /\ next <= Len(text) /\ Parsed(result)
        /\ UNCHANGED numeric
    BY <1>0 DEF StateStringLiteralEvaluate, StringIsRead, StringIsIgnored
  <1>2. /\ FollowsAs(string, q, Results) /\ result \in Verdicts(mCurState, Run.category)
        /\ text' \in Seq(0 .. 127) /\ next' \in 1 .. Len(text') + 1
        /\ second' \in BOOLEAN /\ ahead' \in Seq(CodePoints)
        /\ mCurState' \in States /\ mParseError' \in BOOLEAN
        /\ last' = <<Run.category, result>>
        /\ q.literal.mCache = <<>>
    BY <1>0, <1>1, StringRun
  <1>3. PICK m \in Machines : m = q.literal
    BY <1>2 DEF FollowsAs, StringParsers
  <1>4. PICK n \in Machines : /\ n = Pack(m) /\ n.mBuffer = <<>>
    BY Packed
  <1>5. last'[2] \in Verdicts(mCurState, last'[1])
    BY <1>2
  <1> HIDE DEF q
  <1>6. /\ string' \in StringParsers /\ unread' \in Seq(CodePoints)
        /\ Parsing' /\ UnreadIsKept'
    <2>1. CASE StateStringLiteralEvaluate
      <3>1. string' = q /\ UNCHANGED unread /\ result # "Complete"
        BY <1>0, <2>1 DEF StateStringLiteralEvaluate, q
      <3>2. result \in {"NotComplete", "Error"}
        BY <1>0, <1>2, <3>1 DEF FollowsAs, Results
      <3>3. mCurState' = "StringLiteral" /\ mParseError' = (result = "Error")
        BY <1>1, <3>1 DEF Parsed
      <3> QED
        BY <1>0, <1>2, <3>1, <3>2, <3>3 DEF FollowsAs, LiteralsInv, LiteralsTypeOK, Parsing, UnreadIsKept
    <2>2. CASE StringIsRead
      <3>1. string' = [q EXCEPT !.literal = n] /\ unread' = <<>> /\ result = "Complete"
        BY <1>0, <1>3, <1>4, <2>2 DEF StringIsRead, q
      <3>2. string' \in StringParsers /\ string'.literal = n
        BY <1>2, <3>1 DEF FollowsAs, StringParsers
      <3>3. mCurState' = "MainSequence" /\ mParseError' = FALSE
        BY <1>1, <3>1 DEF Parsed
      <3>4. <<>> \in Seq(CodePoints)
        OBVIOUS
      <3> QED
        BY <1>4, <3>1, <3>2, <3>3, <3>4 DEF Parsing, UnreadIsKept
    <2>3. CASE StringIsIgnored
      <3>1. string' = q /\ unread' = Content(m) /\ result = "Complete"
        BY <1>0, <1>3, <2>3 DEF StringIsIgnored, q
      <3>2. Content(m) \in Seq(CodePoints) /\ Content(m) = m.mBuffer
        BY <1>2, <1>3, Packed
      <3>3. mCurState' = "MainSequence" /\ mParseError' = FALSE
        BY <1>1, <3>1 DEF Parsed
      <3> QED
        BY <1>2, <1>3, <3>1, <3>2, <3>3 DEF FollowsAs, Parsing, UnreadIsKept
    <2> QED
      BY <2>1, <2>2, <2>3
  <1>7. LiteralsTypeOK'
    BY <1>1, <1>2, <1>6 DEF LiteralsInv, LiteralsTypeOK
  <1> QED
    BY <1>5, <1>6, <1>7 DEF LiteralsInv

LEMMA LiteralsStep ==
  ASSUME LiteralsInv, [Next]_vars
  PROVE  LiteralsInv' /\ (next' > next => last'[2] \in Verdicts(mCurState, last'[1]))
  <1>1. CASE UNCHANGED vars
    <2>1. LiteralsInv'
      BY <1>1 DEF vars, LiteralsInv, LiteralsTypeOK, Parsing, UnreadIsKept
    <2>2. ~(next' > next)
      BY <1>1 DEF vars, LiteralsInv, LiteralsTypeOK
    <2> QED
      BY <2>1, <2>2
  <1>2. CASE Next
    <2>1. ASSUME NEW t \in NumericTexts, StateNumericLiteralEntry(t)
          PROVE  LiteralsInv' /\ ~(next' > next)
      BY <2>1, EntryKeeps, Zenon
    <2>2. ASSUME NEW t \in StringTexts, StateStringLiteralEntry(t)
          PROVE  LiteralsInv' /\ ~(next' > next)
      BY <2>2, EntryKeeps, Zenon
    <2>3. ASSUME StateNumericLiteralEvaluate \/ StateStringLiteralEvaluate \/ StringIsRead
                 \/ StringIsIgnored
          PROVE  LiteralsInv' /\ last'[2] \in Verdicts(mCurState, last'[1])
      BY <2>3, NumericKeeps, StringKeeps
    <2> QED
      BY <1>2, <2>1, <2>2, <2>3, Zenon DEF Next
  <1> QED
    BY <1>1, <1>2

LEMMA LiteralsInvariant == Spec => []LiteralsInv
  <1>1. LiteralsInv /\ [Next]_vars => LiteralsInv'
    BY LiteralsStep
  <1> QED
    BY LiteralsInitially, <1>1, PTL DEF Spec

\* Whatever the texts, and however often the parsers are used, they are in states of their types.
THEOREM LiteralsAreTyped == Spec => []LiteralsTypeOK
  <1>1. LiteralsInv => LiteralsTypeOK
    BY DEF LiteralsInv
  <1> QED
    BY LiteralsInvariant, <1>1, PTL

\* The parsers tell the Tokenizer what its model takes for granted of them.
THEOREM VerdictsAreAsAssumed == Spec => VerdictsAsAssumed
  <1>1. LiteralsInv /\ [Next]_vars => [next' > next => last'[2] \in Verdicts(mCurState, last'[1])]_vars
    BY LiteralsStep
  <1> QED
    BY LiteralsInvariant, <1>1, PTL DEF Spec, VerdictsAsAssumed

-----------------------------------------------------------------------------
(* The values of digits *)

LEMMA PlaceSteps ==
  ASSUME NEW digits \in Seq(Nat), NEW radix \in Nat
  PROVE  \E w, s : /\ w[0] = 1 /\ \A k \in 0 .. Len(digits) : w[k] \in Nat
                   /\ \A k \in 1 .. Len(digits) : w[k] = radix * w[k - 1]
                   /\ s[0] = 0
                   /\ \A i \in 1 .. Len(digits) : s[i] = s[i - 1] + digits[i] * w[Len(digits) - i]
                   /\ PlaceValue(digits, radix) = s[Len(digits)]
  <1> DEFINE n == Len(digits)
  <1>0. n \in Nat
    OBVIOUS
  <1>00. \A i \in 1 .. n : digits[i] \in Nat
    OBVIOUS
  <1> HIDE DEF n
  <1> USE <1>0
  <1> DEFINE w == CHOOSE w : w = [k \in 0 .. n |-> IF k = 0 THEN 1 ELSE radix * w[k - 1]]
             s == CHOOSE s : s = [i \in 0 .. n |-> IF i = 0 THEN 0 ELSE s[i - 1] + digits[i] * w[n - i]]
             G == [k \in 1 .. n |-> [x \in Nat |-> radix * x]]
             H == [i \in 1 .. n |-> [x \in Nat |-> x + digits[i] * w[n - i]]]
  <1>1. \A k \in 1 .. n : \A x \in Nat : G[k][x] = radix * x /\ G[k][x] \in Nat
    OBVIOUS
  <1>2. PICK v : AreSteps(v, G, 1, n) /\ \A i \in 0 .. n : v[i] \in Nat
    <2>1. 1 \in Nat /\ \A x \in Nat : \A k \in 1 .. n : G[k][x] \in Nat
      OBVIOUS
    <2> HIDE DEF G
    <2> QED
      BY <1>0, <2>1, StepsInSet
  <1>3. v = [k \in 0 .. n |-> IF k = 0 THEN 1 ELSE radix * v[k - 1]]
    <2>1. ASSUME NEW k \in 0 .. n, k # 0 PROVE G[k][v[k - 1]] = radix * v[k - 1]
      <3>1. k - 1 \in 0 .. n /\ k \in 1 .. n
        BY <2>1
      <3> HIDE DEF G
      <3> QED
        BY <1>1, <1>2, <3>1
    <2> HIDE DEF G
    <2> QED
      BY <1>2, <2>1 DEF AreSteps
  <1>4. w = [k \in 0 .. n |-> IF k = 0 THEN 1 ELSE radix * w[k - 1]]
    BY <1>3, Zenon
  <1>w. PICK u : u = w
    OBVIOUS
  <1>5. u[0] = 1 /\ \A k \in 1 .. n : u[k] = radix * u[k - 1]
    <2>1. u = [k \in 0 .. n |-> IF k = 0 THEN 1 ELSE radix * u[k - 1]]
      BY <1>4, <1>w, Zenon
    <2> QED
      BY <2>1
  <1>6. \A k \in 0 .. n : u[k] \in Nat
    <2> DEFINE T == {k \in 0 .. n : u[k] \in Nat}
    <2>1. 0 \in T
      BY <1>5
    <2>2. ASSUME NEW k \in 1 .. n, k - 1 \in T PROVE k \in T
      <3>1. PICK x \in Nat : x = u[k - 1]
        BY <2>2
      <3>2. radix * x \in Nat
        OBVIOUS
      <3> QED
        BY <1>5, <3>1, <3>2
    <2>3. \A k \in 0 .. n : k \in T
      <3> HIDE DEF T
      <3> QED
        BY <2>1, <2>2, UpTo
    <2> QED
      BY <2>3
  <1>7. \A i \in 1 .. n : \A x \in Nat : /\ H[i][x] = x + digits[i] * u[n - i]
                                         /\ H[i][x] \in Nat
    <2> SUFFICES ASSUME NEW i \in 1 .. n, NEW x \in Nat
                 PROVE  H[i][x] = x + digits[i] * u[n - i] /\ H[i][x] \in Nat
      OBVIOUS
    <2>1. H[i][x] = x + digits[i] * u[n - i]
      <3> HIDE DEF w
      <3> QED
        BY <1>w
    <2>2. PICK d \in Nat, y \in Nat : d = digits[i] /\ y = u[n - i]
      <3>1. n - i \in 0 .. n
        OBVIOUS
      <3> QED
        BY <3>1, <1>00, <1>6
    <2>3. x + d * y \in Nat
      OBVIOUS
    <2> QED
      BY <2>1, <2>2, <2>3
  <1>8. PICK t : AreSteps(t, H, 0, n) /\ \A i \in 0 .. n : t[i] \in Nat
    <2> HIDE DEF H
    <2> QED
      BY <1>7, StepsInSet
  <1>9. t = [i \in 0 .. n |-> IF i = 0 THEN 0 ELSE t[i - 1] + digits[i] * u[n - i]]
    <2>1. ASSUME NEW k \in 0 .. n, k # 0 PROVE H[k][t[k - 1]] = t[k - 1] + digits[k] * u[n - k]
      <3>1. k - 1 \in 0 .. n /\ k \in 1 .. n
        BY <2>1
      <3> HIDE DEF H
      <3> QED
        BY <1>7, <1>8, <3>1
    <2> HIDE DEF H
    <2> QED
      BY <1>8, <2>1 DEF AreSteps
  <1>10. s = [i \in 0 .. n |-> IF i = 0 THEN 0 ELSE s[i - 1] + digits[i] * w[n - i]]
    <2>1. t = [i \in 0 .. n |-> IF i = 0 THEN 0 ELSE t[i - 1] + digits[i] * w[n - i]]
      BY <1>9, <1>w, Zenon
    <2> HIDE DEF w
    <2> QED
      BY <2>1, Zenon
  <1>11. PlaceValue(digits, radix) = s[n]
    BY Zenon DEF PlaceValue, n
  <1>s. PICK r : r = s
    OBVIOUS
  <1>12. r = [i \in 0 .. n |-> IF i = 0 THEN 0 ELSE r[i - 1] + digits[i] * u[n - i]]
    BY <1>10, <1>w, <1>s, Zenon
  <1>13. r[0] = 0 /\ \A i \in 1 .. n : r[i] = r[i - 1] + digits[i] * u[n - i]
    BY <1>12
  <1>14. PlaceValue(digits, radix) = r[n]
    BY <1>11, <1>s, Zenon
  <1> HIDE DEF w, s, G, H
  <1> QED
    BY <1>5, <1>6, <1>13, <1>14, Zenon DEF n

\* Horner's rule gives the value that the places give.
LEMMA HornerIsPlaceValue ==
  ASSUME NEW digits \in Seq(Nat), NEW radix \in Nat
  PROVE  Horner(digits, radix) = PlaceValue(digits, radix)
  <1> DEFINE n == Len(digits)
  <1>0. n \in Nat
    OBVIOUS
  <1>00. \A i \in 1 .. n : digits[i] \in Nat
    OBVIOUS
  <1>1. PICK h : /\ h[0] = 0
                 /\ \A i \in 0 .. n : h[i] \in Nat
                 /\ \A i \in 1 .. n : h[i] = h[i - 1] * radix + digits[i]
                 /\ Horner(digits, radix) = h[n]
    BY HornerSteps, Zenon
  <1>2. PICK w, s : /\ w[0] = 1 /\ \A k \in 0 .. n : w[k] \in Nat
                    /\ \A k \in 1 .. n : w[k] = radix * w[k - 1]
                    /\ s[0] = 0
                    /\ \A i \in 1 .. n : s[i] = s[i - 1] + digits[i] * w[n - i]
                    /\ PlaceValue(digits, radix) = s[n]
    BY PlaceSteps, Zenon
  <1> HIDE DEF n
  <1> USE <1>0
  <1> DEFINE T == {i \in 0 .. n : h[i] * w[n - i] = s[i]}
  <1>3. 0 \in T
    <2>1. PICK x \in Nat : x = w[n - 0]
      BY <1>2
    <2>2. 0 * x = 0
      OBVIOUS
    <2> QED
      BY <1>1, <1>2, <2>1, <2>2
  <1>4. ASSUME NEW i \in 1 .. n, i - 1 \in T PROVE i \in T
    <2>1. /\ i - 1 \in 0 .. n /\ i \in 0 .. n /\ n - i \in 0 .. n /\ n - (i - 1) \in 1 .. n
          /\ (n - (i - 1)) - 1 = n - i
      OBVIOUS
    <2>2. PICK a \in Nat, d \in Nat, x \in Nat : a = h[i - 1] /\ d = digits[i] /\ x = w[n - i]
      <3>1. h[i - 1] \in Nat /\ digits[i] \in Nat /\ w[n - i] \in Nat
        BY <1>00, <1>1, <1>2, <2>1
      <3> QED
        BY <3>1
    <2>3. w[n - (i - 1)] = radix * x
      <3>1. PICK k \in 1 .. n : k = n - (i - 1)
        BY <2>1
      <3>2. k - 1 = n - i
        BY <2>1, <3>1
      <3> QED
        BY <1>2, <2>2, <3>1, <3>2
    <2>4. s[i - 1] = a * (radix * x)
      BY <1>4, <2>2, <2>3
    <2>5. s[i] = a * (radix * x) + d * x
      BY <1>2, <2>2, <2>4
    <2>6. h[i] = a * radix + d
      BY <1>1, <2>2
    <2>7. (a * radix + d) * x = a * (radix * x) + d * x
      OBVIOUS
    <2> QED
      BY <2>1, <2>2, <2>5, <2>6, <2>7
  <1>5. \A i \in 0 .. n : i \in T
    <2> HIDE DEF T
    <2> QED
      BY <1>3, <1>4, UpTo
  <1>6. h[n] * w[n - n] = s[n] /\ n - n = 0 /\ n \in 0 .. n
    BY <1>5
  <1>7. h[n] * 1 = s[n]
    BY <1>2, <1>6
  <1>8. h[n] \in Nat
    BY <1>1, <1>6
  <1>9. h[n] = s[n]
    BY <1>7, <1>8
  <1> QED
    BY <1>1, <1>2, <1>9, Zenon

LEMMA Powers ==
  /\ 2^1 = 2 /\ 2^2 = 4 /\ 2^3 = 8 /\ 2^4 = 16 /\ 2^5 = 32 /\ 2^6 = 64
  BY SMT

\* A power of two has the digits it has bits.
LEMMA RadixBits ==
  ASSUME NEW radix \in {2, 8, 16}
  PROVE  2^GetRadixBits(radix) = radix
  <1> DEFINE fits(n) == 2^n >= radix /\ (n = 1 \/ 2^(n - 1) < radix)
             p == CHOOSE n \in 1 .. 6 : fits(n)
  <1>1. \E n \in 1 .. 6 : fits(n)
    <2>1. radix = 2 => fits(1)
      BY Powers
    <2>2. radix = 8 => fits(4 - 1)
      BY Powers
    <2>3. radix = 16 => fits(5 - 1)
      BY Powers
    <2>4. 1 \in 1 .. 6 /\ 4 - 1 \in 1 .. 6 /\ 5 - 1 \in 1 .. 6
      OBVIOUS
    <2> HIDE DEF fits
    <2> QED
      BY <2>1, <2>2, <2>3, <2>4
  <1>2. p \in 1 .. 6 /\ fits(p)
    <2> HIDE DEF fits
    <2> QED
      BY <1>1
  <1>3. GetRadixBits(radix) = p
    BY DEF GetRadixBits
  <1> HIDE DEF p
  <1>4. p = 1 \/ p = 2 \/ p = 3 \/ p = 4 \/ p = 5 \/ p = 6
    BY <1>2
  <1>5. radix = 2 \/ radix = 8 \/ radix = 16
    OBVIOUS
  <1>6. /\ p = 2 => 2^(p - 1) = 2 /\ 2^p = 4
        /\ p = 3 => 2^(p - 1) = 4 /\ 2^p = 8
        /\ p = 4 => 2^(p - 1) = 8 /\ 2^p = 16
        /\ p = 5 => 2^(p - 1) = 16 /\ 2^p = 32
        /\ p = 6 => 2^(p - 1) = 32 /\ 2^p = 64
        /\ p = 1 => 2^p = 2
    <2>1. 2 - 1 = 1 /\ 3 - 1 = 2 /\ 4 - 1 = 3 /\ 5 - 1 = 4 /\ 6 - 1 = 5
      OBVIOUS
    <2> QED
      BY <2>1, Powers
  <1> QED
    BY <1>2, <1>3, <1>4, <1>5, <1>6

LEMMA AddDigitAdds ==
  ASSUME NEW modulus \in Nat \ {0}, modulus = 2^UintBits,
         NEW out \in Nat, out < modulus, NEW radix \in Nat \ {0}, NEW digit \in Nat
  PROVE  \/ AddDigit(out, radix, digit) = NoNumber
         \/ /\ AddDigit(out, radix, digit) = out * radix + digit
            /\ out * radix + digit < modulus
  <1>1. PICK total \in Nat : total = out * radix
    OBVIOUS
  <1>2. PICK product \in Nat : product = total % modulus
    OBVIOUS
  <1>3. CASE product \div radix # out \/ modulus - 1 - product < digit
    BY <1>1, <1>2, <1>3 DEF AddDigit
  <1>4. CASE product \div radix = out /\ ~(modulus - 1 - product < digit)
    <2>1. product = total
      <3>1. product <= total
        BY <1>2
      <3>2. (product \div radix) * radix <= product
        OBVIOUS
      <3>3. total <= product
        BY <1>1, <1>4, <3>2
      <3> QED
        BY <3>1, <3>3
    <2>2. AddDigit(out, radix, digit) = product + digit
      <3>1. out # NoNumber
        BY DEF NoNumber
      <3> QED
        BY <1>1, <1>2, <1>4, <3>1 DEF AddDigit
    <2>3. product + digit < modulus
      BY <1>4
    <2> QED
      BY <1>1, <2>1, <2>2, <2>3
  <1> QED
    BY <1>3, <1>4

LEMMA AddDigitFails ==
  ASSUME NEW radix, NEW digit
  PROVE  AddDigit(NoNumber, radix, digit) = NoNumber
  BY DEF AddDigit

\* The number that digits stand for is what the places say, or too wide.
LEMMA NumbersHaveTheirValue ==
  ASSUME NEW digits \in Seq(Nat), NEW radix \in {2, 8, 10, 16}
  PROVE  GetUint64(digits, radix) \in {PlaceValue(digits, radix), NoNumber}
  <1> DEFINE n == Len(digits)
  <1>0. n \in Nat /\ \A i \in 1 .. n : digits[i] \in Nat
    OBVIOUS
  <1>1. Horner(digits, radix) = PlaceValue(digits, radix)
    BY HornerIsPlaceValue
  <1>2. CASE radix \in {2, 8, 16}
    <2>1. Horner(digits, 2^GetRadixBits(radix)) = Horner(digits, radix)
      BY <1>2, RadixBits, Zenon
    <2>2. IsRadixPowerOf2(radix)
      <3>1. radix = 2^1 \/ radix = 2^(4 - 1) \/ radix = 2^(5 - 1)
        BY <1>2, Powers
      <3>2. 1 \in 1 .. 5 /\ 4 - 1 \in 1 .. 5 /\ 5 - 1 \in 1 .. 5
        OBVIOUS
      <3> QED
        BY <3>1, <3>2, Zenon DEF IsRadixPowerOf2
    <2>3. GetUint64(digits, radix) \in {NoNumber, Horner(digits, 2^GetRadixBits(radix))}
      BY <2>2 DEF GetUint64
    <2> QED
      BY <1>1, <2>1, <2>3
  <1>3. CASE radix = 10
    <2>1. ~IsRadixPowerOf2(radix)
      <3>1. ASSUME NEW k \in 1 .. 5 PROVE 2^k \in {2, 4, 8, 16, 32}
        <4>1. k = 1 \/ k = 2 \/ k = 3 \/ k = 4 \/ k = 5
          OBVIOUS
        <4> QED
          BY <4>1, Powers
      <3>2. radix \notin {2, 4, 8, 16, 32}
        BY <1>3
      <3> QED
        BY <3>1, <3>2, Zenon DEF IsRadixPowerOf2
    <2>2. PICK modulus \in Nat \ {0} : modulus = 2^UintBits
      <3>1. 2^UintBits \in Int
        BY DigitsAssumption
      <3> QED
        BY <3>1, DigitsAssumption
    <2> DEFINE f == CHOOSE f : f = [i \in 0 .. n |->
                                       IF i = 0 THEN 0 ELSE AddDigit(f[i - 1], radix, digits[i])]
               G == [i \in 1 .. n |-> [x \in {NoNumber} \cup Nat |-> AddDigit(x, radix, digits[i])]]
    <2>3. GetUint64(digits, radix) = f[n]
      BY <2>1 DEF GetUint64
    <2> HIDE DEF n
    <2> USE <1>0
    <2> DEFINE A == {NoNumber} \cup {x \in Nat : x < modulus}
    <2>4. \A x \in A : \A i \in 1 .. n :
              /\ G[i][x] = AddDigit(x, radix, digits[i]) /\ G[i][x] \in A
      <3> SUFFICES ASSUME NEW x \in A, NEW i \in 1 .. n
                   PROVE  G[i][x] = AddDigit(x, radix, digits[i]) /\ G[i][x] \in A
        OBVIOUS
      <3>1. G[i][x] = AddDigit(x, radix, digits[i])
        OBVIOUS
      <3>2. PICK d \in Nat : d = digits[i]
        OBVIOUS
      <3>3. CASE x = NoNumber
        BY <3>1, <3>3, AddDigitFails
      <3>4. CASE x # NoNumber
        <4>1. x \in Nat /\ x < modulus /\ radix \in Nat \ {0}
          BY <1>3, <3>4
        <4>2. \/ AddDigit(x, radix, d) = NoNumber
              \/ /\ AddDigit(x, radix, d) = x * radix + d
                 /\ x * radix + d < modulus
          BY <2>2, <4>1, AddDigitAdds
        <4>3. x * radix + d \in Nat
          BY <1>3, <4>1
        <4> QED
          BY <3>1, <3>2, <4>2, <4>3
      <3> QED
        BY <3>1, <3>3, <3>4
    <2>5. 0 \in A
      BY <2>2
    <2>6. PICK g : AreSteps(g, G, 0, n) /\ \A i \in 0 .. n : g[i] \in A
      <3>1. \A x \in A : \A i \in 1 .. n : G[i][x] \in A
        BY <2>4
      <3> HIDE DEF G, A
      <3> QED
        BY <2>5, <3>1, StepsInSet
    <2>7. g = [i \in 0 .. n |-> IF i = 0 THEN 0 ELSE AddDigit(g[i - 1], radix, digits[i])]
      <3>1. ASSUME NEW k \in 0 .. n, k # 0 PROVE G[k][g[k - 1]] = AddDigit(g[k - 1], radix, digits[k])
        <4>1. k - 1 \in 0 .. n /\ k \in 1 .. n
          BY <3>1
        <4> HIDE DEF G, A
        <4> QED
          BY <2>4, <2>6, <4>1
      <3> HIDE DEF G
      <3> QED
        BY <2>6, <3>1 DEF AreSteps
    <2>8. f = [i \in 0 .. n |-> IF i = 0 THEN 0 ELSE AddDigit(f[i - 1], radix, digits[i])]
      BY <2>7, Zenon
    <2> HIDE DEF f, G, A
    <2>9. f[0] = 0 /\ \A i \in 1 .. n : f[i] = AddDigit(f[i - 1], radix, digits[i])
      BY <2>8
    <2>10. PICK h : /\ h[0] = 0
                    /\ \A i \in 0 .. n : h[i] \in Nat
                    /\ \A i \in 1 .. n : h[i] = h[i - 1] * radix + digits[i]
                    /\ Horner(digits, radix) = h[n]
      <3>1. radix \in Nat
        BY <1>3
      <3> QED
        BY <3>1, HornerSteps, Zenon DEF n
    <2> DEFINE T == {i \in 0 .. n : f[i] = NoNumber \/ (f[i] = h[i] /\ h[i] < modulus)}
    <2>11. 0 \in T
      BY <2>2, <2>9, <2>10
    <2>12. ASSUME NEW i \in 1 .. n, i - 1 \in T PROVE i \in T
      <3>1. PICK d \in Nat : d = digits[i]
        OBVIOUS
      <3>2. CASE f[i - 1] = NoNumber
        BY <2>9, <3>2, AddDigitFails
      <3>3. CASE f[i - 1] = h[i - 1] /\ h[i - 1] < modulus
        <4>1. PICK x \in Nat : x = h[i - 1]
          BY <2>10
        <4>2. radix \in Nat \ {0}
          BY <1>3
        <4>3. \/ AddDigit(x, radix, d) = NoNumber
              \/ /\ AddDigit(x, radix, d) = x * radix + d
                 /\ x * radix + d < modulus
          BY <2>2, <3>3, <4>1, <4>2, AddDigitAdds
        <4>4. f[i] = AddDigit(x, radix, d) /\ h[i] = x * radix + d
          BY <2>9, <2>10, <3>1, <3>3, <4>1
        <4> QED
          BY <4>3, <4>4
      <3> QED
        BY <2>12, <3>2, <3>3
    <2>13. \A i \in 0 .. n : i \in T
      <3> HIDE DEF T
      <3> QED
        BY <2>11, <2>12, UpTo
    <2>14. f[n] = NoNumber \/ f[n] = h[n]
      BY <2>13
    <2> QED
      BY <1>1, <2>3, <2>10, <2>14
  <1> QED
    BY <1>2, <1>3

-----------------------------------------------------------------------------
(* Numbers *)

Radixes == {2, 8, 10, 16}

\* The symbols of t in front of k, where the literal is closed, are a number: with a marker (m), a
\* sign (g), and so the first S symbols, then digits up to P, where a period or the end is.
ReadingAt(t, k, m, g, S, P, R) ==
    /\ k \in 1 .. Len(t) /\ Category(t[k]) = "Hash"
    /\ m \in BOOLEAN /\ g \in BOOLEAN /\ S = (IF m THEN 2 ELSE 0) + (IF g THEN 1 ELSE 0)
    /\ P \in Nat /\ S + 1 < P /\ P <= k
    /\ P < k => t[P] = Period /\ P < k - 1
    /\ R \in Radixes
    /\ m => RadixOf(t[1]) = R /\ t[2] = Colon
    /\ ~m => R = 10
    /\ g => t[S] \in {Plus, Minus}
    /\ \A i \in S + 1 .. k - 1 : i = P \/ IsDigit(R, t[i])

SignRead(t, g, S) == IF g /\ t[S] = Minus THEN "Negative" ELSE "Positive"

\* The parser without and with a period.
Whole(result, unparsed, radix, sign, integral) ==
    [mHasPeriod |-> FALSE, mLastParseResult |-> result, mUnparsedText |-> unparsed,
     mRadix |-> radix, sign |-> sign, integral |-> integral, fractional |-> <<>>]
Broken(result, unparsed, radix, sign, integral, fractional) ==
    [mHasPeriod |-> TRUE, mLastParseResult |-> result, mUnparsedText |-> unparsed,
     mRadix |-> radix, sign |-> sign, integral |-> integral, fractional |-> fractional]

\* The parser where the next symbol is the one at i.
InMarker(p, i, t, m, S) ==
    \/ i = 1 /\ S > 0 /\ p = ClearedNumeric
    \/ m /\ i = 2 /\ p = Whole("NotComplete", <<t[1]>>, InvalidRadix, "Unspecified", <<>>)
BehindMarker(p, i, m, g, R) ==
    m /\ g /\ i = 3 /\ p = Whole("NotComplete", <<>>, R, "Unspecified", <<>>)
InIntegral(p, i, t, m, g, S, P, R) ==
    /\ i \in S + 1 .. P
    /\ p = Whole("NotComplete", SubSeq(t, S + 1, i - 1), IF m \/ g THEN R ELSE InvalidRadix, IF g THEN SignRead(t, g, S) ELSE "Unspecified", <<>>)
InFractional(p, i, t, k, g, S, P, R) ==
    /\ i \in P + 1 .. k
    /\ p = Broken("NotComplete", SubSeq(t, P + 1, i - 1), R, SignRead(t, g, S), DigitsOf(SubSeq(t, S + 1, P - 1)), <<>>)
NumericAt(p, i, t, k, m, g, S, P, R) ==
    \/ InMarker(p, i, t, m, S)
    \/ BehindMarker(p, i, m, g, R)
    \/ InIntegral(p, i, t, m, g, S, P, R)
    \/ InFractional(p, i, t, k, g, S, P, R)

\* The number that was read.
NumericRead(t, k, g, S, P, R) ==
    LET integral == DigitsOf(SubSeq(t, S + 1, P - 1))
    IN IF P = k
       THEN Whole("Complete", <<>>, R, SignRead(t, g, S), integral)
       ELSE Broken("Complete", <<>>, R, SignRead(t, g, S), integral, DigitsOf(SubSeq(t, P + 1, k - 1)))

LEMMA Categories ==
  /\ \A c \in Int : RadixOf(c) # InvalidRadix => Category(c) = "Letters"
  /\ \A c \in Int, r \in Radixes : IsDigit(r, c) => Category(c) \in {"DecimalDigits", "Letters"}
  /\ Category(Colon) = "Control" /\ Category(Period) = "Period"
  /\ Category(Plus) = "Operators" /\ Category(Minus) = "Operators"
  <1>1. ASSUME NEW c \in Int, RadixOf(c) # InvalidRadix PROVE Category(c) = "Letters"
    <2>1. c = 98 \/ c = 111 \/ c = 100 \/ c = 120
      BY <1>1 DEF RadixOf, RadixMarkers
    <2> QED
      BY <2>1 DEF Category, Backslash, DoubleQuotes, Colon, Plus, Minus
  <1>2. ASSUME NEW c \in Int, NEW r \in Radixes, IsDigit(r, c)
        PROVE  Category(c) \in {"DecimalDigits", "Letters"}
    <2>1. DigitValue(c) < 36 /\ c \in 48 .. 57 \cup 97 .. 122 \cup 65 .. 90
      <3>1. r < 36 /\ r \in Int
        BY DEF Radixes
      <3>2. DigitValue(c) < r
        BY <1>2 DEF IsDigit
      <3>3. PICK v \in 0 .. 36 : v = DigitValue(c)
        BY DigitValues
      <3>4. v # 36
        BY <3>1, <3>2, <3>3
      <3>5. c \in 48 .. 57 \/ c \in 97 .. 122 \/ c \in 65 .. 90
        BY <3>3, <3>4 DEF DigitValue
      <3> QED
        BY <3>3, <3>4, <3>5
    <2>2. c \in 48 .. 57 => Category(c) = "DecimalDigits"
      BY DEF Category, Backslash, DoubleQuotes, Colon, Plus, Minus
    <2>3. c \in 65 .. 90 \cup 97 .. 122 => Category(c) = "Letters"
      BY DEF Category, Backslash, DoubleQuotes, Colon, Plus, Minus
    <2> QED
      BY <2>1, <2>2, <2>3
  <1>3. /\ Category(Colon) = "Control" /\ Category(Period) = "Period"
        /\ Category(Plus) = "Operators" /\ Category(Minus) = "Operators"
    BY DEF Category, Backslash, DoubleQuotes, Colon, Plus, Minus, Period
  <1> QED
    BY <1>1, <1>2, <1>3

\* Two parts that follow one another.
LEMMA PartsJoin ==
  ASSUME NEW S, NEW t \in Seq(S), NEW a \in Int, NEW i \in Int, NEW to \in Int,
         1 <= a, a <= i, i <= to, to <= Len(t)
  PROVE  SubSeq(t, a, i - 1) \o SubSeq(t, i, to) = SubSeq(t, a, to)
  <1>1. PICK b \in Int : b = i - 1 /\ i = b + 1
    OBVIOUS
  <1>2. a \in 1 .. Len(t) + 1 /\ b \in a - 1 .. Len(t) /\ to \in b .. Len(t)
    <2>1. Len(t) \in Nat
      OBVIOUS
    <2> QED
      BY <1>1, <2>1
  <1>3. SubSeq(t, a, b) \o SubSeq(t, b + 1, to) = SubSeq(t, a, to)
    BY <1>2, ConcatAdjacentSubSeq, Zenon
  <1> QED
    BY <1>1, <1>3, Zenon

Numerals == {"DecimalDigits", "Letters"}
Signs == {Plus, Minus}

\* The steps of the parser on what it has of a number.
LEMMA MarkerIsTaken ==
  ASSUME NEW c, NEW R \in Radixes, RadixOf(c) = R, NEW run, run.category = "Control", run.str[1] = Colon,
         NEW p, p = Whole("NotComplete", <<c>>, InvalidRadix, "Unspecified", <<>>)
  PROVE  NumericParseSymbols(p, run) =
             Whole("NotComplete", <<>>, R, "Unspecified", <<>>)
  <1>1. NumericParseSymbols(p, run) = ParseRadix(p)
    BY DEF NumericParseSymbols, ParseControl
  <1>2. p.mRadix = InvalidRadix /\ p.mUnparsedText = <<c>>
    BY DEF Whole
  <1>3. Len(<<c>>) = 1 /\ <<c>>[1] = c
    OBVIOUS
  <1>4. R # InvalidRadix
    BY DEF Radixes, InvalidRadix
  <1>5. ParseRadix(p) = [p EXCEPT !.mRadix = R, !.mUnparsedText = <<>>]
    BY <1>2, <1>3, <1>4 DEF ParseRadix, HasRadix
  <1> QED
    BY <1>1, <1>5 DEF Whole

LEMMA SignIsSet ==
  ASSUME NEW radix, NEW s, NEW x, NEW y, y = [x EXCEPT !.sign = s],
         x = Whole("NotComplete", <<>>, radix, "Unspecified", <<>>)
  PROVE  y = Whole("NotComplete", <<>>, radix, s, <<>>)
  BY DEF Whole

LEMMA SignIsTaken ==
  ASSUME NEW c \in Signs, NEW run, run.category = "Operators", run.str[1] = c,
         NEW r \in Radixes \cup {InvalidRadix},
         NEW p, p = Whole("NotComplete", <<>>, r, "Unspecified", <<>>),
         NEW radix, r = InvalidRadix => radix = 10, r # InvalidRadix => radix = r,
         NEW s, c = Minus => s = "Negative", c # Minus => s = "Positive"
  PROVE  NumericParseSymbols(p, run) =
             Whole("NotComplete", <<>>, radix, s, <<>>)
  <1>1. NumericParseSymbols(p, run) = ParseSign(UseOrSetDefaultRadix(p), c)
    BY DEF NumericParseSymbols
  <1>2. PICK x : x = UseOrSetDefaultRadix(p)
    OBVIOUS
  <1>3. x = Whole("NotComplete", <<>>, radix, "Unspecified", <<>>)
    BY <1>2 DEF UseOrSetDefaultRadix, HasRadix, Whole
  <1>4. ParseSign(x, c) = [x EXCEPT !.sign = s]
    <2>1. x.mUnparsedText = <<>> /\ x.sign = "Unspecified"
      BY <1>3 DEF Whole
    <2>2. ~SignificandIsDefined(x)
      BY <2>1 DEF SignificandIsDefined
    <2> QED
      BY <2>1, <2>2 DEF ParseSign
  <1>5. [x EXCEPT !.sign = s] = Whole("NotComplete", <<>>, radix, s, <<>>)
    BY <1>3, SignIsSet, Zenon
  <1> QED
    BY <1>1, <1>2, <1>4, <1>5, Zenon

LEMMA WholeGrows ==
  ASSUME NEW run, run.category \in Numerals, NEW u, NEW r, NEW s, NEW d
  PROVE  NumericParseSymbols(Whole("NotComplete", u, r, s, d), run)
             = Whole("NotComplete", u \o run.str, r, s, d)
  <1>1. PICK p : p = Whole("NotComplete", u, r, s, d)
    OBVIOUS
  <1>2. NumericParseSymbols(p, run) = [p EXCEPT !.mUnparsedText = @ \o run.str]
    BY DEF NumericParseSymbols, Numerals
  <1> QED
    BY <1>1, <1>2 DEF Whole

LEMMA BrokenGrows ==
  ASSUME NEW run, run.category \in Numerals, NEW u, NEW r, NEW s, NEW d, NEW f
  PROVE  NumericParseSymbols(Broken("NotComplete", u, r, s, d, f), run)
             = Broken("NotComplete", u \o run.str, r, s, d, f)
  <1>1. PICK p : p = Broken("NotComplete", u, r, s, d, f)
    OBVIOUS
  <1>2. NumericParseSymbols(p, run) = [p EXCEPT !.mUnparsedText = @ \o run.str]
    BY DEF NumericParseSymbols, Numerals
  <1> QED
    BY <1>1, <1>2 DEF Broken

LEMMA IntegralIsTaken ==
  ASSUME NEW u, u # <<>>, NEW R \in Radixes, AreDigits(u, R),
         NEW r, r # R => r = InvalidRadix /\ R = 10,
         NEW s, NEW x, s = "Unspecified" => x = "Positive", s # "Unspecified" => x = s
  PROVE  ParseDigits(Whole("NotComplete", u, r, s, <<>>)) = Whole("NotComplete", <<>>, R, x, DigitsOf(u))
  <1>0. PICK p : p = Whole("NotComplete", u, r, s, <<>>)
    OBVIOUS
  <1>1. PICK z : z = UseOrSetDefaultRadix(p)
    OBVIOUS
  <1>2. R # InvalidRadix
    BY DEF Radixes, InvalidRadix
  <1>3. z = Whole("NotComplete", u, R, s, <<>>)
    BY <1>0, <1>1, <1>2 DEF UseOrSetDefaultRadix, HasRadix, Whole, Broken
  <1>4. PICK y : y = UseOrSetDefaultSignificandSign(z)
    OBVIOUS
  <1>5. y = Whole("NotComplete", u, R, x, <<>>)
    BY <1>3, <1>4 DEF UseOrSetDefaultSignificandSign, Whole, Broken
  <1>6. ParseDigits(p) = SetIntegralDigits(y)
    BY <1>0, <1>1, <1>4 DEF ParseDigits, Whole, Broken
  <1>7. y.mUnparsedText = u /\ y.mRadix = R
    BY <1>5 DEF Whole, Broken
  <1>8. SetIntegralDigits(y) = [y EXCEPT !.integral = DigitsOf(u), !.mUnparsedText = <<>>]
    BY <1>7 DEF SetIntegralDigits
  <1>9. ParseDigits(p) = Whole("NotComplete", <<>>, R, x, DigitsOf(u))
    BY <1>5, <1>6, <1>8 DEF Whole, Broken
  <1> QED
    BY <1>0, <1>9, Zenon

LEMMA FractionalIsTaken ==
  ASSUME NEW u, u # <<>>, NEW R \in Radixes, AreDigits(u, R), NEW s, s # "Unspecified",
         NEW d, d # <<>>
  PROVE  ParseDigits(Broken("NotComplete", u, R, s, d, <<>>)) = Broken("NotComplete", <<>>, R, s, d, DigitsOf(u))
  <1>0. PICK p : p = Broken("NotComplete", u, R, s, d, <<>>)
    OBVIOUS
  <1>1. R # InvalidRadix
    BY DEF Radixes, InvalidRadix
  <1>2. UseOrSetDefaultRadix(p) = p
    BY <1>0, <1>1 DEF UseOrSetDefaultRadix, HasRadix, Whole, Broken
  <1>3. UseOrSetDefaultSignificandSign(p) = p
    BY <1>0 DEF UseOrSetDefaultSignificandSign, Whole, Broken
  <1>4. ParseDigits(p) = SetFractionalDigits(p)
    BY <1>0, <1>2, <1>3 DEF ParseDigits, Whole, Broken
  <1>5. p.mUnparsedText = u /\ p.mRadix = R
    BY <1>0 DEF Whole, Broken
  <1>6. SetFractionalDigits(p) = [p EXCEPT !.fractional = DigitsOf(u), !.mUnparsedText = <<>>]
    BY <1>5 DEF SetFractionalDigits
  <1>7. ParseDigits(p) = Broken("NotComplete", <<>>, R, s, d, DigitsOf(u))
    BY <1>0, <1>4, <1>6 DEF Whole, Broken
  <1> QED
    BY <1>0, <1>7, Zenon

LEMMA PeriodIsTaken ==
  ASSUME NEW R, NEW s, NEW d, d # <<>>, NEW x, x = Whole("NotComplete", <<>>, R, s, d)
  PROVE  ParsePeriod(x) = Broken("NotComplete", <<>>, R, s, d, <<>>)
  BY DEF ParsePeriod, Whole, Broken

LEMMA HashIsTaken ==
  ASSUME NEW R, NEW s \in {"Positive", "Negative"}, NEW d, d # <<>>, NEW f
  PROVE  /\ ParseHash(Whole("NotComplete", <<>>, R, s, d)) = Whole("Complete", <<>>, R, s, d)
         /\ ParseHash(Broken("NotComplete", <<>>, R, s, d, f)) = Broken("Complete", <<>>, R, s, d, f)
  <1>1. ParseHash(Whole("NotComplete", <<>>, R, s, d)) = Whole("Complete", <<>>, R, s, d)
    <2>1. PICK x : x = Whole("NotComplete", <<>>, R, s, d)
      OBVIOUS
    <2>2. ParseHash(x) = Whole("Complete", <<>>, R, s, d)
      BY <2>1 DEF ParseHash, SignificandIsDefined, Whole
    <2> QED
      BY <2>1, <2>2, Zenon
  <1>2. ParseHash(Broken("NotComplete", <<>>, R, s, d, f)) = Broken("Complete", <<>>, R, s, d, f)
    <2>1. PICK x : x = Broken("NotComplete", <<>>, R, s, d, f)
      OBVIOUS
    <2>2. ParseHash(x) = Broken("Complete", <<>>, R, s, d, f)
      BY <2>1 DEF ParseHash, SignificandIsDefined, Broken
    <2> QED
      BY <2>1, <2>2, Zenon
  <1> QED
    BY <1>1, <1>2, Zenon

\* The categories of the symbols of a number.
NumberParts(t, k, m, g, S, P, R) ==
    /\ k \in 1 .. Len(t) /\ Len(t) \in Nat /\ k \in Nat /\ S \in 0 .. 3 /\ P \in Nat /\ S + 1 < P /\ P <= k
    /\ R \in Radixes /\ m \in BOOLEAN /\ g \in BOOLEAN
    /\ Category(t[k]) = "Hash"
    /\ m => RadixOf(t[1]) = R /\ Category(t[1]) = "Letters" /\ t[2] = Colon
            /\ Category(t[2]) = "Control" /\ S = IF g THEN 3 ELSE 2
    /\ ~m => R = 10 /\ S = IF g THEN 1 ELSE 0
    /\ g => t[S] \in {Plus, Minus} /\ Category(t[S]) = "Operators"
    /\ P < k => Category(t[P]) = "Period" /\ P < k - 1
    /\ \A i \in S + 1 .. k - 1 :
           i # P => IsDigit(R, t[i]) /\ Category(t[i]) \in {"DecimalDigits", "Letters"}

LEMMA PartsOfANumber ==
  ASSUME NEW t \in Seq(0 .. 127), NEW k, NEW m \in BOOLEAN, NEW g \in BOOLEAN, NEW S, NEW P, NEW R,
         ReadingAt(t, k, m, g, S, P, R)
  PROVE  NumberParts(t, k, m, g, S, P, R)
  <1>1. k \in 1 .. Len(t) /\ Len(t) \in Nat /\ k \in Nat /\ m \in BOOLEAN /\ g \in BOOLEAN
    BY DEF ReadingAt
  <1>2. S \in 0 .. 3 /\ P \in Nat /\ S + 1 < P /\ P <= k
    BY <1>1 DEF ReadingAt
  <1>3. \A i \in 1 .. Len(t) : t[i] \in Int
    <2>1. \A i \in 1 .. Len(t) : t[i] \in 0 .. 127
      BY ElementOfSeq, Zenon
    <2>2. \A c \in 0 .. 127 : c \in Int
      OBVIOUS
    <2> QED
      BY <2>1, <2>2, Zenon
  <1>4. R \in Radixes /\ R # InvalidRadix
    BY DEF ReadingAt, Radixes, InvalidRadix
  <1>5. ASSUME m PROVE Category(t[1]) = "Letters" /\ Category(t[2]) = "Control"
    <2>1. 1 \in 1 .. Len(t)
      BY <1>1
    <2>2. RadixOf(t[1]) # InvalidRadix /\ t[2] = Colon
      BY <1>4, <1>5 DEF ReadingAt
    <2>3. t[1] \in Int
      BY <2>1, <1>3, Zenon
    <2> QED
      BY <2>2, <2>3, Categories, Zenon
  <1>6. ASSUME NEW i \in S + 1 .. k - 1, i # P
        PROVE  IsDigit(R, t[i]) /\ Category(t[i]) \in {"DecimalDigits", "Letters"}
    <2>1. i \in 1 .. Len(t)
      BY <1>1, <1>2
    <2>2. IsDigit(R, t[i])
      BY <1>6 DEF ReadingAt
    <2>3. t[i] \in Int
      BY <2>1, <1>3, Zenon
    <2> QED
      BY <2>2, <2>3, <1>4, Categories, Zenon
  <1>7. g => t[S] \in {Plus, Minus} /\ Category(t[S]) = "Operators"
    BY Categories DEF ReadingAt
  <1>8. P < k => Category(t[P]) = "Period" /\ P < k - 1
    BY Categories DEF ReadingAt
  <1>9. /\ m => RadixOf(t[1]) = R /\ t[2] = Colon /\ S = IF g THEN 3 ELSE 2
        /\ ~m => R = 10 /\ S = IF g THEN 1 ELSE 0
        /\ Category(t[k]) = "Hash"
    BY DEF ReadingAt
  <1> QED
    BY <1>1, <1>2, <1>4, <1>5, <1>6, <1>7, <1>8, <1>9, Zenon DEF NumberParts

\* A run of digits ends in front of what is no digit.
LEMMA DigitRun ==
  ASSUME NEW t, NEW i \in Int, NEW to \in Int, IsRun(t, i, to), Category(t[i]) \in {"DecimalDigits", "Letters"},
         NEW e \in Int, i < e, Category(t[e]) \notin {"DecimalDigits", "Letters"}
  PROVE  to < e
  <1> SUFFICES ASSUME ~(to < e) PROVE FALSE
    OBVIOUS
  <1>1. e \in i .. to
    OBVIOUS
  <1>2. Category(t[e]) = Category(t[i])
    BY <1>1 DEF IsRun
  <1> QED
    BY <1>2

\* A run of one symbol.
LEMMA SingleRun ==
  ASSUME NEW t \in Seq(0 .. 127), NEW i \in 1 .. Len(t),
         Category(t[i]) \in {"Hash", "Period", "Control", "Operators"}
  PROVE  Len(RunAt(t, i).str) = 1 /\ RunAt(t, i).str[1] = t[i] /\ RunAt(t, i).category = Category(t[i])
  <1>1. PICK to \in i .. Len(t) :
             /\ IsRun(t, i, to)
             /\ RunAt(t, i) = [category |-> Category(t[i]), str |-> SubSeq(t, i, to)]
    BY RunsAreRuns
  <1>2. to = i
    BY <1>1 DEF IsRun, Concatenates
  <1>3. Len(SubSeq(t, i, to)) = to - i + 1
    <2>1. i \in Int /\ to \in Int /\ 1 <= i /\ to <= Len(t) /\ i <= to + 1
      OBVIOUS
    <2> QED
      BY <2>1, Cuts, Zenon
  <1>4. to - i + 1 = 1
    BY <1>2
  <1>5. RunAt(t, i).str[1] = t[i] /\ RunAt(t, i).category = Category(t[i])
    BY RunFacts
  <1>6. RunAt(t, i).str = SubSeq(t, i, to)
    BY <1>1
  <1> QED
    BY <1>3, <1>4, <1>5, <1>6, Zenon

\* Digits that follow one another.
LEMMA DigitParts ==
  ASSUME NEW t \in Seq(0 .. 127), NEW a \in Int, NEW b \in Int, 1 <= a, a <= b, b <= Len(t), NEW R,
         \A i \in a .. b : IsDigit(R, t[i])
  PROVE  AreDigits(SubSeq(t, a, b), R) /\ SubSeq(t, a, b) # <<>>
  <1>1. /\ Len(SubSeq(t, a, b)) = b - a + 1
        /\ \A i \in 1 .. b - a + 1 : SubSeq(t, a, b)[i] = t[a + i - 1]
    <2>1. a <= b + 1
      OBVIOUS
    <2> QED
      BY <2>1, Cuts, Zenon
  <1>2. ASSUME NEW i \in 1 .. b - a + 1 PROVE IsDigit(R, SubSeq(t, a, b)[i])
    <2>1. a + i - 1 \in a .. b
      OBVIOUS
    <2>2. IsDigit(R, t[a + i - 1])
      BY <2>1
    <2> QED
      BY <1>1, <2>2
  <1>3. AreDigits(SubSeq(t, a, b), R)
    BY <1>1, <1>2, Zenon DEF AreDigits
  <1>4. SubSeq(t, a, b) # <<>>
    BY <1>1
  <1> QED
    BY <1>3, <1>4

LEMMA NoDigits ==
  /\ \A t, a : a \in Int => SubSeq(t, a, a - 1) = <<>> /\ SubSeq(t, a, a - 2) = <<>>
  /\ DigitsOf(<<>>) = <<>>
  <1>1. ASSUME NEW t, NEW a \in Int PROVE SubSeq(t, a, a - 1) = <<>> /\ SubSeq(t, a, a - 2) = <<>>
    OBVIOUS
  <1>2. DigitsOf(<<>>) = <<>>
    BY DEF DigitsOf
  <1> QED
    BY <1>1, <1>2

\* A part of one symbol.
LEMMA OneSymbol ==
  ASSUME NEW S, NEW t \in Seq(S), NEW i \in 1 .. Len(t)
  PROVE  SubSeq(t, i, i) = <<t[i]>>
  <1>1. i \in Int /\ 1 <= i /\ i <= Len(t) /\ i <= i + 1
    OBVIOUS
  <1>2. /\ SubSeq(t, i, i) \in Seq(S) /\ Len(SubSeq(t, i, i)) = i - i + 1
        /\ \A j \in 1 .. i - i + 1 : SubSeq(t, i, i)[j] = t[i + j - 1]
    BY <1>1, Cuts, Zenon
  <1>3. i - i + 1 = 1 /\ i + 1 - 1 = i
    BY <1>1
  <1>4. t[i] \in S
    OBVIOUS
  <1>5. PICK u, v : u = SubSeq(t, i, i) /\ v = <<t[i]>>
    OBVIOUS
  <1>6. u \in Seq(S) /\ Len(u) = 1 /\ u[1] = t[i]
    BY <1>2, <1>3, <1>5
  <1>7. v \in Seq(S) /\ Len(v) = 1 /\ v[1] = t[i]
    BY <1>4, <1>5
  <1>8. u = v
    BY <1>6, <1>7
  <1> QED
    BY <1>5, <1>8, Zenon

\* The parser in the marker of a number.
LEMMA MarkerIsRead ==
  ASSUME NEW t \in Seq(0 .. 127), NEW k, NEW m \in BOOLEAN, NEW g \in BOOLEAN, NEW S, NEW P, NEW R, ReadingAt(t, k, m, g, S, P, R),
         NEW i \in 1 .. k, m,
         NEW p, InMarker(p, i, t, m, S),
         NEW run, run = RunAt(t, i), NEW q, q = NumericParseSymbols(p, run)
  PROVE  i < k /\ i + Len(run.str) <= k /\ NumericAt(q, i + Len(run.str), t, k, m, g, S, P, R)
  <1>1. /\ k \in 1 .. Len(t) /\ Len(t) \in Nat /\ k \in Nat /\ S \in 0 .. 3 /\ P \in Nat /\ S + 1 < P /\ P <= k
        /\ R \in Radixes /\ m \in BOOLEAN /\ g \in BOOLEAN
        /\ RadixOf(t[1]) = R /\ Category(t[1]) = "Letters" /\ t[2] = Colon
        /\ Category(t[2]) = "Control" /\ S = IF g THEN 3 ELSE 2
    <2>1. m \in BOOLEAN /\ g \in BOOLEAN
      BY DEF ReadingAt
    <2>2. /\ k \in 1 .. Len(t) /\ Len(t) \in Nat /\ k \in Nat /\ S \in 0 .. 3 /\ P \in Nat /\ S + 1 < P /\ P <= k
          /\ R \in Radixes
          /\ RadixOf(t[1]) = R /\ Category(t[1]) = "Letters" /\ t[2] = Colon
          /\ Category(t[2]) = "Control" /\ S = IF g THEN 3 ELSE 2
      <3>1. NumberParts(t, k, m, g, S, P, R)
        BY <2>1, PartsOfANumber, Zenon
      <3> QED
        BY <3>1, Zenon DEF NumberParts
    <2> QED
      BY <2>1, <2>2, Zenon
  <1>2. k >= 4 /\ Len(t) >= 4 /\ k \in Nat
    BY <1>1
  <1>3. CASE i = 1 /\ S > 0 /\ p = ClearedNumeric
    <2>1. 1 \in 1 .. Len(t)
      BY <1>2
    <2>2. PICK to \in 1 .. Len(t) :
               /\ IsRun(t, 1, to)
               /\ RunAt(t, 1) = [category |-> Category(t[1]), str |-> SubSeq(t, 1, to)]
      BY <2>1, RunsAreRuns
    <2>3. to < 2
      <3>1. Category(t[2]) \notin {"DecimalDigits", "Letters"} /\ Category(t[1]) \in {"DecimalDigits", "Letters"}
        BY <1>1
      <3>2. to \in Int /\ 1 \in Int /\ 2 \in Int /\ 1 < 2
        OBVIOUS
      <3> QED
        BY <2>2, <3>1, <3>2, DigitRun, Zenon
    <2>4. run.str = <<t[1]>> /\ run.category \in {"DecimalDigits", "Letters"}
      <3>1. to = 1
        BY <2>2, <2>3
      <3>2. run.str = SubSeq(t, 1, 1) /\ run.category = "Letters"
        BY <1>1, <1>3, <2>2, <3>1
      <3>3. SubSeq(t, 1, 1) = <<t[1]>>
        BY <2>1, OneSymbol, Zenon
      <3> QED
        BY <3>2, <3>3, Zenon
    <2>5. p = Whole("NotComplete", <<>>, InvalidRadix, "Unspecified", <<>>)
      BY <1>3 DEF ClearedNumeric, Whole
    <2>6. q = Whole("NotComplete", <<>> \o <<t[1]>>, InvalidRadix, "Unspecified", <<>>)
      <3>1. q = Whole("NotComplete", <<>> \o run.str, InvalidRadix, "Unspecified", <<>>)
        <4>1. run.category \in Numerals
          BY <2>4 DEF Numerals
        <4>2. PICK u : u = <<>>
          OBVIOUS
        <4>3. NumericParseSymbols(Whole("NotComplete", u, InvalidRadix, "Unspecified", <<>>), run)
                  = Whole("NotComplete", u \o run.str, InvalidRadix, "Unspecified", <<>>)
          BY <4>1, WholeGrows, SMT
        <4> QED
          BY <2>5, <4>2, <4>3, Zenon
      <3> QED
        BY <2>4, <3>1, Zenon
    <2>7. <<>> \o <<t[1]>> = <<t[1]>> /\ Len(<<t[1]>>) = 1
      <3>1. t[1] \in 0 .. 127
        BY <2>1, ElementOfSeq, Zenon
      <3>2. <<t[1]>> \in Seq(0 .. 127)
        BY <3>1, Single, Zenon
      <3>3. <<>> \o <<t[1]>> = <<t[1]>>
        BY <3>2, ConcatEmptySeq, Zenon
      <3>4. Len(<<t[1]>>) = 1
        OBVIOUS
      <3> QED
        BY <3>3, <3>4, Zenon
    <2>8. i + Len(run.str) = 2
      <3>1. Len(run.str) = 1
        BY <2>4, <2>7, Zenon
      <3>2. i + Len(run.str) = 1 + 1
        BY <1>3, <3>1, Zenon
      <3> QED
        BY <3>2
    <2>9. InMarker(q, 2, t, m, S)
      BY <2>6, <2>7, Zenon DEF InMarker
    <2>10. i < k /\ 2 <= k
      BY <1>2, <1>3
    <2> QED
      BY <2>8, <2>9, <2>10, Zenon DEF NumericAt
  <1>4. CASE i = 2 /\ p = Whole("NotComplete", <<t[1]>>, InvalidRadix, "Unspecified", <<>>)
    <2>1. 2 \in 1 .. Len(t)
      BY <1>2
    <2>2. Len(run.str) = 1 /\ run.str[1] = Colon /\ run.category = "Control"
      BY <1>1, <1>4, <2>1, SingleRun
    <2>3. q = Whole("NotComplete", <<>>, R, "Unspecified", <<>>)
      BY <1>1, <1>4, <2>2, MarkerIsTaken, Zenon
    <2>4. i + Len(run.str) = 3 /\ i < k /\ 3 <= k
      <3>1. i + Len(run.str) = 2 + 1
        BY <1>4, <2>2, Zenon
      <3>2. i < k /\ 3 <= k
        BY <1>2, <1>4
      <3> QED
        BY <3>1, <3>2
    <2>5. CASE g
      <3>1. BehindMarker(q, 3, m, g, R)
        BY <2>3, <2>5 DEF BehindMarker
      <3> QED
        BY <2>4, <3>1 DEF NumericAt
    <2>6. CASE ~g
      <3>1. S = 2 /\ SubSeq(t, S + 1, 3 - 1) = <<>>
        <4>1. S = 2
          BY <1>1, <2>6
        <4>2. SubSeq(t, 3, 3 - 1) = <<>> /\ S + 1 = 3
          BY <4>1, NoDigits
        <4> QED
          BY <4>1, <4>2, Zenon
      <3>2. 3 \in S + 1 .. P
        BY <1>1, <3>1
      <3>3. InIntegral(q, 3, t, m, g, S, P, R)
        BY <2>3, <2>6, <3>1, <3>2, Zenon DEF InIntegral
      <3> QED
        BY <2>4, <3>3 DEF NumericAt
    <2> QED
      BY <2>5, <2>6
  <1> QED
    BY <1>3, <1>4 DEF InMarker

\* The parser in front of the sign of a number.
LEMMA SignIsRead ==
  ASSUME NEW t \in Seq(0 .. 127), NEW k, NEW m \in BOOLEAN, NEW g \in BOOLEAN, NEW S, NEW P, NEW R, ReadingAt(t, k, m, g, S, P, R),
         g, NEW p,
         \/ m /\ p = Whole("NotComplete", <<>>, R, "Unspecified", <<>>)
         \/ ~m /\ p = ClearedNumeric,
         NEW run, run = RunAt(t, S), NEW q, q = NumericParseSymbols(p, run)
  PROVE  S < k /\ S + Len(run.str) <= k /\ NumericAt(q, S + Len(run.str), t, k, m, g, S, P, R)
  <1>1. /\ k \in 1 .. Len(t) /\ Len(t) \in Nat /\ k \in Nat /\ S \in 0 .. 3 /\ P \in Nat /\ S + 1 < P /\ P <= k
        /\ R \in Radixes /\ m \in BOOLEAN /\ g \in BOOLEAN
        /\ m => S = IF g THEN 3 ELSE 2
        /\ ~m => R = 10 /\ S = IF g THEN 1 ELSE 0
        /\ t[S] \in {Plus, Minus} /\ Category(t[S]) = "Operators"
    <2>1. m \in BOOLEAN /\ g \in BOOLEAN
      BY DEF ReadingAt
    <2>2. /\ k \in 1 .. Len(t) /\ Len(t) \in Nat /\ k \in Nat /\ S \in 0 .. 3 /\ P \in Nat /\ S + 1 < P /\ P <= k
          /\ R \in Radixes
          /\ m => S = IF g THEN 3 ELSE 2
          /\ ~m => R = 10 /\ S = IF g THEN 1 ELSE 0
          /\ t[S] \in {Plus, Minus} /\ Category(t[S]) = "Operators"
      <3>1. NumberParts(t, k, m, g, S, P, R)
        BY <2>1, PartsOfANumber, Zenon
      <3> QED
        BY <3>1, Zenon DEF NumberParts
    <2> QED
      BY <2>1, <2>2, Zenon
  <1>2. S \in 1 .. Len(t) /\ S + 1 <= k
    BY <1>1
  <1>3. Len(run.str) = 1 /\ run.str[1] = t[S] /\ run.category = "Operators"
    BY <1>1, <1>2, SingleRun
  <1>4. PICK s : s = IF t[S] = Minus THEN "Negative" ELSE "Positive"
    OBVIOUS
  <1>5. PICK r \in Radixes \cup {InvalidRadix} :
             /\ r = IF m THEN R ELSE InvalidRadix
             /\ p = Whole("NotComplete", <<>>, r, "Unspecified", <<>>)
    <2>1. CASE m
      BY <1>1, <2>1
    <2>2. CASE ~m
      BY <2>2 DEF ClearedNumeric, Whole
    <2> QED
      BY <2>1, <2>2
  <1>6. (r = InvalidRadix => R = 10) /\ (r # InvalidRadix => R = r)
    BY <1>1, <1>5 DEF Radixes, InvalidRadix
  <1>7. q = Whole("NotComplete", <<>>, R, s, <<>>)
    <2>1. PICK c \in Signs : c = t[S]
      BY <1>1 DEF Signs
    <2>2. (c = Minus => s = "Negative") /\ (c # Minus => s = "Positive")
      BY <1>4, <2>1
    <2>3. run.category = "Operators" /\ run.str[1] = c
      BY <1>3, <2>1, Zenon
    <2>4. NumericParseSymbols(p, run) = Whole("NotComplete", <<>>, R, s, <<>>)
      BY <1>5, <1>6, <2>2, <2>3, SignIsTaken, SMT
    <2> QED
      BY <2>4, Zenon
  <1>8. s = SignRead(t, g, S)
    BY <1>4 DEF SignRead
  <1>9. SubSeq(t, S + 1, (S + 1) - 1) = <<>> /\ S + 1 \in S + 1 .. P
    <2>1. S + 1 \in Int /\ S + 1 \in S + 1 .. P
      BY <1>1
    <2> QED
      BY <2>1, NoDigits, Zenon
  <1>10. InIntegral(q, S + 1, t, m, g, S, P, R)
    BY <1>7, <1>8, <1>9, Zenon DEF InIntegral
  <1>11. S + Len(run.str) = S + 1 /\ S < k
    BY <1>1, <1>3
  <1> QED
    BY <1>2, <1>10, <1>11, Zenon DEF NumericAt

\* Where digits follow, up to an end.
LEMMA MoreDigits ==
  ASSUME NEW t \in Seq(0 .. 127), NEW a \in Nat, NEW i \in Nat, NEW e \in Nat, 1 <= a, a <= i, i < e, e <= Len(t),
         Category(t[i]) \in Numerals, Category(t[e]) \notin Numerals
  PROVE  \E to \in Nat : /\ i <= to /\ to < e /\ i + Len(RunAt(t, i).str) = to + 1
                         /\ RunAt(t, i).category \in Numerals
                         /\ SubSeq(t, a, i - 1) \o RunAt(t, i).str = SubSeq(t, a, to)
  <1>0. PICK run : run = RunAt(t, i)
    OBVIOUS
  <1>1. i \in 1 .. Len(t)
    BY SMT
  <1>2. PICK to \in i .. Len(t) :
             /\ IsRun(t, i, to)
             /\ RunAt(t, i) = [category |-> Category(t[i]), str |-> SubSeq(t, i, to)]
    BY <1>1, RunsAreRuns, Zenon
  <1>3. to \in Nat /\ i <= to /\ to \in Int /\ i \in Int /\ e \in Int /\ a \in Int /\ to <= Len(t) /\ i <= to + 1 /\ 1 <= i
    OBVIOUS
  <1>4. to < e
    BY <1>2, <1>3, DigitRun, Zenon DEF Numerals
  <1>5. run.str = SubSeq(t, i, to) /\ run.category \in Numerals
    BY <1>0, <1>2 DEF Numerals
  <1>6. Len(SubSeq(t, i, to)) = to - i + 1
    BY <1>3, CutLength, Zenon
  <1>7. PICK n : n = Len(run.str)
    OBVIOUS
  <1>8. n = to - i + 1
    BY <1>5, <1>6, <1>7, Zenon
  <1>9. i + n = to + 1
    BY <1>3, <1>8
  <1>10. SubSeq(t, a, i - 1) \o SubSeq(t, i, to) = SubSeq(t, a, to)
    BY <1>3, PartsJoin, Zenon
  <1> QED
    BY <1>0, <1>3, <1>4, <1>5, <1>7, <1>9, <1>10, Zenon

\* Digits are not none.
LEMMA SomeDigits ==
  ASSUME NEW u, u # <<>>, u \in Seq(0 .. 127)
  PROVE  DigitsOf(u) # <<>>
  <1>1. Len(u) \in Nat /\ Len(u) # 0
    OBVIOUS
  <1>2. 1 \in DOMAIN DigitsOf(u)
    BY <1>1 DEF DigitsOf
  <1>3. DOMAIN <<>> = {}
    OBVIOUS
  <1> QED
    BY <1>2, <1>3, Zenon

\* A run leads on, and the closing hash to what was read.
LeadsOn(q, i, after, t, k, m, g, S, P, R) ==
    /\ i < k => after <= k /\ NumericAt(q, after, t, k, m, g, S, P, R)
    /\ i = k => after = k + 1 /\ q = NumericRead(t, k, g, S, P, R)

\* The parser in the integral digits of a number, or behind them.
LEMMA IntegralIsRead ==
  ASSUME NEW t \in Seq(0 .. 127), NEW k, NEW m \in BOOLEAN, NEW g \in BOOLEAN, NEW S, NEW P, NEW R,
         ReadingAt(t, k, m, g, S, P, R), NEW i, NEW p, InIntegral(p, i, t, m, g, S, P, R),
         NEW run, run = RunAt(t, i), NEW q, q = NumericParseSymbols(p, run)
  PROVE  LeadsOn(q, i, i + Len(run.str), t, k, m, g, S, P, R)
  <1> SUFFICES /\ i < k => i + Len(run.str) <= k /\ NumericAt(q, i + Len(run.str), t, k, m, g, S, P, R)
               /\ i = k => Len(run.str) = 1 /\ q = NumericRead(t, k, g, S, P, R)
    <2>1. i \in Nat /\ (i = k => (Len(run.str) = 1 => i + Len(run.str) = k + 1))
      <3>1. i \in Nat
        <4>1. NumberParts(t, k, m, g, S, P, R)
          BY PartsOfANumber, Zenon
        <4>2. S \in Nat /\ P \in Nat /\ k \in Nat
          BY <4>1 DEF NumberParts
        <4> QED
          BY <4>2 DEF InIntegral
      <3>2. Len(run.str) = 1 => i + Len(run.str) = i + 1
        BY Zenon
      <3> QED
        BY <3>1, <3>2
    <2> QED
      BY <2>1, Zenon DEF LeadsOn
  <1>0. NumberParts(t, k, m, g, S, P, R)
    BY PartsOfANumber, Zenon
  <1>1. /\ k \in 1 .. Len(t) /\ Len(t) \in Nat /\ k \in Nat /\ S \in 0 .. 3 /\ P \in Nat /\ S + 1 < P /\ P <= k
        /\ R \in Radixes
        /\ Category(t[k]) = "Hash"
        /\ ~m => R = 10
        /\ P < k => Category(t[P]) = "Period" /\ P < k - 1
        /\ \A j \in S + 1 .. k - 1 :
               j # P => IsDigit(R, t[j]) /\ Category(t[j]) \in {"DecimalDigits", "Letters"}
    BY <1>0, Zenon DEF NumberParts
  <1>2. /\ i \in S + 1 .. P /\ i \in Nat /\ P \in 1 .. Len(t) /\ S + 1 \in Nat /\ 1 <= S + 1 /\ S + 1 <= i
        /\ P <= Len(t) /\ i <= k
    BY <1>1 DEF InIntegral
  <1>3. PICK u, r, s : /\ u = SubSeq(t, S + 1, i - 1) /\ r = (IF m \/ g THEN R ELSE InvalidRadix)
                       /\ s = (IF g THEN SignRead(t, g, S) ELSE "Unspecified")
    OBVIOUS
  <1>4. p = Whole("NotComplete", u, r, s, <<>>)
    BY <1>3, Zenon DEF InIntegral
  <1>5. Category(t[P]) \in {"Period", "Hash"}
    BY <1>1
  <1>6. CASE i < P
    <2>1. Category(t[i]) \in Numerals /\ i < k
      BY <1>1, <1>2, <1>6 DEF Numerals
    <2>2. Category(t[P]) \notin Numerals
      BY <1>5 DEF Numerals
    <2>3. PICK to \in Nat : /\ i <= to /\ to < P /\ i + Len(run.str) = to + 1
                            /\ run.category \in Numerals
                            /\ SubSeq(t, S + 1, i - 1) \o run.str = SubSeq(t, S + 1, to)
      <3>1. PICK a \in Nat : a = S + 1 /\ 1 <= a /\ a <= i
        BY <1>2
      <3>2. i \in Nat /\ P \in Nat /\ i < P /\ P <= Len(t)
        BY <1>1, <1>2, <1>6
      <3>3. \E to \in Nat : /\ i <= to /\ to < P /\ i + Len(RunAt(t, i).str) = to + 1
                            /\ RunAt(t, i).category \in Numerals
                            /\ SubSeq(t, a, i - 1) \o RunAt(t, i).str = SubSeq(t, a, to)
        <4>1. 1 <= a /\ a <= i
          BY <3>1, Zenon
        <4> QED
          BY <2>1, <2>2, <3>2, <4>1, MoreDigits, Zenon
      <3> QED
        BY <3>1, <3>3, Zenon
    <2>4. NumericParseSymbols(Whole("NotComplete", u, r, s, <<>>), run)
              = Whole("NotComplete", u \o run.str, r, s, <<>>)
      BY <2>3, WholeGrows, SMT
    <2>5. q = Whole("NotComplete", SubSeq(t, S + 1, to), r, s, <<>>)
      BY <1>3, <1>4, <2>3, <2>4, Zenon
    <2>6. (to + 1) - 1 = to /\ to + 1 \in S + 1 .. P /\ to + 1 <= k /\ i # k
      BY <1>1, <1>2, <1>6, <2>3
    <2>7. InIntegral(q, to + 1, t, m, g, S, P, R)
      BY <1>3, <2>5, <2>6, Zenon DEF InIntegral
    <2> QED
      BY <2>3, <2>6, <2>7, Zenon DEF NumericAt
  <1>7. CASE i = P
    <2>1. /\ AreDigits(u, R) /\ u # <<>> /\ u \in Seq(0 .. 127) /\ u = SubSeq(t, S + 1, P - 1)
      <3>1. P - 1 \in Int /\ S + 1 \in Int /\ S + 1 <= P - 1 /\ P - 1 <= Len(t) /\ S + 1 <= (P - 1) + 1
        BY <1>1, <1>2
      <3>2. \A j \in S + 1 .. P - 1 : IsDigit(R, t[j])
        BY <1>1
      <3>3. u = SubSeq(t, S + 1, P - 1)
        BY <1>3, <1>7, Zenon
      <3>4. SubSeq(t, S + 1, P - 1) \in Seq(0 .. 127)
        BY <1>2, <3>1, Cuts, Zenon
      <3> QED
        BY <1>2, <3>1, <3>2, <3>3, <3>4, DigitParts, Zenon
    <2>2. PICK x : x = SignRead(t, g, S)
      OBVIOUS
    <2>3. x \in {"Positive", "Negative"} /\ (s = "Unspecified" => x = "Positive") /\ (s # "Unspecified" => x = s)
          /\ s \in {"Unspecified", "Positive", "Negative"}
      BY <1>3, <2>2 DEF SignRead
    <2>4. r # R => r = InvalidRadix /\ R = 10
      BY <1>1, <1>3
    <2>5. PICK d : d = DigitsOf(u)
      OBVIOUS
    <2>6. ParseDigits(p) = Whole("NotComplete", <<>>, R, x, d)
      <3>1. AreDigits(u, R) /\ u # <<>>
        BY <2>1, Zenon
      <3>2. R \in Radixes
        BY <1>1, Zenon
      <3>3. ParseDigits(p) = Whole("NotComplete", <<>>, R, x, DigitsOf(u))
        <4>1. (s = "Unspecified" => x = "Positive") /\ (s # "Unspecified" => x = s)
          BY <2>3, Zenon
        <4>2. ParseDigits(Whole("NotComplete", u, r, s, <<>>)) = Whole("NotComplete", <<>>, R, x, DigitsOf(u))
          BY <2>4, <3>1, <3>2, <4>1, IntegralIsTaken, SMT
        <4> QED
          BY <1>4, <4>2, Zenon
      <3> QED
        BY <2>5, <3>3, Zenon
    <2>7. d # <<>>
      BY <2>1, <2>5, SomeDigits, Zenon
    <2>8. Len(run.str) = 1 /\ run.category = Category(t[P])
      BY <1>2, <1>5, <1>7, SingleRun
    <2>9. CASE P < k
      <3>1. run.category = "Period"
        BY <1>1, <2>8, <2>9
      <3>2. q = ParsePeriod(ParseDigits(p))
        BY <3>1 DEF NumericParseSymbols
      <3>3. q = Broken("NotComplete", <<>>, R, x, d, <<>>)
        BY <2>6, <2>7, <3>2, PeriodIsTaken, Zenon
      <3>4. SubSeq(t, P + 1, (P + 1) - 1) = <<>>
        <4>1. P + 1 \in Int
          BY <1>1
        <4> QED
          BY <4>1, NoDigits, Zenon
      <3>5. P + 1 \in P + 1 .. k /\ P + 1 <= k /\ i # k
        BY <1>1, <1>7, <2>9
      <3>6. InFractional(q, P + 1, t, k, g, S, P, R)
        BY <2>1, <2>2, <2>5, <3>3, <3>4, <3>5, Zenon DEF InFractional
      <3>7. i + Len(run.str) = P + 1
        BY <1>7, <2>8, Zenon
      <3> QED
        BY <3>5, <3>6, <3>7, Zenon DEF NumericAt
    <2>10. CASE P = k
      <3>1. run.category = "Hash"
        BY <1>1, <2>8, <2>10, Zenon
      <3>2. q = ParseHash(ParseDigits(p))
        BY <3>1 DEF NumericParseSymbols
      <3>3. q = Whole("Complete", <<>>, R, x, d)
        BY <2>3, <2>6, <2>7, <3>2, HashIsTaken, Zenon
      <3>4. q = NumericRead(t, k, g, S, P, R)
        BY <2>1, <2>2, <2>5, <2>10, <3>3, Zenon DEF NumericRead
      <3>5. ~(i < k)
        BY <1>1, <1>7, <2>10
      <3> QED
        BY <2>8, <3>4, <3>5, Zenon
    <2> QED
      BY <1>1, <2>9, <2>10
  <1> QED
    BY <1>2, <1>6, <1>7

\* The parser in the fractional digits of a number, or behind them.
LEMMA FractionalIsRead ==
  ASSUME NEW t \in Seq(0 .. 127), NEW k, NEW m \in BOOLEAN, NEW g \in BOOLEAN, NEW S, NEW P, NEW R,
         ReadingAt(t, k, m, g, S, P, R), NEW i, NEW p, InFractional(p, i, t, k, g, S, P, R),
         NEW run, run = RunAt(t, i), NEW q, q = NumericParseSymbols(p, run)
  PROVE  LeadsOn(q, i, i + Len(run.str), t, k, m, g, S, P, R)
  <1> SUFFICES /\ i < k => i + Len(run.str) <= k /\ NumericAt(q, i + Len(run.str), t, k, m, g, S, P, R)
               /\ i = k => Len(run.str) = 1 /\ q = NumericRead(t, k, g, S, P, R)
    <2>1. i \in Nat /\ (i = k => (Len(run.str) = 1 => i + Len(run.str) = k + 1))
      <3>1. i \in Nat
        <4>1. NumberParts(t, k, m, g, S, P, R)
          BY PartsOfANumber, Zenon
        <4>2. S \in Nat /\ P \in Nat /\ k \in Nat
          BY <4>1 DEF NumberParts
        <4> QED
          BY <4>2 DEF InFractional
      <3>2. Len(run.str) = 1 => i + Len(run.str) = i + 1
        BY Zenon
      <3> QED
        BY <3>1, <3>2
    <2> QED
      BY <2>1, Zenon DEF LeadsOn
  <1>0. NumberParts(t, k, m, g, S, P, R)
    BY PartsOfANumber, Zenon
  <1>1. /\ k \in 1 .. Len(t) /\ Len(t) \in Nat /\ k \in Nat /\ S \in 0 .. 3 /\ P \in Nat /\ S + 1 < P /\ P <= k
        /\ R \in Radixes
        /\ Category(t[k]) = "Hash"
        /\ P < k => Category(t[P]) = "Period" /\ P < k - 1
        /\ \A j \in S + 1 .. k - 1 :
               j # P => IsDigit(R, t[j]) /\ Category(t[j]) \in {"DecimalDigits", "Letters"}
    BY <1>0, Zenon DEF NumberParts
  <1>2. /\ i \in P + 1 .. k /\ i \in Nat /\ P < k /\ P < k - 1 /\ P + 1 \in Nat /\ 1 <= P + 1 /\ P + 1 <= i
        /\ k <= Len(t) /\ i <= k
    BY <1>1 DEF InFractional
  <1>3. PICK u, x, d : /\ u = SubSeq(t, P + 1, i - 1) /\ x = SignRead(t, g, S)
                       /\ d = DigitsOf(SubSeq(t, S + 1, P - 1))
    OBVIOUS
  <1>4. p = Broken("NotComplete", u, R, x, d, <<>>)
    BY <1>3, Zenon DEF InFractional
  <1>5. CASE i < k
    <2>1. Category(t[i]) \in Numerals /\ i < k
      BY <1>1, <1>2, <1>5 DEF Numerals
    <2>2. Category(t[k]) \notin Numerals
      BY <1>1 DEF Numerals
    <2>3. PICK to \in Nat : /\ i <= to /\ to < k /\ i + Len(run.str) = to + 1
                            /\ run.category \in Numerals
                            /\ SubSeq(t, P + 1, i - 1) \o run.str = SubSeq(t, P + 1, to)
      <3>1. PICK a \in Nat : a = P + 1 /\ 1 <= a /\ a <= i
        BY <1>2
      <3>2. i \in Nat /\ k \in Nat /\ i < k /\ k <= Len(t)
        BY <1>1, <1>2, <1>5
      <3>3. \E to \in Nat : /\ i <= to /\ to < k /\ i + Len(RunAt(t, i).str) = to + 1
                            /\ RunAt(t, i).category \in Numerals
                            /\ SubSeq(t, a, i - 1) \o RunAt(t, i).str = SubSeq(t, a, to)
        <4>1. 1 <= a /\ a <= i
          BY <3>1, Zenon
        <4> QED
          BY <2>1, <2>2, <3>2, <4>1, MoreDigits, Zenon
      <3> QED
        BY <3>1, <3>3, Zenon
    <2>4. NumericParseSymbols(Broken("NotComplete", u, R, x, d, <<>>), run)
              = Broken("NotComplete", u \o run.str, R, x, d, <<>>)
      BY <2>3, BrokenGrows, SMT
    <2>5. q = Broken("NotComplete", SubSeq(t, P + 1, to), R, x, d, <<>>)
      BY <1>3, <1>4, <2>3, <2>4, Zenon
    <2>6. (to + 1) - 1 = to /\ to + 1 \in P + 1 .. k /\ to + 1 <= k /\ i # k
      BY <1>1, <1>2, <1>5, <2>3
    <2>7. InFractional(q, to + 1, t, k, g, S, P, R)
      BY <1>3, <2>5, <2>6, Zenon DEF InFractional
    <2> QED
      BY <2>3, <2>6, <2>7, Zenon DEF NumericAt
  <1>6. CASE i = k
    <2>1. AreDigits(u, R) /\ u # <<>>
      <3>1. k - 1 \in Int /\ P + 1 \in Int /\ P + 1 <= k - 1 /\ k - 1 <= Len(t)
        BY <1>1, <1>2
      <3>2. \A j \in P + 1 .. k - 1 : IsDigit(R, t[j])
        BY <1>1
      <3>3. u = SubSeq(t, P + 1, k - 1)
        BY <1>3, <1>6, Zenon
      <3> QED
        BY <1>2, <3>1, <3>2, <3>3, DigitParts, Zenon
    <2>2. x \in {"Positive", "Negative"} /\ x # "Unspecified"
      BY <1>3 DEF SignRead
    <2>3. d # <<>>
      <3>1. P - 1 \in Int /\ S + 1 \in Int /\ 1 <= S + 1 /\ S + 1 <= P - 1 /\ P - 1 <= Len(t) /\ S + 1 <= (P - 1) + 1
        BY <1>1, <1>2
      <3>2. \A j \in S + 1 .. P - 1 : IsDigit(R, t[j])
        BY <1>1, <1>2
      <3>3. PICK v : v = SubSeq(t, S + 1, P - 1)
        OBVIOUS
      <3>4. v # <<>> /\ v \in Seq(0 .. 127)
        BY <3>1, <3>2, <3>3, DigitParts, Cuts, Zenon
      <3> QED
        BY <1>3, <3>3, <3>4, SomeDigits, Zenon
    <2>4. PICK f : f = DigitsOf(u)
      OBVIOUS
    <2>5. ParseDigits(p) = Broken("NotComplete", <<>>, R, x, d, f)
      <3>1. R \in Radixes /\ AreDigits(u, R) /\ u # <<>> /\ x # "Unspecified" /\ d # <<>>
        BY <1>1, <2>1, <2>2, <2>3, Zenon
      <3>2. ParseDigits(Broken("NotComplete", u, R, x, d, <<>>)) = Broken("NotComplete", <<>>, R, x, d, DigitsOf(u))
        BY <3>1, FractionalIsTaken, SMT
      <3> QED
        BY <1>4, <2>4, <3>2, Zenon
    <2>6. Len(run.str) = 1 /\ run.category = "Hash"
      BY <1>1, <1>6, SingleRun
    <2>7. q = ParseHash(ParseDigits(p))
      BY <2>6 DEF NumericParseSymbols
    <2>8. q = Broken("Complete", <<>>, R, x, d, f)
      <3>1. x \in {"Positive", "Negative"} /\ d # <<>>
        BY <2>2, <2>3, Zenon
      <3>2. ParseHash(Broken("NotComplete", <<>>, R, x, d, f)) = Broken("Complete", <<>>, R, x, d, f)
        BY <3>1, HashIsTaken
      <3> QED
        BY <2>5, <2>7, <3>2, Zenon
    <2>9. q = NumericRead(t, k, g, S, P, R)
      <3>1. P # k /\ ~(i < k)
        BY <1>1, <1>2, <1>6
      <3> QED
        BY <1>3, <1>6, <2>4, <2>8, <3>1, Zenon DEF NumericRead
    <2>10. ~(i < k)
      BY <1>1, <1>6
    <2> QED
      BY <2>6, <2>9, <2>10, Zenon
  <1> QED
    BY <1>2, <1>5, <1>6

\* A run of a number that is read leads on, and the closing hash to what was read.
LEMMA NumericReads ==
  ASSUME NEW t \in Seq(0 .. 127), NEW k, NEW m \in BOOLEAN, NEW g \in BOOLEAN, NEW S, NEW P, NEW R,
         ReadingAt(t, k, m, g, S, P, R), NEW i, NEW p, NumericAt(p, i, t, k, m, g, S, P, R),
         NEW run, run = RunAt(t, i), NEW q, q = NumericParseSymbols(p, run)
  PROVE  LeadsOn(q, i, i + Len(run.str), t, k, m, g, S, P, R)
  <1>0. NumberParts(t, k, m, g, S, P, R)
    BY PartsOfANumber, Zenon
  <1>1. /\ k \in Nat /\ S \in 0 .. 3 /\ P \in Nat /\ S + 1 < P /\ P <= k
        /\ m => S = IF g THEN 3 ELSE 2
        /\ ~m => S = IF g THEN 1 ELSE 0
    BY <1>0, Zenon DEF NumberParts
  <1>2. CASE InMarker(p, i, t, m, S) /\ m
    <2>1. i \in 1 .. k
      BY <1>1, <1>2 DEF InMarker
    <2>2. i < k /\ i + Len(run.str) <= k /\ NumericAt(q, i + Len(run.str), t, k, m, g, S, P, R)
      BY <1>2, <2>1, MarkerIsRead, Zenon
    <2>3. i # k
      BY <2>1, <2>2
    <2> QED
      BY <2>2, <2>3, Zenon DEF LeadsOn
  <1>3. CASE InMarker(p, i, t, m, S) /\ ~m
    <2>1. i = 1 /\ p = ClearedNumeric /\ S = 1 /\ g
      BY <1>1, <1>3 DEF InMarker
    <2>2. S < k /\ S + Len(run.str) <= k /\ NumericAt(q, S + Len(run.str), t, k, m, g, S, P, R)
      BY <1>3, <2>1, SignIsRead, Zenon
    <2>3. i # k
      BY <1>1, <2>1
    <2> QED
      BY <2>1, <2>2, <2>3, Zenon DEF LeadsOn
  <1>4. CASE BehindMarker(p, i, m, g, R)
    <2>1. i = S /\ p = Whole("NotComplete", <<>>, R, "Unspecified", <<>>) /\ m /\ g
      BY <1>1, <1>4 DEF BehindMarker
    <2>2. S < k /\ S + Len(run.str) <= k /\ NumericAt(q, S + Len(run.str), t, k, m, g, S, P, R)
      BY <2>1, SignIsRead, Zenon
    <2>3. i # k
      BY <1>1, <2>1
    <2> QED
      BY <2>1, <2>2, <2>3, Zenon DEF LeadsOn
  <1>5. CASE InIntegral(p, i, t, m, g, S, P, R)
    BY <1>5, IntegralIsRead, Zenon
  <1>6. CASE InFractional(p, i, t, k, g, S, P, R)
    BY <1>6, FractionalIsRead, Zenon
  <1> QED
    BY <1>2, <1>3, <1>4, <1>5, <1>6, Zenon DEF NumericAt

\* A part of the front of a sequence.
LEMMA PartOfFront ==
  ASSUME NEW C, NEW t \in Seq(C), NEW k \in Nat, 1 <= k, k <= Len(t), NEW a \in Nat, NEW e \in Nat,
         1 <= a, a < e, e <= k
  PROVE  SubSeq(SubSeq(t, 1, k - 1), a, e - 1) = SubSeq(t, a, e - 1)
  <1>1. PICK j \in Int : j = k - 1
    OBVIOUS
  <1>2. PICK z \in Int : z = e - 1
    OBVIOUS
  <1>3. Len(t) \in Nat
    OBVIOUS
  <1>4. /\ 1 \in 1 .. Len(t) /\ j \in 1 .. Len(t) /\ a \in 1 .. j - 1 + 1 /\ z \in 1 .. j - 1 + 1
        /\ 1 + a - 1 = a /\ 1 + z - 1 = z
    BY <1>1, <1>2, <1>3
  <1>5. SubSeq(SubSeq(t, 1, j), a, z) = SubSeq(t, 1 + a - 1, 1 + z - 1)
    BY <1>4, SubSeqOfSubSeq, SMT
  <1> QED
    BY <1>1, <1>2, <1>4, <1>5, Zenon

\* What is read of t up to k as n says, where b is the text in front of k.
IsReadAs(t, k, b, n, S, P, R) ==
    /\ ReadingAt(t, k, n.marked, n.signed, S, P, R)
    /\ SubSeq(b, S + 1, P - 1) = SubSeq(t, S + 1, P - 1)
    /\ DigitsOf(SubSeq(b, P + 1, Len(b))) = IF P = k THEN <<>> ELSE DigitsOf(SubSeq(t, P + 1, k - 1))
    /\ n.signed => b[S] = t[S]
    /\ n.marked \in BOOLEAN /\ n.signed \in BOOLEAN

\* How a text can be read is how the literal that it is the body of is read.
LEMMA ReadingIsAt ==
  ASSUME NEW t \in Seq(0 .. 127), NEW k \in 1 .. Len(t), Category(t[k]) = "Hash",
         NEW n \in Readings(SubSeq(t, 1, k - 1)), IsReading(n, SubSeq(t, 1, k - 1))
  PROVE  IsReadAs(t, k, SubSeq(t, 1, k - 1), n, Skipped(n), n.point, RadixRead(n, SubSeq(t, 1, k - 1)))
  <1>0. PICK b, S, P, R : b = SubSeq(t, 1, k - 1) /\ S = Skipped(n) /\ P = n.point /\ R = RadixRead(n, b)
    OBVIOUS
  <1>1. Len(t) \in Nat /\ k \in Nat /\ 1 <= k /\ k <= Len(t)
    OBVIOUS
  <1>2. /\ b \in Seq(0 .. 127) /\ Len(b) = k - 1 /\ \A i \in 1 .. k - 1 : b[i] = t[i]
    <2>1. k - 1 \in Int /\ 1 \in Int /\ 1 <= 1 /\ k - 1 <= Len(t) /\ 1 <= (k - 1) + 1
      BY <1>1
    <2>2. /\ SubSeq(t, 1, k - 1) \in Seq(0 .. 127)
          /\ Len(SubSeq(t, 1, k - 1)) = (k - 1) - 1 + 1
          /\ \A i \in 1 .. (k - 1) - 1 + 1 : SubSeq(t, 1, k - 1)[i] = t[1 + i - 1]
      <3>1. Piece(0 .. 127, t, 1, k - 1)
        BY <2>1, Pieces, Zenon
      <3> QED
        BY <3>1, Zenon DEF Piece
    <2>3. (k - 1) - 1 + 1 = k - 1 /\ \A i \in Int : 1 + i - 1 = i
      BY <1>1
    <2>4. Len(SubSeq(t, 1, k - 1)) = k - 1
      BY <2>2, <2>3, Zenon
    <2>5. ASSUME NEW i \in 1 .. k - 1 PROVE SubSeq(t, 1, k - 1)[i] = t[i]
      <3>1. i \in Int
        OBVIOUS
      <3> QED
        BY <2>2, <2>3, <3>1, Zenon
    <2> QED
      BY <1>0, <2>2, <2>4, <2>5, Zenon
  <1>3. PICK l \in Nat : l = Len(b) /\ l = k - 1
    BY <1>1, <1>2
  <1>4. n.marked \in BOOLEAN /\ n.signed \in BOOLEAN /\ P \in 1 .. l + 1
    BY <1>0, <1>3 DEF Readings
  <1>5. S = (IF n.marked THEN 2 ELSE 0) + (IF n.signed THEN 1 ELSE 0) /\ S \in 0 .. 3
    BY <1>0, <1>4 DEF Skipped
  <1>6. /\ n.marked => l >= 2 /\ RadixOf(b[1]) # InvalidRadix /\ b[2] = Colon
        /\ l > S
        /\ n.signed => b[S] \in {Plus, Minus}
        /\ P > S + 1
        /\ P <= l => b[P] = Period /\ P < l
        /\ \A i \in S + 1 .. l : i = P \/ IsDigit(R, b[i])
    BY <1>0, <1>3, Zenon DEF IsReading
  <1>7. /\ \A i \in 1 .. l : b[i] = t[i]
        /\ P \in Nat /\ S + 1 < P /\ P <= k /\ l = k - 1
    BY <1>2, <1>3, <1>4, <1>5, <1>6
  <1>8. n.signed => S \in 1 .. l /\ b[S] = t[S]
    <2>1. n.signed => S \in 1 .. l
      BY <1>5, <1>6, <1>3
    <2> QED
      BY <2>1, <1>7
  <1>9. n.marked => b[1] = t[1] /\ b[2] = t[2]
    <2>1. n.marked => 1 \in 1 .. l /\ 2 \in 1 .. l
      BY <1>3, <1>6
    <2> QED
      BY <2>1, <1>7
  <1>10. R \in Radixes /\ (n.marked => RadixOf(t[1]) = R) /\ (~n.marked => R = 10)
    <2>1. CASE n.marked
      <3>1. R = RadixOf(t[1]) /\ R # InvalidRadix
        BY <1>0, <1>6, <1>9, <2>1 DEF RadixRead
      <3> QED
        BY <3>1, <2>1 DEF RadixOf, Radixes
    <2>2. CASE ~n.marked
      BY <1>0, <2>2 DEF RadixRead, Radixes
    <2> QED
      BY <1>4, <2>1, <2>2
  <1>11. P < k => t[P] = Period /\ P < k - 1
    <2>1. P < k => P <= l /\ P \in 1 .. l
      BY <1>3, <1>4, <1>7
    <2> QED
      BY <2>1, <1>6, <1>7
  <1>12. \A i \in S + 1 .. k - 1 : i = P \/ IsDigit(R, t[i])
    <2>1. ASSUME NEW i \in S + 1 .. k - 1 PROVE i \in 1 .. l /\ i \in S + 1 .. l
      BY <1>5, <1>7
    <2> QED
      BY <2>1, <1>6, <1>7
  <1>13. ReadingAt(t, k, n.marked, n.signed, S, P, R)
    BY <1>1, <1>4, <1>5, <1>6, <1>7, <1>8, <1>9, <1>10, <1>11, <1>12, Zenon DEF ReadingAt
  <1>14. SubSeq(b, S + 1, P - 1) = SubSeq(t, S + 1, P - 1)
    BY <1>1, <1>5, <1>7, PartOfFront
  <1>15. P = k => SubSeq(b, P + 1, Len(b)) = <<>>
    <2>1. P + 1 \in Int /\ l \in Int /\ (P = k => l < P + 1)
      BY <1>3, <1>7
    <2> QED
      BY <1>3, <2>1, SubSeqEmpty, Zenon
  <1>16. P # k => SubSeq(b, P + 1, Len(b)) = SubSeq(t, P + 1, k - 1)
    BY <1>1, <1>3, <1>7, <1>11, PartOfFront
  <1> QED
    BY <1>0, <1>4, <1>8, <1>13, <1>14, <1>15, <1>16, NoDigits, Zenon DEF IsReadAs

-----------------------------------------------------------------------------
(* Numbers mean their text *)

\* The last run ended in front of the next one.
LastIsBehind ==
    last[1] # "None" => next - 1 \in 1 .. Len(text) /\ Category(text[next - 1]) = last[1]

\* A number is followed up to its hash, and is what was read there.
NumbersAreFollowed ==
    \A k, S, P, R : \A m \in BOOLEAN, g \in BOOLEAN :
        ReadingAt(text, k, m, g, S, P, R) =>
            /\ mCurState = "NumericLiteral" =>
                   ~mParseError /\ next <= k /\ NumericAt(numeric, next, text, k, m, g, S, P, R)
            /\ IsComplete("Hash") => next = k + 1 /\ numeric = NumericRead(text, k, g, S, P, R)

NumbersInv == LastIsBehind /\ NumbersAreFollowed

LEMMA NumbersInitially == Init => NumbersInv
  <1> SUFFICES ASSUME Init PROVE NumbersInv
    OBVIOUS
  <1>1. last = <<"None", "NotComplete">> /\ mCurState = "MainSequence"
    BY DEF Init
  <1>2. last[1] = "None" /\ ~IsComplete("Hash")
    BY <1>1 DEF IsComplete
  <1> QED
    BY <1>1, <1>2 DEF NumbersInv, LastIsBehind, NumbersAreFollowed

\* Nothing was read.
LEMMA NumbersBegin ==
  ASSUME NEW t \in Seq(0 .. 127), NEW k, NEW m \in BOOLEAN, NEW g \in BOOLEAN, NEW S, NEW P, NEW R,
         ReadingAt(t, k, m, g, S, P, R)
  PROVE  1 <= k /\ NumericAt(ClearedNumeric, 1, t, k, m, g, S, P, R)
  <1>0. NumberParts(t, k, m, g, S, P, R)
    BY PartsOfANumber, Zenon
  <1>1. /\ k \in 1 .. Len(t) /\ k \in Nat /\ S \in 0 .. 3 /\ P \in Nat /\ S + 1 < P /\ P <= k
        /\ m => S = IF g THEN 3 ELSE 2
        /\ ~m => S = IF g THEN 1 ELSE 0
    BY <1>0, Zenon DEF NumberParts
  <1>2. 1 <= k
    BY <1>1
  <1>3. CASE S > 0
    BY <1>2, <1>3 DEF NumericAt, InMarker
  <1>4. CASE ~(S > 0)
    <2>1. S = 0 /\ ~m /\ ~g
      BY <1>1, <1>4
    <2>2. 1 \in S + 1 .. P
      BY <1>1, <2>1
    <2>3. ClearedNumeric = Whole("NotComplete", <<>>, InvalidRadix, "Unspecified", <<>>)
      BY DEF ClearedNumeric, Whole
    <2>4. SubSeq(t, S + 1, 1 - 1) = <<>>
      <3>1. S + 1 \in Int /\ 1 - 1 \in Int /\ 1 - 1 < S + 1
        BY <2>1
      <3> QED
        BY <3>1, SubSeqEmpty, Zenon
    <2>5. InIntegral(ClearedNumeric, 1, t, m, g, S, P, R)
      BY <2>1, <2>2, <2>3, <2>4, Zenon DEF InIntegral
    <2> QED
      BY <1>2, <2>5 DEF NumericAt
  <1> QED
    BY <1>3, <1>4

LEMMA EntryFollows ==
  ASSUME LiteralsInv, NEW t,
         \/ t \in NumericTexts /\ StateNumericLiteralEntry(t)
         \/ t \in StringTexts /\ StateStringLiteralEntry(t)
  PROVE  NumbersInv'
  <1>1. last' = <<"None", "NotComplete">> /\ text' = t /\ next' = 1 /\ t \in Seq(0 .. 127)
    BY LiteralsAssumption DEF StateNumericLiteralEntry, StateStringLiteralEntry
  <1>2. last'[1] = "None" /\ ~IsComplete("Hash")'
    BY <1>1 DEF IsComplete
  <1>3. mCurState' = "NumericLiteral" => numeric' = ClearedNumeric /\ ~mParseError'
    BY DEF StateNumericLiteralEntry, StateStringLiteralEntry, LiteralsInv, Parsing
  <1>4. LastIsBehind'
    BY <1>2 DEF LastIsBehind
  <1>5. ASSUME NEW k, NEW S, NEW P, NEW R, NEW m \in BOOLEAN, NEW g \in BOOLEAN,
               ReadingAt(t, k, m, g, S, P, R), mCurState' = "NumericLiteral"
        PROVE  ~mParseError' /\ next' <= k /\ NumericAt(numeric', next', t, k, m, g, S, P, R)
    <2>1. 1 <= k /\ NumericAt(ClearedNumeric, 1, t, k, m, g, S, P, R)
      BY <1>1, <1>5, NumbersBegin, Zenon
    <2> QED
      BY <1>1, <1>3, <1>5, <2>1, Zenon
  <1>6. NumbersAreFollowed'
    <2> SUFFICES ASSUME NEW k, NEW S, NEW P, NEW R, NEW m \in BOOLEAN, NEW g \in BOOLEAN,
                        ReadingAt(text', k, m, g, S, P, R)
                 PROVE  /\ mCurState' = "NumericLiteral" =>
                               ~mParseError' /\ next' <= k /\ NumericAt(numeric', next', text', k, m, g, S, P, R)
                        /\ IsComplete("Hash")' => next' = k + 1 /\ numeric' = NumericRead(text', k, g, S, P, R)
      BY Zenon DEF NumbersAreFollowed
    <2> QED
      BY <1>1, <1>2, <1>5, Zenon
  <1> QED
    BY <1>4, <1>6 DEF NumbersInv

\* A run ends in front of the next one.
LEMMA RunIsBehind ==
  ASSUME LiteralsTypeOK, next <= Len(text), NEW result, Parsed(result)
  PROVE  LastIsBehind'
  <1>1. text \in Seq(0 .. 127) /\ next \in 1 .. Len(text)
    BY DEF LiteralsTypeOK
  <1>2. PICK to \in next .. Len(text) :
             /\ IsRun(text, next, to)
             /\ RunAt(text, next) = [category |-> Category(text[next]), str |-> SubSeq(text, next, to)]
    BY <1>1, RunsAreRuns
  <1>3. Len(SubSeq(text, next, to)) = to - next + 1
    <2>1. next \in Int /\ to \in Int /\ 1 <= next /\ to <= Len(text) /\ next <= to + 1
      BY <1>1
    <2> QED
      BY <1>1, <2>1, Cuts, Zenon
  <1>4. PICK n : n = Len(Run.str)
    OBVIOUS
  <1>5. n = to - next + 1
    <2>0. Run = [category |-> Category(text[next]), str |-> SubSeq(text, next, to)]
      BY <1>2, Zenon DEF Run
    <2>1. Run.str = SubSeq(text, next, to)
      BY <2>0
    <2> QED
      BY <1>3, <1>4, <2>1, Zenon
  <1>6. next' = next + n /\ text' = text /\ last'[1] = Category(text[next])
    BY <1>2, <1>4 DEF Parsed, Run
  <1>7. next' - 1 = to /\ to \in 1 .. Len(text)
    BY <1>1, <1>5, <1>6
  <1>8. Category(text[to]) = Category(text[next])
    BY <1>2 DEF IsRun
  <1> QED
    BY <1>6, <1>7, <1>8, Zenon DEF LastIsBehind

\* A parser on its way has not decided, and one at the end has.
LEMMA ReadResult == \A t, k, g, S, P, R : NumericRead(t, k, g, S, P, R).mLastParseResult = "Complete"
  <1>1. \A u, r, s, d, f : /\ Whole("Complete", u, r, s, d).mLastParseResult = "Complete"
                          /\ Broken("Complete", u, r, s, d, f).mLastParseResult = "Complete"
    BY DEF Whole, Broken
  <1> QED
    BY <1>1, Zenon DEF NumericRead

LEMMA FollowedResults ==
  ASSUME NEW q, NEW i, NEW t, NEW k, NEW m, NEW g, NEW S, NEW P, NEW R, NumericAt(q, i, t, k, m, g, S, P, R)
  PROVE  q.mLastParseResult = "NotComplete"
  <1>1. \A u, r, s, d, f : /\ Whole("NotComplete", u, r, s, d).mLastParseResult = "NotComplete"
                          /\ Broken("NotComplete", u, r, s, d, f).mLastParseResult = "NotComplete"
    BY DEF Whole, Broken
  <1>2. ClearedNumeric.mLastParseResult = "NotComplete"
    BY DEF ClearedNumeric
  <1> QED
    BY <1>1, <1>2, Zenon DEF NumericAt, InMarker, BehindMarker, InIntegral, InFractional

LEMMA NumericFollows ==
  ASSUME LiteralsInv, NumbersInv, StateNumericLiteralEvaluate
  PROVE  NumbersInv'
  <1>1. /\ mCurState = "NumericLiteral" /\ ~mParseError /\ next <= Len(text) /\ LiteralsTypeOK
        /\ text \in Seq(0 .. 127) /\ next \in Nat
    BY DEF StateNumericLiteralEvaluate, LiteralsInv, LiteralsTypeOK
  <1>2. PICK run, q : run = Run /\ q = NumericParseSymbols(numeric, run)
    OBVIOUS
  <1>3. numeric' = q /\ Parsed(q.mLastParseResult)
    BY <1>2 DEF StateNumericLiteralEvaluate
  <1>4. /\ next' = next + Len(run.str) /\ last' = <<run.category, q.mLastParseResult>>
        /\ mParseError' = (q.mLastParseResult = "Error") /\ text' = text
        /\ mCurState' = IF q.mLastParseResult = "Complete" THEN "MainSequence" ELSE mCurState
    BY <1>2, <1>3 DEF Parsed
  <1>5. LastIsBehind'
    BY <1>1, <1>3, RunIsBehind, Zenon
  <1>6. ASSUME NEW k, NEW S, NEW P, NEW R, NEW m \in BOOLEAN, NEW g \in BOOLEAN,
               ReadingAt(text, k, m, g, S, P, R)
        PROVE  /\ mCurState' = "NumericLiteral" =>
                      ~mParseError' /\ next' <= k /\ NumericAt(numeric', next', text, k, m, g, S, P, R)
               /\ IsComplete("Hash")' => next' = k + 1 /\ numeric' = NumericRead(text, k, g, S, P, R)
    <2>1. next <= k /\ NumericAt(numeric, next, text, k, m, g, S, P, R)
      BY <1>1, <1>6, Zenon DEF NumbersInv, NumbersAreFollowed
    <2>2. LeadsOn(q, next, next + Len(run.str), text, k, m, g, S, P, R)
      <3>1. run = RunAt(text, next)
        BY <1>2 DEF Run
      <3> QED
        BY <1>1, <1>2, <1>6, <2>1, <3>1, NumericReads, Zenon
    <2>3. k \in Nat
      BY <1>6 DEF ReadingAt
    <2>4. CASE next < k
      <3>1. next' <= k /\ NumericAt(q, next', text, k, m, g, S, P, R)
        BY <1>4, <2>2, <2>4, Zenon DEF LeadsOn
      <3>2. q.mLastParseResult = "NotComplete"
        BY <3>1, FollowedResults, Zenon
      <3>3. ~mParseError' /\ ~IsComplete("Hash")'
        BY <1>4, <3>2 DEF IsComplete
      <3> QED
        BY <1>3, <3>1, <3>3, Zenon
    <2>5. CASE next = k
      <3>1. next' = k + 1 /\ q = NumericRead(text, k, g, S, P, R)
        BY <1>4, <2>2, <2>5, Zenon DEF LeadsOn
      <3>2. q.mLastParseResult = "Complete"
        <4>1. NumericRead(text, k, g, S, P, R).mLastParseResult = "Complete"
          BY ReadResult, Zenon
        <4> QED
          BY <3>1, <4>1, Zenon
      <3>3. mCurState' # "NumericLiteral"
        BY <1>4, <3>2
      <3> QED
        BY <1>3, <3>1, <3>3, Zenon
    <2> QED
      BY <1>1, <2>1, <2>3, <2>4, <2>5
  <1>7. NumbersAreFollowed'
    <2> SUFFICES ASSUME NEW k, NEW S, NEW P, NEW R, NEW m \in BOOLEAN, NEW g \in BOOLEAN,
                        ReadingAt(text', k, m, g, S, P, R)
                 PROVE  /\ mCurState' = "NumericLiteral" =>
                               ~mParseError' /\ next' <= k /\ NumericAt(numeric', next', text', k, m, g, S, P, R)
                        /\ IsComplete("Hash")' => next' = k + 1 /\ numeric' = NumericRead(text', k, g, S, P, R)
      BY Zenon DEF NumbersAreFollowed
    <2> QED
      BY <1>4, <1>6, Zenon
  <1> QED
    BY <1>5, <1>7 DEF NumbersInv

LEMMA StringLeaves ==
  ASSUME LiteralsInv, StateStringLiteralEvaluate \/ StringIsRead \/ StringIsIgnored
  PROVE  NumbersInv'
  <1>1. PICK q : q = StringParseSymbols(string, Run)
    OBVIOUS
  <1>2. PICK result : result = q.mLastParseResult
    OBVIOUS
  <1>3. /\ mCurState = "StringLiteral" /\ ~mParseError /\ next <= Len(text) /\ Parsed(result)
    BY <1>1, <1>2 DEF StateStringLiteralEvaluate, StringIsRead, StringIsIgnored
  <1>4. LastIsBehind'
    BY <1>3, RunIsBehind, Zenon DEF LiteralsInv
  <1>5. result \in Verdicts("StringLiteral", Run.category) /\ last' = <<Run.category, result>>
    BY <1>1, <1>2, <1>3, StringRun, Zenon
  <1>6. ~IsComplete("Hash")'
    BY <1>5 DEF IsComplete, Verdicts
  <1>7. mCurState' # "NumericLiteral"
    BY <1>3 DEF Parsed
  <1> QED
    BY <1>4, <1>6, <1>7, Zenon DEF NumbersInv, NumbersAreFollowed

LEMMA NumbersStep ==
  ASSUME LiteralsInv, NumbersInv, [Next]_vars
  PROVE  NumbersInv'
  <1>1. CASE UNCHANGED vars
    <2>1. /\ text' = text /\ next' = next /\ last' = last /\ mCurState' = mCurState
          /\ mParseError' = mParseError /\ numeric' = numeric
      BY <1>1 DEF vars
    <2>2. IsComplete("Hash")' = IsComplete("Hash")
      BY <2>1 DEF IsComplete
    <2>3. LastIsBehind'
      BY <2>1 DEF NumbersInv, LastIsBehind
    <2>4. NumbersAreFollowed'
      <3> SUFFICES ASSUME NEW k, NEW S, NEW P, NEW R, NEW m \in BOOLEAN, NEW g \in BOOLEAN,
                          ReadingAt(text', k, m, g, S, P, R)
                   PROVE  /\ mCurState' = "NumericLiteral" =>
                                 ~mParseError' /\ next' <= k /\ NumericAt(numeric', next', text', k, m, g, S, P, R)
                          /\ IsComplete("Hash")' => next' = k + 1 /\ numeric' = NumericRead(text', k, g, S, P, R)
        BY Zenon DEF NumbersAreFollowed
      <3>1. ReadingAt(text, k, m, g, S, P, R)
        BY <2>1, Zenon
      <3>2. /\ mCurState = "NumericLiteral" =>
                   ~mParseError /\ next <= k /\ NumericAt(numeric, next, text, k, m, g, S, P, R)
            /\ IsComplete("Hash") => next = k + 1 /\ numeric = NumericRead(text, k, g, S, P, R)
        BY <3>1, Zenon DEF NumbersInv, NumbersAreFollowed
      <3> QED
        BY <2>1, <2>2, <3>2, Zenon
    <2> QED
      BY <2>3, <2>4 DEF NumbersInv
  <1>2. CASE Next
    <2>1. ASSUME NEW t \in NumericTexts, StateNumericLiteralEntry(t) PROVE NumbersInv'
      BY <2>1, EntryFollows, Zenon
    <2>2. ASSUME NEW t \in StringTexts, StateStringLiteralEntry(t) PROVE NumbersInv'
      BY <2>2, EntryFollows, Zenon
    <2> QED
      BY <1>2, <2>1, <2>2, NumericFollows, StringLeaves, Zenon DEF Next
  <1> QED
    BY <1>1, <1>2

LEMMA NumbersInvariant == Spec => []NumbersInv
  <1>1. LiteralsInv /\ NumbersInv /\ [Next]_vars => NumbersInv'
    BY NumbersStep
  <1> QED
    BY NumbersInitially, LiteralsInvariant, <1>1, PTL DEF Spec

\* The digits of a number that was read, and what they count.
LEMMA NumberWasRead ==
  ASSUME LiteralsInv, NumbersInv, IsComplete("Hash"), NEW n \in Readings(Body), IsReading(n, Body)
  PROVE  /\ numeric.mRadix = RadixRead(n, Body)
         /\ numeric.sign = IF n.signed /\ Body[Skipped(n)] = Minus THEN "Negative" ELSE "Positive"
         /\ numeric.integral = DigitsOf(SubSeq(Body, Skipped(n) + 1, n.point - 1))
         /\ numeric.fractional = DigitsOf(SubSeq(Body, n.point + 1, Len(Body)))
         /\ numeric.mRadix \in Radixes
  <1>1. last[1] = "Hash"
    BY DEF IsComplete
  <1>2. next - 1 \in 1 .. Len(text) /\ Category(text[next - 1]) = "Hash"
    BY <1>1 DEF NumbersInv, LastIsBehind
  <1>3. PICK k \in 1 .. Len(text) : k = next - 1 /\ Category(text[k]) = "Hash"
    BY <1>2
  <1>4. text \in Seq(0 .. 127) /\ next \in Int
    BY DEF LiteralsInv, LiteralsTypeOK
  <1>5. next - 2 = k - 1
    BY <1>3, <1>4
  <1>6. PICK b : b = Body
    OBVIOUS
  <1>7. b = SubSeq(text, 1, k - 1)
    BY <1>5, <1>6, Zenon DEF Body
  <1>8. PICK S, P, R : S = Skipped(n) /\ P = n.point /\ R = RadixRead(n, b)
    OBVIOUS
  <1>9. n \in Readings(b) /\ IsReading(n, b)
    BY <1>6, Zenon
  <1>10. /\ ReadingAt(text, k, n.marked, n.signed, S, P, R)
         /\ SubSeq(b, S + 1, P - 1) = SubSeq(text, S + 1, P - 1)
         /\ DigitsOf(SubSeq(b, P + 1, Len(b))) =
                IF P = k THEN <<>> ELSE DigitsOf(SubSeq(text, P + 1, k - 1))
         /\ n.signed => b[S] = text[S]
         /\ n.marked \in BOOLEAN /\ n.signed \in BOOLEAN
    <2>1. n \in Readings(SubSeq(text, 1, k - 1)) /\ IsReading(n, SubSeq(text, 1, k - 1))
      BY <1>7, <1>9, Zenon
    <2>2. IsReadAs(text, k, SubSeq(text, 1, k - 1), n, Skipped(n), n.point, RadixRead(n, SubSeq(text, 1, k - 1)))
      BY <1>3, <1>4, <2>1, ReadingIsAt, Zenon
    <2>3. IsReadAs(text, k, b, n, S, P, R)
      BY <1>7, <1>8, <2>2, Zenon
    <2> QED
      BY <2>3, Zenon DEF IsReadAs
  <1>11. numeric = NumericRead(text, k, n.signed, S, P, R)
    BY <1>10, Zenon DEF NumbersInv, NumbersAreFollowed
  <1>12. PICK d, e, x : /\ d = DigitsOf(SubSeq(text, S + 1, P - 1)) /\ e = DigitsOf(SubSeq(text, P + 1, k - 1))
                        /\ x = SignRead(text, n.signed, S)
    OBVIOUS
  <1>13. numeric = IF P = k THEN Whole("Complete", <<>>, R, x, d) ELSE Broken("Complete", <<>>, R, x, d, e)
    BY <1>11, <1>12, Zenon DEF NumericRead
  <1>14. numeric.mRadix = R /\ numeric.sign = x /\ numeric.integral = d
         /\ numeric.fractional = IF P = k THEN <<>> ELSE e
    BY <1>13 DEF Whole, Broken
  <1>15. x = IF n.signed /\ b[S] = Minus THEN "Negative" ELSE "Positive"
    BY <1>10, <1>12, Zenon DEF SignRead
  <1>16. R \in Radixes
    BY <1>10, Zenon DEF ReadingAt
  <1> QED
    BY <1>6, <1>8, <1>10, <1>12, <1>14, <1>15, <1>16, Zenon

\* Whatever the texts: a number that was accepted has the radix, the sign and the digits that were
\* written, and the value that GetUint gives is theirs, or it is refused.
THEOREM NumbersAreAsWritten == Spec => []NumbersMeanTheirText
  <1>1. ASSUME LiteralsInv, NumbersInv PROVE NumbersMeanTheirText
    <2> SUFFICES ASSUME IsComplete("Hash"), NEW n \in Readings(Body), IsReading(n, Body)
                 PROVE  /\ numeric.mRadix = RadixRead(n, Body)
                        /\ numeric.sign = IF n.signed /\ Body[Skipped(n)] = Minus THEN "Negative" ELSE "Positive"
                        /\ numeric.integral = DigitsOf(SubSeq(Body, Skipped(n) + 1, n.point - 1))
                        /\ numeric.fractional = DigitsOf(SubSeq(Body, n.point + 1, Len(Body)))
                        /\ GetUint(numeric, UintBits) \in {PlaceValue(numeric.integral, numeric.mRadix), NoNumber}
      BY Zenon DEF NumbersMeanTheirText
    <2>1. /\ numeric.mRadix = RadixRead(n, Body)
          /\ numeric.sign = IF n.signed /\ Body[Skipped(n)] = Minus THEN "Negative" ELSE "Positive"
          /\ numeric.integral = DigitsOf(SubSeq(Body, Skipped(n) + 1, n.point - 1))
          /\ numeric.fractional = DigitsOf(SubSeq(Body, n.point + 1, Len(Body)))
          /\ numeric.mRadix \in Radixes
      BY <1>1, NumberWasRead, Zenon
    <2>2. PICK d, r, v : d = numeric.integral /\ r = numeric.mRadix /\ v = GetUint64(d, r)
      OBVIOUS
    <2>3. d \in Seq(0 .. 35) /\ r \in {2, 8, 10, 16}
      BY <1>1, <2>1, <2>2 DEF LiteralsInv, LiteralsTypeOK, NumericParsers, Radixes
    <2>4. d \in Seq(Nat)
      <3>1. \A i \in 1 .. Len(d) : d[i] \in Nat
        <4>1. \A i \in 1 .. Len(d) : d[i] \in 0 .. 35
          BY <2>3, ElementOfSeq, Zenon
        <4>2. \A c \in 0 .. 35 : c \in Nat
          OBVIOUS
        <4> QED
          BY <4>1, <4>2, Zenon
      <3> QED
        BY <2>3, <3>1, Retyped, Zenon
    <2>5. v \in {PlaceValue(d, r), NoNumber}
      BY <2>2, <2>3, <2>4, NumbersHaveTheirValue, Zenon
    <2>6. GetUint(numeric, UintBits) \in {v, NoNumber}
      BY <2>2, Zenon DEF GetUint
    <2> QED
      BY <2>1, <2>2, <2>5, <2>6, Zenon
  <1> QED
    BY LiteralsInvariant, NumbersInvariant, <1>1, PTL

\* No number is refused.
LEMMA NumbersAreAccepted ==
  ASSUME LiteralsInv, NumbersInv, mParseError, mCurState = "NumericLiteral",
         NEW k \in 1 .. Len(text), Category(text[k]) = "Hash"
  PROVE  ~IsNumber(SubSeq(text, 1, k - 1))
  <1> SUFFICES ASSUME NEW n \in Readings(SubSeq(text, 1, k - 1)), IsReading(n, SubSeq(text, 1, k - 1))
               PROVE  FALSE
    BY Zenon DEF IsNumber
  <1>1. text \in Seq(0 .. 127)
    BY DEF LiteralsInv, LiteralsTypeOK
  <1>2. PICK b, S, P, R : b = SubSeq(text, 1, k - 1) /\ S = Skipped(n) /\ P = n.point
                          /\ R = RadixRead(n, SubSeq(text, 1, k - 1))
    OBVIOUS
  <1>3. IsReadAs(text, k, SubSeq(text, 1, k - 1), n, Skipped(n), n.point, RadixRead(n, SubSeq(text, 1, k - 1)))
    BY <1>1, ReadingIsAt, Zenon
  <1>4. IsReadAs(text, k, b, n, S, P, R)
    BY <1>2, <1>3, Zenon
  <1>5. ReadingAt(text, k, n.marked, n.signed, S, P, R) /\ n.marked \in BOOLEAN /\ n.signed \in BOOLEAN
    BY <1>4, Zenon DEF IsReadAs
  <1>6. ~mParseError
    BY <1>5, Zenon DEF NumbersInv, NumbersAreFollowed
  <1> QED
    BY <1>6, Zenon

-----------------------------------------------------------------------------
(* The items of a string *)

\* The digits that follow a position.
LEMMA DigitsFollow ==
  ASSUME NEW t \in Seq(0 .. 127), NEW i \in 1 .. Len(t)
  PROVE  LET n == DigitsAfter(t, i)
         IN  /\ n \in 0 .. Len(t) - i
             /\ \A j \in i + 1 .. i + n : Category(t[j]) = "DecimalDigits"
             /\ i + n = Len(t) \/ Category(t[i + n + 1]) # "DecimalDigits"
  <1> DEFINE follow(n) == \A j \in i + 1 .. i + n : Category(t[j]) = "DecimalDigits"
             end(n) == i + n = Len(t) \/ Category(t[i + n + 1]) # "DecimalDigits"
             ends == {n \in 0 .. Len(t) - i : end(n)}
  <1>0. i \in Nat /\ Len(t) \in Nat /\ i <= Len(t)
    OBVIOUS
  <1>1. PICK n \in ends : \A m \in ends : ~(m < n)
    <2>1. ends \in SUBSET Nat
      BY <1>0
    <2>2. Len(t) - i \in ends
      BY <1>0
    <2> QED
      BY <2>1, <2>2, LeastNumber
  <1>2. follow(n)
    <2> SUFFICES ASSUME NEW j \in i + 1 .. i + n PROVE Category(t[j]) = "DecimalDigits"
      OBVIOUS
    <2>1. j - i - 1 \in 0 .. Len(t) - i /\ j - i - 1 < n /\ i + (j - i - 1) + 1 = j /\ i + (j - i - 1) # Len(t)
      BY <1>0
    <2>2. j - i - 1 \notin ends
      BY <2>1, <1>1
    <2> QED
      BY <2>1, <2>2
  <1>3. n \in 0 .. Len(t) - i /\ end(n)
    OBVIOUS
  <1> HIDE DEF follow, end, ends
  <1>4. DigitsAfter(t, i) = CHOOSE m \in 0 .. Len(t) - i : follow(m) /\ end(m)
    BY Zenon DEF DigitsAfter, follow, end
  <1>5. PICK m : m = DigitsAfter(t, i)
    OBVIOUS
  <1>6. m \in 0 .. Len(t) - i /\ follow(m) /\ end(m)
    BY <1>2, <1>3, <1>4, <1>5
  <1> QED
    BY <1>5, <1>6 DEF follow, end

\* There is no more than one such number.
LEMMA DigitsEnd ==
  ASSUME NEW t \in Seq(0 .. 127), NEW i \in 1 .. Len(t), NEW n \in 0 .. Len(t) - i,
         \A j \in i + 1 .. i + n : Category(t[j]) = "DecimalDigits",
         i + n = Len(t) \/ Category(t[i + n + 1]) # "DecimalDigits"
  PROVE  DigitsAfter(t, i) = n
  <1>1. PICK m \in 0 .. Len(t) - i :
             /\ m = DigitsAfter(t, i)
             /\ \A j \in i + 1 .. i + m : Category(t[j]) = "DecimalDigits"
             /\ i + m = Len(t) \/ Category(t[i + m + 1]) # "DecimalDigits"
    BY DigitsFollow
  <1>2. CASE m < n
    <2>1. i + m + 1 \in i + 1 .. i + n /\ i + m # Len(t)
      BY <1>2
    <2> QED
      BY <1>1, <2>1
  <1>3. CASE n < m
    <2>1. i + n + 1 \in i + 1 .. i + m /\ i + n # Len(t)
      BY <1>3
    <2> QED
      BY <1>1, <2>1
  <1> QED
    BY <1>1, <1>2, <1>3

\* The number of digits of the code point of the escape at a, which n digits announce.
WidthAt(t, a, n) ==
    IF n = 0 THEN CodePointEscape(t[a + 1]).default
    ELSE PlaceValue(DigitsOf(SubSeq(t, a + 1, a + n)), 10)

\* The escape at a, after n digits, is a code point of w digits.
IsCodePoint(t, a, n, w, item) ==
    LET at == a + n + 1
        form == CodePointEscape(t[at])
        digits == SubSeq(t, at + 1, at + w)
        cp == ToCodePoint(form.converter, PlaceValue(DigitsOf(digits), form.radix))
    IN  /\ t[at] \in CodePointEscapes /\ w \in Widths(t[at]) /\ w \in 1 .. 32
        /\ at + w <= Len(t) /\ AreDigits(digits, form.radix)
        /\ cp \in CodePoints
        /\ item = [size |-> n + 2 + w, cp |-> cp]

IsSimple(t, a, n, item) ==
    /\ n = 0 /\ t[a + 1] \in SimpleEscapes
    /\ item = [size |-> 2, cp |-> SimpleEscape(t[a + 1])]

\* The value of digits is a number.
LEMMA PlaceValueTyped ==
  ASSUME NEW t \in Seq(0 .. 127), NEW radix, AreDigits(t, radix), radix \in Nat
  PROVE  PlaceValue(DigitsOf(t), radix) \in Nat /\ PlaceValue(DigitsOf(t), radix) = Horner(DigitsOf(t), radix)
  <1>1. PICK d \in Seq(0 .. 35) : d = DigitsOf(t)
    BY DigitsAreTyped
  <1>2. d \in Seq(Nat)
    <2>1. \A i \in 1 .. Len(d) : d[i] \in 0 .. 35
      BY ElementOfSeq, Zenon
    <2>2. \A x \in 0 .. 35 : x \in Nat
      OBVIOUS
    <2> QED
      BY <2>1, <2>2, Retyped, Zenon
  <1>3. Horner(d, radix) \in Nat /\ Horner(d, radix) = PlaceValue(d, radix)
    BY <1>2, HornerTyped, HornerIsPlaceValue, Zenon
  <1> QED
    BY <1>1, <1>3, Zenon

\* An escape is a simple one, or a code point in digits, or none.
LEMMA EscapesAre ==
  ASSUME NEW t \in Seq(0 .. 127), NEW a \in 1 .. Len(t), NEW n, n = DigitsAfter(t, a), NEW item, item = EscapeAt(t, a)
  PROVE  \/ item = NoItem
         \/ a + n + 1 <= Len(t) /\ IsSimple(t, a, n, item)
         \/ a + n + 1 <= Len(t) /\ IsCodePoint(t, a, n, WidthAt(t, a, n), item)
  <1>0. n \in Nat /\ a \in Nat /\ Len(t) \in Nat
    BY DigitsFollow
  <1> DEFINE at == a + n + 1
             c == t[at]
             form == CodePointEscape(c)
             w == WidthAt(t, a, n)
             digits == SubSeq(t, at + 1, at + w)
             cp == ToCodePoint(form.converter, PlaceValue(DigitsOf(digits), form.radix))
             simple == at <= Len(t) /\ n = 0 /\ c \in SimpleEscapes
             point == /\ at <= Len(t) /\ c \in CodePointEscapes /\ w \in Widths(c)
                      /\ at + w <= Len(t) /\ AreDigits(digits, form.radix)
                      /\ cp # Undefined /\ IsValidCodePoint(cp)
  <1>1. w = IF n = 0 THEN form.default ELSE PlaceValue(DigitsOf(SubSeq(t, a + 1, a + n)), 10)
    <2>1. n = 0 => at = a + 1
      BY <1>0
    <2> QED
      BY <2>1, Zenon DEF WidthAt
  <1>2. item = CASE at > Len(t) -> NoItem
                 [] simple -> [size |-> 2, cp |-> SimpleEscape(c)]
                 [] point -> [size |-> n + 2 + w, cp |-> cp]
                 [] OTHER -> NoItem
    BY <1>1, Zenon DEF EscapeAt
  <1>3. CASE point
    <2>1. c \in CodePointEscapes /\ w \in Widths(c)
      BY <1>3
    <2>2. w \in 1 .. 32
      BY <2>1 DEF Widths
    <2>3. form.radix \in Nat
      BY <2>1 DEF CodePointEscapes, CodePointEscape
    <2>4. digits \in Seq(0 .. 127)
      <3>0. at + w <= Len(t)
        BY <1>3, Zenon
      <3>1. at + 1 \in Int /\ at + w \in Int /\ 1 <= at + 1 /\ at + w <= Len(t) /\ at + 1 <= at + w + 1
        <4> HIDE DEF w
        <4>1. at \in Int /\ w \in Int /\ 1 <= at /\ 1 <= w
          BY <1>0, <2>2
        <4>2. \A x, y \in Int : 1 <= x /\ 1 <= y
                  => x + 1 \in Int /\ x + y \in Int /\ 1 <= x + 1 /\ x + 1 <= x + y + 1
          OBVIOUS
        <4> QED
          BY <3>0, <4>1, <4>2, Zenon
      <3> QED
        BY <3>1, Cuts, Zenon
    <2>5. cp \in CodePoints
      <3>1. PlaceValue(DigitsOf(digits), form.radix) \in Nat
        BY <1>3, <2>3, <2>4, PlaceValueTyped, Zenon
      <3> QED
        BY <1>3, <3>1, EscapedCodePoints, Zenon
    <2>6. ~simple /\ ~(at > Len(t))
      <3>1. c \notin SimpleEscapes
        BY <2>1 DEF CodePointEscapes, SimpleEscapes, DoubleQuotes, Backslash
      <3> QED
        BY <1>0, <1>3, <3>1
    <2>7. item = [size |-> n + 2 + w, cp |-> cp]
      <3> HIDE DEF simple, point, at, w, cp
      <3> QED
        BY <1>2, <1>3, <2>6
    <2>8. IsCodePoint(t, a, n, w, item)
      BY <1>3, <2>2, <2>5, <2>7, Zenon DEF IsCodePoint
    <2> QED
      BY <1>3, <2>8
  <1>4. CASE simple
    <2>0. c \notin CodePointEscapes
      BY <1>4 DEF CodePointEscapes, SimpleEscapes, DoubleQuotes, Backslash
    <2>1. ~(at > Len(t)) /\ c = t[a + 1] /\ ~point
      BY <1>0, <1>4, <2>0
    <2>2. item = [size |-> 2, cp |-> SimpleEscape(c)]
      <3> HIDE DEF simple, point, at, w, cp, c
      <3> QED
        BY <1>2, <1>4, <2>1
    <2>3. n = 0 /\ c \in SimpleEscapes
      BY <1>4
    <2>4. IsSimple(t, a, n, item)
      <3> HIDE DEF c
      <3> QED
        BY <2>1, <2>2, <2>3 DEF IsSimple
    <2> QED
      BY <1>4, <2>4, Zenon
  <1>5. CASE ~simple /\ ~point
    <2> HIDE DEF simple, point, at, w, cp, c
    <2> QED
      BY <1>2, <1>5
  <1> QED
    BY <1>3, <1>4, <1>5

\* What an item is.
LEMMA ItemsAre ==
  ASSUME NEW t \in Seq(0 .. 127), NEW i \in 1 .. Len(t)
  PROVE  /\ ItemAt(t, i).size \in Nat /\ ItemAt(t, i).cp \in Int
         /\ i + ItemAt(t, i).size \in 1 .. Len(t) + 1
  <1>0. i \in Nat /\ Len(t) \in Nat /\ i <= Len(t) /\ 1 <= i /\ t[i] \in 0 .. 127
    <2>1. t[i] \in 0 .. 127
      BY ElementOfSeq, Zenon
    <2> QED
      BY <2>1
  <1>1. NoItem.size = 0 /\ NoItem.cp \in Int
    BY DEF NoItem, Undefined
  <1>2. CASE t[i] = Backslash
    <2>1. PICK item, n : item = EscapeAt(t, i) /\ n = DigitsAfter(t, i)
      OBVIOUS
    <2>2. ItemAt(t, i) = item
      BY <1>2, <2>1, Zenon DEF ItemAt
    <2>3. \/ item = NoItem
          \/ i + n + 1 <= Len(t) /\ IsSimple(t, i, n, item)
          \/ i + n + 1 <= Len(t) /\ IsCodePoint(t, i, n, WidthAt(t, i, n), item)
      BY <2>1, EscapesAre
    <2>4. n \in Nat
      BY <2>1, DigitsFollow
    <2>5. CASE item = NoItem
      BY <1>0, <1>1, <2>2, <2>5
    <2>6. CASE i + n + 1 <= Len(t) /\ IsSimple(t, i, n, item)
      <3>1. n = 0 /\ item = [size |-> 2, cp |-> SimpleEscape(t[i + 1])] /\ t[i + 1] \in SimpleEscapes
        BY <2>6, Zenon DEF IsSimple
      <3>2. SimpleEscape(t[i + 1]) \in Int
        BY <3>1 DEF SimpleEscapes, SimpleEscape, DoubleQuotes, Backslash
      <3> QED
        BY <1>0, <2>2, <2>6, <3>1, <3>2
    <2>7. CASE i + n + 1 <= Len(t) /\ IsCodePoint(t, i, n, WidthAt(t, i, n), item)
      <3>1. PICK w, cp : /\ w \in 1 .. 32 /\ i + n + 1 + w <= Len(t) /\ cp \in CodePoints
                         /\ item = [size |-> n + 2 + w, cp |-> cp]
        BY <2>7, Zenon DEF IsCodePoint
      <3>2. cp \in Int
        BY <3>1, Largest DEF CodePoints
      <3>3. n + 2 + w \in Nat /\ i + (n + 2 + w) \in 1 .. Len(t) + 1
        BY <1>0, <2>4, <3>1
      <3>4. item.size = n + 2 + w /\ item.cp = cp
        BY <3>1
      <3> QED
        BY <2>2, <3>2, <3>3, <3>4, Zenon
    <2> QED
      BY <2>3, <2>5, <2>6, <2>7
  <1>3. CASE t[i] # Backslash
    <2>1. ItemAt(t, i) \in {[size |-> 1, cp |-> t[i]], NoItem}
      BY <1>3, Zenon DEF ItemAt
    <2>2. CASE ItemAt(t, i) = [size |-> 1, cp |-> t[i]]
      <3>1. i + 1 \in 1 .. Len(t) + 1
        OBVIOUS
      <3>2. ItemAt(t, i).size = 1 /\ ItemAt(t, i).cp = t[i]
        BY <2>2
      <3>3. \A c \in 0 .. 127 : c \in Int
        OBVIOUS
      <3> QED
        BY <1>0, <3>1, <3>2, <3>3
    <2>3. CASE ItemAt(t, i) = NoItem
      BY <1>0, <1>1, <2>3
    <2> QED
      BY <2>1, <2>2, <2>3, Zenon
  <1> QED
    BY <1>2, <1>3

\* Where the items begin, symbol after symbol.
LEMMA BehindSteps ==
  ASSUME NEW t \in Seq(0 .. 127)
  PROVE  /\ Behind(t)[0] = 1
         /\ \A i \in 1 .. Len(t) :
                Behind(t)[i] = IF Behind(t)[i - 1] = i THEN i + ItemAt(t, i).size ELSE Behind(t)[i - 1]
  <1> DEFINE G == [i \in 1 .. Len(t) |-> [x \in Nat |-> IF x = i THEN i + ItemAt(t, i).size ELSE x]]
             f == CHOOSE f : f = [i \in 0 .. Len(t) |->
                                      IF i = 0 THEN 1
                                      ELSE IF f[i - 1] = i THEN i + ItemAt(t, i).size ELSE f[i - 1]]
  <1>0. Len(t) \in Nat /\ \A i \in 1 .. Len(t) : ItemAt(t, i).size \in Nat
    BY ItemsAre
  <1>1. \A x \in Nat : \A i \in 1 .. Len(t) : G[i][x] \in Nat
    BY <1>0
  <1>2. PICK g : AreSteps(g, G, 1, Len(t)) /\ \A i \in 0 .. Len(t) : g[i] \in Nat
    <2> HIDE DEF G
    <2> QED
      BY <1>0, <1>1, StepsInSet
  <1>3. g = [i \in 0 .. Len(t) |->
                 IF i = 0 THEN 1 ELSE IF g[i - 1] = i THEN i + ItemAt(t, i).size ELSE g[i - 1]]
    <2>1. ASSUME NEW i \in 0 .. Len(t), i # 0
          PROVE  G[i][g[i - 1]] = IF g[i - 1] = i THEN i + ItemAt(t, i).size ELSE g[i - 1]
      <3>1. i - 1 \in 0 .. Len(t) /\ i \in 1 .. Len(t)
        BY <1>0, <2>1
      <3>2. g[i - 1] \in Nat
        BY <1>2, <3>1
      <3> QED
        BY <3>1, <3>2
    <2> HIDE DEF G
    <2> QED
      BY <1>2, <2>1 DEF AreSteps
  <1>4. f = [i \in 0 .. Len(t) |->
                 IF i = 0 THEN 1 ELSE IF f[i - 1] = i THEN i + ItemAt(t, i).size ELSE f[i - 1]]
    BY <1>3, Zenon
  <1>5. Behind(t) = f
    BY Zenon DEF Behind
  <1> HIDE DEF f
  <1>6. 0 \in 0 .. Len(t) /\ \A i \in 1 .. Len(t) : i \in 0 .. Len(t) /\ i # 0
    BY <1>0
  <1>7. f[0] = 1 /\ \A i \in 1 .. Len(t) : f[i] = IF f[i - 1] = i THEN i + ItemAt(t, i).size ELSE f[i - 1]
    BY <1>4, <1>6
  <1> QED
    BY <1>5, <1>7, Zenon

\* And what they are.
LEMMA PointsSteps ==
  ASSUME NEW t \in Seq(0 .. 127)
  PROVE  /\ PointsOf(t)[0] = <<>>
         /\ \A i \in 0 .. Len(t) : PointsOf(t)[i] \in Seq(Int)
         /\ \A i \in 1 .. Len(t) :
                PointsOf(t)[i] = IF Behind(t)[i - 1] = i
                                 THEN Append(PointsOf(t)[i - 1], ItemAt(t, i).cp) ELSE PointsOf(t)[i - 1]
  <1> DEFINE G == [i \in 1 .. Len(t) |->
                       [s \in Seq(Int) |-> IF Behind(t)[i - 1] = i THEN Append(s, ItemAt(t, i).cp) ELSE s]]
             f == CHOOSE f : f = [i \in 0 .. Len(t) |->
                                      IF i = 0 THEN <<>>
                                      ELSE IF Behind(t)[i - 1] = i THEN Append(f[i - 1], ItemAt(t, i).cp)
                                      ELSE f[i - 1]]
  <1>0. Len(t) \in Nat /\ (\A i \in 1 .. Len(t) : ItemAt(t, i).cp \in Int) /\ <<>> \in Seq(Int)
    BY ItemsAre
  <1>1. ASSUME NEW s \in Seq(Int), NEW i \in 1 .. Len(t) PROVE G[i][s] \in Seq(Int)
    <2>1. PICK x \in Int : x = ItemAt(t, i).cp
      BY <1>0
    <2>2. Append(s, x) \in Seq(Int)
      BY AppendProperties
    <2> QED
      BY <2>1, <2>2
  <1>2. PICK g : AreSteps(g, G, <<>>, Len(t)) /\ \A i \in 0 .. Len(t) : g[i] \in Seq(Int)
    <2> HIDE DEF G
    <2>1. \A s \in Seq(Int) : \A i \in 1 .. Len(t) : G[i][s] \in Seq(Int)
      BY <1>1
    <2> QED
      BY <1>0, <2>1, StepsInSet, Zenon
  <1>3. g = [i \in 0 .. Len(t) |->
                 IF i = 0 THEN <<>>
                 ELSE IF Behind(t)[i - 1] = i THEN Append(g[i - 1], ItemAt(t, i).cp) ELSE g[i - 1]]
    <2>1. ASSUME NEW i \in 0 .. Len(t), i # 0
          PROVE  G[i][g[i - 1]] = IF Behind(t)[i - 1] = i THEN Append(g[i - 1], ItemAt(t, i).cp) ELSE g[i - 1]
      <3>1. i - 1 \in 0 .. Len(t) /\ i \in 1 .. Len(t)
        BY <1>0, <2>1
      <3>2. PICK s \in Seq(Int) : s = g[i - 1]
        BY <1>2, <3>1
      <3>3. G[i][s] = IF Behind(t)[i - 1] = i THEN Append(s, ItemAt(t, i).cp) ELSE s
        BY <3>1, <3>2
      <3> HIDE DEF G
      <3> QED
        BY <3>2, <3>3, Zenon
    <2> HIDE DEF G
    <2> QED
      BY <1>2, <2>1, Zenon DEF AreSteps
  <1>4. f = [i \in 0 .. Len(t) |->
                 IF i = 0 THEN <<>>
                 ELSE IF Behind(t)[i - 1] = i THEN Append(f[i - 1], ItemAt(t, i).cp) ELSE f[i - 1]]
    BY <1>3, Zenon
  <1>5. PointsOf(t) = f
    BY Zenon DEF PointsOf
  <1> HIDE DEF f
  <1>6. 0 \in 0 .. Len(t) /\ \A i \in 1 .. Len(t) : i \in 0 .. Len(t) /\ i # 0 /\ i - 1 \in 0 .. Len(t)
    BY <1>0
  <1>7. f[0] = <<>>
    BY <1>4, <1>6
  <1>8. \A i \in 1 .. Len(t) : f[i] = IF Behind(t)[i - 1] = i
                                      THEN Append(f[i - 1], ItemAt(t, i).cp) ELSE f[i - 1]
    BY <1>4, <1>6, Zenon
  <1>9. \A i \in 0 .. Len(t) : f[i] \in Seq(Int)
    <2> DEFINE T == {i \in 0 .. Len(t) : f[i] \in Seq(Int)}
    <2>1. 0 \in T
      BY <1>0, <1>6, <1>7
    <2>2. ASSUME NEW i \in 1 .. Len(t), i - 1 \in T PROVE i \in T
      <3>1. i \in 0 .. Len(t) /\ f[i - 1] \in Seq(Int)
        BY <1>6, <2>2
      <3>2. PICK x \in Int, s \in Seq(Int) : x = ItemAt(t, i).cp /\ s = f[i - 1]
        BY <1>0, <3>1
      <3>3. Append(s, x) \in Seq(Int)
        BY AppendProperties
      <3>4. f[i] \in {s, Append(s, x)}
        BY <1>8, <3>2, Zenon
      <3> QED
        BY <3>1, <3>3, <3>4, Zenon
    <2>3. \A i \in 0 .. Len(t) : i \in T
      <3> HIDE DEF T
      <3> QED
        BY <1>0, <2>1, <2>2, UpTo
    <2> QED
      BY <2>3
  <1> QED
    BY <1>5, <1>7, <1>8, <1>9, Zenon

\* An item of a text begins at a position, or the text ends in front of it.
Begins(t, i) == i \in 1 .. Len(t) + 1 /\ Behind(t)[i - 1] = i

\* Between the end of an item's first symbol and the next item nothing changes.
LEMMA NothingBegins ==
  ASSUME NEW t \in Seq(0 .. 127), NEW i \in 0 .. Len(t), NEW m \in i .. Len(t), NEW e, Behind(t)[i] = e,
         \A j \in i + 1 .. m : j # e
  PROVE  Behind(t)[m] = e /\ PointsOf(t)[m] = PointsOf(t)[i]
  <1> DEFINE A == {d \in 0 .. m - i : Behind(t)[i + d] = e /\ PointsOf(t)[i + d] = PointsOf(t)[i]}
  <1>0. i \in Nat /\ m \in Nat /\ Len(t) \in Nat /\ i <= m /\ m <= Len(t)
    OBVIOUS
  <1>1. 0 \in A
    <2>1. i + 0 = i /\ 0 \in 0 .. m - i
      BY <1>0
    <2> QED
      BY <2>1
  <1>2. ASSUME NEW d \in 1 .. m - i, d - 1 \in A PROVE d \in A
    <2>1. /\ i + d \in 1 .. Len(t) /\ (i + d) - 1 = i + (d - 1) /\ i + d \in i + 1 .. m /\ d \in 0 .. m - i
      BY <1>0
    <2>2. Behind(t)[(i + d) - 1] = e /\ PointsOf(t)[(i + d) - 1] = PointsOf(t)[i] /\ i + d # e
      BY <1>2, <2>1
    <2>3. Behind(t)[i + d] = e
      BY <2>1, <2>2, BehindSteps
    <2>4. PointsOf(t)[i + d] = PointsOf(t)[i]
      BY <2>1, <2>2, PointsSteps
    <2> QED
      BY <2>1, <2>3, <2>4
  <1>3. \A d \in 0 .. m - i : d \in A
    <2>1. m - i \in Nat
      BY <1>0
    <2> HIDE DEF A
    <2> QED
      BY <1>1, <1>2, <2>1, UpTo
  <1>4. m - i \in 0 .. m - i /\ i + (m - i) = m
    BY <1>0
  <1> QED
    BY <1>3, <1>4

\* A string is the code points of all of its symbols.
LEMMA StringsEnd ==
  ASSUME NEW t \in Seq(0 .. 127), IsString(t)
  PROVE  Begins(t, Len(t) + 1) /\ StringOf(t) = PointsOf(t)[Len(t)]
  <1>1. Behind(t)[Len(t)] = Len(t) + 1
    BY Zenon DEF IsString, StringOf
  <1>2. Len(t) + 1 \in 1 .. Len(t) + 1 /\ (Len(t) + 1) - 1 = Len(t)
    BY SMT
  <1> QED
    BY <1>1, <1>2, Zenon DEF Begins, StringOf

\* Where an item of a string begins there is one, and another one behind it.
LEMMA ItemsFollow ==
  ASSUME NEW t \in Seq(0 .. 127), IsString(t), NEW i \in 1 .. Len(t), Begins(t, i)
  PROVE  /\ ItemAt(t, i).size > 0
         /\ Begins(t, i + ItemAt(t, i).size)
         /\ PointsOf(t)[i + ItemAt(t, i).size - 1] = PointsOf(t)[i - 1] \o <<ItemAt(t, i).cp>>
  <1>0. i \in Nat /\ Len(t) \in Nat /\ i <= Len(t) /\ 1 <= i /\ Behind(t)[i - 1] = i
    BY DEF Begins
  <1>1. PICK s, c : s = ItemAt(t, i).size /\ c = ItemAt(t, i).cp
    OBVIOUS
  <1>2. s \in Nat /\ c \in Int /\ i + s \in 1 .. Len(t) + 1
    BY <1>1, ItemsAre
  <1>3. Behind(t)[i] = i + s
    BY <1>0, <1>1, BehindSteps
  <1>4. PointsOf(t)[i] = Append(PointsOf(t)[i - 1], c) /\ PointsOf(t)[i - 1] \in Seq(Int)
    <2>1. i - 1 \in 0 .. Len(t)
      BY <1>0
    <2> QED
      BY <1>0, <1>1, <2>1, PointsSteps, Zenon
  <1>5. PointsOf(t)[i] = PointsOf(t)[i - 1] \o <<c>>
    BY <1>2, <1>4, AppendIsConcat, Zenon
  <1>6. s > 0
    <2> SUFFICES ASSUME s = 0 PROVE FALSE
      BY <1>2
    <2>1. Behind(t)[i] = i /\ i \in 0 .. Len(t) /\ Len(t) \in i .. Len(t) /\ \A j \in i + 1 .. Len(t) : j # i
      BY <1>0, <1>3
    <2>2. Behind(t)[Len(t)] = i
      BY <2>1, NothingBegins
    <2>3. Behind(t)[Len(t)] = Len(t) + 1
      BY Zenon DEF IsString, StringOf
    <2> QED
      BY <1>0, <2>2, <2>3
  <1>7. Behind(t)[i + s - 1] = i + s /\ PointsOf(t)[i + s - 1] = PointsOf(t)[i]
    <2>1. i \in 0 .. Len(t) /\ i + s - 1 \in i .. Len(t) /\ \A j \in i + 1 .. i + s - 1 : j # i + s
      BY <1>0, <1>2, <1>6
    <2> QED
      BY <1>3, <2>1, NothingBegins
  <1> QED
    BY <1>1, <1>2, <1>5, <1>6, <1>7 DEF Begins

\* Symbols that stand for themselves.
IsPlain(c) == c \notin EndsOfLine \cup {Backslash, DoubleQuotes}

\* Items that are no escapes.
LEMMA PlainItems ==
  ASSUME NEW t \in Seq(0 .. 127), NEW i \in 1 .. Len(t)
  PROVE  /\ IsPlain(t[i]) => ItemAt(t, i).size = 1 /\ ItemAt(t, i).cp = t[i]
         /\ ~IsPlain(t[i]) /\ t[i] # Backslash => ItemAt(t, i).size = 0
         /\ t[i] = Backslash => ItemAt(t, i) = EscapeAt(t, i)
  <1>1. ASSUME IsPlain(t[i]) PROVE ItemAt(t, i) = [size |-> 1, cp |-> t[i]]
    <2>1. t[i] # Backslash
      BY <1>1 DEF IsPlain
    <2> QED
      BY <1>1, <2>1, Zenon DEF ItemAt, IsPlain
  <1>2. ASSUME ~IsPlain(t[i]), t[i] # Backslash PROVE ItemAt(t, i) = NoItem
    BY <1>2, Zenon DEF ItemAt, IsPlain
  <1>3. ASSUME t[i] = Backslash PROVE ItemAt(t, i) = EscapeAt(t, i)
    BY <1>3, Zenon DEF ItemAt
  <1>4. NoItem.size = 0
    BY DEF NoItem
  <1> QED
    BY <1>1, <1>2, <1>3, <1>4

\* Joining integers is associative.
LEMMA IntegersJoin == \A x, y, z \in Seq(Int) : (x \o y) \o z = x \o (y \o z)
  <1> SUFFICES ASSUME NEW x \in Seq(Int), NEW y \in Seq(Int), NEW z \in Seq(Int)
               PROVE  (x \o y) \o z = x \o (y \o z)
    OBVIOUS
  <1> QED
    BY SMT

\* Symbols that stand for themselves are read as they are.
LEMMA PlainSymbols ==
  ASSUME NEW t \in Seq(0 .. 127), IsString(t), NEW i \in 1 .. Len(t) + 1, Begins(t, i),
         NEW m \in i .. Len(t) + 1, \A j \in i .. m - 1 : IsPlain(t[j])
  PROVE  Begins(t, m) /\ PointsOf(t)[m - 1] = PointsOf(t)[i - 1] \o SubSeq(t, i, m - 1)
  <1> DEFINE Read(j) == Begins(t, j) /\ PointsOf(t)[j - 1] = PointsOf(t)[i - 1] \o SubSeq(t, i, j - 1)
             A == {d \in 0 .. m - i : Read(i + d)}
  <1>0. i \in Nat /\ m \in Nat /\ Len(t) \in Nat /\ i <= m /\ m <= Len(t) + 1 /\ 1 <= i
    OBVIOUS
  <1>1. PointsOf(t)[i - 1] \in Seq(Int) /\ t \in Seq(Int)
    <2>1. i - 1 \in 0 .. Len(t)
      BY <1>0
    <2>2. \A j \in 1 .. Len(t) : t[j] \in Int
      <3>1. \A j \in 1 .. Len(t) : t[j] \in 0 .. 127
        BY ElementOfSeq, Zenon
      <3>2. \A c \in 0 .. 127 : c \in Int
        OBVIOUS
      <3> QED
        BY <3>1, <3>2, Zenon
    <2> QED
      BY <2>1, <2>2, Retyped, PointsSteps, Zenon
  <1>2. 0 \in A
    <2>1. i + 0 = i /\ 0 \in 0 .. m - i /\ i \in Int /\ i - 1 \in Int /\ i - 1 < i
      BY <1>0
    <2>2. SubSeq(t, i, i - 1) = <<>>
      BY <2>1, SubSeqEmpty, Zenon
    <2>3. PointsOf(t)[i - 1] \o <<>> = PointsOf(t)[i - 1]
      BY <1>1, ConcatEmptySeq, Zenon
    <2>4. Read(i)
      BY <2>2, <2>3, Zenon
    <2> HIDE DEF Read
    <2> QED
      BY <2>1, <2>4
  <1>3. ASSUME NEW d \in 1 .. m - i, d - 1 \in A PROVE d \in A
    <2>1. PICK j \in i .. m - 1 : j = i + (d - 1)
      BY <1>0
    <2>2. /\ j \in 1 .. Len(t) /\ i + d = j + 1 /\ (j + 1) - 1 = j /\ d \in 0 .. m - i
          /\ j \in Int /\ i \in Int /\ j <= j /\ i <= j /\ j <= Len(t)
      BY <1>0, <2>1
    <2>3. Read(j)
      <3> HIDE DEF Read
      <3> QED
        BY <1>3, <2>1
    <2>4. ItemAt(t, j).size = 1 /\ ItemAt(t, j).cp = t[j]
      BY <2>2, PlainItems
    <2>5. Begins(t, j + 1) /\ PointsOf(t)[j] = PointsOf(t)[j - 1] \o <<t[j]>>
      <3>1. /\ Begins(t, j + ItemAt(t, j).size)
            /\ PointsOf(t)[j + ItemAt(t, j).size - 1] = PointsOf(t)[j - 1] \o <<ItemAt(t, j).cp>>
        BY <2>2, <2>3, ItemsFollow, Zenon
      <3>2. PICK size, cp : size = ItemAt(t, j).size /\ cp = ItemAt(t, j).cp
        OBVIOUS
      <3>3. size = 1 /\ cp = t[j]
        BY <2>4, <3>2, Zenon
      <3>4. j + size = j + 1 /\ j + size - 1 = j
        BY <2>2, <3>3
      <3>5. Begins(t, j + size) /\ PointsOf(t)[j + size - 1] = PointsOf(t)[j - 1] \o <<cp>>
        BY <3>1, <3>2, Zenon
      <3> QED
        BY <3>3, <3>4, <3>5, Zenon
    <2>6. SubSeq(t, i, j) = SubSeq(t, i, j - 1) \o <<t[j]>>
      <3>1. i \in 1 .. Len(t) /\ j \in i .. Len(t)
        BY <1>0, <2>2
      <3> QED
        BY <1>1, <3>1, SubSeqRecursiveSecond, Zenon
    <2>7. SubSeq(t, i, j - 1) \in Seq(Int) /\ <<t[j]>> \in Seq(Int)
      <3>1. i \in Int /\ j - 1 \in Int /\ 1 <= i /\ j - 1 <= Len(t) /\ i <= (j - 1) + 1
        BY <1>0, <2>2
      <3>2. t[j] \in Int
        BY <1>1, <2>2, ElementOfSeq, Zenon
      <3>3. <<t[j]>> \in Seq(Int)
        BY <3>2, Single, Zenon
      <3> QED
        BY <1>1, <3>1, <3>3, Cuts, Zenon
    <2>8. (PointsOf(t)[i - 1] \o SubSeq(t, i, j - 1)) \o <<t[j]>>
              = PointsOf(t)[i - 1] \o (SubSeq(t, i, j - 1) \o <<t[j]>>)
      <3>1. \A x, y, z \in Seq(Int) : (x \o y) \o z = x \o (y \o z)
        BY IntegersJoin, Zenon
      <3>2. PointsOf(t)[i - 1] \in Seq(Int)
        BY <1>1
      <3> QED
        BY <2>7, <3>1, <3>2, Zenon
    <2>9. Read(j + 1)
      BY <2>2, <2>3, <2>5, <2>6, <2>8, Zenon
    <2> HIDE DEF Read
    <2> QED
      BY <2>2, <2>9
  <1>4. \A d \in 0 .. m - i : d \in A
    <2>1. m - i \in Nat
      BY <1>0
    <2> HIDE DEF A
    <2> QED
      BY <1>2, <1>3, <2>1, UpTo
  <1>5. m - i \in 0 .. m - i /\ i + (m - i) = m
    BY <1>0
  <1>6. Read(m)
    <2> HIDE DEF Read
    <2> QED
      BY <1>4, <1>5
  <1> QED
    BY <1>6, Zenon

-----------------------------------------------------------------------------
(* The parser of strings, run by run *)

\* The symbols that have a category of their own.
LEMMA CategoriesOf ==
  ASSUME NEW c \in 0 .. 127
  PROVE  /\ Category(c) = "DoubleQuotes" <=> c = DoubleQuotes
         /\ Category(c) = "Backslash" <=> c = Backslash
         /\ Category(c) = "EndOfLine" <=> c \in EndsOfLine
         /\ Category(c) = "DecimalDigits" <=> c \in 48 .. 57
         /\ c \in CodePointEscapes => Category(c) = "Letters"
         /\ c \in SimpleEscapes => Category(c) \in {"DoubleQuotes", "Backslash", "Letters"}
  <1>1. CASE c = DoubleQuotes
    BY <1>1 DEF Category, DoubleQuotes, Backslash, EndsOfLine, CodePointEscapes, SimpleEscapes, Colon, Plus, Minus
  <1>2. CASE c = Backslash
    BY <1>2 DEF Category, DoubleQuotes, Backslash, EndsOfLine, CodePointEscapes, SimpleEscapes, Colon, Plus, Minus
  <1>3. CASE c \in EndsOfLine
    BY <1>3 DEF Category, DoubleQuotes, Backslash, EndsOfLine, CodePointEscapes, SimpleEscapes, Colon, Plus, Minus
  <1>4. CASE c \in 48 .. 57
    BY <1>4 DEF Category, DoubleQuotes, Backslash, EndsOfLine, CodePointEscapes, SimpleEscapes, Colon, Plus, Minus
  <1>5. CASE c \in 65 .. 90 \/ c \in 97 .. 122
    <2>1. Category(c) = "Letters"
      BY <1>5 DEF Category, DoubleQuotes, Backslash, Colon, Plus, Minus
    <2> QED
      BY <1>5, <2>1 DEF DoubleQuotes, Backslash, EndsOfLine
  <1>6. CASE /\ c \notin {DoubleQuotes, Backslash} /\ c \notin EndsOfLine
             /\ c \notin 48 .. 57 /\ c \notin 65 .. 90 /\ c \notin 97 .. 122
    <2>1. Category(c) \notin {"DoubleQuotes", "Backslash", "EndOfLine", "DecimalDigits", "Letters"}
      BY <1>6 DEF Category, DoubleQuotes, Backslash, Colon, Plus, Minus, EndsOfLine
    <2>2. c \notin CodePointEscapes /\ c \notin SimpleEscapes
      BY <1>6 DEF CodePointEscapes, SimpleEscapes
    <2> QED
      BY <1>6, <2>1, <2>2
  <1> QED
    BY <1>1, <1>2, <1>3, <1>4, <1>5, <1>6

\* A run in front of double quotes is one of what is in front of them.
LEMMA FrontRun ==
  ASSUME NEW t \in Seq(0 .. 127), NEW k \in 1 .. Len(t), t[k] = DoubleQuotes,
         NEW b, b = SubSeq(t, 1, k - 1), NEW i \in 1 .. k - 1
  PROVE  \E to \in i .. Len(b) :
             /\ IsRun(b, i, to)
             /\ RunAt(t, i) = [category |-> Category(b[i]), str |-> SubSeq(b, i, to)]
  <1>0. k \in Nat /\ i \in Nat /\ Len(t) \in Nat /\ 1 <= i /\ i <= k - 1 /\ k <= Len(t) /\ i \in 1 .. Len(t)
    OBVIOUS
  <1>1. b \in Seq(0 .. 127) /\ Len(b) = k - 1 /\ \A j \in 1 .. k - 1 : b[j] = t[j]
    <2>1. /\ 1 \in Int /\ k - 1 \in Int /\ 1 <= 1 /\ k - 1 <= Len(t) /\ 1 <= (k - 1) + 1
          /\ (k - 1) - 1 + 1 = k - 1 /\ \A j \in 1 .. k - 1 : 1 + j - 1 = j
      BY <1>0
    <2>2. /\ b \in Seq(0 .. 127) /\ Len(b) = (k - 1) - 1 + 1
          /\ \A j \in 1 .. (k - 1) - 1 + 1 : b[j] = t[1 + j - 1]
      <3>1. /\ SubSeq(t, 1, k - 1) \in Seq(0 .. 127) /\ Len(SubSeq(t, 1, k - 1)) = (k - 1) - 1 + 1
            /\ \A j \in 1 .. (k - 1) - 1 + 1 : SubSeq(t, 1, k - 1)[j] = t[1 + j - 1]
        <4>1. \A m, n \in Int : 1 <= m /\ n <= Len(t) /\ m <= n + 1 =>
                  /\ SubSeq(t, m, n) \in Seq(0 .. 127) /\ Len(SubSeq(t, m, n)) = n - m + 1
                  /\ \A j \in 1 .. n - m + 1 : SubSeq(t, m, n)[j] = t[m + j - 1]
          <5> TAKE m, n \in Int
          <5> HAVE 1 <= m /\ n <= Len(t) /\ m <= n + 1
          <5> QED
            BY Cuts, Zenon
        <4> QED
          BY <2>1, <4>1, Zenon
      <3> QED
        BY <3>1
    <2> QED
      BY <2>1, <2>2
  <1>2. PICK to \in i .. Len(t) :
             /\ IsRun(t, i, to)
             /\ RunAt(t, i) = [category |-> Category(t[i]), str |-> SubSeq(t, i, to)]
    BY <1>0, RunsAreRuns
  <1>3. to <= k - 1
    <2> SUFFICES ASSUME k <= to PROVE FALSE
      BY <1>0
    <2>1. k \in i .. to
      BY <1>0
    <2>2. Category(t[i]) = Category(t[k]) /\ (~Concatenates(Category(t[i])) => to = i)
      BY <1>2, <2>1, Zenon DEF IsRun
    <2>3. Category(t[k]) = "DoubleQuotes"
      <3>1. Category(DoubleQuotes) = "DoubleQuotes"
        BY DEF Category, DoubleQuotes, Backslash, Colon, Plus, Minus
      <3> QED
        BY <3>1, Zenon
    <2>4. ~Concatenates("DoubleQuotes")
      BY DEF Concatenates
    <2>5. to = i
      BY <2>2, <2>3, <2>4
    <2> QED
      BY <1>0, <2>5
  <1>4. to \in i .. Len(b) /\ b[i] = t[i] /\ \A j \in i .. to : b[j] = t[j]
    BY <1>0, <1>1, <1>3
  <1>5. to < Len(b) => b[to + 1] = t[to + 1] /\ to < Len(t)
    BY <1>0, <1>1, <1>3
  <1>6. IsRun(b, i, to)
    <2>1. \A j \in i .. to : Category(b[j]) = Category(b[i])
      <3>1. \A j \in i .. to : Category(t[j]) = Category(t[i])
        BY <1>2, Zenon DEF IsRun
      <3> QED
        BY <1>4, <3>1
    <2> QED
      BY <1>2, <1>4, <1>5, <2>1, Zenon DEF IsRun
  <1>7. SubSeq(b, i, to) = SubSeq(t, i, to)
    <2>1. to \in Nat /\ to + 1 \in Nat /\ i < to + 1 /\ to + 1 <= k /\ (to + 1) - 1 = to /\ 1 <= k
      BY <1>0, <1>3
    <2>2. SubSeq(SubSeq(t, 1, k - 1), i, (to + 1) - 1) = SubSeq(t, i, (to + 1) - 1)
      BY <1>0, <2>1, PartOfFront
    <2> QED
      BY <2>1, <2>2
  <1> QED
    BY <1>2, <1>4, <1>6, <1>7

-----------------------------------------------------------------------------

\* Machines and parsers of strings by their parts.
Machine(defined, cache, buffer) == [mDefined |-> defined, mCache |-> cache, mBuffer |-> buffer]
Parser(state, result, literal, escape) ==
    [state |-> state, mLastParseResult |-> result, literal |-> literal, escape |-> escape]

\* A parser that reads on: its state, its buffer and what it knows of an escape.
Reader(state, defined, buffer, escape) ==
    Parser(state, "NotComplete", Machine(defined, <<>>, buffer), escape)

\* What is known of an escape: the coding, the number of digits, their radix and the digits so far.
Escaping(converter, width, radix, sequence) ==
    [escapeConverter |-> converter, escapeDigits |-> width, escapeRadix |-> radix, escapeSequence |-> sequence]
EscapeOf(form, width, sequence) == Escaping(form.converter, width, form.radix, sequence)
Announced(width) == Escaping("None", width, InvalidRadix, <<>>)

\* Where the parser is in a text, i being the next position, behind A.
InText(p, i, t, A) ==
    /\ Begins(t, i)
    /\ \E d \in BOOLEAN : p = Reader("Text", d, A \o PointsOf(t)[i - 1], NoEscape)

\* It is behind a backslash at a, or behind the digits that follow it.
InBackslash(p, i, t, A) ==
    \E a \in 1 .. Len(t) : \E n \in Nat : \E d \in BOOLEAN :
        /\ t[a] = Backslash /\ Begins(t, a) /\ i = a + n + 1
        /\ n > 0 => n = DigitsAfter(t, a)
        /\ p = Reader("Backslash", d, A \o PointsOf(t)[a - 1],
                      Announced(IF n = 0 THEN 0 ELSE WidthAt(t, a, n)))

\* Behind the letter and not all of the digits of the code point.
InDigits(p, i, t, A) ==
    \E a \in 1 .. Len(t) : \E n \in Nat : \E w \in Nat : \E d \in BOOLEAN :
        /\ t[a] = Backslash /\ Begins(t, a) /\ n = DigitsAfter(t, a) /\ w = WidthAt(t, a, n)
        /\ t[a + n + 1] \in CodePointEscapes
        /\ i \in a + n + 2 .. a + n + 1 + w
        /\ p = Reader("EscapeDigits", d, A \o PointsOf(t)[a - 1],
                      EscapeOf(CodePointEscape(t[a + n + 1]), w, SubSeq(t, a + n + 2, i - 1)))

StringAt(p, i, t, A) == InText(p, i, t, A) \/ InBackslash(p, i, t, A) \/ InDigits(p, i, t, A)

\* A run of a string leads on, or is refused for an escape that runs into what is around it.
StringGoes(q, after, t, A) ==
    \/ q.mLastParseResult = "NotComplete" /\ StringAt(q, after, t, A)
    \/ q.mLastParseResult = "Error" /\ ~EscapesStandApart(t)

\* A reader has not decided.
LEMMA ReadersReadOn == \A s, d, u, e : Reader(s, d, u, e).mLastParseResult = "NotComplete"
  BY DEF Reader, Parser

\* Text is appended to the buffer.
LEMMA MachineAppends ==
  ASSUME NEW d, NEW c, NEW u, NEW v
  PROVE  \E y \in BOOLEAN : AppendUtf8(Machine(d, c, u), v) = Machine(y, c, u \o v)
  <1>1. PICK m : m = Machine(d, c, u)
    OBVIOUS
  <1>2. PICK y, w : y \in BOOLEAN /\ y = TRUE /\ w = u \o v
    OBVIOUS
  <1>3. PICK n : n = [m EXCEPT !.mBuffer = w, !.mDefined = y]
    OBVIOUS
  <1>4. n = Machine(y, c, w)
    BY <1>1, <1>3 DEF Machine
  <1>5. m.mBuffer = u
    BY <1>1 DEF Machine
  <1>6. AppendUtf8(m, v) = n
    <2>1. AppendUtf8(m, v) = [m EXCEPT !.mBuffer = m.mBuffer \o v, !.mDefined = TRUE]
      BY DEF AppendUtf8
    <2> QED
      BY <1>2, <1>3, <1>5, <2>1, Zenon
  <1> QED
    BY <1>1, <1>2, <1>4, <1>6, Zenon

\* A reader appends to its buffer.
LEMMA ReaderAppends ==
  ASSUME NEW s, NEW d, NEW u, NEW e, NEW v
  PROVE  \E y \in BOOLEAN : AppendText(Reader(s, d, u, e), v) = Reader(s, y, u \o v, e)
  <1>1. PICK m : m = Machine(d, <<>>, u)
    OBVIOUS
  <1>2. PICK y \in BOOLEAN : AppendUtf8(Machine(d, <<>>, u), v) = Machine(y, <<>>, u \o v)
    BY MachineAppends
  <1>3. PICK n : n = Machine(y, <<>>, u \o v)
    OBVIOUS
  <1>4. PICK p : p = Parser(s, "NotComplete", m, e)
    OBVIOUS
  <1>5. p.literal = m /\ [p EXCEPT !.literal = n] = Parser(s, "NotComplete", n, e)
    BY <1>4 DEF Parser
  <1>6. AppendText(p, v) = [p EXCEPT !.literal = n]
    BY <1>1, <1>2, <1>3, <1>5, Zenon DEF AppendText
  <1> QED
    BY <1>1, <1>3, <1>4, <1>5, <1>6, Zenon DEF Reader

\* A reader goes back to the text.
LEMMA ReaderToText ==
  ASSUME NEW s, NEW d, NEW u, NEW e
  PROVE  ToText(Reader(s, d, u, e)) = Reader("Text", d, u, NoEscape)
  <1>1. PICK m : m = Machine(d, <<>>, u)
    OBVIOUS
  <1>2. PICK f : f = NoEscape
    OBVIOUS
  <1>3. PICK p : p = Parser(s, "NotComplete", m, e)
    OBVIOUS
  <1>4. PICK q : q = [p EXCEPT !.state = "Text", !.escape = f]
    OBVIOUS
  <1>5. q = Parser("Text", "NotComplete", m, f)
    BY <1>3, <1>4 DEF Parser
  <1>6. q = ToText(p)
    BY <1>2, <1>4, Zenon DEF ToText
  <1> QED
    BY <1>1, <1>2, <1>3, <1>5, <1>6, Zenon DEF Reader

\* What a run does in the text.
LEMMA TextSteps ==
  ASSUME NEW d, NEW u, NEW e, NEW run
  PROVE  LET p == Reader("Text", d, u, e)
             q == StringParseSymbols(p, run)
         IN  /\ run.category = "Backslash" => q = Reader("Backslash", d, u, e)
             /\ run.category \notin {"Backslash", "DoubleQuotes"} =>
                    \E y \in BOOLEAN : q = Reader("Text", y, u \o run.str, e)
             /\ run.category = "DoubleQuotes" => q = Parser("Text", "Complete", Machine(d, <<>>, u), e)
  <1>0. PICK m : m = Machine(d, <<>>, u)
    OBVIOUS
  <1>1. PICK p : p = Parser("Text", "NotComplete", m, e)
    OBVIOUS
  <1>2. PICK q : q = StringParseSymbols(p, run)
    OBVIOUS
  <1>3. q = StateTextEvaluate(p, run)
    <2>1. p.state = "Text"
      BY <1>1 DEF Parser
    <2> QED
      BY <1>2, <2>1 DEF StringParseSymbols
  <1>4. CASE run.category = "Backslash"
    <2>1. q = [p EXCEPT !.state = "Backslash"]
      BY <1>3, <1>4 DEF StateTextEvaluate
    <2>2. q = Parser("Backslash", "NotComplete", m, e)
      BY <1>1, <2>1 DEF Parser
    <2> QED
      BY <1>0, <1>1, <1>2, <1>4, <2>2, Zenon DEF Reader
  <1>5. CASE run.category = "DoubleQuotes"
    <2>1. q = [p EXCEPT !.mLastParseResult = "Complete"]
      BY <1>3, <1>5 DEF StateTextEvaluate
    <2>2. q = Parser("Text", "Complete", m, e)
      BY <1>1, <2>1 DEF Parser
    <2> QED
      BY <1>0, <1>1, <1>2, <1>5, <2>2, Zenon DEF Reader
  <1>6. CASE run.category \notin {"Backslash", "DoubleQuotes"}
    <2>1. q = AppendText(p, run.str)
      BY <1>3, <1>6, Zenon DEF StateTextEvaluate
    <2>2. \E y \in BOOLEAN : AppendText(Reader("Text", d, u, e), run.str) = Reader("Text", y, u \o run.str, e)
      BY ReaderAppends
    <2>3. p = Reader("Text", d, u, e)
      BY <1>0, <1>1, Zenon DEF Reader
    <2> QED
      BY <1>2, <1>6, <2>1, <2>2, <2>3, Zenon
  <1> QED
    BY <1>4, <1>5, <1>6, Zenon

\* A code point is appended, and the text goes on.
LEMMA ToTextSteps ==
  ASSUME NEW s, NEW d, NEW u, NEW e, NEW cps
  PROVE  \E y \in BOOLEAN : ToText(AppendText(Reader(s, d, u, e), cps)) = Reader("Text", y, u \o cps, NoEscape)
  <1>1. PICK y \in BOOLEAN : AppendText(Reader(s, d, u, e), cps) = Reader(s, y, u \o cps, e)
    BY ReaderAppends
  <1>2. ToText(Reader(s, y, u \o cps, e)) = Reader("Text", y, u \o cps, NoEscape)
    BY ReaderToText
  <1> QED
    BY <1>1, <1>2, Zenon

\* A text without an escape announces no digits.
LEMMA NothingAnnounced == NoEscape = Announced(0)
  BY DEF NoEscape, Announced, Escaping

\* An error is what it says.
LEMMA ReaderFails ==
  ASSUME NEW s, NEW d, NEW u, NEW e
  PROVE  StringError(Reader(s, d, u, e)).mLastParseResult = "Error"
  <1>1. PICK m : m = Machine(d, <<>>, u)
    OBVIOUS
  <1>2. PICK p : p = Parser(s, "NotComplete", m, e)
    OBVIOUS
  <1>3. StringError(p).mLastParseResult = "Error"
    BY <1>2 DEF StringError, Parser
  <1> QED
    BY <1>1, <1>2, <1>3, Zenon DEF Reader

\* The number of digits of a code point is given.
LEMMA WidthSteps ==
  ASSUME NEW d, NEW u, NEW run, run.category = "DecimalDigits",
         NEW total \in 1 .. 32,
         Len(run.str) = 1 => total = DigitValue(run.str[1]),
         Len(run.str) = 2 => total = 10 * DigitValue(run.str[1]) + DigitValue(run.str[2]),
         Len(run.str) \in Nat \ {0}
  PROVE  LET p == Reader("Backslash", d, u, Announced(0))
             q == StringParseSymbols(p, run)
         IN  /\ Len(run.str) <= 2 => q = Reader("Backslash", d, u, Announced(total))
             /\ Len(run.str) > 2 => q.mLastParseResult = "Error"
  <1>0. PICK m : m = Machine(d, <<>>, u)
    OBVIOUS
  <1>1. PICK e : e = Escaping("None", 0, InvalidRadix, <<>>)
    OBVIOUS
  <1>2. PICK p : p = Parser("Backslash", "NotComplete", m, e)
    OBVIOUS
  <1>3. PICK q : q = StringParseSymbols(p, run)
    OBVIOUS
  <1>4. p = Reader("Backslash", d, u, Announced(0))
    BY <1>0, <1>1, <1>2, Zenon DEF Reader, Announced
  <1>5. q = ParseEscapeDigits(p, run)
    <2>1. p.state = "Backslash"
      BY <1>2 DEF Parser
    <2> QED
      BY <1>3, <2>1 DEF StringParseSymbols, StateBackslashEvaluate
  <1>6. p.escape = e /\ e.escapeDigits = 0
    <2>1. p.escape = e
      BY <1>2 DEF Parser
    <2>2. e.escapeDigits = 0
      BY <1>1 DEF Escaping
    <2> QED
      BY <2>1, <2>2
  <1>7. CASE Len(run.str) <= 2
    <2>1. PICK t : t = IF Len(run.str) = 1 THEN DigitValue(run.str[1])
                       ELSE 10 * DigitValue(run.str[1]) + DigitValue(run.str[2])
      OBVIOUS
    <2>2. t = total
      <3>1. Len(run.str) = 1 \/ Len(run.str) = 2
        <4>1. \A l \in Nat \ {0} : l <= 2 => l = 1 \/ l = 2
          OBVIOUS
        <4> QED
          BY <1>7, <4>1, Zenon
      <3> QED
        BY <2>1, <3>1
    <2>3. q = [p EXCEPT !.escape.escapeDigits = t]
      BY <1>5, <1>6, <1>7, <2>1, <2>2 DEF ParseEscapeDigits
    <2>4. PICK f : f = [e EXCEPT !.escapeDigits = total]
      OBVIOUS
    <2>5. f = Announced(total)
      BY <1>1, <2>4 DEF Escaping, Announced
    <2>6. q = [p EXCEPT !.escape = f]
      BY <1>6, <2>2, <2>3, <2>4
    <2>7. q = Parser("Backslash", "NotComplete", m, f)
      BY <1>2, <2>6 DEF Parser
    <2> QED
      BY <1>0, <1>3, <1>4, <1>7, <2>5, <2>7 DEF Reader
  <1>8. CASE Len(run.str) > 2
    <2>1. q = StringError(p)
      BY <1>5, <1>8 DEF ParseEscapeDigits
    <2>2. StringError(Reader("Backslash", d, u, Announced(0))).mLastParseResult = "Error"
      BY ReaderFails
    <2> QED
      BY <1>3, <1>4, <1>8, <2>1, <2>2
  <1> QED
    BY <1>3, <1>4, <1>7, <1>8, Zenon

\* A code point in digits begins.
LEMMA CodePointBegins ==
  ASSUME NEW d, NEW u, NEW g \in Nat, NEW c \in CodePointEscapes, NEW w, w = IF g = 0 THEN CodePointEscape(c).default ELSE g
  PROVE  BeginCodePoint(Reader("Backslash", d, u, Announced(g)), CodePointEscape(c))
             = Reader("EscapeDigits", d, u, EscapeOf(CodePointEscape(c), w, <<>>))
  <1>0. PICK m : m = Machine(d, <<>>, u)
    OBVIOUS
  <1>1. PICK e : e = Escaping("None", g, InvalidRadix, <<>>)
    OBVIOUS
  <1>2. PICK p : p = Parser("Backslash", "NotComplete", m, e)
    OBVIOUS
  <1>3. PICK form : form = CodePointEscape(c)
    OBVIOUS
  <1>4. PICK r : r = form.radix
    OBVIOUS
  <1>5. PICK v : v = form.converter
    OBVIOUS
  <1>6. e.escapeDigits = g
    BY <1>1 DEF Escaping
  <1>7. PICK f : f = [e EXCEPT !.escapeDigits = w, !.escapeRadix = r, !.escapeConverter = v]
    OBVIOUS
  <1>8. f = Escaping(v, w, r, <<>>)
    BY <1>1, <1>7 DEF Escaping
  <1>9. PICK q : q = [p EXCEPT !.state = "EscapeDigits", !.escape = f]
    OBVIOUS
  <1>10. q = Parser("EscapeDigits", "NotComplete", m, f)
    BY <1>2, <1>9 DEF Parser
  <1>11. q = BeginCodePoint(p, form)
    <2>1. p.escape = e
      BY <1>2 DEF Parser
    <2>2. BeginCodePoint(p, form)
              = [p EXCEPT !.state = "EscapeDigits",
                          !.escape.escapeDigits = IF @ = 0 THEN form.default ELSE @,
                          !.escape.escapeRadix = r,
                          !.escape.escapeConverter = v]
      BY <1>4, <1>5, Zenon DEF BeginCodePoint
    <2> QED
      BY <1>2, <1>3, <1>6, <1>7, <1>9, <2>1, <2>2 DEF Parser
  <1> QED
    BY <1>0, <1>1, <1>2, <1>3, <1>4, <1>5, <1>8, <1>10, <1>11, Zenon DEF Reader, Announced, EscapeOf

\* What becomes of the symbol behind a backslash or a number of digits, in a run of so many.
EscapeGoes(q, d, u, g, length, c) ==
    /\ length # 1 => q.mLastParseResult = "Error"
    /\ length = 1 /\ c \in SimpleEscapes =>
           \E y \in BOOLEAN : q = Reader("Text", y, u \o <<SimpleEscape(c)>>, NoEscape)
    /\ length = 1 /\ c \in CodePointEscapes /\ g <= CodePointEscape(c).most =>
           q = Reader("EscapeDigits", d, u,
                      EscapeOf(CodePointEscape(c), IF g = 0 THEN CodePointEscape(c).default ELSE g, <<>>))
    /\ length = 1 /\ c \in CodePointEscapes /\ ~(g <= CodePointEscape(c).most) =>
           q.mLastParseResult = "Error"

\* A run behind a backslash, or behind the number of digits.
LEMMA EscapeSteps ==
  ASSUME NEW d, NEW u, NEW g \in Nat, NEW run, run.category # "DecimalDigits"
  PROVE  EscapeGoes(StringParseSymbols(Reader("Backslash", d, u, Announced(g)), run), d, u, g, Len(run.str), run.str[1])
  <1>0. PICK c : c = run.str[1]
    OBVIOUS
  <1>1. PICK p : p = Reader("Backslash", d, u, Announced(g))
    OBVIOUS
  <1>2. p.state = "Backslash" /\ p.escape.escapeDigits = g
    BY <1>1 DEF Reader, Parser, Announced, Escaping
  <1>3. PICK q : q = StringParseSymbols(p, run)
    OBVIOUS
  <1>4. q = ParseEscapeChar(p, run)
    BY <1>2, <1>3 DEF StringParseSymbols, StateBackslashEvaluate
  <1>5. StringError(p).mLastParseResult = "Error"
    BY <1>1, ReaderFails
  <1>6. c \in CodePointEscapes => c \notin SimpleEscapes
    BY DEF CodePointEscapes, SimpleEscapes, DoubleQuotes, Backslash
  <1>7. q = CASE Len(run.str) = 1 /\ c \in SimpleEscapes -> ToText(AppendText(p, <<SimpleEscape(c)>>))
              [] Len(run.str) = 1 /\ c \in CodePointEscapes /\ g <= CodePointEscape(c).most ->
                     BeginCodePoint(p, CodePointEscape(c))
              [] OTHER -> StringError(p)
    BY <1>0, <1>2, <1>4, Zenon DEF ParseEscapeChar
  <1>8. ASSUME Len(run.str) # 1 PROVE q.mLastParseResult = "Error"
    <2>1. q = StringError(p)
      BY <1>7, <1>8, Zenon
    <2> QED
      BY <1>5, <2>1
  <1>9. ASSUME Len(run.str) = 1, c \in SimpleEscapes
        PROVE  \E y \in BOOLEAN : q = Reader("Text", y, u \o <<SimpleEscape(c)>>, NoEscape)
    <2>1. c \notin CodePointEscapes
      BY <1>6, <1>9
    <2>2. q = ToText(AppendText(p, <<SimpleEscape(c)>>))
      BY <1>7, <1>9, <2>1, Zenon
    <2>3. PICK s : s = <<SimpleEscape(c)>>
      OBVIOUS
    <2>4. \E y \in BOOLEAN : ToText(AppendText(Reader("Backslash", d, u, Announced(g)), s)) = Reader("Text", y, u \o s, NoEscape)
      BY ToTextSteps
    <2> QED
      BY <1>1, <2>2, <2>3, <2>4, Zenon
  <1>10. ASSUME Len(run.str) = 1, c \in CodePointEscapes, g <= CodePointEscape(c).most
         PROVE  q = Reader("EscapeDigits", d, u,
                           EscapeOf(CodePointEscape(c), IF g = 0 THEN CodePointEscape(c).default ELSE g, <<>>))
    <2>1. c \notin SimpleEscapes
      BY <1>6, <1>10
    <2>2. q = BeginCodePoint(p, CodePointEscape(c))
      BY <1>7, <1>10, <2>1, Zenon
    <2>3. PICK w : w = IF g = 0 THEN CodePointEscape(c).default ELSE g
      OBVIOUS
    <2>4. BeginCodePoint(Reader("Backslash", d, u, Announced(g)), CodePointEscape(c))
              = Reader("EscapeDigits", d, u, EscapeOf(CodePointEscape(c), w, <<>>))
      BY <1>10, <2>3, CodePointBegins
    <2> QED
      BY <1>1, <2>2, <2>3, <2>4, Zenon
  <1>11. ASSUME Len(run.str) = 1, c \in CodePointEscapes, ~(g <= CodePointEscape(c).most)
         PROVE  q.mLastParseResult = "Error"
    <2>1. q = StringError(p)
      BY <1>6, <1>7, <1>11, Zenon
    <2> QED
      BY <1>5, <2>1
  <1> QED
    BY <1>0, <1>1, <1>3, <1>8, <1>9, <1>10, <1>11, Zenon DEF EscapeGoes

\* What becomes of the digits s of a code point and a run behind them, x together.
SequenceGoes(q, d, u, form, w, s, run, x) ==
    run.category # "DoubleQuotes" /\ x = s \o run.str /\ Len(x) < w =>
        q = Reader("EscapeDigits", d, u, EscapeOf(form, w, x))
CodePointGoes(q, u, form, w, s, run, x, digits, cp) ==
    /\ run.category # "DoubleQuotes" /\ x = s \o run.str /\ ~(Len(x) < w)
    /\ digits = SubSeq(x, 1, w) /\ AreDigits(digits, form.radix)
    /\ cp = ToCodePoint(form.converter, Horner(DigitsOf(digits), form.radix)) /\ cp # Undefined /\ IsValidCodePoint(cp)
    => \E y \in BOOLEAN : q = Reader("Text", y, u \o (<<cp>> \o SubSeq(x, w + 1, Len(x))), NoEscape)

\* More digits of a code point.
LEMMA SequenceGrows ==
  ASSUME NEW d, NEW u, NEW form, NEW w, NEW s, NEW run, NEW x
  PROVE  SequenceGoes(StringParseSymbols(Reader("EscapeDigits", d, u, EscapeOf(form, w, s)), run), d, u, form, w, s, run, x)
  <1> SUFFICES ASSUME run.category # "DoubleQuotes", x = s \o run.str, Len(x) < w
               PROVE  StringParseSymbols(Reader("EscapeDigits", d, u, EscapeOf(form, w, s)), run)
                          = Reader("EscapeDigits", d, u, EscapeOf(form, w, x))
    BY Zenon DEF SequenceGoes
  <1>0. PICK m : m = Machine(d, <<>>, u)
    OBVIOUS
  <1>1. PICK r : r = form.radix
    OBVIOUS
  <1>2. PICK v : v = form.converter
    OBVIOUS
  <1>3. PICK e : e = Escaping(v, w, r, s)
    OBVIOUS
  <1>4. PICK p : p = Parser("EscapeDigits", "NotComplete", m, e)
    OBVIOUS
  <1>5. PICK q : q = StringParseSymbols(p, run)
    OBVIOUS
  <1>6. p.state = "EscapeDigits" /\ p.escape = e
    BY <1>4 DEF Parser
  <1>7. e.escapeDigits = w /\ e.escapeSequence = s
    BY <1>3 DEF Escaping
  <1>8. q = ParseEscapeCodePoint(p, run)
    BY <1>5, <1>6 DEF StringParseSymbols, StateEscapeDigitsEvaluate
  <1>9. PICK z : z = s \o run.str
    OBVIOUS
  <1>10. z = x
    BY <1>9
  <1>11. q = [p EXCEPT !.escape.escapeSequence = z]
    BY <1>6, <1>7, <1>8, <1>9, <1>10, Zenon DEF ParseEscapeCodePoint
  <1>12. PICK f : f = [e EXCEPT !.escapeSequence = z]
    OBVIOUS
  <1>13. f = Escaping(v, w, r, z)
    BY <1>3, <1>12 DEF Escaping
  <1>14. q = Parser("EscapeDigits", "NotComplete", m, f)
    BY <1>4, <1>6, <1>11, <1>12 DEF Parser
  <1>15. p = Reader("EscapeDigits", d, u, EscapeOf(form, w, s))
    BY <1>0, <1>1, <1>2, <1>3, <1>4, Zenon DEF Reader, EscapeOf
  <1> QED
    BY <1>0, <1>1, <1>2, <1>5, <1>10, <1>13, <1>14, <1>15, Zenon DEF Reader, EscapeOf

\* A code point is complete, with what follows it in the run.
LEMMA CodePointEnds ==
  ASSUME NEW d, NEW u, NEW form, NEW w, NEW s, NEW run, NEW x, NEW digits, NEW cp
  PROVE  CodePointGoes(StringParseSymbols(Reader("EscapeDigits", d, u, EscapeOf(form, w, s)), run),
                       u, form, w, s, run, x, digits, cp)
  <1> SUFFICES ASSUME run.category # "DoubleQuotes", x = s \o run.str, ~(Len(x) < w),
                      digits = SubSeq(x, 1, w), AreDigits(digits, form.radix),
                      cp = ToCodePoint(form.converter, Horner(DigitsOf(digits), form.radix)),
                      cp # Undefined, IsValidCodePoint(cp)
               PROVE  \E y \in BOOLEAN :
                          StringParseSymbols(Reader("EscapeDigits", d, u, EscapeOf(form, w, s)), run)
                              = Reader("Text", y, u \o (<<cp>> \o SubSeq(x, w + 1, Len(x))), NoEscape)
    BY Zenon DEF CodePointGoes
  <1>1. PICK p : p = Reader("EscapeDigits", d, u, EscapeOf(form, w, s))
    OBVIOUS
  <1>2. PICK q : q = StringParseSymbols(p, run)
    OBVIOUS
  <1>3. p.state = "EscapeDigits" /\ p.escape = EscapeOf(form, w, s)
    BY <1>1 DEF Reader, Parser
  <1>4. /\ p.escape.escapeDigits = w /\ p.escape.escapeSequence = s
        /\ p.escape.escapeRadix = form.radix /\ p.escape.escapeConverter = form.converter
    BY <1>3 DEF EscapeOf, Escaping
  <1>5. q = ParseEscapeCodePoint(p, run)
    BY <1>2, <1>3 DEF StringParseSymbols, StateEscapeDigitsEvaluate
  <1>6. q = CompleteCodePoint(p, x)
    BY <1>4, <1>5, Zenon DEF ParseEscapeCodePoint
  <1>7. PICK cps : cps = <<cp>> \o SubSeq(x, w + 1, Len(x))
    OBVIOUS
  <1>8. q = ToText(AppendText(p, cps))
    BY <1>4, <1>6, <1>7, Zenon DEF CompleteCodePoint
  <1>9. \E y \in BOOLEAN : ToText(AppendText(Reader("EscapeDigits", d, u, EscapeOf(form, w, s)), cps))
                                = Reader("Text", y, u \o cps, NoEscape)
    BY ToTextSteps
  <1> QED
    BY <1>1, <1>2, <1>7, <1>8, <1>9, Zenon

\* Where an item begins with a backslash there is an escape.
LEMMA EscapeFollows ==
  ASSUME NEW b \in Seq(0 .. 127), IsString(b), NEW a \in 1 .. Len(b), b[a] = Backslash, Begins(b, a)
  PROVE  LET n == DigitsAfter(b, a)
             item == EscapeAt(b, a)
         IN  /\ n \in Nat /\ a + n + 1 <= Len(b)
             /\ \/ IsSimple(b, a, n, item)
                \/ IsCodePoint(b, a, n, WidthAt(b, a, n), item)
             /\ Begins(b, a + item.size)
             /\ PointsOf(b)[a + item.size - 1] = PointsOf(b)[a - 1] \o <<item.cp>>
  <1>1. PICK item : item = EscapeAt(b, a)
    OBVIOUS
  <1>2. PICK n \in Nat : n = DigitsAfter(b, a)
    BY DigitsFollow
  <1>3. ItemAt(b, a) = item
    BY <1>1, PlainItems
  <1>4. item.size > 0 /\ Begins(b, a + item.size) /\ PointsOf(b)[a + item.size - 1] = PointsOf(b)[a - 1] \o <<item.cp>>
    BY <1>3, ItemsFollow
  <1>5. item # NoItem
    BY <1>4 DEF NoItem
  <1>6. \/ item = NoItem
        \/ a + n + 1 <= Len(b) /\ IsSimple(b, a, n, item)
        \/ a + n + 1 <= Len(b) /\ IsCodePoint(b, a, n, WidthAt(b, a, n), item)
    BY <1>1, <1>2, EscapesAre
  <1> QED
    BY <1>1, <1>2, <1>4, <1>5, <1>6, Zenon

\* Points behind others.
LEMMA PointsJoin ==
  ASSUME NEW A \in Seq(Int), NEW b \in Seq(0 .. 127), NEW i \in 0 .. Len(b), NEW s \in Seq(Int)
  PROVE  (A \o PointsOf(b)[i]) \o s = A \o (PointsOf(b)[i] \o s)
  <1>1. PointsOf(b)[i] \in Seq(Int)
    BY PointsSteps, Zenon
  <1>2. \A x, y, z \in Seq(Int) : (x \o y) \o z = x \o (y \o z)
    BY IntegersJoin
  <1> QED
    BY <1>1, <1>2, Zenon

\* Symbols are integers.
LEMMA SymbolsAreIntegers == ASSUME NEW b \in Seq(0 .. 127) PROVE b \in Seq(Int)
  <1>1. \A j \in 1 .. Len(b) : b[j] \in 0 .. 127
    BY ElementOfSeq, Zenon
  <1>2. \A c \in 0 .. 127 : c \in Int
    OBVIOUS
  <1> QED
    BY <1>1, <1>2, Retyped, Zenon

\* A run in a text.
IsRunOf(run, b, i, to) ==
    /\ to \in i .. Len(b) /\ IsRun(b, i, to)
    /\ run = [category |-> Category(b[i]), str |-> SubSeq(b, i, to)]

\* What a run of a text is.
LEMMA RunOf ==
  ASSUME NEW b \in Seq(0 .. 127), NEW i \in 1 .. Len(b), NEW to, NEW run, IsRunOf(run, b, i, to)
  PROVE  /\ to \in i .. Len(b) /\ i \in Nat /\ to \in Nat /\ Len(b) \in Nat
         /\ run.category = Category(b[i]) /\ run.str = SubSeq(b, i, to)
         /\ run.str \in Seq(Int) /\ Len(run.str) = to - i + 1
         /\ \A j \in 1 .. to - i + 1 : run.str[j] = b[i + j - 1]
         /\ run.str[1] = b[i]
         /\ \A j \in i .. to : Category(b[j]) = Category(b[i])
         /\ ~Concatenates(Category(b[i])) => to = i
         /\ Concatenates(Category(b[i])) /\ to < Len(b) => Category(b[to + 1]) # Category(b[i])
  <1>0. to \in i .. Len(b) /\ i \in Nat /\ to \in Nat /\ Len(b) \in Nat /\ 1 <= i /\ i <= to /\ to <= Len(b)
    BY DEF IsRunOf
  <1>1. run.category = Category(b[i]) /\ run.str = SubSeq(b, i, to)
    BY DEF IsRunOf
  <1>2. b \in Seq(Int)
    BY SymbolsAreIntegers
  <1>3. /\ SubSeq(b, i, to) \in Seq(Int) /\ Len(SubSeq(b, i, to)) = to - i + 1
        /\ \A j \in 1 .. to - i + 1 : SubSeq(b, i, to)[j] = b[i + j - 1]
    <2>1. i \in Int /\ to \in Int /\ i <= to + 1
      BY <1>0
    <2>2. Piece(Int, b, i, to)
      BY <1>0, <1>2, <2>1, Pieces, Zenon
    <2> QED
      BY <2>2, Zenon DEF Piece
  <1>4. 1 \in 1 .. to - i + 1 /\ i + 1 - 1 = i
    BY <1>0
  <1>5. SubSeq(b, i, to)[1] = b[i]
    BY <1>3, <1>4
  <1>6. IsRun(b, i, to)
    BY DEF IsRunOf
  <1> QED
    BY <1>0, <1>1, <1>3, <1>5, <1>6, Zenon DEF IsRun

\* All that RunOf says of a run.
RunIs(b, i, to, run) ==
    /\ to \in i .. Len(b) /\ i \in Nat /\ to \in Nat /\ Len(b) \in Nat
    /\ run.category = Category(b[i]) /\ run.str = SubSeq(b, i, to)
    /\ run.str \in Seq(Int) /\ Len(run.str) = to - i + 1
    /\ \A j \in 1 .. to - i + 1 : run.str[j] = b[i + j - 1]
    /\ \A j \in i .. to : Category(b[j]) = Category(b[i])
    /\ ~Concatenates(Category(b[i])) => to = i
    /\ Concatenates(Category(b[i])) /\ to < Len(b) => Category(b[to + 1]) # Category(b[i])

\* A run of a text is what RunOf says.
LEMMA RunsAre ==
  ASSUME NEW b \in Seq(0 .. 127), NEW i \in 1 .. Len(b), NEW to, NEW run, IsRunOf(run, b, i, to)
  PROVE  RunIs(b, i, to, run)
  <1>1. /\ to \in i .. Len(b) /\ i \in Nat /\ to \in Nat /\ Len(b) \in Nat
        /\ run.category = Category(b[i]) /\ run.str = SubSeq(b, i, to)
        /\ run.str \in Seq(Int) /\ Len(run.str) = to - i + 1
        /\ \A j \in 1 .. to - i + 1 : run.str[j] = b[i + j - 1]
        /\ \A j \in i .. to : Category(b[j]) = Category(b[i])
        /\ ~Concatenates(Category(b[i])) => to = i
        /\ Concatenates(Category(b[i])) /\ to < Len(b) => Category(b[to + 1]) # Category(b[i])
    BY RunOf
  <1> QED
    BY <1>1, Zenon DEF RunIs

\* The parser in the text.
LEMMA TextGoes ==
  ASSUME NEW b \in Seq(0 .. 127), IsString(b), NEW A \in Seq(Int), NEW i \in 1 .. Len(b), NEW p, InText(p, i, b, A),
         NEW to, NEW run, IsRunOf(run, b, i, to), NEW q, q = StringParseSymbols(p, run)
  PROVE  q.mLastParseResult = "NotComplete" /\ StringAt(q, to + 1, b, A)
  <1>0. /\ to \in i .. Len(b) /\ i \in Nat /\ to \in Nat /\ Len(b) \in Nat
        /\ run.category = Category(b[i]) /\ run.str = SubSeq(b, i, to) /\ run.str \in Seq(Int)
        /\ \A j \in i .. to : Category(b[j]) = Category(b[i])
        /\ ~Concatenates(Category(b[i])) => to = i
    <2>1. RunIs(b, i, to, run)
      BY RunsAre, Zenon
    <2> QED
      BY <2>1, Zenon DEF RunIs
  <1>1. PICK d \in BOOLEAN : Begins(b, i) /\ p = Reader("Text", d, A \o PointsOf(b)[i - 1], NoEscape)
    BY Zenon DEF InText
  <1>2. PICK u : u = A \o PointsOf(b)[i - 1]
    OBVIOUS
  <1>3. b[i] \in 0 .. 127
    BY ElementOfSeq, Zenon
  <1>4. CASE b[i] = Backslash
    <2>1. run.category = "Backslash"
      BY <1>0, <1>3, <1>4, CategoriesOf
    <2>2. to = i
      BY <1>0, <2>1 DEF Concatenates
    <2>3. q = Reader("Backslash", d, u, NoEscape)
      <3>1. StringParseSymbols(Reader("Text", d, u, NoEscape), run) = Reader("Backslash", d, u, NoEscape)
        BY <2>1, TextSteps
      <3> QED
        BY <1>1, <1>2, <3>1
    <2>4. q = Reader("Backslash", d, u, Announced(IF 0 = 0 THEN 0 ELSE WidthAt(b, i, 0)))
      <3>1. (IF 0 = 0 THEN 0 ELSE WidthAt(b, i, 0)) = 0
        OBVIOUS
      <3> QED
        BY <2>3, <3>1, NothingAnnounced
    <2>5. 0 \in Nat /\ ~(0 > 0) /\ to + 1 = i + 0 + 1
      BY <1>0, <2>2
    <2>6. InBackslash(q, to + 1, b, A)
      BY <1>1, <1>2, <1>4, <2>4, <2>5 DEF InBackslash
    <2>7. q.mLastParseResult = "NotComplete"
      BY <2>3, ReadersReadOn
    <2> QED
      BY <2>6, <2>7, Zenon DEF StringAt
  <1>5. CASE b[i] # Backslash
    <2>1. IsPlain(b[i])
      <3>1. ItemAt(b, i).size > 0
        BY <1>1, ItemsFollow
      <3>2. ~IsPlain(b[i]) => ItemAt(b, i).size = 0
        BY <1>5, PlainItems
      <3> QED
        BY <3>1, <3>2
    <2>2. Category(b[i]) \notin {"Backslash", "DoubleQuotes", "EndOfLine"}
      BY <1>3, <2>1, CategoriesOf DEF IsPlain
    <2>3. \A j \in i .. to : IsPlain(b[j])
      <3> SUFFICES ASSUME NEW j \in i .. to PROVE IsPlain(b[j])
        OBVIOUS
      <3>1. j \in 1 .. Len(b)
        BY <1>0
      <3>2. b[j] \in 0 .. 127
        BY <3>1, ElementOfSeq, Zenon
      <3>3. Category(b[j]) = Category(b[i])
        BY <1>0
      <3> QED
        BY <2>2, <3>2, <3>3, CategoriesOf DEF IsPlain
    <2>4. Begins(b, to + 1) /\ PointsOf(b)[to] = PointsOf(b)[i - 1] \o run.str
      <3>1. PICK m \in i .. Len(b) + 1 : m = to + 1 /\ m - 1 = to
        BY <1>0
      <3>2. i \in 1 .. Len(b) + 1
        BY <1>0
      <3>3. Begins(b, m) /\ PointsOf(b)[m - 1] = PointsOf(b)[i - 1] \o SubSeq(b, i, m - 1)
        BY <1>1, <2>3, <3>1, <3>2, PlainSymbols
      <3> QED
        BY <1>0, <3>1, <3>3
    <2>5. PICK y \in BOOLEAN : q = Reader("Text", y, u \o run.str, NoEscape)
      <3>1. run.category \notin {"Backslash", "DoubleQuotes"}
        BY <1>0, <2>2
      <3>2. \E y \in BOOLEAN : StringParseSymbols(Reader("Text", d, u, NoEscape), run) = Reader("Text", y, u \o run.str, NoEscape)
        BY <3>1, TextSteps
      <3> QED
        BY <1>1, <1>2, <3>2
    <2>6. u \o run.str = A \o PointsOf(b)[to]
      <3>1. i - 1 \in 0 .. Len(b)
        BY <1>0
      <3>2. (A \o PointsOf(b)[i - 1]) \o run.str = A \o (PointsOf(b)[i - 1] \o run.str)
        BY <1>0, <3>1, PointsJoin, Zenon
      <3> QED
        BY <1>2, <2>4, <3>2, Zenon
    <2>7. (to + 1) - 1 = to
      BY <1>0
    <2>8. InText(q, to + 1, b, A)
      BY <2>4, <2>5, <2>6, <2>7, Zenon DEF InText
    <2>9. q.mLastParseResult = "NotComplete"
      BY <2>5, ReadersReadOn
    <2> QED
      BY <2>8, <2>9, Zenon DEF StringAt
  <1> QED
    BY <1>4, <1>5, Zenon

\* Escapes that run into what is around them.
LEMMA NotApart ==
  ASSUME NEW b \in Seq(0 .. 127), NEW a \in 1 .. Len(b), b[a] = Backslash, NEW n, n = DigitsAfter(b, a), a + n < Len(b),
         \/ n > 2
         \/ n > 0 /\ b[a + n + 1] \in {97, 119}
         \/ Category(b[a + n + 1]) = "Letters" /\ a + n + 1 < Len(b) /\ Category(b[a + n + 2]) = "Letters"
  PROVE  ~EscapesStandApart(b)
  <1>1. n \in Nat
    BY DigitsFollow
  <1>2. ~(n = 0) \/ ~(n > 0)
    BY <1>1
  <1>3. n > 2 => ~(n = 0) /\ ~(n <= 2)
    BY <1>1
  <1> SUFFICES ASSUME EscapesStandApart(b) PROVE FALSE
    OBVIOUS
  <1>4. /\ n = 0 \/ (n <= 2 /\ b[a + n + 1] \notin {97, 119})
        /\ Category(b[a + n + 1]) = "Letters" /\ a + n + 1 < Len(b) => Category(b[a + n + 2]) # "Letters"
    BY Zenon DEF EscapesStandApart
  <1> QED
    BY <1>2, <1>3, <1>4

\* The escape at a is a code point of w digits, whose letter is at i.
LetterAt(b, a, n, w, item, i) ==
    n = DigitsAfter(b, a) /\ w = WidthAt(b, a, n) /\ IsCodePoint(b, a, n, w, item) /\ i = a + n + 1

\* The letter of a code point is where there are digits enough behind it.
LEMMA LetterFacts ==
  ASSUME NEW b \in Seq(0 .. 127), NEW a \in 1 .. Len(b), NEW n \in Nat, NEW w \in Nat, NEW item, NEW i \in Nat,
         LetterAt(b, a, n, w, item, i)
  PROVE  /\ w \in 1 .. 32 /\ i \in 1 .. Len(b) /\ i + w <= Len(b) /\ i = a + n + 1 /\ a \in Nat /\ Len(b) \in Nat
         /\ a + n < Len(b) /\ n = DigitsAfter(b, a)
         /\ b[i] \in CodePointEscapes /\ w \in Widths(b[i])
         /\ Category(b[i]) = "Letters"
         /\ n = 0 => w = CodePointEscape(b[i]).default
         /\ n > 0 => w = WidthAt(b, a, n)
  <1>1. /\ n = DigitsAfter(b, a) /\ w = WidthAt(b, a, n) /\ i = a + n + 1
        /\ b[i] \in CodePointEscapes /\ w \in Widths(b[i]) /\ w \in 1 .. 32 /\ i + w <= Len(b)
    BY Zenon DEF LetterAt, IsCodePoint
  <1>2. a \in Nat /\ Len(b) \in Nat /\ 1 <= a
    OBVIOUS
  <1>3. i = a + n + 1 /\ w >= 1 /\ i + w <= Len(b)
    <2>1. \A x \in 1 .. 32 : x >= 1
      OBVIOUS
    <2> QED
      BY <1>1, <2>1, Zenon
  <1>4. i \in 1 .. Len(b) /\ a + n < Len(b)
    BY <1>2, <1>3
  <1>5. b[i] \in 0 .. 127
    BY <1>4, ElementOfSeq, Zenon
  <1>6. Category(b[i]) = "Letters"
    BY <1>1, <1>5, CategoriesOf
  <1>7. n = 0 => w = CodePointEscape(b[i]).default
    <2> SUFFICES ASSUME n = 0 PROVE w = CodePointEscape(b[i]).default
      OBVIOUS
    <2>1. i = a + 1
      BY <1>2, <1>3
    <2> QED
      BY <1>1, <2>1, Zenon DEF WidthAt
  <1> QED
    BY <1>1, <1>2, <1>4, <1>6, <1>7, Zenon

\* The letter of a code point.
LEMMA LetterGoes ==
  ASSUME NEW b \in Seq(0 .. 127), NEW A \in Seq(Int), NEW a \in 1 .. Len(b), b[a] = Backslash, Begins(b, a),
         NEW n \in Nat, NEW w \in Nat, NEW item, NEW i \in Nat, LetterAt(b, a, n, w, item, i),
         NEW to, NEW run, IsRunOf(run, b, i, to),
         NEW d \in BOOLEAN, NEW g \in Nat, n = 0 => g = 0, n > 0 => g = w,
         NEW u, NEW q
  PROVE  u = A \o PointsOf(b)[a - 1] /\ q = StringParseSymbols(Reader("Backslash", d, u, Announced(g)), run)
             => StringGoes(q, to + 1, b, A)
  <1> SUFFICES ASSUME u = A \o PointsOf(b)[a - 1],
                      q = StringParseSymbols(Reader("Backslash", d, u, Announced(g)), run)
               PROVE  StringGoes(q, to + 1, b, A)
    OBVIOUS
  <1>0. /\ w \in 1 .. 32 /\ i \in 1 .. Len(b) /\ i + w <= Len(b) /\ i = a + n + 1 /\ a \in Nat /\ Len(b) \in Nat
        /\ a + n < Len(b)
    BY LetterFacts, Zenon
  <1>13. n = DigitsAfter(b, a)
    BY LetterFacts, Zenon
  <1>1. PICK c : c = b[i]
    OBVIOUS
  <1>2. /\ c \in CodePointEscapes /\ w \in Widths(c) /\ Category(c) = "Letters"
        /\ n = 0 => w = CodePointEscape(c).default
    <2>1. /\ b[i] \in CodePointEscapes /\ w \in Widths(b[i]) /\ Category(b[i]) = "Letters"
          /\ n = 0 => w = CodePointEscape(b[i]).default
      BY LetterFacts, Zenon
    <2> QED
      BY <1>1, <2>1, Zenon
  <1>6. /\ to \in i .. Len(b) /\ to \in Nat
        /\ run.category = Category(c) /\ Len(run.str) = to - i + 1 /\ run.str[1] = c
        /\ \A j \in i .. to : Category(b[j]) = Category(c)
    <2>1. i \in 1 .. Len(b)
      BY <1>0
    <2> QED
      BY <1>1, <2>1, RunOf
  <1>7. w = IF g = 0 THEN CodePointEscape(c).default ELSE g
    <2>1. n = 0 \/ n > 0
      OBVIOUS
    <2>2. n > 0 => g # 0
      BY <1>0
    <2> QED
      BY <1>2, <2>1, <2>2
  <1>8. run.category # "DecimalDigits"
    BY <1>2, <1>6
  <1>9. EscapeGoes(q, d, u, g, Len(run.str), c)
    BY <1>6, <1>8, EscapeSteps, Zenon
  <1>10. CASE to # i
    <2>1. i + 1 \in i .. to /\ a + n + 1 < Len(b) /\ a + n + 2 = i + 1 /\ to - i + 1 # 1
      BY <1>0, <1>6, <1>10
    <2>2. Category(b[a + n + 2]) = "Letters" /\ Category(b[a + n + 1]) = "Letters"
      BY <1>0, <1>1, <1>2, <1>6, <2>1, Zenon
    <2>3. ~EscapesStandApart(b)
      BY <1>0, <1>13, <2>1, <2>2, NotApart
    <2>4. Len(run.str) # 1
      BY <1>6, <2>1, Zenon
    <2> QED
      BY <1>9, <2>3, <2>4, Zenon DEF StringGoes, EscapeGoes
  <1>11. CASE to = i /\ g <= CodePointEscape(c).most
    <2>1. Len(run.str) = 1 /\ i - i + 1 = 1
      BY <1>6, <1>11
    <2>3. q = Reader("EscapeDigits", d, u, EscapeOf(CodePointEscape(c), w, <<>>))
      BY <1>2, <1>7, <1>9, <1>11, <2>1, Zenon DEF EscapeGoes
    <2>4. to + 1 \in a + n + 2 .. a + n + 1 + w /\ (to + 1) - 1 = i /\ i < a + n + 2 /\ a + n + 2 \in Int /\ i \in Int
      BY <1>0, <1>11
    <2>5. SubSeq(b, a + n + 2, (to + 1) - 1) = <<>>
      BY <2>4, SubSeqEmpty, Zenon
    <2>6. q = Reader("EscapeDigits", d, A \o PointsOf(b)[a - 1],
                     EscapeOf(CodePointEscape(b[a + n + 1]), w, SubSeq(b, a + n + 2, (to + 1) - 1)))
      <3>1. c = b[a + n + 1]
        BY <1>0, <1>1, Zenon
      <3> QED
        BY <2>3, <2>5, <3>1, Zenon
    <2>7. InDigits(q, to + 1, b, A)
      <3>1. b[a + n + 1] \in CodePointEscapes /\ w = WidthAt(b, a, n)
        BY <1>0, <1>1, <1>2, Zenon DEF LetterAt
      <3> QED
        BY <1>0, <1>13, <2>4, <2>6, <3>1, Zenon DEF InDigits
    <2>8. q.mLastParseResult = "NotComplete"
      BY <2>3, ReadersReadOn, Zenon
    <2> QED
      BY <2>7, <2>8, Zenon DEF StringGoes, StringAt
  <1>12. CASE to = i /\ ~(g <= CodePointEscape(c).most)
    <2>1. Len(run.str) = 1
      <3>1. i - i + 1 = 1
        OBVIOUS
      <3> QED
        BY <1>6, <1>12, <3>1, Zenon
    <2>2. q.mLastParseResult = "Error"
      BY <1>2, <1>9, <1>12, <2>1, Zenon DEF EscapeGoes
    <2>3. n > 0 /\ g = w
      <3>1. n = 0 => g <= CodePointEscape(c).most
        BY <1>2 DEF CodePointEscapes, CodePointEscape
      <3>2. n = 0 \/ n > 0
        OBVIOUS
      <3> QED
        BY <1>12, <3>1, <3>2, Zenon
    <2>4. c \in {97, 119}
      <3>1. ~(w <= CodePointEscape(c).most)
        BY <1>12, <2>3, Zenon
      <3>2. c # 97 /\ c # 119 => w <= CodePointEscape(c).most
        <4>1. w \in Widths(98) => w <= CodePointEscape(98).most
          <5>1. Widths(98) = 1 .. 32
            <6>1. 98 \notin {97, 119}
              OBVIOUS
            <6> QED
              BY <6>1, Zenon DEF Widths
          <5>2. CodePointEscape(98).most = 32
            BY DEF CodePointEscape
          <5>3. \A x \in 1 .. 32 : x <= 32
            OBVIOUS
          <5> QED
            BY <5>1, <5>2, <5>3, Zenon
        <4>2. w \in Widths(117) => w <= CodePointEscape(117).most
          <5>1. Widths(117) = 1 .. 8
            <6>1. 117 \notin {97, 119} /\ 117 # 98
              OBVIOUS
            <6> QED
              BY <6>1, Zenon DEF Widths
          <5>2. CodePointEscape(117).most = 8
            BY DEF CodePointEscape
          <5>3. \A x \in 1 .. 8 : x <= 8
            OBVIOUS
          <5> QED
            BY <5>1, <5>2, <5>3, Zenon
        <4>3. w \in Widths(120) => w <= CodePointEscape(120).most
          <5>1. Widths(120) = 1 .. 8
            <6>1. 120 \notin {97, 119} /\ 120 # 98 /\ 120 # 117
              OBVIOUS
            <6> QED
              BY <6>1, Zenon DEF Widths
          <5>2. CodePointEscape(120).most = 8
            BY DEF CodePointEscape
          <5>3. \A x \in 1 .. 8 : x <= 8
            OBVIOUS
          <5> QED
            BY <5>1, <5>2, <5>3, Zenon
        <4>4. c \in {97, 98, 117, 119, 120}
          BY <1>2 DEF CodePointEscapes
        <4> QED
          BY <1>2, <4>1, <4>2, <4>3, <4>4, Zenon
      <3> QED
        BY <3>1, <3>2
    <2>6. ~EscapesStandApart(b)
      <3>1. b[a + n + 1] \in {97, 119}
        BY <1>0, <1>1, <2>4, Zenon
      <3> QED
        BY <1>0, <1>13, <2>3, <3>1, NotApart
    <2> QED
      BY <2>2, <2>6, Zenon DEF StringGoes
  <1> QED
    BY <1>10, <1>11, <1>12, Zenon

\* The symbol of a simple escape.
SimpleAt(b, a, item, i) ==
    0 = DigitsAfter(b, a) /\ item = EscapeAt(b, a) /\ IsSimple(b, a, 0, item) /\ i = a + 1

\* A simple escape leads back to the text.
LEMMA SimpleGoes ==
  ASSUME NEW b \in Seq(0 .. 127), IsString(b), NEW A \in Seq(Int), NEW a \in 1 .. Len(b), b[a] = Backslash, Begins(b, a),
         NEW item, NEW i \in 1 .. Len(b), SimpleAt(b, a, item, i), NEW to, NEW run, IsRunOf(run, b, i, to),
         NEW d \in BOOLEAN, NEW u, NEW q
  PROVE  u = A \o PointsOf(b)[a - 1] /\ q = StringParseSymbols(Reader("Backslash", d, u, Announced(0)), run)
             => StringGoes(q, to + 1, b, A)
  <1> SUFFICES ASSUME u = A \o PointsOf(b)[a - 1],
                      q = StringParseSymbols(Reader("Backslash", d, u, Announced(0)), run)
               PROVE  StringGoes(q, to + 1, b, A)
    OBVIOUS
  <1>1. PICK c : c = b[i]
    OBVIOUS
  <1>2. c \in SimpleEscapes /\ item = [size |-> 2, cp |-> SimpleEscape(c)] /\ i = a + 1
    BY <1>1, Zenon DEF IsSimple, SimpleAt
  <1>3. i \in Nat /\ a \in Nat /\ Len(b) \in Nat
    OBVIOUS
  <1>4. c \in 0 .. 127
    BY <1>1, ElementOfSeq, Zenon
  <1>5. Category(c) \in {"DoubleQuotes", "Backslash", "Letters"}
    BY <1>2, <1>4, CategoriesOf
  <1>6. /\ to \in i .. Len(b) /\ to \in Nat
        /\ run.category = Category(c) /\ Len(run.str) = to - i + 1 /\ run.str[1] = c
        /\ \A j \in i .. to : Category(b[j]) = Category(c)
        /\ ~Concatenates(Category(c)) => to = i
    BY <1>1, RunOf
  <1>8. run.category # "DecimalDigits" /\ 0 \in Nat
    BY <1>5, <1>6
  <1>9. EscapeGoes(q, d, u, 0, Len(run.str), c)
    BY <1>6, <1>8, EscapeSteps, Zenon
  <1>10. CASE to # i
    <2>0. Category(c) = "Letters"
      BY <1>5, <1>6, <1>10 DEF Concatenates
    <2>1. /\ i + 1 \in i .. to /\ a + 0 < Len(b) /\ a + 0 + 1 < Len(b) /\ a + 0 + 2 = i + 1 /\ a + 0 + 1 = i
          /\ to - i + 1 # 1
      BY <1>2, <1>3, <1>6, <1>10
    <2>2. Category(b[a + 0 + 2]) = "Letters" /\ Category(b[a + 0 + 1]) = "Letters"
      BY <1>1, <1>6, <2>0, <2>1, Zenon
    <2>3. ~EscapesStandApart(b)
      <3>1. PICK n : n = 0
        OBVIOUS
      <3>2. n = DigitsAfter(b, a)
        BY <3>1, Zenon DEF SimpleAt
      <3> QED
        BY <2>1, <2>2, <3>1, <3>2, NotApart
    <2>4. Len(run.str) # 1
      BY <1>6, <2>1, Zenon
    <2> QED
      BY <1>9, <2>3, <2>4, Zenon DEF StringGoes, EscapeGoes
  <1>11. CASE to = i
    <2>1. Len(run.str) = 1
      <3>1. i - i + 1 = 1
        OBVIOUS
      <3> QED
        BY <1>6, <1>11, <3>1, Zenon
    <2>2. PICK cp : cp = SimpleEscape(c)
      OBVIOUS
    <2>3. cp \in Int
      BY <1>2, <2>2 DEF SimpleEscapes, SimpleEscape, DoubleQuotes, Backslash
    <2>4. PICK y \in BOOLEAN : q = Reader("Text", y, u \o <<cp>>, NoEscape)
      BY <1>2, <1>9, <2>1, <2>2, Zenon DEF EscapeGoes
    <2>5. item.size = 2 /\ item.cp = cp
      BY <1>2, <2>2
    <2>6. Begins(b, to + 1) /\ PointsOf(b)[(to + 1) - 1] = PointsOf(b)[a - 1] \o <<cp>>
      <3>1. Begins(b, a + item.size) /\ PointsOf(b)[a + item.size - 1] = PointsOf(b)[a - 1] \o <<item.cp>>
        <4>1. item = EscapeAt(b, a)
          BY Zenon DEF SimpleAt
        <4> QED
          BY <4>1, EscapeFollows
      <3>2. a + 2 = to + 1 /\ a + 2 - 1 = (to + 1) - 1
        BY <1>2, <1>3, <1>11
      <3>3. a + item.size = to + 1 /\ a + item.size - 1 = (to + 1) - 1
        BY <2>5, <3>2
      <3> QED
        BY <2>5, <3>1, <3>3, Zenon
    <2>7. u \o <<cp>> = A \o PointsOf(b)[(to + 1) - 1]
      <3>1. a - 1 \in 0 .. Len(b)
        BY <1>3
      <3>2. PICK s \in Seq(Int) : s = <<cp>>
        BY <2>3, Single, Zenon
      <3>3. (A \o PointsOf(b)[a - 1]) \o s = A \o (PointsOf(b)[a - 1] \o s)
        BY <3>1, PointsJoin
      <3> QED
        BY <2>6, <3>2, <3>3, Zenon
    <2>8. InText(q, to + 1, b, A)
      BY <2>4, <2>6, <2>7, Zenon DEF InText
    <2>9. q.mLastParseResult = "NotComplete"
      BY <2>4, ReadersReadOn, Zenon
    <2> QED
      BY <2>8, <2>9, Zenon DEF StringGoes, StringAt
  <1> QED
    BY <1>10, <1>11, Zenon

\* Decimal digits are digits of radix 10.
LEMMA DecimalDigits ==
  ASSUME NEW c \in 0 .. 127, Category(c) = "DecimalDigits"
  PROVE  IsDigit(10, c) /\ DigitValue(c) \in 0 .. 9
  <1>1. c \in 48 .. 57
    BY CategoriesOf
  <1> QED
    BY <1>1 DEF IsDigit, DigitValue, IsValidRadix

\* The values of one and two digits.
LEMMA FewDigits ==
  ASSUME NEW s \in Seq(0 .. 127), AreDigits(s, 10)
  PROVE  /\ Len(s) = 1 => Horner(DigitsOf(s), 10) = DigitValue(s[1])
         /\ Len(s) = 2 => Horner(DigitsOf(s), 10) = 10 * DigitValue(s[1]) + DigitValue(s[2])
  <1>1. PICK v \in Seq(0 .. 35) : v = DigitsOf(s) /\ Len(v) = Len(s)
    BY DigitsAreTyped
  <1>2. \A i \in 1 .. Len(v) : v[i] = DigitValue(s[i]) /\ v[i] \in Nat
    <2>1. \A i \in 1 .. Len(v) : v[i] \in 0 .. 35
      BY ElementOfSeq, Zenon
    <2>2. \A i \in 1 .. Len(s) : DigitsOf(s)[i] = DigitValue(s[i])
      BY DEF DigitsOf
    <2>3. \A x \in 0 .. 35 : x \in Nat
      OBVIOUS
    <2> QED
      BY <1>1, <2>1, <2>2, <2>3, Zenon
  <1>3. v \in Seq(Nat)
    BY <1>2, Retyped, Zenon
  <1>4. PICK f : /\ f[0] = 0
                 /\ \A i \in 0 .. Len(v) : f[i] \in Nat
                 /\ \A i \in 1 .. Len(v) : f[i] = f[i - 1] * 10 + v[i]
                 /\ Horner(v, 10) = f[Len(v)]
    <2>1. 10 \in Nat
      OBVIOUS
    <2> QED
      BY <1>3, <2>1, HornerSteps
  <1>5. CASE Len(s) = 1
    <2>1. 1 \in 1 .. Len(v) /\ 1 - 1 = 0
      BY <1>1, <1>5
    <2>2. f[1] = v[1]
      BY <1>2, <1>4, <2>1
    <2> QED
      BY <1>1, <1>2, <1>4, <1>5, <2>1, <2>2
  <1>6. CASE Len(s) = 2
    <2>1. 1 \in 1 .. Len(v) /\ 1 - 1 = 0 /\ 2 \in 1 .. Len(v) /\ 2 - 1 = 1
      BY <1>1, <1>6
    <2>2. f[1] = v[1] /\ f[2] = f[1] * 10 + v[2] /\ v[1] \in Nat /\ v[2] \in Nat
      BY <1>2, <1>4, <2>1
    <2>3. f[2] = 10 * v[1] + v[2]
      BY <2>2
    <2> QED
      BY <1>1, <1>2, <1>4, <1>6, <2>1, <2>3
  <1> QED
    BY <1>5, <1>6

\* The digits of a number of digits.
LEMMA WidthGoes ==
  ASSUME NEW b \in Seq(0 .. 127), NEW A \in Seq(Int), NEW a \in 1 .. Len(b), b[a] = Backslash, Begins(b, a),
         NEW n \in Nat, NEW w \in Nat, NEW item, NEW l \in Nat, LetterAt(b, a, n, w, item, l), n > 0,
         NEW i \in 1 .. Len(b), i = a + 1,
         NEW to, NEW run, IsRunOf(run, b, i, to),
         NEW d \in BOOLEAN, NEW u, NEW q
  PROVE  u = A \o PointsOf(b)[a - 1] /\ q = StringParseSymbols(Reader("Backslash", d, u, Announced(0)), run)
             => StringGoes(q, to + 1, b, A)
  <1> SUFFICES ASSUME u = A \o PointsOf(b)[a - 1],
                      q = StringParseSymbols(Reader("Backslash", d, u, Announced(0)), run)
               PROVE  StringGoes(q, to + 1, b, A)
    OBVIOUS
  <1>0. /\ w \in 1 .. 32 /\ a + n < Len(b) /\ a \in Nat /\ Len(b) \in Nat
    BY LetterFacts, Zenon
  <1>1. n = DigitsAfter(b, a) /\ w = WidthAt(b, a, n)
    BY Zenon DEF LetterAt
  <1>2. /\ to \in i .. Len(b) /\ to \in Nat
        /\ run.category = Category(b[i]) /\ run.str = SubSeq(b, i, to) /\ Len(run.str) = to - i + 1
        /\ \A j \in 1 .. to - i + 1 : run.str[j] = b[i + j - 1]
        /\ \A j \in i .. to : Category(b[j]) = Category(b[i])
        /\ Concatenates(Category(b[i])) /\ to < Len(b) => Category(b[to + 1]) # Category(b[i])
    <2>1. RunIs(b, i, to, run)
      BY RunsAre, Zenon
    <2> QED
      BY <2>1, Zenon DEF RunIs
  <1>3. Category(b[i]) = "DecimalDigits"
    <2>1. PICK m \in Nat : /\ m = DigitsAfter(b, a)
                           /\ \A j \in a + 1 .. a + m : Category(b[j]) = "DecimalDigits"
      BY DigitsFollow
    <2>2. m = n
      BY <1>1, <2>1, Zenon
    <2>3. i \in a + 1 .. a + n
      BY <1>0
    <2> QED
      BY <2>1, <2>2, <2>3
  <1>4. n = to - a
    <2>1. PICK m \in 0 .. Len(b) - a : m = to - a /\ a + m = to
      BY <1>0, <1>2
    <2>2. \A j \in a + 1 .. a + m : Category(b[j]) = "DecimalDigits"
      BY <1>2, <1>3, <2>1
    <2>3. a + m = Len(b) \/ Category(b[a + m + 1]) # "DecimalDigits"
      <3>1. Concatenates("DecimalDigits")
        BY DEF Concatenates
      <3>2. to < Len(b) \/ to = Len(b)
        BY <1>0, <1>2
      <3> QED
        BY <1>2, <1>3, <2>1, <3>1, <3>2
    <2>4. DigitsAfter(b, a) = m
      BY <2>2, <2>3, DigitsEnd, Zenon
    <2> QED
      BY <1>1, <2>1, <2>4, Zenon
  <1>5. to = a + n /\ to - i + 1 = n
    BY <1>0, <1>2, <1>4
  <1>6. run.str \in Seq(0 .. 127) /\ AreDigits(run.str, 10)
    <2>1. i \in Int /\ to \in Int /\ 1 <= i /\ to <= Len(b) /\ i <= to + 1
      BY <1>0, <1>2
    <2>2. run.str \in Seq(0 .. 127)
      <3>1. SubSeq(b, i, to) \in Seq(0 .. 127)
        BY <2>1, Cuts, Zenon
      <3> QED
        BY <1>2, <3>1, Zenon
    <2>3. ASSUME NEW j \in 1 .. Len(run.str) PROVE IsDigit(10, run.str[j])
      <3>1. j \in 1 .. to - i + 1
        BY <1>2, <2>3, Zenon
      <3>2. i + j - 1 \in i .. to /\ i + j - 1 \in 1 .. Len(b)
        BY <1>0, <1>2, <3>1
      <3>3. Category(b[i + j - 1]) = "DecimalDigits" /\ run.str[j] = b[i + j - 1]
        BY <1>2, <1>3, <3>1, <3>2, Zenon
      <3>4. b[i + j - 1] \in 0 .. 127
        BY <3>2, ElementOfSeq, Zenon
      <3> QED
        BY <3>3, <3>4, DecimalDigits, Zenon
    <2> QED
      BY <2>2, <2>3, Zenon DEF AreDigits
  <1>7. Horner(DigitsOf(run.str), 10) = w
    <2>1. run.str = SubSeq(b, a + 1, a + n)
      BY <1>2, <1>5
    <2>2. w = PlaceValue(DigitsOf(SubSeq(b, a + 1, a + n)), 10)
      <3>1. n # 0
        OBVIOUS
      <3> QED
        BY <1>1, <3>1, Zenon DEF WidthAt
    <2>3. 10 \in Nat
      OBVIOUS
    <2>4. PlaceValue(DigitsOf(run.str), 10) = Horner(DigitsOf(run.str), 10)
      BY <1>6, <2>3, PlaceValueTyped
    <2> QED
      BY <2>1, <2>2, <2>4, Zenon
  <1>8. CASE n > 2
    <2>1. ~EscapesStandApart(b)
      BY <1>0, <1>1, <1>8, NotApart
    <2>2. q.mLastParseResult = "Error"
      <3>1. Len(run.str) = n
        BY <1>2, <1>5, Zenon
      <3>2. Len(run.str) > 2 /\ Len(run.str) \in Nat \ {0} /\ Len(run.str) # 1 /\ Len(run.str) # 2
        BY <1>8, <3>1
      <3>3. run.category = "DecimalDigits"
        BY <1>2, <1>3, Zenon
      <3>4. StringParseSymbols(Reader("Backslash", d, u, Announced(0)), run).mLastParseResult = "Error"
        BY <1>0, <3>2, <3>3, WidthSteps
      <3> QED
        BY <3>4
    <2> QED
      BY <2>1, <2>2, Zenon DEF StringGoes
  <1>9. CASE ~(n > 2)
    <2>1. Len(run.str) = n
      BY <1>2, <1>5, Zenon
    <2>2. q = Reader("Backslash", d, u, Announced(w))
      <3>1. Len(run.str) <= 2 /\ Len(run.str) \in Nat \ {0}
        BY <1>9, <2>1
      <3>2. /\ Len(run.str) = 1 => w = DigitValue(run.str[1])
            /\ Len(run.str) = 2 => w = 10 * DigitValue(run.str[1]) + DigitValue(run.str[2])
        BY <1>6, <1>7, FewDigits
      <3>3. run.category = "DecimalDigits"
        BY <1>2, <1>3, Zenon
      <3>4. StringParseSymbols(Reader("Backslash", d, u, Announced(0)), run) = Reader("Backslash", d, u, Announced(w))
        BY <1>0, <3>1, <3>2, <3>3, WidthSteps
      <3> QED
        BY <3>4
    <2>3. (IF n = 0 THEN 0 ELSE WidthAt(b, a, n)) = w
      <3>1. n # 0
        OBVIOUS
      <3> QED
        BY <1>1, <3>1, Zenon
    <2>4. to + 1 = a + n + 1
      BY <1>0, <1>5
    <2>5. InBackslash(q, to + 1, b, A)
      BY <1>1, <2>2, <2>3, <2>4, Zenon DEF InBackslash
    <2>6. q.mLastParseResult = "NotComplete"
      BY <2>2, ReadersReadOn, Zenon
    <2> QED
      BY <2>5, <2>6, Zenon DEF StringGoes, StringAt
  <1> QED
    BY <1>8, <1>9

\* A part of a part: its first w symbols and the rest.
FrontAndRest(x, b, l, w, to) ==
    SubSeq(x, 1, w) = SubSeq(b, l + 1, l + w) /\ SubSeq(x, w + 1, Len(x)) = SubSeq(b, l + w + 1, to)

LEMMA PartOfPart ==
  ASSUME NEW b \in Seq(0 .. 127), NEW l \in Nat, NEW w \in Nat, w >= 1, NEW to \in Nat, l + w <= to, to <= Len(b),
         NEW x, x = SubSeq(b, l + 1, to)
  PROVE  FrontAndRest(x, b, l, w, to)
  <1> SUFFICES /\ SubSeq(x, 1, w) = SubSeq(b, l + 1, l + w)
               /\ SubSeq(x, w + 1, Len(x)) = SubSeq(b, l + w + 1, to)
    BY Zenon DEF FrontAndRest
  <1>1. PICK k \in Nat : k = l + 1
    OBVIOUS
  <1>2. Len(b) \in Nat
    OBVIOUS
  <1>3. k \in 1 .. Len(b) /\ to \in 1 .. Len(b)
    BY <1>1, <1>2
  <1>4. PICK y : y = SubSeq(b, k, to)
    OBVIOUS
  <1>5. y = x /\ Len(y) = to - k + 1
    <2>1. y = x
      BY <1>1, <1>4
    <2>2. k \in Int /\ to \in Int /\ 1 <= k /\ to <= Len(b) /\ k <= to + 1
      BY <1>1, <1>2
    <2>3. Len(SubSeq(b, k, to)) = to - k + 1
      BY <2>2, Cuts, Zenon
    <2> QED
      BY <1>4, <2>1, <2>3
  <1>6. to - k + 1 \in Nat /\ 1 \in 1 .. to - k + 1 /\ w \in 1 .. to - k + 1
    BY <1>1
  <1>7. SubSeq(SubSeq(b, k, to), 1, w) = SubSeq(b, k + 1 - 1, k + w - 1)
    BY <1>3, <1>6, SubSeqOfSubSeq
  <1>8. k + 1 - 1 = l + 1 /\ k + w - 1 = l + w
    BY <1>1
  <1>9. CASE l + w = to
    <2>1. Len(y) < w + 1 /\ to < l + w + 1 /\ w + 1 \in Int /\ Len(y) \in Int /\ to \in Int /\ l + w + 1 \in Int
      BY <1>1, <1>5, <1>9
    <2>2. SubSeq(y, w + 1, Len(y)) = <<>>
      BY <2>1, SubSeqEmpty, Zenon
    <2>3. SubSeq(b, l + w + 1, to) = <<>>
      BY <2>1, SubSeqEmpty, Zenon
    <2> QED
      BY <1>4, <1>5, <1>7, <1>8, <2>2, <2>3, Zenon
  <1>10. CASE l + w # to
    <2>1. PICK e \in Nat : e = to - k + 1
      BY <1>6
    <2>2. w + 1 \in 1 .. to - k + 1 /\ e \in 1 .. to - k + 1
      BY <1>1, <1>6, <1>10, <2>1
    <2>3. SubSeq(SubSeq(b, k, to), w + 1, e) = SubSeq(b, k + (w + 1) - 1, k + e - 1)
      BY <1>3, <2>2, SubSeqOfSubSeq
    <2>4. k + (w + 1) - 1 = l + w + 1 /\ k + e - 1 = to
      BY <1>1, <2>1
    <2> QED
      BY <1>4, <1>5, <1>7, <1>8, <2>1, <2>3, <2>4, Zenon
  <1> QED
    BY <1>9, <1>10

\* The digits of a code point.
LEMMA DigitsGo ==
  ASSUME NEW b \in Seq(0 .. 127), IsString(b), NEW A \in Seq(Int), NEW a \in 1 .. Len(b), b[a] = Backslash, Begins(b, a),
         NEW n \in Nat, NEW w \in Nat, NEW item, item = EscapeAt(b, a), NEW l \in Nat, LetterAt(b, a, n, w, item, l),
         NEW i \in l + 1 .. l + w, NEW to, NEW run, IsRunOf(run, b, i, to),
         NEW d \in BOOLEAN, NEW u, NEW s, NEW q, NEW form
  PROVE  (/\ u = A \o PointsOf(b)[a - 1] /\ s = SubSeq(b, l + 1, i - 1) /\ form = CodePointEscape(b[l])
          /\ q = StringParseSymbols(Reader("EscapeDigits", d, u, EscapeOf(form, w, s)), run))
             => StringGoes(q, to + 1, b, A)
  <1> SUFFICES ASSUME u = A \o PointsOf(b)[a - 1], s = SubSeq(b, l + 1, i - 1), form = CodePointEscape(b[l]),
                      q = StringParseSymbols(Reader("EscapeDigits", d, u, EscapeOf(form, w, s)), run)
               PROVE  StringGoes(q, to + 1, b, A)
    BY Zenon
  <1>0. /\ w \in 1 .. 32 /\ l \in 1 .. Len(b) /\ l + w <= Len(b) /\ l = a + n + 1 /\ a \in Nat /\ Len(b) \in Nat
        /\ i \in Nat /\ l < i /\ i <= l + w /\ i \in 1 .. Len(b)
    <2>1. /\ w \in 1 .. 32 /\ l \in 1 .. Len(b) /\ l + w <= Len(b) /\ l = a + n + 1 /\ a \in Nat /\ Len(b) \in Nat
      BY LetterFacts, Zenon
    <2> QED
      BY <2>1
  <1>1. n = DigitsAfter(b, a) /\ w = WidthAt(b, a, n) /\ b[l] \in CodePointEscapes
    BY Zenon DEF LetterAt, IsCodePoint
  <1>2. /\ to \in i .. Len(b) /\ to \in Nat
        /\ run.category = Category(b[i]) /\ run.str = SubSeq(b, i, to)
        /\ \A j \in i .. to : Category(b[j]) = Category(b[i])
    <2>1. RunIs(b, i, to, run)
      BY <1>0, RunsAre, Zenon
    <2> QED
      BY <2>1, Zenon DEF RunIs
  <1>3. PICK digits : digits = SubSeq(b, l + 1, l + w)
    OBVIOUS
  <1>4. PICK cp : cp = ToCodePoint(form.converter, PlaceValue(DigitsOf(digits), form.radix))
    OBVIOUS
  <1>5. AreDigits(digits, form.radix) /\ cp \in CodePoints /\ item = [size |-> n + 2 + w, cp |-> cp]
    <2>1. l + 1 = a + n + 1 + 1 /\ l + w = a + n + 1 + w /\ l = a + n + 1
      BY <1>0
    <2> QED
      BY <1>3, <1>4, <2>1, Zenon DEF LetterAt, IsCodePoint
  <1>6. digits \in Seq(0 .. 127) /\ Len(digits) = w /\ \A j \in 1 .. w : digits[j] = b[l + j]
    <2>1. l + 1 \in Int /\ l + w \in Int /\ 1 <= l + 1 /\ l + 1 <= (l + w) + 1 /\ (l + w) - (l + 1) + 1 = w
          /\ \A j \in 1 .. w : (l + 1) + j - 1 = l + j
      BY <1>0
    <2>2. /\ SubSeq(b, l + 1, l + w) \in Seq(0 .. 127) /\ Len(SubSeq(b, l + 1, l + w)) = (l + w) - (l + 1) + 1
          /\ \A j \in 1 .. (l + w) - (l + 1) + 1 : SubSeq(b, l + 1, l + w)[j] = b[(l + 1) + j - 1]
      <3>1. PICK k \in Int, e \in Int : k = l + 1 /\ e = l + w
        BY <2>1
      <3>2. 1 <= k /\ e <= Len(b) /\ k <= e + 1
        BY <1>0, <2>1, <3>1
      <3>3. /\ SubSeq(b, k, e) \in Seq(0 .. 127) /\ Len(SubSeq(b, k, e)) = e - k + 1
            /\ \A j \in 1 .. e - k + 1 : SubSeq(b, k, e)[j] = b[k + j - 1]
        <4>1. Piece(0 .. 127, b, k, e)
          BY <3>2, Pieces, Zenon
        <4> QED
          BY <4>1, Zenon DEF Piece
      <3> QED
        BY <3>1, <3>3, Zenon
    <2> QED
      BY <1>3, <2>1, <2>2
  <1>7. Category(b[i]) \in Numerals
    <2>1. i - l \in 1 .. w /\ l + (i - l) = i
      BY <1>0
    <2>2. IsDigit(form.radix, b[i])
      <3>1. IsDigit(form.radix, digits[i - l])
        BY <1>5, <1>6, <2>1 DEF AreDigits
      <3> QED
        BY <1>6, <2>1, <3>1
    <2>3. form.radix \in Radixes
      <3>1. \A c \in CodePointEscapes : CodePointEscape(c).radix \in Radixes
        BY DEF Radixes, CodePointEscapes, CodePointEscape
      <3> QED
        BY <1>1, <3>1, Zenon
    <2>4. b[i] \in Int
      <3>1. b[i] \in 0 .. 127
        BY <1>0, ElementOfSeq, Zenon
      <3>2. \A c \in 0 .. 127 : c \in Int
        OBVIOUS
      <3> QED
        BY <3>1, <3>2, Zenon
    <2> QED
      BY <2>2, <2>3, <2>4, Categories, Zenon DEF Numerals
  <1>8. run.category # "DoubleQuotes"
    BY <1>2, <1>7 DEF Numerals
  <1>9. PICK x : x = SubSeq(b, l + 1, to)
    OBVIOUS
  <1>10. s \o run.str = x /\ Len(x) = to - l
    <2>1. l + 1 \in Int /\ i \in Int /\ to \in Int /\ 1 <= l + 1 /\ l + 1 <= i /\ i <= to /\ to <= Len(b) /\ l + 1 <= to + 1
          /\ to - (l + 1) + 1 = to - l
      BY <1>0, <1>2
    <2>2. SubSeq(b, l + 1, i - 1) \o SubSeq(b, i, to) = SubSeq(b, l + 1, to)
      BY <2>1, PartsJoin
    <2>3. Len(SubSeq(b, l + 1, to)) = to - (l + 1) + 1
      <3>1. PICK k \in Int : k = l + 1
        BY <2>1
      <3>2. 1 <= k /\ to <= Len(b) /\ k <= to + 1
        BY <2>1, <3>1
      <3>3. Len(SubSeq(b, k, to)) = to - k + 1
        BY <2>1, <3>2, CutLength, Zenon
      <3> QED
        BY <3>1, <3>3, Zenon
    <2> QED
      BY <1>2, <1>9, <2>1, <2>2, <2>3
  <1>11. CASE to - l < w
    <2>1. q = Reader("EscapeDigits", d, u, EscapeOf(form, w, x))
      <3>1. Len(x) < w
        BY <1>10, <1>11, Zenon
      <3>2. StringParseSymbols(Reader("EscapeDigits", d, u, EscapeOf(form, w, s)), run)
                = Reader("EscapeDigits", d, u, EscapeOf(form, w, x))
        <4>1. SequenceGoes(StringParseSymbols(Reader("EscapeDigits", d, u, EscapeOf(form, w, s)), run),
                           d, u, form, w, s, run, x)
          BY SequenceGrows, Zenon
        <4> QED
          BY <1>8, <1>10, <3>1, <4>1, Zenon DEF SequenceGoes
      <3> QED
        BY <3>2, Zenon
    <2>2. to + 1 \in a + n + 2 .. a + n + 1 + w /\ (to + 1) - 1 = to /\ a + n + 2 = l + 1 /\ a + n + 1 = l
      BY <1>0, <1>2, <1>11
    <2>3. q = Reader("EscapeDigits", d, A \o PointsOf(b)[a - 1],
                     EscapeOf(CodePointEscape(b[a + n + 1]), w, SubSeq(b, a + n + 2, (to + 1) - 1)))
      <3>1. x = SubSeq(b, a + n + 2, (to + 1) - 1) /\ form = CodePointEscape(b[a + n + 1])
        BY <1>9, <2>2, Zenon
      <3> QED
        BY <2>1, <3>1, Zenon
    <2>4. InDigits(q, to + 1, b, A)
      <3>1. b[a + n + 1] \in CodePointEscapes
        BY <1>1, <2>2
      <3> QED
        BY <1>1, <2>2, <2>3, <3>1, Zenon DEF InDigits
    <2>5. q.mLastParseResult = "NotComplete"
      BY <2>1, ReadersReadOn, Zenon
    <2> QED
      BY <2>4, <2>5, Zenon DEF StringGoes, StringAt
  <1>12. CASE ~(to - l < w)
    <2>1. l + w <= to /\ w >= 1 /\ to <= Len(b)
      BY <1>0, <1>2, <1>12
    <2>2. PICK left : left = SubSeq(b, l + w + 1, to)
      OBVIOUS
    <2>3. SubSeq(x, 1, w) = digits /\ SubSeq(x, w + 1, Len(x)) = left
      <3>1. FrontAndRest(x, b, l, w, to)
        BY <1>2, <1>9, <2>1, PartOfPart, Zenon
      <3> QED
        BY <1>3, <2>2, <3>1, Zenon DEF FrontAndRest
    <2>4. left \in Seq(Int)
      <3>1. b \in Seq(Int)
        BY SymbolsAreIntegers
      <3>2. l + w + 1 \in Int /\ to \in Int /\ 1 <= l + w + 1 /\ l + w + 1 <= to + 1
        BY <1>0, <1>2, <2>1
      <3>3. SubSeq(b, l + w + 1, to) \in Seq(Int)
        BY <2>1, <3>1, <3>2, Cuts, Zenon
      <3> QED
        BY <2>2, <3>3
    <2>5. cp # Undefined /\ IsValidCodePoint(cp) /\ cp \in Int
      BY <1>5, Largest DEF CodePoints, Undefined, IsValidCodePoint
    <2>6. cp = ToCodePoint(form.converter, Horner(DigitsOf(digits), form.radix))
      <3>1. form.radix \in Nat
        <4>1. \A c \in CodePointEscapes : CodePointEscape(c).radix \in Nat
          BY DEF CodePointEscapes, CodePointEscape
        <4> QED
          BY <1>1, <4>1, Zenon
      <3>2. PlaceValue(DigitsOf(digits), form.radix) = Horner(DigitsOf(digits), form.radix)
        BY <1>5, <1>6, <3>1, PlaceValueTyped
      <3> QED
        BY <1>4, <3>2, Zenon
    <2>7. PICK y \in BOOLEAN : q = Reader("Text", y, u \o (<<cp>> \o left), NoEscape)
      <3>1. ~(Len(x) < w)
        BY <1>10, <1>12, Zenon
      <3>2. \E y \in BOOLEAN :
                StringParseSymbols(Reader("EscapeDigits", d, u, EscapeOf(form, w, s)), run)
                    = Reader("Text", y, u \o (<<cp>> \o SubSeq(x, w + 1, Len(x))), NoEscape)
        <4>1. CodePointGoes(StringParseSymbols(Reader("EscapeDigits", d, u, EscapeOf(form, w, s)), run),
                            u, form, w, s, run, x, digits, cp)
          BY CodePointEnds, Zenon
        <4> QED
          BY <1>5, <1>8, <1>10, <2>3, <2>5, <2>6, <3>1, <4>1, Zenon DEF CodePointGoes
      <3> QED
        BY <2>3, <3>2, Zenon
    <2>8. Begins(b, l + w + 1) /\ PointsOf(b)[l + w] = PointsOf(b)[a - 1] \o <<cp>>
      <3>1. item.size = n + 2 + w /\ item.cp = cp
        BY <1>5
      <3>2. a + (n + 2 + w) = l + w + 1 /\ a + (n + 2 + w) - 1 = l + w
        BY <1>0
      <3>3. a + item.size = l + w + 1 /\ a + item.size - 1 = l + w
        BY <3>1, <3>2
      <3>4. Begins(b, a + item.size) /\ PointsOf(b)[a + item.size - 1] = PointsOf(b)[a - 1] \o <<item.cp>>
        BY EscapeFollows
      <3> QED
        BY <3>1, <3>3, <3>4, Zenon
    <2>9. Begins(b, to + 1) /\ PointsOf(b)[to] = PointsOf(b)[l + w] \o left
      <3>1. PICK m \in l + w + 1 .. Len(b) + 1 : m = to + 1 /\ m - 1 = to
        BY <1>0, <1>2, <2>1
      <3>2. l + w + 1 \in 1 .. Len(b) + 1 /\ (l + w + 1) - 1 = l + w
        BY <1>0
      <3>3. \A j \in l + w + 1 .. m - 1 : IsPlain(b[j])
        <4> SUFFICES ASSUME NEW j \in l + w + 1 .. m - 1 PROVE IsPlain(b[j])
          OBVIOUS
        <4>1. j \in i .. to /\ j \in 1 .. Len(b)
          BY <1>0, <1>2, <3>1
        <4>2. b[j] \in 0 .. 127
          BY <4>1, ElementOfSeq, Zenon
        <4>3. Category(b[j]) \in Numerals
          BY <1>2, <1>7, <4>1, Zenon
        <4> QED
          BY <4>2, <4>3, CategoriesOf DEF IsPlain, Numerals
      <3>4. PICK k \in 1 .. Len(b) + 1 : k = l + w + 1
        BY <3>2
      <3>5. Begins(b, k) /\ m \in k .. Len(b) + 1 /\ \A j \in k .. m - 1 : IsPlain(b[j])
        BY <2>8, <3>1, <3>3, <3>4, Zenon
      <3>6. Begins(b, m) /\ PointsOf(b)[m - 1] = PointsOf(b)[k - 1] \o SubSeq(b, k, m - 1)
        BY <3>5, PlainSymbols
      <3> QED
        BY <2>2, <3>1, <3>2, <3>4, <3>6, Zenon
    <2>10. a - 1 \in 0 .. Len(b)
      BY <1>0
    <2>11. PICK c \in Seq(Int) : c = <<cp>>
      BY <2>5, Single, Zenon
    <2>12. PICK v \in Seq(Int) : v = PointsOf(b)[a - 1]
      BY <2>10, PointsSteps, Zenon
    <2>13. PointsOf(b)[to] = v \o (c \o left)
      <3>1. PointsOf(b)[to] = (v \o c) \o left
        BY <2>8, <2>9, <2>11, <2>12, Zenon
      <3>2. (v \o c) \o left = v \o (c \o left)
        BY <2>4, IntegersJoin, Zenon
      <3> QED
        BY <3>1, <3>2, Zenon
    <2>14. u \o (c \o left) = A \o PointsOf(b)[to]
      <3>1. c \o left \in Seq(Int)
        BY <2>4, Joined, Zenon
      <3>2. (A \o v) \o (c \o left) = A \o (v \o (c \o left))
        BY <3>1, IntegersJoin, Zenon
      <3> QED
        BY <2>12, <2>13, <3>2, Zenon
    <2>15. InText(q, to + 1, b, A)
      <3>1. (to + 1) - 1 = to
        BY <1>2
      <3> QED
        BY <2>7, <2>9, <2>11, <2>14, <3>1, Zenon DEF InText
    <2>16. q.mLastParseResult = "NotComplete"
      BY <2>7, ReadersReadOn, Zenon
    <2> QED
      BY <2>15, <2>16, Zenon DEF StringGoes, StringAt
  <1> QED
    BY <1>11, <1>12

\* The letter of the code point at a, n being the digits that follow the backslash.
LEMMA LetterFollows ==
  ASSUME NEW b \in Seq(0 .. 127), NEW a \in 1 .. Len(b), NEW n \in Nat, n = DigitsAfter(b, a), NEW item,
         IsCodePoint(b, a, n, WidthAt(b, a, n), item)
  PROVE  \E w \in Nat : \E l \in Nat : w = WidthAt(b, a, n) /\ l = a + n + 1 /\ LetterAt(b, a, n, w, item, l)
  <1>1. PICK l \in Nat : l = a + n + 1
    OBVIOUS
  <1>2. \A x \in 1 .. 32 : x \in Nat
    OBVIOUS
  <1>3. WidthAt(b, a, n) \in Nat
    BY <1>2, Zenon DEF IsCodePoint
  <1> QED
    BY <1>1, <1>3, Zenon DEF LetterAt

\* The parser behind a backslash.
LEMMA BackslashGoes ==
  ASSUME NEW b \in Seq(0 .. 127), IsString(b), NEW A \in Seq(Int), NEW i \in 1 .. Len(b), NEW p, InBackslash(p, i, b, A),
         NEW to, NEW run, IsRunOf(run, b, i, to), NEW q
  PROVE  q = StringParseSymbols(p, run) => StringGoes(q, to + 1, b, A)
  <1> SUFFICES ASSUME q = StringParseSymbols(p, run) PROVE StringGoes(q, to + 1, b, A)
    OBVIOUS
  <1>1. PICK a \in 1 .. Len(b), n \in Nat, d \in BOOLEAN :
            /\ b[a] = Backslash /\ Begins(b, a) /\ i = a + n + 1
            /\ n > 0 => n = DigitsAfter(b, a)
            /\ p = Reader("Backslash", d, A \o PointsOf(b)[a - 1], Announced(IF n = 0 THEN 0 ELSE WidthAt(b, a, n)))
    BY Zenon DEF InBackslash
  <1>2. PICK u : u = A \o PointsOf(b)[a - 1]
    OBVIOUS
  <1>3. PICK m : m = DigitsAfter(b, a)
    OBVIOUS
  <1>4. PICK item : item = EscapeAt(b, a)
    OBVIOUS
  <1>5. m \in Nat /\ (IsSimple(b, a, m, item) \/ IsCodePoint(b, a, m, WidthAt(b, a, m), item))
    BY <1>1, <1>3, <1>4, EscapeFollows, Zenon
  <1>6. IsSimple(b, a, m, item) => m = 0
    BY Zenon DEF IsSimple
  <1>7. CASE n > 0
    <2>1. n = m /\ ~(n = 0)
      BY <1>1, <1>3, <1>7
    <2>2. PICK w \in Nat, l \in Nat : w = WidthAt(b, a, n) /\ l = a + n + 1 /\ LetterAt(b, a, n, w, item, l)
      BY <1>3, <1>5, <1>6, <2>1, LetterFollows, Zenon
    <2>3. q = StringParseSymbols(Reader("Backslash", d, u, Announced(w)), run)
      BY <1>1, <1>2, <2>1, <2>2, Zenon
    <2>4. IsRunOf(run, b, l, to)
      BY <1>1, <2>2, Zenon
    <2> QED
      BY <1>1, <1>2, <1>7, <2>1, <2>2, <2>3, <2>4, LetterGoes, Zenon
  <1>8. CASE n = 0
    <2>1. q = StringParseSymbols(Reader("Backslash", d, u, Announced(0)), run)
      BY <1>1, <1>2, <1>8, Zenon
    <2>2. i = a + 1 /\ 0 \in Nat
      BY <1>1, <1>8
    <2>3. CASE IsSimple(b, a, m, item)
      <3>1. SimpleAt(b, a, item, i)
        BY <1>3, <1>4, <1>6, <2>2, <2>3, Zenon DEF SimpleAt
      <3> QED
        BY <1>1, <1>2, <2>1, <3>1, SimpleGoes, Zenon
    <2>4. CASE ~IsSimple(b, a, m, item)
      <3>1. PICK w \in Nat, l \in Nat : w = WidthAt(b, a, m) /\ l = a + m + 1 /\ LetterAt(b, a, m, w, item, l)
        BY <1>3, <1>5, <2>4, LetterFollows, Zenon
      <3>2. CASE m > 0
        BY <1>1, <1>2, <1>5, <2>1, <2>2, <3>1, <3>2, WidthGoes, Zenon
      <3>3. CASE ~(m > 0)
        <4>1. m = 0 /\ l = i
          BY <1>1, <1>5, <2>2, <3>1, <3>3
        <4>2. IsRunOf(run, b, l, to)
          BY <4>1
        <4> QED
          BY <1>1, <1>2, <1>5, <2>1, <2>2, <3>1, <3>3, <4>1, <4>2, LetterGoes, Zenon
      <3> QED
        BY <3>2, <3>3
    <2> QED
      BY <2>3, <2>4
  <1>9. n > 0 \/ n = 0
    BY <1>1
  <1> QED
    BY <1>7, <1>8, <1>9

\* The parser in the digits of a code point.
LEMMA DigitsRead ==
  ASSUME NEW b \in Seq(0 .. 127), IsString(b), NEW A \in Seq(Int), NEW i \in 1 .. Len(b), NEW p, InDigits(p, i, b, A),
         NEW to, NEW run, IsRunOf(run, b, i, to), NEW q
  PROVE  q = StringParseSymbols(p, run) => StringGoes(q, to + 1, b, A)
  <1> SUFFICES ASSUME q = StringParseSymbols(p, run) PROVE StringGoes(q, to + 1, b, A)
    OBVIOUS
  <1>1. PICK a \in 1 .. Len(b), n \in Nat, w \in Nat, d \in BOOLEAN :
            /\ b[a] = Backslash /\ Begins(b, a) /\ n = DigitsAfter(b, a) /\ w = WidthAt(b, a, n)
            /\ b[a + n + 1] \in CodePointEscapes
            /\ i \in a + n + 2 .. a + n + 1 + w
            /\ p = Reader("EscapeDigits", d, A \o PointsOf(b)[a - 1],
                          EscapeOf(CodePointEscape(b[a + n + 1]), w, SubSeq(b, a + n + 2, i - 1)))
    BY Zenon DEF InDigits
  <1>2. PICK u : u = A \o PointsOf(b)[a - 1]
    OBVIOUS
  <1>3. PICK item : item = EscapeAt(b, a)
    OBVIOUS
  <1>4. IsSimple(b, a, n, item) \/ IsCodePoint(b, a, n, WidthAt(b, a, n), item)
    BY <1>1, <1>3, EscapeFollows, Zenon
  <1>5. ~IsSimple(b, a, n, item)
    <2>1. CodePointEscapes \cap SimpleEscapes = {}
      BY DEF CodePointEscapes, SimpleEscapes, DoubleQuotes, Backslash
    <2>2. IsSimple(b, a, n, item) => n = 0 /\ b[a + 1] \in SimpleEscapes
      BY Zenon DEF IsSimple
    <2>3. n = 0 => a + n + 1 = a + 1
      OBVIOUS
    <2>4. n = 0 => b[a + 1] \in CodePointEscapes
      BY <1>1, <2>3, Zenon
    <2> QED
      BY <2>1, <2>2, <2>4
  <1>6. PICK v \in Nat, l \in Nat : v = WidthAt(b, a, n) /\ l = a + n + 1 /\ LetterAt(b, a, n, v, item, l)
    BY <1>1, <1>4, <1>5, LetterFollows, Zenon
  <1>7. v = w
    BY <1>1, <1>6, Zenon
  <1>8. a + n + 2 = l + 1 /\ a + n + 1 + w = l + w
    BY <1>6
  <1>9. i \in l + 1 .. l + w
    BY <1>1, <1>8
  <1>10. PICK s, form : s = SubSeq(b, l + 1, i - 1) /\ form = CodePointEscape(b[l])
    OBVIOUS
  <1>11. q = StringParseSymbols(Reader("EscapeDigits", d, u, EscapeOf(form, w, s)), run)
    BY <1>1, <1>2, <1>6, <1>8, <1>10, Zenon
  <1>12. LetterAt(b, a, n, w, item, l)
    BY <1>6, <1>7, Zenon
  <1>13. b[a] = Backslash /\ Begins(b, a)
    BY <1>1, Zenon
  <1>14. (/\ u = A \o PointsOf(b)[a - 1] /\ s = SubSeq(b, l + 1, i - 1) /\ form = CodePointEscape(b[l])
          /\ q = StringParseSymbols(Reader("EscapeDigits", d, u, EscapeOf(form, w, s)), run))
             => StringGoes(q, to + 1, b, A)
    BY <1>3, <1>9, <1>12, <1>13, DigitsGo, Zenon
  <1> QED
    BY <1>2, <1>10, <1>11, <1>14, Zenon

\* Wherever the parser is, a run leads on.
LEMMA StringGoesOn ==
  ASSUME NEW b \in Seq(0 .. 127), IsString(b), NEW A \in Seq(Int), NEW i \in 1 .. Len(b), NEW p, StringAt(p, i, b, A),
         NEW to, NEW run, IsRunOf(run, b, i, to), NEW q
  PROVE  q = StringParseSymbols(p, run) => StringGoes(q, to + 1, b, A)
  <1> SUFFICES ASSUME q = StringParseSymbols(p, run) PROVE StringGoes(q, to + 1, b, A)
    OBVIOUS
  <1>1. CASE InText(p, i, b, A)
    <2>1. q.mLastParseResult = "NotComplete" /\ StringAt(q, to + 1, b, A)
      BY <1>1, TextGoes, Zenon
    <2> QED
      BY <2>1, Zenon DEF StringGoes
  <1>2. CASE InBackslash(p, i, b, A)
    BY <1>2, BackslashGoes, Zenon
  <1>3. CASE InDigits(p, i, b, A)
    BY <1>3, DigitsRead, Zenon
  <1> QED
    BY <1>1, <1>2, <1>3, Zenon DEF StringAt

\* In front of the double quotes the parser is in the text, all of which it has read.
LEMMA StringHasEnded ==
  ASSUME NEW b \in Seq(0 .. 127), IsString(b), NEW A, NEW p, StringAt(p, Len(b) + 1, b, A)
  PROVE  \E d \in BOOLEAN : p = Reader("Text", d, A \o StringOf(b), NoEscape)
  <1>0. Len(b) \in Nat /\ (Len(b) + 1) - 1 = Len(b)
    OBVIOUS
  <1>1. ~InBackslash(p, Len(b) + 1, b, A)
    <2> SUFFICES ASSUME NEW a \in 1 .. Len(b), NEW n \in Nat, b[a] = Backslash, Begins(b, a), Len(b) + 1 = a + n + 1,
                        n > 0 => n = DigitsAfter(b, a)
                 PROVE  FALSE
      BY Zenon DEF InBackslash
    <2>1. DigitsAfter(b, a) \in Nat /\ a + DigitsAfter(b, a) + 1 <= Len(b)
      BY EscapeFollows, Zenon
    <2> QED
      BY <1>0, <2>1
  <1>2. ~InDigits(p, Len(b) + 1, b, A)
    <2> SUFFICES ASSUME NEW a \in 1 .. Len(b), NEW n \in Nat, NEW w \in Nat, b[a] = Backslash, Begins(b, a),
                        n = DigitsAfter(b, a), w = WidthAt(b, a, n), b[a + n + 1] \in CodePointEscapes,
                        Len(b) + 1 \in a + n + 2 .. a + n + 1 + w
                 PROVE  FALSE
      BY Zenon DEF InDigits
    <2>1. PICK item : item = EscapeAt(b, a)
      OBVIOUS
    <2>2. IsSimple(b, a, n, item) \/ IsCodePoint(b, a, n, WidthAt(b, a, n), item)
      BY <2>1, EscapeFollows, Zenon
    <2>3. ~IsSimple(b, a, n, item)
      <3>1. CodePointEscapes \cap SimpleEscapes = {}
        BY DEF CodePointEscapes, SimpleEscapes, DoubleQuotes, Backslash
      <3>2. IsSimple(b, a, n, item) => n = 0 /\ b[a + 1] \in SimpleEscapes
        BY Zenon DEF IsSimple
      <3>3. n = 0 => a + n + 1 = a + 1
        OBVIOUS
      <3>4. n = 0 => b[a + 1] \in CodePointEscapes
        BY <3>3, Zenon
      <3> QED
        BY <3>1, <3>2, <3>4
    <2>4. PICK v \in Nat, l \in Nat : v = WidthAt(b, a, n) /\ l = a + n + 1 /\ LetterAt(b, a, n, v, item, l)
      BY <2>2, <2>3, LetterFollows, Zenon
    <2>5. l + v <= Len(b)
      BY <2>4, LetterFacts, Zenon
    <2>6. v = w
      BY <2>4, Zenon
    <2> QED
      BY <1>0, <2>4, <2>5, <2>6
  <1>3. PICK d \in BOOLEAN : p = Reader("Text", d, A \o PointsOf(b)[(Len(b) + 1) - 1], NoEscape)
    BY <1>1, <1>2, Zenon DEF StringAt, InText
  <1>4. StringOf(b) = PointsOf(b)[Len(b)]
    BY StringsEnd, Zenon
  <1> QED
    BY <1>0, <1>3, <1>4, Zenon

-----------------------------------------------------------------------------
(* Strings mean their text *)

\* What stands in front of the double quotes at k is a string.
IsStringAt(t, k) == k \in 1 .. Len(t) /\ t[k] = DoubleQuotes /\ IsString(SubSeq(t, 1, k - 1))

\* From i a run of t leads to j, in the string or behind it.
StringLeads(q, i, j, t, k, A) ==
    /\ i < k => j <= k /\ StringGoes(q, j, SubSeq(t, 1, k - 1), A)
    /\ i = k => /\ j = k + 1 /\ q.mLastParseResult = "Complete"
                /\ \E d : q.literal = Machine(d, <<>>, A \o StringOf(SubSeq(t, 1, k - 1)))

\* The category and the length of a run.
RunMeasures(run, b, i, to) ==
    /\ run.category = Category(b[i]) /\ Len(run.str) = to - i + 1
    /\ ~Concatenates(Category(b[i])) => to = i

\* A run has its measures.
LEMMA RunMeasured ==
  ASSUME NEW b \in Seq(0 .. 127), NEW i \in 1 .. Len(b), NEW to, NEW run, IsRunOf(run, b, i, to)
  PROVE  RunMeasures(run, b, i, to)
  BY RunOf DEF RunMeasures

\* A run leads on in the string, or out of it at its double quotes.
LEMMA StringReads ==
  ASSUME NEW t \in Seq(0 .. 127), NEW k, IsStringAt(t, k), NEW i \in Nat, 1 <= i, i <= k, NEW A \in Seq(Int),
         NEW p, StringAt(p, i, SubSeq(t, 1, k - 1), A), NEW run, run = RunAt(t, i), NEW q, q = StringParseSymbols(p, run)
  PROVE  StringLeads(q, i, i + Len(run.str), t, k, A)
  <1>0. k \in 1 .. Len(t) /\ t[k] = DoubleQuotes /\ Len(t) \in Nat /\ k \in Nat
    <2>1. k \in 1 .. Len(t) /\ t[k] = DoubleQuotes
      BY Zenon DEF IsStringAt
    <2> QED
      BY <2>1
  <1>1. PICK b : b = SubSeq(t, 1, k - 1)
    OBVIOUS
  <1>2. IsString(b) /\ StringAt(p, i, b, A)
    BY <1>1, Zenon DEF IsStringAt
  <1>3. b \in Seq(0 .. 127) /\ Len(b) = k - 1
    <2>1. PICK m \in Int, n \in Int : m = 1 /\ n = k - 1
      BY <1>0
    <2>2. 1 <= m /\ n <= Len(t) /\ m <= n + 1 /\ n - m + 1 = k - 1
      BY <1>0, <2>1
    <2>3. SubSeq(t, m, n) \in Seq(0 .. 127) /\ Len(SubSeq(t, m, n)) = n - m + 1
      BY <2>2, Cuts, Zenon
    <2> QED
      BY <1>1, <2>1, <2>2, <2>3, Zenon
  <1>4. CASE i < k
    <2>1. i \in 1 .. k - 1 /\ i \in 1 .. Len(b)
      BY <1>0, <1>3, <1>4
    <2>2. PICK to \in i .. Len(b) : /\ IsRun(b, i, to)
                                    /\ RunAt(t, i) = [category |-> Category(b[i]), str |-> SubSeq(b, i, to)]
      BY <1>0, <1>1, <2>1, FrontRun, Zenon
    <2>3. IsRunOf(run, b, i, to)
      BY <2>2, Zenon DEF IsRunOf
    <2>4. StringGoes(q, to + 1, b, A)
      BY <1>2, <1>3, <2>1, <2>3, StringGoesOn, Zenon
    <2>5. PICK n : n = Len(run.str)
      OBVIOUS
    <2>6. RunMeasures(run, b, i, to)
      BY <1>3, <2>1, <2>3, RunMeasured, Zenon
    <2>7. n = to - i + 1
      BY <2>5, <2>6, Zenon DEF RunMeasures
    <2>8. i + n = to + 1 /\ to + 1 <= k /\ ~(i = k)
      BY <1>0, <1>3, <1>4, <2>7
    <2> QED
      BY <1>1, <2>4, <2>5, <2>8, Zenon DEF StringLeads
  <1>5. CASE i = k
    <2>1. PICK to \in k .. Len(t) : /\ IsRun(t, k, to)
                                    /\ RunAt(t, k) = [category |-> Category(t[k]), str |-> SubSeq(t, k, to)]
      BY <1>0, RunsAreRuns, Zenon
    <2>2. IsRunOf(run, t, k, to)
      BY <1>5, <2>1, Zenon DEF IsRunOf
    <2>3. /\ run.category = Category(t[k]) /\ Len(run.str) = to - k + 1
          /\ ~Concatenates(Category(t[k])) => to = k
      BY <1>0, <2>2, RunMeasured, Zenon DEF RunMeasures
    <2>4. Category(DoubleQuotes) = "DoubleQuotes"
      BY DEF Category, DoubleQuotes, Backslash, Colon, Plus, Minus
    <2>5. run.category = "DoubleQuotes" /\ Len(run.str) = 1
      <3>1. ~Concatenates("DoubleQuotes")
        BY DEF Concatenates
      <3>2. to = k
        BY <1>0, <2>3, <2>4, <3>1, Zenon
      <3>3. k - k + 1 = 1
        BY <1>0
      <3> QED
        BY <1>0, <2>3, <2>4, <3>2, <3>3, Zenon
    <2>6. PICK d : p = Reader("Text", d, A \o StringOf(b), NoEscape)
      <3>1. Len(b) + 1 = i
        BY <1>0, <1>3, <1>5
      <3>2. StringAt(p, Len(b) + 1, b, A)
        BY <1>2, <3>1
      <3> QED
        BY <1>2, <1>3, <3>2, StringHasEnded, Zenon
    <2>7. PICK u, e : u = A \o StringOf(b) /\ e = NoEscape
      OBVIOUS
    <2>8. StringParseSymbols(Reader("Text", d, u, e), run) = Parser("Text", "Complete", Machine(d, <<>>, u), e)
      BY <2>5, TextSteps
    <2>9. PICK n : n = Machine(d, <<>>, u)
      OBVIOUS
    <2>10. q = Parser("Text", "Complete", n, e)
      BY <2>6, <2>7, <2>8, <2>9, Zenon
    <2>11. q.mLastParseResult = "Complete" /\ q.literal = n
      BY <2>10 DEF Parser
    <2>12. i + Len(run.str) = k + 1 /\ ~(i < k)
      <3>1. k + 1 = k + 1 /\ ~(k < k)
        BY <1>0
      <3> QED
        BY <1>5, <2>5, <3>1, Zenon
    <2> QED
      BY <1>1, <2>7, <2>9, <2>11, <2>12, Zenon DEF StringLeads
  <1>6. i < k \/ i = k
    BY <1>0
  <1> QED
    BY <1>4, <1>5, <1>6

\* A string is followed up to its double quotes, and is what was read there, behind what was left.
StringsAreFollowed ==
    \A k : IsStringAt(text, k) =>
        /\ mCurState = "StringLiteral" /\ ~mParseError =>
               next <= k /\ StringAt(string, next, SubSeq(text, 1, k - 1), ahead)
        /\ mCurState = "StringLiteral" /\ mParseError => ~EscapesStandApart(SubSeq(text, 1, k - 1))
        /\ IsComplete("DoubleQuotes") =>
               next = k + 1 /\ Content(string.literal) = ahead \o StringOf(SubSeq(text, 1, k - 1))

\* No string was begun.
LEMMA StringsInitially == Init => StringsAreFollowed
  <1> SUFFICES ASSUME Init PROVE StringsAreFollowed
    OBVIOUS
  <1>1. last = <<"None", "NotComplete">> /\ mCurState = "MainSequence"
    BY DEF Init
  <1>2. ~IsComplete("DoubleQuotes") /\ mCurState # "StringLiteral"
    BY <1>1 DEF IsComplete
  <1> QED
    BY <1>2, Zenon DEF StringsAreFollowed

\* A parser that was reset is at the beginning.
LEMMA StringsBegin ==
  ASSUME NEW b \in Seq(0 .. 127), NEW p \in StringParsers, NEW q, q = ResetString(p), NEW A \in Seq(Int),
         p.literal.mBuffer = A
  PROVE  StringAt(q, 1, b, A)
  <1>1. /\ ReadsOn(q) /\ q.state = "Text" /\ q.literal.mCache = <<>> /\ q.literal.mBuffer = A /\ q.escape = NoEscape
    BY ResetTyped
  <1>2. PICK d, m : d \in BOOLEAN /\ m = q.literal /\ d = m.mDefined /\ m = Machine(d, <<>>, A)
    <2>1. q.literal \in Machines
      BY <1>1 DEF ReadsOn, StringParsers
    <2> QED
      BY <1>1, <2>1 DEF Machines, Machine
  <1>3. PICK e : e = NoEscape
    OBVIOUS
  <1>4. q = Parser("Text", "NotComplete", m, e)
    BY <1>1, <1>2, <1>3 DEF ReadsOn, StringParsers, Parser
  <1>5. q = Reader("Text", d, A, NoEscape)
    BY <1>2, <1>3, <1>4, Zenon DEF Reader
  <1>6. Behind(b)[0] = 1 /\ PointsOf(b)[0] = <<>>
    BY BehindSteps, PointsSteps, Zenon
  <1>7. 1 \in 1 .. Len(b) + 1 /\ 1 - 1 = 0
    <2>1. Len(b) \in Nat
      OBVIOUS
    <2> QED
      BY <2>1
  <1>8. A \o <<>> = A
    BY ConcatEmptySeq
  <1>9. InText(q, 1, b, A)
    <2>1. d \in BOOLEAN
      BY <1>2, Zenon
    <2>2. A \o PointsOf(b)[1 - 1] = A /\ Behind(b)[1 - 1] = 1
      BY <1>6, <1>7, <1>8, Zenon
    <2> QED
      BY <1>5, <1>7, <2>1, <2>2, Zenon DEF InText, Begins
  <1> QED
    BY <1>9, Zenon DEF StringAt

\* Code points are integers.
LEMMA PointsAreIntegers == ASSUME NEW s \in Seq(CodePoints) PROVE s \in Seq(Int)
  <1>1. \A j \in 1 .. Len(s) : s[j] \in CodePoints
    BY ElementOfSeq, Zenon
  <1>2. \A c \in CodePoints : c \in Int
    BY Largest DEF CodePoints
  <1> QED
    BY <1>1, <1>2, Retyped, Zenon

\* What stands in front of the double quotes is a text.
LEMMA FrontIsTyped ==
  ASSUME NEW t \in Seq(0 .. 127), NEW k, IsStringAt(t, k)
  PROVE  SubSeq(t, 1, k - 1) \in Seq(0 .. 127) /\ k \in Nat /\ 1 <= k
  <1>1. k \in 1 .. Len(t)
    BY Zenon DEF IsStringAt
  <1>2. Len(t) \in Nat
    OBVIOUS
  <1>3. PICK m \in Int, n \in Int : m = 1 /\ n = k - 1
    BY <1>1, <1>2
  <1>4. 1 <= m /\ n <= Len(t) /\ m <= n + 1 /\ k \in Nat /\ 1 <= k
    BY <1>1, <1>2, <1>3
  <1>5. SubSeq(t, m, n) \in Seq(0 .. 127)
    BY <1>4, Cuts, Zenon
  <1> QED
    BY <1>3, <1>4, <1>5, Zenon

\* A literal is entered.
LEMMA StringsEntry ==
  ASSUME LiteralsInv, NEW t,
         \/ t \in NumericTexts /\ StateNumericLiteralEntry(t)
         \/ t \in StringTexts /\ StateStringLiteralEntry(t)
  PROVE  StringsAreFollowed'
  <1>1. last' = <<"None", "NotComplete">> /\ text' = t /\ next' = 1 /\ t \in Seq(0 .. 127) /\ ahead' = unread
    BY LiteralsAssumption DEF StateNumericLiteralEntry, StateStringLiteralEntry
  <1>2. ~IsComplete("DoubleQuotes")'
    BY <1>1 DEF IsComplete
  <1>3. ~mParseError'
    BY DEF StateNumericLiteralEntry, StateStringLiteralEntry, LiteralsInv, Parsing
  <1>4. ASSUME NEW k, IsStringAt(t, k), mCurState' = "StringLiteral"
        PROVE  1 <= k /\ StringAt(string', 1, SubSeq(t, 1, k - 1), unread)
    <2>1. StateStringLiteralEntry(t)
      BY <1>4 DEF StateNumericLiteralEntry
    <2>2. string' = ResetString(string) /\ mCurState = "MainSequence"
      BY <2>1 DEF StateStringLiteralEntry
    <2>3. string \in StringParsers /\ unread \in Seq(CodePoints) /\ string.literal.mBuffer = unread
      BY <2>2 DEF LiteralsInv, LiteralsTypeOK, UnreadIsKept
    <2>4. unread \in Seq(Int)
      BY <2>3, PointsAreIntegers, Zenon
    <2>5. SubSeq(t, 1, k - 1) \in Seq(0 .. 127) /\ 1 <= k
      BY <1>1, <1>4, FrontIsTyped, Zenon
    <2> QED
      BY <2>2, <2>3, <2>4, <2>5, StringsBegin, Zenon
  <1> SUFFICES ASSUME NEW k, IsStringAt(text', k)
               PROVE  /\ mCurState' = "StringLiteral" /\ ~mParseError' =>
                             next' <= k /\ StringAt(string', next', SubSeq(text', 1, k - 1), ahead')
                      /\ mCurState' = "StringLiteral" /\ mParseError' => ~EscapesStandApart(SubSeq(text', 1, k - 1))
                      /\ IsComplete("DoubleQuotes")' =>
                             next' = k + 1 /\ Content(string'.literal) = ahead' \o StringOf(SubSeq(text', 1, k - 1))
    BY Zenon DEF StringsAreFollowed
  <1> QED
    BY <1>1, <1>2, <1>3, <1>4, Zenon

\* The runs of a number leave the strings alone.
LEMMA NumericLeaves ==
  ASSUME LiteralsInv, StateNumericLiteralEvaluate
  PROVE  StringsAreFollowed'
  <1>1. last'[2] \in Verdicts("NumericLiteral", last'[1]) /\ mCurState = "NumericLiteral"
    BY NumericKeeps DEF StateNumericLiteralEvaluate
  <1>2. ~IsComplete("DoubleQuotes")'
    BY <1>1 DEF IsComplete, Verdicts
  <1>3. mCurState' # "StringLiteral"
    BY <1>1 DEF StateNumericLiteralEvaluate, Parsed
  <1> QED
    BY <1>2, <1>3, Zenon DEF StringsAreFollowed

\* What a machine holds, and packing leaves it.
LEMMA MachineHolds ==
  ASSUME NEW d, NEW u \in Seq(Int), NEW m
  PROVE  m = Machine(d, <<>>, u) => Content(m) = u /\ Content(Pack(m)) = u
  <1> SUFFICES ASSUME m = Machine(d, <<>>, u) PROVE Content(m) = u /\ Content(Pack(m)) = u
    OBVIOUS
  <1>1. <<>> \o u = u /\ u \o <<>> = u
    BY ConcatEmptySeq
  <1>2. m.mCache = <<>> /\ m.mBuffer = u
    BY DEF Machine
  <1>3. PICK n : n = [m EXCEPT !.mCache = u, !.mBuffer = <<>>]
    OBVIOUS
  <1>4. n = Machine(d, u, <<>>)
    BY <1>3 DEF Machine
  <1>5. n = Pack(m)
    <2>1. Pack(m) = [m EXCEPT !.mCache = m.mCache \o m.mBuffer, !.mBuffer = <<>>]
      BY DEF Pack
    <2> QED
      BY <1>1, <1>2, <1>3, <2>1, Zenon
  <1>6. n.mCache = u /\ n.mBuffer = <<>>
    BY <1>4 DEF Machine
  <1>7. PICK o : o = [n EXCEPT !.mCache = u, !.mBuffer = <<>>]
    OBVIOUS
  <1>8. o = Pack(n)
    <2>1. Pack(n) = [n EXCEPT !.mCache = n.mCache \o n.mBuffer, !.mBuffer = <<>>]
      BY DEF Pack
    <2> QED
      BY <1>1, <1>6, <1>7, <2>1, Zenon
  <1>9. o.mCache = u
    BY <1>4, <1>7 DEF Machine
  <1> QED
    BY <1>5, <1>6, <1>8, <1>9, Zenon DEF Content

\* The runs of a string.
LEMMA StringFollows ==
  ASSUME LiteralsInv, StringsAreFollowed, StateStringLiteralEvaluate \/ StringIsRead \/ StringIsIgnored
  PROVE  StringsAreFollowed'
  <1>1. PICK run, q : run = Run /\ q = StringParseSymbols(string, run)
    OBVIOUS
  <1>2. /\ mCurState = "StringLiteral" /\ ~mParseError /\ next <= Len(text)
        /\ text \in Seq(0 .. 127) /\ next \in Nat /\ 1 <= next /\ ahead \in Seq(Int)
    <2>1. mCurState = "StringLiteral" /\ ~mParseError /\ next <= Len(text)
      BY DEF StateStringLiteralEvaluate, StringIsRead, StringIsIgnored
    <2>2. text \in Seq(0 .. 127) /\ next \in 1 .. Len(text) + 1 /\ ahead \in Seq(CodePoints)
      BY Zenon DEF LiteralsInv, LiteralsTypeOK
    <2>3. ahead \in Seq(Int)
      BY <2>2, PointsAreIntegers, Zenon
    <2>4. next \in Nat /\ 1 <= next
      BY <2>2
    <2> QED
      BY <2>1, <2>2, <2>3, <2>4, Zenon
  <1>3. Parsed(q.mLastParseResult)
    BY <1>1 DEF StateStringLiteralEvaluate, StringIsRead, StringIsIgnored
  <1>4. /\ next' = next + Len(run.str) /\ last' = <<run.category, q.mLastParseResult>>
        /\ mParseError' = (q.mLastParseResult = "Error") /\ text' = text /\ ahead' = ahead
        /\ mCurState' = IF q.mLastParseResult = "Complete" THEN "MainSequence" ELSE mCurState
    BY <1>1, <1>3 DEF Parsed
  <1>5. q.mLastParseResult # "Complete" => string' = q
    BY <1>1 DEF StateStringLiteralEvaluate, StringIsRead, StringIsIgnored
  <1>6. q.mLastParseResult = "Complete" => string'.literal \in {q.literal, Pack(q.literal)}
    <2>1. string' = q \/ string' = [q EXCEPT !.literal = Pack(@)]
      BY <1>1, Zenon DEF StateStringLiteralEvaluate, StringIsRead, StringIsIgnored
    <2>2. q \in StringParsers
      <3>1. StringParseSymbols(string, Run) = q
        BY <1>1, Zenon
      <3>2. FollowsAs(string, q, Results)
        BY <1>2, <1>3, <3>1, StringRun, Zenon
      <3> QED
        BY <3>2 DEF FollowsAs
    <2>3. string' = [q EXCEPT !.literal = Pack(@)] => string'.literal = Pack(q.literal)
      BY <2>2 DEF StringParsers
    <2>4. string' = q => string'.literal = q.literal
      OBVIOUS
    <2> QED
      BY <2>1, <2>3, <2>4, Zenon
  <1>7. ASSUME NEW k, IsStringAt(text, k)
        PROVE  /\ mCurState' = "StringLiteral" /\ ~mParseError' =>
                      next' <= k /\ StringAt(string', next', SubSeq(text, 1, k - 1), ahead)
               /\ mCurState' = "StringLiteral" /\ mParseError' => ~EscapesStandApart(SubSeq(text, 1, k - 1))
               /\ IsComplete("DoubleQuotes")' =>
                      next' = k + 1 /\ Content(string'.literal) = ahead \o StringOf(SubSeq(text, 1, k - 1))
    <2>1. next <= k /\ StringAt(string, next, SubSeq(text, 1, k - 1), ahead)
      BY <1>2, <1>7, Zenon DEF StringsAreFollowed
    <2>2. StringLeads(q, next, next', text, k, ahead)
      <3>1. run = RunAt(text, next)
        BY <1>1, Zenon DEF Run
      <3>2. StringLeads(q, next, next + Len(run.str), text, k, ahead)
        BY <1>1, <1>2, <1>7, <2>1, <3>1, StringReads, Zenon
      <3> QED
        BY <1>4, <3>2, Zenon
    <2>3. SubSeq(text, 1, k - 1) \in Seq(0 .. 127) /\ k \in Nat
      BY <1>2, <1>7, FrontIsTyped, Zenon
    <2>4. CASE next < k
      <3>1. next' <= k /\ StringGoes(q, next', SubSeq(text, 1, k - 1), ahead)
        BY <2>2, <2>4, Zenon DEF StringLeads
      <3>2. ~IsComplete("DoubleQuotes")' /\ q.mLastParseResult # "Complete"
        <4>1. q.mLastParseResult # "Complete"
          BY <3>1 DEF StringGoes
        <4> QED
          BY <1>4, <4>1 DEF IsComplete
      <3>3. string' = q
        BY <1>5, <3>2, Zenon
      <3>4. ~mParseError' => StringAt(q, next', SubSeq(text, 1, k - 1), ahead)
        BY <1>4, <3>1, Zenon DEF StringGoes
      <3>5. mParseError' => ~EscapesStandApart(SubSeq(text, 1, k - 1))
        <4>1. mParseError' => q.mLastParseResult # "NotComplete"
          BY <1>4
        <4> QED
          BY <3>1, <4>1, Zenon DEF StringGoes
      <3> QED
        BY <3>1, <3>2, <3>3, <3>4, <3>5, Zenon
    <2>5. CASE next = k
      <3>1. PICK d : /\ next' = k + 1 /\ q.mLastParseResult = "Complete"
                     /\ q.literal = Machine(d, <<>>, ahead \o StringOf(SubSeq(text, 1, k - 1)))
        BY <2>2, <2>5, Zenon DEF StringLeads
      <3>2. StringOf(SubSeq(text, 1, k - 1)) \in Seq(Int)
        <4>1. PICK b \in Seq(0 .. 127) : b = SubSeq(text, 1, k - 1)
          BY <2>3, Zenon
        <4>2. IsString(b)
          BY <1>7, <4>1, Zenon DEF IsStringAt
        <4>3. StringOf(b) = PointsOf(b)[Len(b)]
          BY <4>2, StringsEnd, Zenon
        <4>4. Len(b) \in 0 .. Len(b)
          <5>1. Len(b) \in Nat
            OBVIOUS
          <5> QED
            BY <5>1
        <4>5. PointsOf(b)[Len(b)] \in Seq(Int)
          BY <4>4, PointsSteps, Zenon
        <4> QED
          BY <4>1, <4>3, <4>5, Zenon
      <3>3. PICK u \in Seq(Int) : u = ahead \o StringOf(SubSeq(text, 1, k - 1))
        BY <1>2, <3>2, Joined, Zenon
      <3>4. PICK m : m = q.literal
        OBVIOUS
      <3>5. Content(m) = u /\ Content(Pack(m)) = u
        BY <3>1, <3>3, <3>4, MachineHolds, Zenon
      <3>6. Content(string'.literal) = u
        BY <1>6, <3>1, <3>4, <3>5
      <3>7. mCurState' # "StringLiteral"
        BY <1>4, <3>1
      <3> QED
        BY <3>1, <3>3, <3>6, <3>7, Zenon
    <2>6. next < k \/ next = k
      BY <1>2, <2>1, <2>3
    <2> QED
      BY <2>4, <2>5, <2>6, Zenon
  <1> SUFFICES ASSUME NEW k, IsStringAt(text', k)
               PROVE  /\ mCurState' = "StringLiteral" /\ ~mParseError' =>
                             next' <= k /\ StringAt(string', next', SubSeq(text', 1, k - 1), ahead')
                      /\ mCurState' = "StringLiteral" /\ mParseError' => ~EscapesStandApart(SubSeq(text', 1, k - 1))
                      /\ IsComplete("DoubleQuotes")' =>
                             next' = k + 1 /\ Content(string'.literal) = ahead' \o StringOf(SubSeq(text', 1, k - 1))
    BY Zenon DEF StringsAreFollowed
  <1> QED
    BY <1>4, <1>7, Zenon

\* Every step keeps it.
LEMMA StringsStep ==
  ASSUME LiteralsInv, StringsAreFollowed, [Next]_vars
  PROVE  StringsAreFollowed'
  <1>1. CASE UNCHANGED vars
    <2>1. /\ text' = text /\ next' = next /\ last' = last /\ mCurState' = mCurState
          /\ mParseError' = mParseError /\ string' = string /\ ahead' = ahead
      BY <1>1 DEF vars
    <2>2. IsComplete("DoubleQuotes")' = IsComplete("DoubleQuotes")
      BY <2>1 DEF IsComplete
    <2> SUFFICES ASSUME NEW k, IsStringAt(text', k)
                 PROVE  /\ mCurState' = "StringLiteral" /\ ~mParseError' =>
                               next' <= k /\ StringAt(string', next', SubSeq(text', 1, k - 1), ahead')
                        /\ mCurState' = "StringLiteral" /\ mParseError' => ~EscapesStandApart(SubSeq(text', 1, k - 1))
                        /\ IsComplete("DoubleQuotes")' =>
                               next' = k + 1 /\ Content(string'.literal) = ahead' \o StringOf(SubSeq(text', 1, k - 1))
      BY Zenon DEF StringsAreFollowed
    <2>3. IsStringAt(text, k)
      BY <2>1, Zenon
    <2>4. /\ mCurState = "StringLiteral" /\ ~mParseError =>
                 next <= k /\ StringAt(string, next, SubSeq(text, 1, k - 1), ahead)
          /\ mCurState = "StringLiteral" /\ mParseError => ~EscapesStandApart(SubSeq(text, 1, k - 1))
          /\ IsComplete("DoubleQuotes") =>
                 next = k + 1 /\ Content(string.literal) = ahead \o StringOf(SubSeq(text, 1, k - 1))
      BY <2>3, Zenon DEF StringsAreFollowed
    <2> QED
      BY <2>1, <2>2, <2>4, Zenon
  <1>2. CASE Next
    <2>1. ASSUME NEW t \in NumericTexts, StateNumericLiteralEntry(t) PROVE StringsAreFollowed'
      BY <2>1, StringsEntry, Zenon
    <2>2. ASSUME NEW t \in StringTexts, StateStringLiteralEntry(t) PROVE StringsAreFollowed'
      BY <2>2, StringsEntry, Zenon
    <2> QED
      BY <1>2, <2>1, <2>2, NumericLeaves, StringFollows, Zenon DEF Next
  <1> QED
    BY <1>1, <1>2

\* Strings are followed.
LEMMA StringsInvariant == Spec => []StringsAreFollowed
  <1>1. LiteralsInv /\ StringsAreFollowed /\ [Next]_vars => StringsAreFollowed'
    BY StringsStep
  <1> QED
    BY StringsInitially, LiteralsInvariant, <1>1, PTL DEF Spec

\* Whatever the texts: a string that was accepted is what the draft says its text is, behind what
\* strings that nobody read have left in the buffer.
THEOREM StringsAreAsWritten == Spec => []StringsMeanTheirText
  <1>1. ASSUME LiteralsInv, NumbersInv, StringsAreFollowed PROVE StringsMeanTheirText
    <2> SUFFICES ASSUME IsComplete("DoubleQuotes"), IsString(Body)
                 PROVE  Content(string.literal) = ahead \o StringOf(Body)
      BY Zenon DEF StringsMeanTheirText
    <2>1. last[1] = "DoubleQuotes"
      BY DEF IsComplete
    <2>2. next - 1 \in 1 .. Len(text) /\ Category(text[next - 1]) = "DoubleQuotes"
      BY <1>1, <2>1 DEF NumbersInv, LastIsBehind
    <2>3. PICK k \in 1 .. Len(text) : k = next - 1 /\ Category(text[k]) = "DoubleQuotes"
      BY <2>2
    <2>4. text \in Seq(0 .. 127) /\ next \in Int
      BY <1>1 DEF LiteralsInv, LiteralsTypeOK
    <2>5. next - 2 = k - 1
      BY <2>3, <2>4
    <2>6. Body = SubSeq(text, 1, k - 1)
      BY <2>5, Zenon DEF Body
    <2>7. text[k] = DoubleQuotes
      <3>1. text[k] \in 0 .. 127
        BY <2>4, ElementOfSeq, Zenon
      <3> QED
        BY <2>3, <3>1, CategoriesOf
    <2>8. IsStringAt(text, k)
      BY <2>6, <2>7, Zenon DEF IsStringAt
    <2> QED
      BY <1>1, <2>6, <2>8, Zenon DEF StringsAreFollowed
  <1> QED
    BY LiteralsInvariant, NumbersInvariant, StringsInvariant, <1>1, PTL

\* Whatever the texts: what the draft calls a number without an exponent, or a string, is not refused,
\* but for strings with escapes that run into what is around them.
THEOREM LiteralsAreTaken == Spec => []LiteralsAreAccepted
  <1>1. ASSUME LiteralsInv, NumbersInv, StringsAreFollowed PROVE LiteralsAreAccepted
    <2> SUFFICES ASSUME mParseError, NEW k \in 1 .. Len(text)
                 PROVE  /\ mCurState = "NumericLiteral" /\ Category(text[k]) = "Hash" =>
                               ~IsNumber(SubSeq(text, 1, k - 1))
                        /\ mCurState = "StringLiteral" /\ text[k] = DoubleQuotes =>
                               ~(IsString(SubSeq(text, 1, k - 1)) /\ EscapesStandApart(SubSeq(text, 1, k - 1)))
      BY Zenon DEF LiteralsAreAccepted
    <2>1. ASSUME mCurState = "NumericLiteral", Category(text[k]) = "Hash"
          PROVE  ~IsNumber(SubSeq(text, 1, k - 1))
      BY <1>1, <2>1, NumbersAreAccepted, Zenon
    <2>2. ASSUME mCurState = "StringLiteral", text[k] = DoubleQuotes, IsString(SubSeq(text, 1, k - 1))
          PROVE  ~EscapesStandApart(SubSeq(text, 1, k - 1))
      <3>1. IsStringAt(text, k)
        BY <2>2, Zenon DEF IsStringAt
      <3> QED
        BY <1>1, <2>2, <3>1, Zenon DEF StringsAreFollowed
    <2> QED
      BY <2>1, <2>2, Zenon
  <1> QED
    BY LiteralsInvariant, NumbersInvariant, StringsInvariant, <1>1, PTL
================================================================================
