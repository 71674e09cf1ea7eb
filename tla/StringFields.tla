------------------------------ MODULE StringFields ------------------------------
(***************************************************************************)
(* Objects::StringFieldBuilder, which builds the properties of a field of  *)
(* strings from the identifier of its type and its attributes, with the    *)
(* fields it makes and the names of codings that Unicode::CodingMap knows. *)
(*                                                                         *)
(* The caller is arbitrary: nothing in the program uses the builder yet,   *)
(* and its methods can be called in any order.  ParseNumericAttribute      *)
(* knows no attribute and changes nothing; it is left out.                 *)
(***************************************************************************)
EXTENDS Codecs

CONSTANTS
    CodingNames,       \* bound: the names of codings that are asked for
    TermChars          \* bound: the default terminators that are set

ASSUME StringFieldsAssumption ==
    /\ CodingNames \subseteq
           [family : {"ASCII", "HP", "IBM", "IEC", "ISO", "MS", "UTF8", "Other"},
            dashed : BOOLEAN, page : Nat]
    /\ TermChars \subseteq Nat

VARIABLES
    builder,
    lengthLeft,        \* history: a pstring was refused since the last Reset that had set its length
    declared           \* history: the identifier and attributes accepted since the last Reset

builderVars == <<builder, lengthLeft, declared>>

-----------------------------------------------------------------------------
(* CodingMap *)

InvalidCodingId == "Invalid"

\* A code point like any other: a terminator can be set to it, which then is as good as none.
InvalidCodePoint == 65535

\* Of a name only the beginning counts, which is that of a family; and of what follows it, for the
\* family MS, a dash and a number.
GetCodingId(name) ==
    CASE name.family \in {"ASCII", "UTF8"} -> name.family
      [] name.family = "MS" /\ name.dashed /\ name.page = 1252 -> "MS-1252"
      [] OTHER -> InvalidCodingId

Ascii == [family |-> "ASCII", dashed |-> FALSE, page |-> 0]

CodingIds == {InvalidCodingId, "ASCII", "MS-1252", "UTF8"}

-----------------------------------------------------------------------------
(* The builder *)

\* Reset leaves only the defaults.
ResetBuilder(b) ==
    [b EXCEPT !.mComplete = FALSE, !.mError = FALSE, !.mIdentParsed = FALSE,
              !.mAllowUnterminated = "Unset", !.mCode = InvalidCodingId, !.mLengthType = "Unknown",
              !.mLengthValue = 0, !.mTermChar = InvalidCodePoint]

\* The constructor gives a terminator, where Reset gives none.
InitialBuilder ==
    [mComplete |-> FALSE, mError |-> FALSE, mIdentParsed |-> FALSE,
     mAllowUnterminated |-> "Unset", mCode |-> InvalidCodingId, mLengthType |-> "Unknown",
     mLengthValue |-> 0, mTermChar |-> 0,
     mDefaultCode |-> GetCodingId(Ascii), mDefaultTermChar |-> 0]

\* Which attributes are not set yet.
TakesTerm(b) == b.mLengthType = "Unknown" /\ b.mTermChar = InvalidCodePoint
TakesPlen(b) == b.mLengthType = "Unknown"
TakesCode(b, name) == b.mCode = InvalidCodingId /\ GetCodingId(name) # InvalidCodingId

\* Mutant: the default counts as nothing.
TakesUntermUnlessTrue(b) == b.mAllowUnterminated # "True"

TakesUnterm(b) == b.mAllowUnterminated = "Unset"

SetTermAttr(b, cp) == [b EXCEPT !.mTermChar = cp, !.mLengthType = "Bounded"]
SetPlenAttr(b, length) == [b EXCEPT !.mLengthType = "Prefixed", !.mLengthValue = length]
SetUntermAttr(b) == [b EXCEPT !.mAllowUnterminated = "True"]
SetCodeAttr(b, name) == [b EXCEPT !.mCode = GetCodingId(name)]

Identifiers == {"string", "cstring", "pstring", "xstring", "other"}

TakesIdentifier(b, id) ==
    \/ id = "string"
    \/ id = "cstring" /\ TakesTerm(b)
    \/ id = "pstring" /\ TakesPlen(b) /\ TakesUnterm(b)

\* A pstring has set its length when it finds out that unterm is set.
WithIdentifier(b, id) ==
    CASE id = "cstring" /\ TakesTerm(b) -> SetTermAttr(b, 0)
      [] id = "pstring" /\ TakesPlen(b) /\ TakesUnterm(b) -> SetUntermAttr(SetPlenAttr(b, 8))
      [] id = "pstring" /\ TakesPlen(b) /\ ~TakesUnterm(b) -> SetPlenAttr(b, 8)
      [] OTHER -> b

\* Mutant: the length is set by default although the identifier has set it.
WithDefaultsBounded(b) ==
    [b EXCEPT !.mLengthType = "Bounded",
              !.mTermChar = IF @ = InvalidCodePoint THEN b.mDefaultTermChar ELSE @,
              !.mAllowUnterminated = IF @ = "Unset" THEN "False" ELSE @,
              !.mCode = IF @ = InvalidCodingId THEN b.mDefaultCode ELSE @,
              !.mComplete = TRUE]

WithDefaults(b) ==
    [b EXCEPT !.mLengthType = IF @ = "Unknown" THEN "Bounded" ELSE @,
              !.mTermChar = IF @ = InvalidCodePoint THEN b.mDefaultTermChar ELSE @,
              !.mAllowUnterminated = IF @ = "Unset" THEN "False" ELSE @,
              !.mCode = IF @ = InvalidCodingId THEN b.mDefaultCode ELSE @,
              !.mComplete = TRUE]

\* GetField of a complete builder: a StringField or PStringField.
GetField(b) ==
    [mLengthType |-> b.mLengthType, mLengthValue |-> b.mLengthValue, mTermChar |-> b.mTermChar,
     mAllowUnterminated |-> b.mAllowUnterminated = "True", mCode |-> b.mCode]

-----------------------------------------------------------------------------

NothingDeclared == [identifier |-> "none", unterm |-> FALSE, coding |-> InvalidCodingId]

BuilderInit ==
    /\ builder = InitialBuilder
    /\ lengthLeft = FALSE /\ declared = NothingDeclared

ParseIdentifier(id) ==
    /\ ~builder.mIdentParsed
    /\ builder' = [WithIdentifier(builder, id) EXCEPT !.mIdentParsed = TakesIdentifier(builder, id)]
    /\ lengthLeft' = (lengthLeft \/ (id = "pstring" /\ TakesPlen(builder) /\ ~TakesUnterm(builder)))
    /\ declared' = IF TakesIdentifier(builder, id) THEN [declared EXCEPT !.identifier = id]
                   ELSE declared

\* ParseStringAttribute: of code, of unterm with its empty value, and of anything else.
ParseCode(name) ==
    /\ TakesCode(builder, name)
    /\ builder' = SetCodeAttr(builder, name)
    /\ declared' = [declared EXCEPT !.coding = GetCodingId(name)]
    /\ UNCHANGED lengthLeft

ParseUnterm ==
    /\ TakesUnterm(builder)
    /\ builder' = SetUntermAttr(builder)
    /\ declared' = [declared EXCEPT !.unterm = TRUE]
    /\ UNCHANGED lengthLeft

\* One that is unknown, set already or wrong.
RefusesAttribute ==
    /\ builder' = [builder EXCEPT !.mError = TRUE]
    /\ UNCHANGED <<lengthLeft, declared>>

Finalize ==
    /\ builder.mIdentParsed /\ ~builder.mError
    /\ builder' = WithDefaults(builder)
    /\ UNCHANGED <<lengthLeft, declared>>

Reset ==
    /\ builder' = ResetBuilder(builder)
    /\ lengthLeft' = FALSE /\ declared' = NothingDeclared

SetDefaultCoding(id) ==
    /\ builder' = [builder EXCEPT !.mDefaultCode = id]
    /\ UNCHANGED <<lengthLeft, declared>>

SetDefaultTermChar(cp) ==
    /\ builder' = [builder EXCEPT !.mDefaultTermChar = cp]
    /\ UNCHANGED <<lengthLeft, declared>>

BuilderNext ==
    \/ \E id \in Identifiers : ParseIdentifier(id)
    \/ \E name \in CodingNames : ParseCode(name)
    \/ ParseUnterm \/ RefusesAttribute
    \/ Finalize \/ Reset
    \/ \E name \in CodingNames : SetDefaultCoding(GetCodingId(name))
    \/ \E cp \in TermChars : SetDefaultTermChar(cp)

-----------------------------------------------------------------------------
(* Properties *)

\* The field that the identifier and the attributes describe, whatever their order; where a pstring
\* was refused for its unterm, with the length that it left.
Described(b, d, left) ==
    [mLengthType |-> IF d.identifier = "pstring" \/ left THEN "Prefixed" ELSE "Bounded",
     mLengthValue |-> IF d.identifier = "pstring" \/ left THEN 8 ELSE 0,
     mTermChar |-> IF d.identifier = "cstring" THEN 0 ELSE b.mDefaultTermChar,
     mAllowUnterminated |-> d.unterm \/ d.identifier = "pstring",
     mCode |-> IF d.coding # InvalidCodingId THEN d.coding ELSE b.mDefaultCode]
=============================================================================
