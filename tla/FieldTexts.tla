------------------------------- MODULE FieldTexts -------------------------------
(***************************************************************************)
(* Unicode::IteratorBase, by which the code points of a text are read from *)
(* its bytes in a coding, beside the builder of string fields.             *)
(*                                                                         *)
(* A text is either code points written with the converter of the coding,  *)
(* or bytes that may be anything.  The ways to look at a code point and to *)
(* advance come in any order while the iterator is valid.  Fields and      *)
(* texts share nothing but the codings, so texts are read only before the  *)
(* builder is used.                                                        *)
(***************************************************************************)
EXTENDS StringFields

CONSTANTS
    Texts,             \* bound: the texts of code points
    Bytes,             \* bound: the texts of bytes
    MaxIndex           \* bound: how often the iterator is advanced

ASSUME FieldTextsAssumption ==
    /\ Texts \subseteq Seq(Nat) /\ Bytes \subseteq Seq(0 .. 255)
    /\ MaxIndex \in Nat

VARIABLES
    codec,             \* the coding of the text that is being read, InvalidCodingId if there is none
    iter,              \* the iterator
    bytes,             \* what it iterates over
    written,           \* history: the code points the bytes were made of, or none
    unseen             \* history: the iterator was advanced from a code point that was not converted

iteratorVars == <<codec, iter, bytes, written, unseen>>
fieldTextVars == <<builderVars, iteratorVars>>

-----------------------------------------------------------------------------
(* The converters, as GetCodec gives them *)

Codings == CodingIds \ {InvalidCodingId}

TableOf(coding) == IF coding = "ASCII" THEN AsciiTable ELSE Ms1252Table

\* ConvertBytes, of bytes that there are.
ConvertBytes(coding, b) ==
    LET symbol == ToUnicode(TableOf(coding), b[1])
    IN  CASE coding = "UTF8" -> Utf8ConvertBytes(b)
          [] coding # "UTF8" /\ symbol = Undefined -> Utf8Failure
          [] OTHER -> [size |-> 1, symbol |-> symbol]

ConvertSymbol(coding, cp) ==
    LET code == FromUnicode(TableOf(coding), cp)
    IN  CASE coding = "UTF8" -> Utf8ConvertSymbol(cp)
          [] coding # "UTF8" /\ code = Undefined -> <<>>
          [] OTHER -> <<code>>

-----------------------------------------------------------------------------
(* IteratorBase; what it points to is Rest *)

From(p) == SubSeq(bytes, p + 1, Len(bytes))
Rest(i) == From(i.mPtr)
Remains(i) == Len(bytes) - i.mPtr

StartedIterator ==
    [mPtr |-> 0, mCodePoint |-> InvalidCodePoint, mCodePointSize |-> 0, mIndex |-> 0,
     mError |-> FALSE, mNeedConvert |-> TRUE]

Advance(i) ==
    [mPtr |-> i.mPtr + i.mCodePointSize, mCodePoint |-> InvalidCodePoint, mCodePointSize |-> 0,
     mIndex |-> i.mIndex + 1, mError |-> i.mError, mNeedConvert |-> TRUE]

\* Mutant: what cannot be converted is one byte.
ConvertSkipping(i) ==
    LET converted == ConvertBytes(codec, Rest(i))
    IN  IF ~i.mNeedConvert \/ Remains(i) = 0 THEN i
        ELSE [i EXCEPT !.mCodePoint = IF converted.size = 0 THEN @ ELSE converted.symbol,
                       !.mCodePointSize = IF converted.size = 0 THEN 1 ELSE converted.size,
                       !.mError = @ \/ converted.size = 0,
                       !.mNeedConvert = FALSE]

\* Of a failure the size is zero, and the code point stays what it was.
Convert(i) ==
    LET converted == ConvertBytes(codec, Rest(i))
    IN  IF ~i.mNeedConvert \/ Remains(i) = 0 THEN i
        ELSE [i EXCEPT !.mCodePoint = IF converted.size = 0 THEN @ ELSE converted.symbol,
                       !.mCodePointSize = converted.size,
                       !.mError = @ \/ converted.size = 0,
                       !.mNeedConvert = FALSE]

-----------------------------------------------------------------------------

\* What the code points are in the coding; every one of them must be in it.
Encoded(coding, cps) ==
    LET encoded[k \in 0 .. Len(cps)] ==
            IF k = 0 THEN <<>> ELSE encoded[k - 1] \o ConvertSymbol(coding, cps[k])
    IN  encoded[Len(cps)]
IsEncodable(coding, cps) == \A k \in DOMAIN cps : ConvertSymbol(coding, cps[k]) # <<>>

NoText == <<>>

FieldTextsInit ==
    /\ BuilderInit
    /\ codec = InvalidCodingId /\ iter = StartedIterator
    /\ bytes = NoText /\ written = NoText /\ unseen = FALSE

BuildsField == codec = InvalidCodingId /\ BuilderNext /\ UNCHANGED iteratorVars

Opens(coding, b, cps) ==
    /\ codec = InvalidCodingId /\ builder = InitialBuilder
    /\ codec' = coding /\ iter' = StartedIterator
    /\ bytes' = b /\ written' = cps /\ unseen' = FALSE
    /\ UNCHANGED builderVars

OpensText ==
    \E coding \in Codings, cps \in Texts :
        IsEncodable(coding, cps) /\ Opens(coding, Encoded(coding, cps), cps)

OpensBytes == \E coding \in Codings, b \in Bytes : Opens(coding, b, NoText)

\* operator bool
IsValid == codec # InvalidCodingId /\ Remains(iter) # 0

\* operator *, which converts as GetCodePointString does.
Dereference ==
    /\ IsValid
    /\ iter' = Convert(iter)
    /\ UNCHANGED <<builderVars, codec, bytes, written, unseen>>

\* ++iter gives the code point advanced to.
PreIncrement ==
    /\ IsValid /\ iter.mIndex < MaxIndex
    /\ iter' = Convert(Advance(iter))
    /\ unseen' = (unseen \/ iter.mNeedConvert)
    /\ UNCHANGED <<builderVars, codec, bytes, written>>

\* iter++ gives the one advanced from.
PostIncrement ==
    /\ IsValid /\ iter.mIndex < MaxIndex
    /\ iter' = Advance(Convert(iter))
    /\ UNCHANGED <<builderVars, codec, bytes, written, unseen>>

Closes ==
    /\ codec # InvalidCodingId
    /\ codec' = InvalidCodingId /\ iter' = StartedIterator
    /\ bytes' = NoText /\ written' = NoText /\ unseen' = FALSE
    /\ UNCHANGED builderVars

FieldTextsNext ==
    \/ BuildsField
    \/ OpensText \/ OpensBytes \/ Closes
    \/ Dereference \/ PreIncrement \/ PostIncrement

FieldTextsSpec == FieldTextsInit /\ [][FieldTextsNext]_fieldTextVars

-----------------------------------------------------------------------------
(* Properties *)

\* Whatever the order in which the identifier and the attributes were given, the field that is
\* finished is the one they describe, with the defaults of that moment for what they leave open; if
\* the builder was reset once, for the first field has the terminator of the constructor.  Of what was
\* refused nothing is left but the length of a pstring that met unterm.
FieldIsAsDescribed ==
    [][/\ ~builder.mComplete /\ builder'.mComplete
       /\ builder.mTermChar = InvalidCodePoint \/ declared.identifier = "cstring"
       => GetField(builder') = Described(builder, declared, lengthLeft)]_fieldTextVars

\* A field that was finished does not change until the builder is reset, whatever is parsed then and
\* whatever the defaults become: GetField can be called at any time.  Only what its defaults left
\* open can still be filled in: the coding if it is not known, and the terminator if there is none,
\* which a default of InvalidCodePoint means.
FinishedFieldStays ==
    [][builder.mComplete /\ builder'.mComplete =>
          GetField(builder') =
              [GetField(builder) EXCEPT
                  !.mCode = IF @ = InvalidCodingId THEN builder'.mCode ELSE @,
                  !.mTermChar = IF @ = InvalidCodePoint THEN builder'.mTermChar ELSE @]]_fieldTextVars

\* A text that was written in the coding is read as it was written: the iterator fails nowhere, stands
\* at a code point and shows that one; its index is that code point's unless it was advanced from one
\* that it had not converted, which does not move it.
TextsAreReadAsWritten ==
    written # NoText =>
        \E k \in 0 .. Len(written) :
            /\ iter.mPtr = Len(Encoded(codec, SubSeq(written, 1, k)))
            /\ iter.mCodePointSize # 0 => iter.mCodePoint = written[k + 1]
            /\ ~iter.mError
            /\ unseen <=> iter.mIndex # k

\* The places in the text at which a code point begins, or what cannot be converted: the least set
\* that has the beginning of the text and, with a place, the end of the code point there.
IsClosed(places) ==
    /\ 0 \in places
    /\ \A p \in places : p < Len(bytes) => p + ConvertBytes(codec, From(p)).size \in places

Beginnings ==
    {p \in 0 .. Len(bytes) : \A places \in SUBSET (0 .. Len(bytes)) : IsClosed(places) => p \in places}

\* In bytes that need not be a text, the iterator is never in the middle of a code point, and it never
\* passes what it cannot convert: there it stays, with its error, however often it is advanced.
NothingIsSkipped ==
    /\ codec # InvalidCodingId => iter.mPtr \in Beginnings
    /\ iter.mError => ConvertBytes(codec, Rest(iter)).size = 0
=============================================================================
