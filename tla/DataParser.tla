------------------------------ MODULE DataParser -------------------------------
(***************************************************************************)
(* App::StreamDataObserver, the observer of a raw bit stream by which the  *)
(* command line's parse command reads the fields of a specification from a *)
(* data file, with the Objects::NumericValueBuilder that puts a value      *)
(* together and the GenericBitStream it reads from.                        *)
(*                                                                         *)
(* The module takes the place of the arbitrary observer of BitStream.      *)
(* What the bits are does not matter, only which bit of the input ends up  *)
(* where: a bit of a value is the number of a bit of the input, or Zero    *)
(* for one that is zero whatever the input is.  Extending a sign makes     *)
(* all bits of a value the same bit of the input.                          *)
(*                                                                         *)
(* Only the frame of the root is ever on mFrameStack.                      *)
(***************************************************************************)
EXTENDS BitStream

CONSTANTS
    MaxValueBits,      \* of a value: 64 in the code
    Roots              \* bound: the sequences of fields of the specifications read

ASSUME DataParserAssumption ==
    /\ MaxValueBits \in Nat \ {0}
    /\ Roots \subseteq Seq([mFieldType : {"Numeric", "String"}, mSigned : BOOLEAN,
                            mIntegralBits : Nat, mFractionalBits : Nat])

VARIABLES
    mFields,           \* of the root frame
    mCurFieldIter,     \* position in mFields, Len(mFields) + 1 at its end
    mNumericValueBuilder,
    printed            \* history: the values printed, with the fields they were printed for

parserVars == <<mFields, mCurFieldIter, mNumericValueBuilder, printed>>
dataVars == <<vars, parserVars>>

Zero == -1
ValueBits == 0 .. MaxValueBits - 1

TotalBits(field) == field.mIntegralBits + field.mFractionalBits

\* NumericValueBuilder, after Reset.
ClearedValue ==
    [mIsSigned |-> FALSE, mTotalBits |-> 0, mPropsAreSet |-> FALSE,
     mValue |-> [i \in ValueBits |-> Zero], mValueBits |-> 0]

DataTypeOK ==
    /\ mFields \in Roots /\ mCurFieldIter \in 1 .. Len(mFields) + 1
    /\ mNumericValueBuilder \in
           [mIsSigned : BOOLEAN, mTotalBits : 0 .. MaxValueBits, mPropsAreSet : BOOLEAN,
            mValue : [ValueBits -> Nat \cup {Zero}], mValueBits : 0 .. MaxValueBits]
    /\ mNumericValueBuilder.mPropsAreSet =>
           /\ mCurFieldIter <= Len(mFields)
           /\ mNumericValueBuilder.mTotalBits = TotalBits(mFields[mCurFieldIter])
           /\ mNumericValueBuilder.mValueBits < mNumericValueBuilder.mTotalBits
    /\ ~mNumericValueBuilder.mPropsAreSet => mNumericValueBuilder = ClearedValue
    /\ printed \in Seq([field : Nat, value : [ValueBits -> Nat \cup {Zero}]])

\* SetRoot has loaded the frame.
DataInit ==
    /\ Init
    /\ mFields \in Roots /\ mCurFieldIter = Len(mFields) + 1
    /\ mNumericValueBuilder = ClearedValue
    /\ printed = <<>>

-----------------------------------------------------------------------------
(* NumericValueBuilder and GenericBitStream *)

IsSupported(field) ==
    LET minIntegralBits == IF field.mSigned THEN 1 ELSE 0
    IN  /\ field.mIntegralBits >= minIntegralBits
        /\ TotalBits(field) \in minIntegralBits + 1 .. MaxValueBits

SetFieldProperties(field) ==
    [ClearedValue EXCEPT !.mIsSigned = field.mSigned, !.mTotalBits = TotalBits(field),
                         !.mPropsAreSet = TRUE]

GetBitsTillComplete(builder) == builder.mTotalBits - builder.mValueBits

\* Where the run of bits that CopyBits copies at once, and that ends with a byte of the input,
\* begins in the output of a read.
RunBegin(j) ==
    LET before == j - ((position + j) % BitsPerByte) IN IF before < 0 THEN 0 ELSE before

\* Mutant: the bits are copied from where the call of the observer began.
ReadBitsFromStart(n) == [j \in 0 .. n - 1 |-> BitAt(mBufferPositionBits + j)]

\* ReadBits into an integer that is zero.  What a run has beyond the byte of the output it begins
\* in is cut off.
ReadBits(n) ==
    [j \in 0 .. n - 1 |->
        IF j \div BitsPerByte = RunBegin(j) \div BitsPerByte THEN BitAt(position + j) ELSE Zero]

\* Mutant: the sign is not extended.
ParseBitsUnsigned(builder, piece, n) ==
    [builder EXCEPT
        !.mValue = [i \in ValueBits |-> IF i < n THEN piece[i] ELSE builder.mValue[i - n]],
        !.mValueBits = @ + n]

\* The sign is extended from the first piece that is read, and each piece is put below those
\* before it.
ParseBits(builder, piece, n) ==
    LET expanded == IF builder.mValueBits = 0 /\ builder.mIsSigned
                    THEN [i \in ValueBits |-> piece[n - 1]] ELSE builder.mValue
    IN  [builder EXCEPT
            !.mValue = [i \in ValueBits |-> IF i < n THEN piece[i] ELSE expanded[i - n]],
            !.mValueBits = @ + n]

IsComplete(builder) == builder.mPropsAreSet /\ builder.mValueBits = builder.mTotalBits

-----------------------------------------------------------------------------
(* StreamDataObserver::OnStreamData *)

AtEndOfFrame == mCurFieldIter = Len(mFields) + 1
NothingRead == position = mBufferPositionBits
CurField == mFields[mCurFieldIter]

\* Mutant: having no fields is not noticed, and the frame is begun again and again.
NoFieldsToParseLooping ==
    /\ phase = "Callback" /\ AtEndOfFrame /\ NothingRead /\ mFields = <<>>
    /\ mCurFieldIter' = 1
    /\ UNCHANGED <<vars, mFields, mNumericValueBuilder, printed>>

NoFieldsToParse ==
    /\ phase = "Callback" /\ AtEndOfFrame /\ NothingRead /\ mFields = <<>>
    /\ Returns("Error")
    /\ UNCHANGED parserVars

\* The root's fields are read over and over.
CyclesToFirstField ==
    /\ phase = "Callback" /\ AtEndOfFrame /\ NothingRead /\ mFields # <<>>
    /\ mCurFieldIter' = 1
    /\ UNCHANGED <<vars, mFields, mNumericValueBuilder, printed>>

CannotParse ==
    \/ CurField.mFieldType # "Numeric"
    \/ ~mNumericValueBuilder.mPropsAreSet /\ ~IsSupported(CurField)

FieldFails ==
    /\ phase = "Callback" /\ ~AtEndOfFrame /\ BitsTillEnd > 0 /\ CannotParse
    /\ Returns("Error")
    /\ UNCHANGED parserVars

\* The builder with the properties of the field.
Prepared ==
    IF mNumericValueBuilder.mPropsAreSet THEN mNumericValueBuilder
    ELSE SetFieldProperties(CurField)

\* Mutant: the properties are not cleared for the next field.
FinishesFieldUnreset(built) ==
    /\ printed' = Append(printed, [field |-> mCurFieldIter, value |-> built.mValue])
    /\ mCurFieldIter' = mCurFieldIter + 1
    /\ mNumericValueBuilder' = [built EXCEPT !.mValueBits = 0]

FinishesField(built) ==
    /\ printed' = Append(printed, [field |-> mCurFieldIter, value |-> built.mValue])
    /\ mCurFieldIter' = mCurFieldIter + 1
    /\ mNumericValueBuilder' = ClearedValue

\* Parse reads as much of the field as there is.
ParsePiece(n) ==
    LET built == ParseBits(Prepared, ReadBits(n), n)
    IN  /\ Reads(n)
        /\ IF IsComplete(built) THEN FinishesField(built)
           ELSE mNumericValueBuilder' = built /\ UNCHANGED <<mCurFieldIter, printed>>
        /\ UNCHANGED mFields

Parse ==
    /\ phase = "Callback" /\ ~AtEndOfFrame /\ BitsTillEnd > 0 /\ ~CannotParse
    /\ LET wanted == GetBitsTillComplete(Prepared)
       IN  ParsePiece(IF BitsTillEnd < wanted THEN BitsTillEnd ELSE wanted)

\* At the end of the frame, or of the data, in the middle of a field or not.
ReturnsForMore ==
    /\ phase = "Callback" /\ ~NothingRead /\ (AtEndOfFrame \/ BitsTillEnd = 0)
    /\ Returns("Continue")
    /\ UNCHANGED parserVars

StreamDataObserver ==
    NoFieldsToParse \/ CyclesToFirstField \/ FieldFails \/ Parse \/ ReturnsForMore

DataNext ==
    \/ (ReadSequenceStart \/ Progress \/ Terminated) /\ UNCHANGED parserVars
    \/ StreamDataObserver

\* ReadStream and the observer run in one thread that does not wait.
DataSpec ==
    /\ DataInit /\ [][DataNext]_dataVars
    /\ WF_dataVars(Progress /\ UNCHANGED parserVars)
    /\ WF_dataVars(StreamDataObserver)

-----------------------------------------------------------------------------
(* Properties *)

FieldOf(k) == mFields[printed[k].field]

\* The bits of the first k fields printed.
BitsOf(k) ==
    LET bits[i \in 0 .. k] == IF i = 0 THEN 0 ELSE bits[i - 1] + TotalBits(FieldOf(i)) IN bits[k]

\* Each bit of a value is zero, whatever the input is, or one of the bits behind begin up to end.
IsMadeOf(value, bits, begin, end) ==
    \A i \in ValueBits :
        value[i] = Zero \/ \E j \in DOMAIN bits : begin < j /\ j <= end /\ value[i] = bits[j]

\* The values printed are those of the fields in their order, over and over, and for each field as
\* many bits were read from the stream as it has; those that are left were read for the value that is
\* being put together.
FieldsTakeTheirTurns ==
    /\ \A k \in DOMAIN printed : printed[k].field = ((k - 1) % Len(mFields)) + 1
    /\ Len(taken) = BitsOf(Len(printed)) + mNumericValueBuilder.mValueBits

\* No value has a bit that was read for another one.
NoBitIsAnothers ==
    /\ \A k \in DOMAIN printed : IsMadeOf(printed[k].value, taken, BitsOf(k - 1), BitsOf(k))
    /\ IsMadeOf(mNumericValueBuilder.mValue, taken, BitsOf(Len(printed)), Len(taken))

\* Each value printed is put together from the bits that were read for its field, and from no other,
\* over all the calls and chunks that a field may take.  That all of those bits are in the value, and
\* where, is not said here: see IsItsBits.
ValuesAreOfTheirBits == FieldsTakeTheirTurns /\ NoBitIsAnothers

\* The value is the bits of the field, the first one least, and beyond them its sign.
IsItsBits(k) ==
    LET begin == BitsOf(k - 1)
        width == TotalBits(FieldOf(k))
        beyond == IF FieldOf(k).mSigned THEN begin + width - 1 ELSE Zero
    IN  printed[k].value = [i \in ValueBits |-> IF i < width THEN begin + i ELSE beyond]

\* Of an input that a single read can take, each field that begins with a byte or that has at most
\* as many bits as a byte is printed with its value.
WholeOrNarrowFieldsAreRead ==
    length < mChunkSize =>
        \A k \in DOMAIN printed :
            BitsOf(k - 1) % BitsPerByte = 0 \/ TotalBits(FieldOf(k)) <= BitsPerByte => IsItsBits(k)

\* GenericBitStream: the bytes of a read are filled one after the other, the least significant
\* portion first.  So of such an input every field is printed with its value.
FieldsAreTheirBits == length < mChunkSize => \A k \in DOMAIN printed : IsItsBits(k)

\* Parsing the fields is one way to observe a bit stream: what is said there of any observer holds,
\* and reading ends.
ImplementsObserver == Spec
=============================================================================
