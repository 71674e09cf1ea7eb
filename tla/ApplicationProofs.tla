--------------------------- MODULE ApplicationProofs ---------------------------
(***************************************************************************)
(* The bit stream, its two observers and the program that reads data with  *)
(* them: the types and totals of the stream for any observer, and what the *)
(* parser of data finds in the bits, for every specification, size of byte *)
(* and of chunk, and input.                                                *)
(*                                                                         *)
(* A field is read a chunk at a time, and its bits are the sum of what its *)
(* chunks took.  The inductive invariant says of each phase which bits of  *)
(* which field have been taken, relative to the place at which the stream  *)
(* began its buffer.                                                       *)
(*                                                                         *)
(* Of the parser of arguments: its loops are recursive functions, and an   *)
(* invariant says of each parameter whether its value was read.            *)
(***************************************************************************)
EXTENDS Application, SequenceTheorems, SetInduction, TLAPS

-----------------------------------------------------------------------------
(* The bit stream with any observer *)

LEMMA Constants ==
    /\ BitsPerByte \in Nat /\ BitsPerByte > 0
    /\ mChunkSize \in Nat /\ mChunkSize > 0
    /\ MaxLength \in Nat /\ Capacity \in Nat
  BY BitStreamAssumption DEF Capacity

LEMMA Times == ASSUME NEW a \in Nat, NEW b \in Nat, a <= b
               PROVE  a * BitsPerByte \in Nat /\ a * BitsPerByte <= b * BitsPerByte
  BY Constants

\* Which byte a bit is in, and which bit of it.
LEMMA Split == ASSUME NEW p \in Nat
               PROVE  /\ p \div BitsPerByte \in Nat /\ p % BitsPerByte \in Nat
                      /\ p = BitsPerByte * (p \div BitsPerByte) + (p % BitsPerByte)
  BY Constants

\* Bits are carried into bytes.
LEMMA Carry == ASSUME NEW bytes \in Nat, NEW bits \in Nat
               PROVE  /\ bytes + bits \div BitsPerByte \in Nat
                      /\ bits % BitsPerByte \in 0 .. BitsPerByte - 1
                      /\ (bytes + bits \div BitsPerByte) * BitsPerByte + (bits % BitsPerByte)
                             = bytes * BitsPerByte + bits
  <1> DEFINE q == bits \div BitsPerByte
             r == bits % BitsPerByte
  <1>1. q \in Nat /\ r \in 0 .. BitsPerByte - 1 /\ bits = BitsPerByte * q + r
    BY Split, Constants
  <1> HIDE DEF q, r
  <1>2. (bytes + q) * BitsPerByte = bytes * BitsPerByte + BitsPerByte * q
    BY <1>1, Constants
  <1>3. bytes * BitsPerByte \in Nat /\ BitsPerByte * q \in Nat
    BY <1>1, Constants
  <1>4. (bytes + q) * BitsPerByte + r = bytes * BitsPerByte + bits
    BY <1>1, <1>2, <1>3
  <1> QED
    BY <1>1, <1>4 DEF q, r

LEMMA ByteOfBit == ASSUME NEW p \in Nat, NEW n \in Nat, p < n * BitsPerByte
                   PROVE  p \div BitsPerByte < n
  <1>1. p \div BitsPerByte \in Nat /\ p % BitsPerByte \in Nat
    BY Split
  <1>2. p = BitsPerByte * (p \div BitsPerByte) + (p % BitsPerByte)
    BY Split
  <1> DEFINE q == p \div BitsPerByte
  <1>3. SUFFICES ASSUME n <= q PROVE FALSE
    BY <1>1
  <1>4. n * BitsPerByte <= q * BitsPerByte
    BY <1>1, <1>3, Times
  <1>5. q * BitsPerByte = BitsPerByte * q /\ q * BitsPerByte \in Nat
    BY <1>1, Constants
  <1>6. n * BitsPerByte \in Nat
    BY Constants
  <1> QED
    BY <1>1, <1>2, <1>4, <1>5, <1>6

-----------------------------------------------------------------------------
(* The inductive invariant *)

\* While Continue is running, the bit stream and the saved position are within the data, and they
\* are the same except while the observer is reading.
PositionInv ==
    /\ phase \in {"Loop", "Callback", "Update"} =>
          position <= DataBits /\ mBufferPositionBits <= DataBits
    /\ phase \in {"Loop", "Update"} => position = mBufferPositionBits

\* What has been taken but not yet counted is what lies between the place where Continue began
\* and the position.
CountInv ==
    /\ phase \in {"Idle", "Continue"} => Len(taken) = TotalProcessed
    /\ phase \in {"Loop", "Update"} =>
          Len(taken) = TotalProcessed + mBufferPositionBits - startPositionBits
    /\ phase = "Callback" /\ mBufferPositionBits <= position =>
          Len(taken) = TotalProcessed + position - startPositionBits
    /\ phase \in {"Ending", "Done"} /\ mBufferPositionBits <= position =>
          Len(taken) = TotalProcessed

IInv == TypeOK /\ PositionInv /\ CountInv

\* What each phase's invariant gives to the steps.
LEMMA DataBound == TypeOK => /\ DataBits \in Nat /\ DataBits <= Capacity * BitsPerByte
                             /\ Capacity * BitsPerByte \in Nat
  <1> SUFFICES ASSUME TypeOK PROVE /\ DataBits \in Nat /\ DataBits <= Capacity * BitsPerByte
                                   /\ Capacity * BitsPerByte \in Nat
    OBVIOUS
  <1>1. Len(buffer) \in Nat /\ Len(buffer) <= Capacity
    BY DEF TypeOK
  <1>2. Capacity \in Nat
    BY Constants
  <1> QED
    BY <1>1, <1>2, Times DEF DataBits

LEMMA BitIsANumber == ASSUME TypeOK, NEW p \in Nat, p < DataBits PROVE BitAt(p) \in Nat
  <1>1. p \div BitsPerByte \in Nat /\ p % BitsPerByte \in Nat
    BY Split
  <1>2. buffer \in Seq(Nat) /\ Len(buffer) \in Nat
    BY DEF TypeOK
  <1>3. p \div BitsPerByte < Len(buffer)
    BY <1>2, ByteOfBit DEF DataBits
  <1>4. buffer[p \div BitsPerByte + 1] \in Nat
    BY <1>1, <1>2, <1>3
  <1>5. buffer[p \div BitsPerByte + 1] * BitsPerByte \in Nat
    BY <1>4, Constants
  <1> QED
    BY <1>1, <1>5 DEF BitAt

LEMMA RemainingFits == TypeOK => Remaining \in Seq(Nat) /\ Len(Remaining) <= Len(buffer)
  <1> SUFFICES ASSUME TypeOK PROVE Remaining \in Seq(Nat) /\ Len(Remaining) <= Len(buffer)
    OBVIOUS
  <1> DEFINE k == mBufferPositionBits \div BitsPerByte
  <1>1. buffer \in Seq(Nat) /\ Len(buffer) \in Nat
    BY DEF TypeOK
  <1>2. mBufferPositionBits \in Nat
    <2>1. Capacity * BitsPerByte \in Nat
      BY DataBound
    <2> QED
      BY <2>1 DEF TypeOK
  <1>3. k \in Nat
    BY <1>2, Split
  <1>4. SubSeq(buffer, k + 1, Len(buffer)) \in Seq(Nat)
        /\ Len(SubSeq(buffer, k + 1, Len(buffer))) <= Len(buffer)
    BY <1>1, <1>3
  <1> QED
    BY <1>4 DEF Remaining

LEMMA Initially == Init => IInv
  <1> SUFFICES ASSUME Init PROVE IInv
    OBVIOUS
  <1>1. Len(buffer) = 0 /\ Len(taken) = 0 /\ buffer \in Seq(Nat) /\ taken \in Seq(Nat)
    BY DEF Init
  <1>2. 0 \in 0 .. Capacity * BitsPerByte /\ 0 \in 0 .. length /\ 0 \in 0 .. mBufferPositionBits
    <2>1. Capacity * BitsPerByte \in Nat
      BY Constants
    <2> QED
      BY <2>1, Constants DEF Init
  <1>c. /\ mTotalProcessedBytes \in Nat /\ mTotalProcessedBits \in 0 .. BitsPerByte - 1
        /\ TotalProcessed = 0
    <2>1. 0 * BitsPerByte + 0 = 0 /\ 0 \in Nat /\ 0 \in 0 .. BitsPerByte - 1
      BY Constants
    <2> QED
      BY <2>1 DEF Init, TotalProcessed
  <1>3. TypeOK
    <2>1. length \in 0 .. MaxLength /\ received \in 0 .. length /\ mIn \in {"good", "eof", "bad"}
      BY <1>2 DEF Init
    <2>2. buffer \in Seq(Nat) /\ Len(buffer) <= Capacity
      BY <1>1, Constants
    <2>3. /\ mBufferPositionBits \in 0 .. Capacity * BitsPerByte
          /\ position \in 0 .. Capacity * BitsPerByte
          /\ startPositionBits \in 0 .. mBufferPositionBits
      BY <1>2 DEF Init
    <2>4. /\ mHasError \in BOOLEAN /\ mLastControlCode \in Controls /\ control \in Controls
          /\ phase \in {"Idle", "Continue", "Loop", "Callback", "Update", "Ending", "Done"}
      BY DEF Init, Controls
    <2> QED
      BY <1>1, <1>c, <2>1, <2>2, <2>3, <2>4 DEF TypeOK
  <1>4. PositionInv /\ CountInv
    BY <1>1, <1>c DEF Init, PositionInv, CountInv
  <1> QED
    BY <1>3, <1>4 DEF IInv

LEMMA Stepwise == IInv /\ [Next]_vars => IInv'
  <1> SUFFICES ASSUME IInv, [Next]_vars PROVE IInv'
    OBVIOUS
  <1> USE DEF Controls
  <1>0. TypeOK /\ PositionInv /\ CountInv
    BY DEF IInv
  <1>a. DataBits \in Nat /\ DataBits <= Capacity * BitsPerByte /\ Capacity * BitsPerByte \in Nat
    BY <1>0, DataBound
  <1>b. /\ position \in Nat /\ mBufferPositionBits \in Nat /\ startPositionBits \in Nat
        /\ startPositionBits <= mBufferPositionBits /\ Len(taken) \in Nat
    BY <1>0, <1>a DEF TypeOK
  <1>c. /\ mTotalProcessedBytes \in Nat /\ mTotalProcessedBits \in 0 .. BitsPerByte - 1
        /\ TotalProcessed \in Nat
    <2>1. mTotalProcessedBytes \in Nat /\ mTotalProcessedBits \in 0 .. BitsPerByte - 1
      BY <1>0 DEF TypeOK
    <2> QED
      BY <2>1, Constants DEF TotalProcessed
  <1>1. CASE ReadSequenceStart
    <2>1. TypeOK' /\ PositionInv' /\ CountInv'
      BY <1>0, <1>1
      DEF ReadSequenceStart, TypeOK, PositionInv, CountInv, inputVars, localVars,
          totals, TotalProcessed
    <2> QED
      BY <2>1 DEF IInv
  <1>2. CASE OutOfSync
    <2>1. TypeOK' /\ PositionInv' /\ CountInv'
      BY <1>0, <1>2
      DEF OutOfSync, TypeOK, PositionInv, CountInv, inputVars, localVars, totals, TotalProcessed
    <2> QED
      BY <2>1 DEF IInv
  <1>3. CASE ReadSequenceContinue
    <2>1. TypeOK'
      BY <1>0, <1>3 DEF ReadSequenceContinue, TypeOK, inputVars, streamVars
    <2>2. PositionInv'
      BY <1>3 DEF ReadSequenceContinue, PositionInv, DataBits, streamVars
    <2>3. CountInv'
      BY <1>0, <1>b, <1>3 DEF ReadSequenceContinue, CountInv, streamVars, TotalProcessed
    <2> QED
      BY <2>1, <2>2, <2>3 DEF IInv
  <1>4. CASE OnStreamData
    <2>1. TypeOK'
      BY <1>0, <1>4 DEF OnStreamData, TypeOK, inputVars, streamVars, localVars
    <2>2. PositionInv' /\ CountInv'
      BY <1>0, <1>4
      DEF OnStreamData, PositionInv, CountInv, DataBits, inputVars, streamVars, localVars,
          TotalProcessed
    <2> QED
      BY <2>1, <2>2 DEF IInv
  <1>5. CASE NothingToOffer
    <2>1. TypeOK'
      BY <1>0, <1>5 DEF NothingToOffer, TypeOK, inputVars, streamVars, localVars
    <2>2. PositionInv' /\ CountInv'
      BY <1>0, <1>5
      DEF NothingToOffer, PositionInv, CountInv, DataBits, inputVars, streamVars, localVars,
          TotalProcessed
    <2> QED
      BY <2>1, <2>2 DEF IInv
  <1>6. ASSUME NEW n \in 1 .. Capacity * BitsPerByte, Reads(n) PROVE IInv'
    <2>1. n \in Nat /\ mBufferPositionBits <= position /\ position + n <= DataBits
      BY <1>6, <1>a, <1>b DEF Reads, BitsTillEnd
    <2>2. ASSUME NEW i \in 1 .. n PROVE BitAt(position + i - 1) \in Nat
      <3>1. position + i - 1 \in Nat /\ position + i - 1 < DataBits
        BY <2>1, <1>a, <1>b
      <3> QED
        BY <3>1, <1>0, BitIsANumber
    <2> DEFINE bits == [i \in 1 .. n |-> BitAt(position + i - 1)]
    <2>3. bits \in Seq(Nat) /\ Len(bits) = n
      BY <2>1, <2>2
    <2>4. taken \in Seq(Nat)
      BY <1>0 DEF TypeOK
    <2>5. taken' = taken \o bits
      BY <1>6 DEF Reads
    <2> HIDE DEF bits
    <2>6. taken' \in Seq(Nat) /\ Len(taken') = Len(taken) + n
      BY <2>3, <2>4, <2>5, ConcatProperties
    <2>7. position' = position + n /\ position' \in 0 .. Capacity * BitsPerByte
      BY <1>6, <1>a, <1>b, <2>1 DEF Reads
    <2>8. TypeOK'
      BY <1>0, <1>6, <2>6, <2>7 DEF Reads, TypeOK, inputVars, streamVars
    <2>9. /\ phase = "Callback" /\ phase' = "Callback" /\ mBufferPositionBits' = mBufferPositionBits
          /\ UNCHANGED <<buffer, startPositionBits>> /\ TotalProcessed' = TotalProcessed
      BY <1>6 DEF Reads, streamVars, TotalProcessed
    <2>10. PositionInv'
      BY <1>0, <2>1, <2>7, <2>9 DEF PositionInv, DataBits
    <2>11. Len(taken) = TotalProcessed + position - startPositionBits
      BY <1>0, <2>1, <2>9 DEF CountInv, TotalProcessed
    <2>12. Len(taken') = TotalProcessed' + position' - startPositionBits'
      BY <1>b, <1>c, <2>1, <2>6, <2>7, <2>9, <2>11
    <2>13. CountInv'
      BY <2>9, <2>12 DEF CountInv, TotalProcessed
    <2> QED
      BY <2>8, <2>10, <2>13 DEF IInv
  <1>7. ASSUME NEW p \in 0 .. Capacity * BitsPerByte, SeeksBack(p) PROVE IInv'
    <2>1. TypeOK'
      BY <1>0, <1>7 DEF SeeksBack, TypeOK, inputVars, streamVars
    <2>2. p \in Nat /\ p < mBufferPositionBits
      BY <1>7, <1>a DEF SeeksBack
    <2>3. PositionInv' /\ CountInv'
      BY <1>0, <1>7, <1>a, <1>b, <2>2
      DEF SeeksBack, PositionInv, CountInv, DataBits, inputVars, streamVars, TotalProcessed
    <2> QED
      BY <2>1, <2>3 DEF IInv
  <1>8. ASSUME NEW answer \in Controls, Returns(answer) PROVE IInv'
    <2>1. CASE position < mBufferPositionBits
      <3>1. TypeOK'
        BY <1>0, <1>8, <2>1 DEF Returns, TypeOK, inputVars, totals
      <3>2. PositionInv' /\ CountInv'
        BY <1>0, <1>8, <1>b, <2>1
        DEF Returns, PositionInv, CountInv, inputVars, totals, TotalProcessed
      <3> QED
        BY <3>1, <3>2 DEF IInv
    <2>2. CASE ~(position < mBufferPositionBits)
      <3>1. /\ mBufferPositionBits' = position /\ position' = position
            /\ phase' \in {"Loop", "Update"} /\ control' \in Controls
            /\ UNCHANGED <<inputVars, buffer, totals, startPositionBits, taken, mHasError>>
            /\ mLastControlCode' = answer /\ phase = "Callback"
        BY <1>8, <2>2 DEF Returns
      <3>2. startPositionBits \in 0 .. position
        BY <1>b, <2>2
      <3>3. TypeOK'
        BY <1>0, <3>1, <3>2 DEF TypeOK, inputVars, totals
      <3>4. PositionInv' /\ CountInv'
        BY <1>0, <1>b, <2>2, <3>1
        DEF PositionInv, CountInv, DataBits, inputVars, totals, TotalProcessed
      <3> QED
        BY <3>3, <3>4 DEF IInv
    <2> QED
      BY <2>1, <2>2
  <1>9. ASSUME Update PROVE /\ mTotalProcessedBytes' \in Nat
                            /\ mTotalProcessedBits' \in 0 .. BitsPerByte - 1
                            /\ Len(taken') = TotalProcessed'
                            /\ UNCHANGED <<length, mBufferPositionBits, mLastControlCode, localVars, taken>>
    <2> DEFINE processed == mBufferPositionBits - startPositionBits
               bits == mTotalProcessedBits + processed
    <2>1. phase = "Update" /\ Count
          /\ UNCHANGED <<length, mBufferPositionBits, mLastControlCode, localVars, taken>>
      BY <1>9 DEF Update
    <2>2. processed \in Nat /\ bits \in Nat
      BY <1>b, <1>c, Constants
    <2>3. bits = mTotalProcessedBits + mBufferPositionBits - startPositionBits
      BY <1>b, <1>c, Constants
    <2>4. /\ mTotalProcessedBytes' = mTotalProcessedBytes + bits \div BitsPerByte
          /\ mTotalProcessedBits' = bits % BitsPerByte
      BY <2>1, <2>3 DEF Count
    <2>5. Len(taken) = TotalProcessed + processed
      BY <1>0, <1>b, <1>c, <2>1 DEF CountInv, TotalProcessed
    <2> HIDE DEF bits
    <2>6. /\ mTotalProcessedBytes' \in Nat /\ mTotalProcessedBits' \in 0 .. BitsPerByte - 1
          /\ TotalProcessed' = mTotalProcessedBytes * BitsPerByte + bits
      BY <1>c, <2>2, <2>4, Carry DEF TotalProcessed
    <2>7. TotalProcessed' = TotalProcessed + processed
      BY <1>c, <2>2, <2>6, Constants DEF TotalProcessed, bits
    <2> QED
      BY <2>1, <2>5, <2>6, <2>7
  <1>10. Remaining \in Seq(Nat) /\ Len(Remaining) \in Nat /\ Len(Remaining) <= Capacity
    <2>1. Len(buffer) <= Capacity /\ Len(buffer) \in Nat
      BY <1>0 DEF TypeOK
    <2>2. Remaining \in Seq(Nat) /\ Len(Remaining) <= Len(buffer)
      BY <1>0, RemainingFits
    <2>3. Len(Remaining) \in Nat
      BY <2>2
    <2> QED
      BY <2>1, <2>2, <2>3, Constants
  <1>11. ASSUME NEW hasError \in BOOLEAN, Ends(hasError) PROVE IInv'
    <2>1. /\ mTotalProcessedBytes' \in Nat /\ mTotalProcessedBits' \in 0 .. BitsPerByte - 1
          /\ Len(taken') = TotalProcessed'
          /\ UNCHANGED <<length, mBufferPositionBits, mLastControlCode, localVars, taken>>
      BY <1>9, <1>11 DEF Ends
    <2>2. TypeOK'
      BY <1>0, <1>10, <1>11, <2>1 DEF Ends, TypeOK, localVars
    <2>3. PositionInv' /\ CountInv'
      BY <1>11, <2>1 DEF Ends, PositionInv, CountInv, localVars
    <2> QED
      BY <2>2, <2>3 DEF IInv
  <1>12. mHasError \in BOOLEAN
    BY <1>0 DEF TypeOK
  <1>13. CASE Interrupted
    <2>1. (mHasError \/ control = "Error") \in BOOLEAN
      BY <1>12
    <2> QED
      BY <1>11, <1>13, <2>1 DEF Interrupted
  <1>14. CASE Exhausted
    <2>1. (mHasError \/ mIn = "bad") \in BOOLEAN
      BY <1>12
    <2> QED
      BY <1>11, <1>14, <2>1 DEF Exhausted
  <1>15. CASE Overflows
    BY <1>11, <1>15 DEF Overflows
  <1>16. ASSUME NEW n \in 0 .. mChunkSize, Refills(n) PROVE IInv'
    <2>1. /\ mTotalProcessedBytes' \in Nat /\ mTotalProcessedBits' \in 0 .. BitsPerByte - 1
          /\ Len(taken') = TotalProcessed'
          /\ UNCHANGED <<length, mBufferPositionBits, mLastControlCode, localVars, taken>>
      BY <1>9, <1>16 DEF Refills
    <2>2. length \in Nat /\ received \in Nat /\ received + n <= length /\ n \in Nat
      BY <1>0, <1>16, Constants DEF TypeOK, Refills, ReadImpl
    <2> DEFINE bytes == [i \in 1 .. n |-> received + i - 1]
    <2>3. bytes \in Seq(Nat) /\ Len(bytes) = n
      BY <2>2
    <2>4. buffer' = Remaining \o bytes
      BY <1>16 DEF Refills
    <2> HIDE DEF bytes
    <2>5. buffer' \in Seq(Nat) /\ Len(buffer') = Len(Remaining) + n
      BY <1>10, <2>3, <2>4, ConcatProperties
    <2>6. Len(Remaining) + n <= Capacity
      BY <1>10, <1>16, <2>2, Constants DEF Refills, HasRoom
    <2>7. received' \in 0 .. length' /\ mIn' \in {"good", "eof", "bad"}
      BY <1>16, <2>1, <2>2 DEF Refills, ReadImpl
    <2>8. TypeOK'
      BY <1>0, <1>16, <2>1, <2>5, <2>6, <2>7 DEF Refills, TypeOK, localVars
    <2>9. PositionInv' /\ CountInv'
      BY <1>16, <2>1 DEF Refills, PositionInv, CountInv
    <2> QED
      BY <2>8, <2>9 DEF IInv
  <1>17. CASE ReadSequenceEnd
    <2>1. (mHasError \/ (mLastControlCode = "Continue" /\ buffer # <<>>)) \in BOOLEAN
      BY <1>12
    <2>2. TypeOK'
      BY <1>0, <1>17, <2>1 DEF ReadSequenceEnd, TypeOK, inputVars, localVars, totals
    <2>3. PositionInv' /\ CountInv'
      BY <1>0, <1>17
      DEF ReadSequenceEnd, PositionInv, CountInv, inputVars, localVars, totals, TotalProcessed
    <2> QED
      BY <2>2, <2>3 DEF IInv
  <1>18. CASE UNCHANGED vars
    <2>1. TypeOK'
      BY <1>0, <1>18 DEF vars, inputVars, streamVars, localVars, TypeOK
    <2>2. PositionInv' /\ CountInv'
      BY <1>0, <1>18
      DEF vars, inputVars, streamVars, localVars, PositionInv, CountInv, DataBits, TotalProcessed
    <2> QED
      BY <2>1, <2>2 DEF IInv
  <1> QED
    BY <1>1, <1>2, <1>3, <1>4, <1>5, <1>6, <1>7, <1>8, <1>13, <1>14, <1>15, <1>16, <1>17, <1>18
    DEF Next, Progress, Observer, ObserverReturns, Terminated, totals

LEMMA Inductive == Spec => []IInv
  <1>1. Init => IInv
    BY Initially
  <1>2. IInv /\ [Next]_vars => IInv'
    BY Stepwise
  <1> QED
    BY <1>1, <1>2, PTL DEF Spec, Safety

-----------------------------------------------------------------------------

\* The variables have their types: in particular, the data never exceeds the buffer.
THEOREM TypeCorrect == Spec => []TypeOK
  <1>1. IInv => TypeOK
    BY DEF IInv
  <1> QED
    BY <1>1, Inductive, PTL

\* The totals that the stream reports are the bits the observer has read, unless it went back.
THEOREM TotalsAreTrue == Spec => []TotalIsWhatWasTaken
  <1>1. IInv => TotalIsWhatWasTaken
    BY Constants DEF IInv, TypeOK, CountInv, TotalIsWhatWasTaken
  <1> QED
    BY <1>1, Inductive, PTL
-----------------------------------------------------------------------------
(* The bits of the fields *)

\* What a field has, and the builder of its values.
FieldsOfARoot == [mFieldType : {"Numeric", "String"}, mSigned : BOOLEAN,
                  mIntegralBits : Nat, mFractionalBits : Nat]
Bits == Nat \cup {Zero}
Builders == [mIsSigned : BOOLEAN, mTotalBits : 0 .. MaxValueBits, mPropsAreSet : BOOLEAN,
             mValue : [ValueBits -> Bits], mValueBits : 0 .. MaxValueBits]

LEMMA FieldsHaveBits ==
  ASSUME mFields \in Roots
  PROVE  /\ mFields \in Seq(FieldsOfARoot) /\ Len(mFields) \in Nat
         /\ \A i \in 1 .. Len(mFields) : /\ mFields[i] \in FieldsOfARoot
                                         /\ TotalBits(mFields[i]) \in Nat
  <1>1. mFields \in Seq(FieldsOfARoot)
    BY DataParserAssumption DEF FieldsOfARoot
  <1>2. Len(mFields) \in Nat /\ \A i \in 1 .. Len(mFields) : mFields[i] \in FieldsOfARoot
    BY <1>1
  <1>3. ASSUME NEW field \in FieldsOfARoot PROVE TotalBits(field) \in Nat
    BY DEF FieldsOfARoot, TotalBits
  <1> QED
    BY <1>1, <1>2, <1>3

\* BitsOf satisfies its recursion.
LEMMA BitsOfIsASum ==
  \A k \in Nat : \E f : /\ AreSums(f, [i \in 1 .. k |-> TotalBits(FieldOf(i))], k)
                       /\ BitsOf(k) = f[k]
  <1> TAKE k \in Nat
  <1> DEFINE w == [i \in 1 .. k |-> TotalBits(FieldOf(i))]
             f == CHOOSE f : f = [i \in 0 .. k |->
                                     IF i = 0 THEN 0 ELSE f[i - 1] + TotalBits(FieldOf(i))]
  <1>1. \A g : AreSums(g, w, k) <=>
                  g = [i \in 0 .. k |-> IF i = 0 THEN 0 ELSE g[i - 1] + TotalBits(FieldOf(i))]
    <2> TAKE g
    <2>1. [i \in 0 .. k |-> IF i = 0 THEN 0 ELSE g[i - 1] + w[i]]
              = [i \in 0 .. k |-> IF i = 0 THEN 0 ELSE g[i - 1] + TotalBits(FieldOf(i))]
      OBVIOUS
    <2> QED
      BY <2>1 DEF AreSums
  <1>2. \E g : AreSums(g, w, k)
    <2> HIDE DEF w
    <2> QED
      BY SumsExist
  <1>3. AreSums(f, w, k)
    <2> HIDE DEF w
    <2> QED
      BY <1>1, <1>2
  <1>4. BitsOf(k) = f[k]
    BY DEF BitsOf
  <1> QED
    BY <1>3, <1>4

\* No fields have no bits, and one more field has its own more.
LEMMA BitsOfOneMore ==
  /\ BitsOf(0) = 0
  /\ \A k \in Nat : BitsOf(k + 1) = BitsOf(k) + TotalBits(FieldOf(k + 1))
  <1>1. BitsOf(0) = 0
    <2>1. PICK f : AreSums(f, [i \in 1 .. 0 |-> TotalBits(FieldOf(i))], 0) /\ BitsOf(0) = f[0]
      BY BitsOfIsASum
    <2> QED
      BY <2>1 DEF AreSums
  <1>2. ASSUME NEW k \in Nat PROVE BitsOf(k + 1) = BitsOf(k) + TotalBits(FieldOf(k + 1))
    <2> DEFINE v == [i \in 1 .. k |-> TotalBits(FieldOf(i))]
               w == [i \in 1 .. k + 1 |-> TotalBits(FieldOf(i))]
    <2>1. PICK f : AreSums(f, v, k) /\ BitsOf(k) = f[k]
      BY BitsOfIsASum
    <2>2. PICK g : AreSums(g, w, k + 1) /\ BitsOf(k + 1) = g[k + 1]
      BY BitsOfIsASum
    <2>3. \A i \in 1 .. k : v[i] = w[i]
      OBVIOUS
    <2>4. w[k + 1] = TotalBits(FieldOf(k + 1))
      OBVIOUS
    <2> HIDE DEF v, w
    <2>5. f[k] = g[k]
      BY <2>1, <2>2, <2>3, SumsAreUnique
    <2>6. g[k + 1] = g[k] + w[k + 1]
      BY <2>2 DEF AreSums
    <2> QED
      BY <2>1, <2>2, <2>4, <2>5, <2>6
  <1> QED
    BY <1>1, <1>2

LEMMA BitsOfIsASumAfter ==
  (\A k \in Nat : \E f : /\ AreSums(f, [i \in 1 .. k |-> TotalBits(FieldOf(i))], k)
                        /\ BitsOf(k) = f[k])'
  <1> QED
    BY BitsOfIsASum, PTL

LEMMA BitsOfOneMoreAfter ==
  (\A k \in Nat : BitsOf(k + 1) = BitsOf(k) + TotalBits(FieldOf(k + 1)))'
  <1> QED
    BY BitsOfOneMore, PTL

\* The first fields printed have as many bits as they had.
LEMMA BitsOfStay ==
  ASSUME NEW k \in Nat, \A i \in 1 .. k : FieldOf(i)' = FieldOf(i)
  PROVE  BitsOf(k)' = BitsOf(k)
  <1> DEFINE v == [i \in 1 .. k |-> TotalBits(FieldOf(i))]
  <1>2. PICK f : AreSums(f, v, k) /\ BitsOf(k) = f[k]
    BY BitsOfIsASum
  <1>3. PICK g : AreSums(g, v', k) /\ BitsOf(k)' = g[k]
    BY BitsOfIsASumAfter
  <1>4. \A i \in 1 .. k : v[i] = v'[i]
    BY DEF TotalBits
  <1>5. f[k] = g[k]
    <2> HIDE DEF v
    <2> QED
      BY <1>2, <1>3, <1>4, SumsAreUnique
  <1> QED
    BY <1>2, <1>3, <1>5

LEMMA BitsOfAreNumbers ==
  ASSUME NEW k \in Nat, \A i \in 1 .. k : TotalBits(FieldOf(i)) \in Nat
  PROVE  BitsOf(k) \in Nat
  <1> DEFINE v == [i \in 1 .. k |-> TotalBits(FieldOf(i))]
  <1>1. PICK f : AreSums(f, v, k) /\ BitsOf(k) = f[k]
    BY BitsOfIsASum
  <1>2. \A i \in 1 .. k : v[i] \in Nat
    OBVIOUS
  <1> HIDE DEF v
  <1>3. \A i \in 0 .. k : f[i] \in Nat
    BY <1>1, <1>2, SumsAreNumbers
  <1> QED
    BY <1>1, <1>3

-----------------------------------------------------------------------------
(* A step that reads a field *)

LEMMA PreparedBuilder ==
  ASSUME DataTypeOK, ~AtEndOfFrame, ~CannotParse
  PROVE  /\ mCurFieldIter \in 1 .. Len(mFields) /\ CurField \in FieldsOfARoot
         /\ Prepared \in Builders /\ Prepared.mPropsAreSet
         /\ Prepared.mTotalBits = TotalBits(CurField)
         /\ Prepared.mValueBits = mNumericValueBuilder.mValueBits
         /\ Prepared.mValueBits < Prepared.mTotalBits
  <1>1. mFields \in Roots /\ mNumericValueBuilder \in Builders
    BY DEF DataTypeOK, Builders, Bits
  <1>2. mCurFieldIter \in 1 .. Len(mFields) /\ CurField \in FieldsOfARoot
    BY <1>1, FieldsHaveBits DEF DataTypeOK, AtEndOfFrame, CurField
  <1>3. CASE mNumericValueBuilder.mPropsAreSet
    BY <1>1, <1>2, <1>3 DEF DataTypeOK, Prepared, CurField
  <1>4. CASE ~mNumericValueBuilder.mPropsAreSet
    <2>1. IsSupported(CurField) /\ mNumericValueBuilder = ClearedValue
      BY <1>4 DEF CannotParse, DataTypeOK
    <2>2. TotalBits(CurField) \in 1 .. MaxValueBits
      BY <2>1, DataParserAssumption DEF IsSupported
    <2>3. ClearedValue \in Builders
      BY <1>1, <2>1
    <2>4. CurField.mSigned \in BOOLEAN
      BY <1>2 DEF FieldsOfARoot
    <2>5. Prepared = [ClearedValue EXCEPT !.mIsSigned = CurField.mSigned,
                                          !.mTotalBits = TotalBits(CurField), !.mPropsAreSet = TRUE]
      BY <1>4 DEF Prepared, SetFieldProperties
    <2>6. ClearedValue.mValueBits = 0
      BY DEF ClearedValue
    <2> HIDE DEF ClearedValue
    <2> DEFINE total == TotalBits(CurField)
    <2>7. total \in 0 .. MaxValueBits
      BY <2>2, DataParserAssumption
    <2> HIDE DEF total
    <2>8. Prepared = [ClearedValue EXCEPT !.mIsSigned = CurField.mSigned,
                                          !.mTotalBits = total, !.mPropsAreSet = TRUE]
      BY <2>5 DEF total
    <2>9. Prepared \in Builders
      BY <2>3, <2>4, <2>7, <2>8 DEF Builders
    <2>10. Prepared.mPropsAreSet /\ Prepared.mTotalBits = total /\ Prepared.mValueBits = 0
      BY <2>3, <2>6, <2>8 DEF Builders
    <2> QED
      BY <1>2, <2>1, <2>2, <2>6, <2>9, <2>10 DEF total
  <1> QED
    BY <1>3, <1>4

\* As much is read as there is, but no more than the field has left.
LEMMA PieceIsRead ==
  ASSUME TypeOK, DataTypeOK, Parse
  PROVE  \E n \in 1 .. Capacity * BitsPerByte :
            /\ ParsePiece(n) /\ n <= BitsTillEnd /\ n <= GetBitsTillComplete(Prepared)
            /\ n = BitsTillEnd \/ n = GetBitsTillComplete(Prepared)
  <1> DEFINE wanted == GetBitsTillComplete(Prepared)
             n == IF BitsTillEnd < wanted THEN BitsTillEnd ELSE wanted
  <1>1. ~AtEndOfFrame /\ ~CannotParse /\ BitsTillEnd > 0 /\ ParsePiece(n)
    BY DEF Parse
  <1>2. wanted \in Nat /\ wanted > 0
    <2>1. /\ Prepared \in Builders
          /\ Prepared.mValueBits < Prepared.mTotalBits
      BY <1>1, PreparedBuilder
    <2> QED
      BY <2>1, DataParserAssumption DEF Builders, GetBitsTillComplete
  <1>3. BitsTillEnd \in Int /\ BitsTillEnd <= Capacity * BitsPerByte /\ Capacity * BitsPerByte \in Nat
    <2>1. DataBits \in Nat /\ DataBits <= Capacity * BitsPerByte /\ Capacity * BitsPerByte \in Nat
      BY DataBound
    <2>2. position \in Nat
      BY <2>1 DEF TypeOK
    <2> QED
      BY <2>1, <2>2 DEF BitsTillEnd
  <1> HIDE DEF wanted
  <1> QED
    BY <1>1, <1>2, <1>3 DEF wanted

\* The builder that has taken n bits more.
LEMMA BuiltBuilder ==
  ASSUME TypeOK, DataTypeOK, ~AtEndOfFrame, ~CannotParse,
         NEW n \in Nat \ {0}, n <= BitsTillEnd, n <= GetBitsTillComplete(Prepared)
  PROVE  LET built == ParseBits(Prepared, ReadBits(n), n)
         IN  /\ built \in Builders /\ built.mPropsAreSet
             /\ built.mTotalBits = TotalBits(CurField)
             /\ built.mValueBits = mNumericValueBuilder.mValueBits + n
             /\ built.mValueBits <= built.mTotalBits
  <1>1. /\ Prepared \in Builders /\ Prepared.mPropsAreSet
        /\ Prepared.mTotalBits = TotalBits(CurField)
        /\ Prepared.mValueBits = mNumericValueBuilder.mValueBits
        /\ Prepared.mValueBits < Prepared.mTotalBits
    BY PreparedBuilder
  <1>2. DataBits \in Nat /\ position \in Nat
    <2>1. DataBits \in Nat /\ Capacity * BitsPerByte \in Nat
      BY DataBound
    <2> QED
      BY <2>1 DEF TypeOK
  <1> DEFINE piece == ReadBits(n)
  <1>3. \A j \in 0 .. n - 1 : piece[j] \in Bits
    <2> TAKE j \in 0 .. n - 1
    <2>1. position + j \in Nat /\ position + j < DataBits
      BY <1>2 DEF BitsTillEnd
    <2>2. BitAt(position + j) \in Nat
      BY <2>1, BitIsANumber
    <2> QED
      BY <2>2 DEF ReadBits, Bits
  <1> HIDE DEF piece
  <1> DEFINE expanded == IF Prepared.mValueBits = 0 /\ Prepared.mIsSigned
                         THEN [i \in ValueBits |-> piece[n - 1]] ELSE Prepared.mValue
             value == [i \in ValueBits |-> IF i < n THEN piece[i] ELSE expanded[i - n]]
  <1>4. expanded \in [ValueBits -> Bits]
    <2>1. n - 1 \in 0 .. n - 1
      OBVIOUS
    <2> QED
      BY <1>1, <1>3, <2>1 DEF Builders
  <1>5. value \in [ValueBits -> Bits]
    <2> HIDE DEF expanded
    <2>1. ASSUME NEW i \in ValueBits PROVE (IF i < n THEN piece[i] ELSE expanded[i - n]) \in Bits
      <3>1. CASE i < n
        BY <3>1, <1>3 DEF ValueBits
      <3>2. CASE ~(i < n)
        <4>1. i - n \in ValueBits
          BY <3>2, DataParserAssumption DEF ValueBits
        <4> QED
          BY <3>2, <4>1, <1>4
      <3> QED
        BY <3>1, <3>2
    <2> QED
      BY <2>1
  <1>6. ParseBits(Prepared, piece, n)
            = [Prepared EXCEPT !.mValue = value, !.mValueBits = Prepared.mValueBits + n]
    BY <1>1 DEF ParseBits, Builders
  <1>7. /\ Prepared.mValueBits + n \in 0 .. MaxValueBits
        /\ Prepared.mValueBits + n <= Prepared.mTotalBits
    BY <1>1, DataParserAssumption DEF Builders, GetBitsTillComplete
  <1> HIDE DEF value
  <1>8. [Prepared EXCEPT !.mValue = value, !.mValueBits = Prepared.mValueBits + n] \in Builders
    BY <1>1, <1>5, <1>7 DEF Builders
  <1>9. LET built == ParseBits(Prepared, piece, n)
        IN  /\ built.mPropsAreSet /\ built.mTotalBits = Prepared.mTotalBits
            /\ built.mValueBits = Prepared.mValueBits + n
    BY <1>1, <1>6 DEF Builders
  <1> QED
    BY <1>1, <1>6, <1>7, <1>8, <1>9 DEF piece

-----------------------------------------------------------------------------
(* The types, and the observer as one of the observers of BitStream *)

\* Every step of the observer is one that an observer may take.
LEMMA ObserverSteps ==
  ASSUME TypeOK, DataTypeOK, [DataNext]_dataVars
  PROVE  [Next]_vars
  <1>1. CASE (ReadSequenceStart \/ Progress \/ Terminated) /\ UNCHANGED parserVars
    BY <1>1 DEF Next
  <1>2. CASE NoFieldsToParse
    BY <1>2 DEF NoFieldsToParse, Next, Observer, ObserverReturns, Controls
  <1>3. CASE CyclesToFirstField
    BY <1>3 DEF CyclesToFirstField
  <1>4. CASE FieldFails
    BY <1>4 DEF FieldFails, Next, Observer, ObserverReturns, Controls
  <1>5. CASE Parse
    BY <1>5, PieceIsRead DEF ParsePiece, Next, Observer
  <1>6. CASE ReturnsForMore
    BY <1>6 DEF ReturnsForMore, Next, Observer, ObserverReturns, Controls
  <1>7. CASE UNCHANGED dataVars
    BY <1>7 DEF dataVars
  <1> QED
    BY <1>1, <1>2, <1>3, <1>4, <1>5, <1>6, <1>7 DEF DataNext, StreamDataObserver

\* The value with n bits more.
BuiltBy(n) == ParseBits(Prepared, ReadBits(n), n)

\* What parsing n bits does: it finishes a field, or takes all that there is for a part of one.
Parsing(n) ==
    /\ n \in Nat \ {0} /\ Reads(n) /\ n <= BitsTillEnd /\ ~AtEndOfFrame /\ ~CannotParse
    /\ mFields' = mFields /\ mCurFieldIter \in 1 .. Len(mFields)
    /\ BuiltBy(n) \in Builders /\ BuiltBy(n).mPropsAreSet
    /\ BuiltBy(n).mTotalBits = TotalBits(CurField)
    /\ BuiltBy(n).mValueBits = mNumericValueBuilder.mValueBits + n
    /\ \/ BuiltBy(n).mValueBits = BuiltBy(n).mTotalBits /\ FinishesField(BuiltBy(n))
       \/ /\ BuiltBy(n).mValueBits < BuiltBy(n).mTotalBits /\ n = BitsTillEnd
          /\ mNumericValueBuilder' = BuiltBy(n) /\ UNCHANGED <<mCurFieldIter, printed>>

LEMMA ParseOutcomes ==
  ASSUME TypeOK, DataTypeOK, Parse
  PROVE  \E n \in 1 .. Capacity * BitsPerByte : Parsing(n)
  <1>1. PICK n \in 1 .. Capacity * BitsPerByte :
            /\ ParsePiece(n) /\ n <= BitsTillEnd /\ n <= GetBitsTillComplete(Prepared)
            /\ n = BitsTillEnd \/ n = GetBitsTillComplete(Prepared)
    BY PieceIsRead
  <1> DEFINE built == BuiltBy(n)
  <1>2. ~AtEndOfFrame /\ ~CannotParse
    BY DEF Parse
  <1>3. Capacity * BitsPerByte \in Nat
    BY DataBound
  <1>4. n \in Nat \ {0}
    BY <1>3
  <1>5. /\ built \in Builders /\ built.mPropsAreSet
        /\ built.mTotalBits = TotalBits(CurField)
        /\ built.mValueBits = mNumericValueBuilder.mValueBits + n
        /\ built.mValueBits <= built.mTotalBits
    BY <1>1, <1>2, <1>4, BuiltBuilder DEF BuiltBy
  <1>6. /\ Reads(n) /\ mFields' = mFields
        /\ IF IsComplete(built) THEN FinishesField(built)
           ELSE mNumericValueBuilder' = built /\ UNCHANGED <<mCurFieldIter, printed>>
    BY <1>1 DEF ParsePiece, BuiltBy
  <1>7. /\ Prepared.mTotalBits = TotalBits(CurField) /\ Prepared \in Builders
        /\ Prepared.mValueBits = mNumericValueBuilder.mValueBits
        /\ mCurFieldIter \in 1 .. Len(mFields)
    BY <1>2, PreparedBuilder
  <1> HIDE DEF built
  <1>8. built.mTotalBits \in Nat /\ built.mValueBits \in Nat
    BY <1>5, DataParserAssumption DEF Builders
  <1>9. CASE IsComplete(built)
    BY <1>1, <1>2, <1>4, <1>5, <1>6, <1>7, <1>9 DEF IsComplete, Parsing, built
  <1>10. CASE ~IsComplete(built)
    <2>1. built.mValueBits < built.mTotalBits
      BY <1>5, <1>8, <1>10 DEF IsComplete
    <2>2. n # GetBitsTillComplete(Prepared)
      BY <2>1, <1>4, <1>5, <1>7, DataParserAssumption DEF GetBitsTillComplete, Builders
    <2> QED
      BY <1>1, <1>2, <1>4, <1>5, <1>6, <1>7, <1>10, <2>1, <2>2 DEF Parsing, built
  <1> QED
    BY <1>9, <1>10

LEMMA DataInitially == DataInit => IInv /\ DataTypeOK
  <1> SUFFICES ASSUME DataInit PROVE IInv /\ DataTypeOK
    OBVIOUS
  <1>1. IInv
    BY Initially DEF DataInit
  <1>2. Len(mFields) \in Nat
    BY FieldsHaveBits DEF DataInit
  <1>3. ClearedValue \in Builders /\ ~ClearedValue.mPropsAreSet
    BY DataParserAssumption DEF ClearedValue, Builders, Bits
  <1> HIDE DEF ClearedValue
  <1>4. <<>> \in Seq([field : Nat, value : [ValueBits -> Bits]])
    OBVIOUS
  <1> QED
    BY <1>1, <1>2, <1>3, <1>4 DEF DataInit, DataTypeOK, Builders, Bits

LEMMA DataTypesStep ==
  ASSUME TypeOK, DataTypeOK, [DataNext]_dataVars
  PROVE  DataTypeOK'
  <1>1. Len(mFields) \in Nat /\ mCurFieldIter \in 1 .. Len(mFields) + 1
    BY FieldsHaveBits DEF DataTypeOK
  <1>2. CASE UNCHANGED parserVars
    BY <1>2 DEF parserVars, DataTypeOK, TotalBits
  <1>3. CASE CyclesToFirstField
    <2>1. 1 \in 1 .. Len(mFields) + 1 /\ ~mNumericValueBuilder.mPropsAreSet
      BY <1>1, <1>3 DEF CyclesToFirstField, AtEndOfFrame, DataTypeOK
    <2> QED
      BY <1>3, <2>1 DEF CyclesToFirstField, DataTypeOK, ClearedValue
  <1>4. CASE Parse
    <2>1. PICK n \in 1 .. Capacity * BitsPerByte : Parsing(n)
      BY <1>4, ParseOutcomes
    <2> DEFINE built == BuiltBy(n)
               Values == [field : Nat, value : [ValueBits -> Bits]]
    <2> HIDE DEF built
    <2>2. built \in Builders /\ built.mPropsAreSet /\ built.mTotalBits = TotalBits(CurField)
          /\ mFields' = mFields /\ mCurFieldIter \in 1 .. Len(mFields)
      BY <2>1 DEF Parsing, built
    <2>3. printed \in Seq(Values) /\ mFields \in Roots
      BY DEF DataTypeOK, Bits
    <2>4. CASE FinishesField(built)
      <3>1. [field |-> mCurFieldIter, value |-> built.mValue] \in Values
        BY <1>1, <2>2 DEF Builders
      <3>2. printed' \in Seq(Values)
        <4> HIDE DEF Values
        <4> QED
          BY <2>3, <2>4, <3>1 DEF FinishesField
      <3>3. ClearedValue \in Builders /\ ~ClearedValue.mPropsAreSet
        BY DataParserAssumption DEF ClearedValue, Builders, Bits
      <3>4. mCurFieldIter' \in 1 .. Len(mFields') + 1
        BY <1>1, <2>2, <2>4 DEF FinishesField
      <3>5. mNumericValueBuilder' = ClearedValue
        BY <2>4 DEF FinishesField
      <3>6. ClearedValue' = ClearedValue
        BY DEF ClearedValue
      <3> HIDE DEF ClearedValue
      <3> QED
        BY <2>2, <2>3, <3>2, <3>3, <3>4, <3>5, <3>6 DEF DataTypeOK, Builders, Bits
    <2>5. CASE /\ built.mValueBits < built.mTotalBits
               /\ mNumericValueBuilder' = built
               /\ UNCHANGED <<mCurFieldIter, printed>>
      BY <1>1, <2>2, <2>3, <2>5 DEF DataTypeOK, Builders, Bits, CurField, TotalBits
    <2> QED
      BY <2>1, <2>4, <2>5 DEF Parsing, built
  <1> QED
    BY <1>2, <1>3, <1>4
    DEF DataNext, StreamDataObserver, NoFieldsToParse, FieldFails, ReturnsForMore, dataVars

-----------------------------------------------------------------------------
(* The fields come in their order, and have the bits that were read *)

\* The place in the frame is that of the next value, and a builder that is in use has read something.
PlaceInv ==
    /\ printed # <<>> => mFields # <<>>
    /\ mFields # <<>> =>
           IF AtEndOfFrame THEN Len(printed) % Len(mFields) = 0
           ELSE mCurFieldIter = (Len(printed) % Len(mFields)) + 1
    /\ mNumericValueBuilder.mPropsAreSet => mNumericValueBuilder.mValueBits > 0

FieldsInv == FieldsTakeTheirTurns /\ PlaceInv

\* Counting modulo a length.
LEMMA NextModulo ==
  ASSUME NEW a \in Nat, NEW l \in Nat \ {0}
  PROVE  /\ a % l \in 0 .. l - 1 /\ 0 % l = 0
         /\ (a + 1) % l = IF a % l = l - 1 THEN 0 ELSE (a % l) + 1
  <1>1. a % l \in 0 .. l - 1 /\ a \div l \in Nat /\ a = l * (a \div l) + (a % l)
    OBVIOUS
  <1>2. 0 % l = 0
    OBVIOUS
  <1> DEFINE q == a \div l
             r == a % l
  <1> HIDE DEF q, r
  <1>3. q \in Nat /\ r \in 0 .. l - 1 /\ a = l * q + r
    BY <1>1 DEF q, r
  <1>4. CASE r = l - 1
    <2>1. a + 1 = l * (q + 1) + 0 /\ q + 1 \in Nat /\ 0 \in 0 .. l - 1
      BY <1>3, <1>4
    <2>2. (l * (q + 1) + 0) % l = 0
      BY <1>3
    <2> QED
      BY <1>1, <1>2, <1>4, <2>1, <2>2 DEF r
  <1>5. CASE r # l - 1
    <2>1. a + 1 = l * q + (r + 1) /\ r + 1 \in 0 .. l - 1
      BY <1>3, <1>5
    <2>2. (l * q + (r + 1)) % l = r + 1
      BY <1>3, <2>1
    <2> QED
      BY <1>1, <1>2, <1>5, <2>1, <2>2 DEF r
  <1> QED
    BY <1>4, <1>5

\* What is printed is of a field of the root.
LEMMA PrintedFields ==
  ASSUME DataTypeOK, FieldsInv
  PROVE  /\ Len(printed) \in Nat /\ DOMAIN printed = 1 .. Len(printed)
         /\ \A k \in 1 .. Len(printed) : /\ printed[k].field \in 1 .. Len(mFields)
                                         /\ TotalBits(FieldOf(k)) \in Nat
  <1>1. Len(printed) \in Nat /\ DOMAIN printed = 1 .. Len(printed)
    BY DEF DataTypeOK
  <1>2. mFields \in Roots
    BY DEF DataTypeOK
  <1>3. Len(mFields) \in Nat /\ \A i \in 1 .. Len(mFields) : TotalBits(mFields[i]) \in Nat
    BY <1>2, FieldsHaveBits
  <1>4. ASSUME NEW k \in 1 .. Len(printed) PROVE printed[k].field \in 1 .. Len(mFields)
    <2>1. mFields # <<>>
      BY <1>1, <1>4 DEF FieldsInv, PlaceInv
    <2>2. Len(mFields) \in Nat \ {0}
      BY <1>2, <1>3, <2>1, FieldsHaveBits
    <2>3. k - 1 \in Nat /\ printed[k].field = ((k - 1) % Len(mFields)) + 1
      BY <1>1 DEF FieldsInv, FieldsTakeTheirTurns
    <2>4. (k - 1) % Len(mFields) \in 0 .. Len(mFields) - 1
      BY <2>2, <2>3, NextModulo
    <2> QED
      BY <2>2, <2>3, <2>4
  <1> QED
    BY <1>1, <1>3, <1>4 DEF FieldOf

LEMMA FieldsInitially == DataInit => FieldsInv
  <1> SUFFICES ASSUME DataInit PROVE FieldsInv
    OBVIOUS
  <1>1. Len(printed) = 0 /\ Len(taken) = 0 /\ DOMAIN printed = {}
    BY DEF DataInit, Init
  <1>2. ~mNumericValueBuilder.mPropsAreSet /\ mNumericValueBuilder.mValueBits = 0
    BY DEF DataInit, ClearedValue
  <1>3. mFields # <<>> => Len(mFields) \in Nat \ {0}
    BY FieldsHaveBits DEF DataInit
  <1>4. mFields # <<>> => 0 % Len(mFields) = 0
    BY <1>3, NextModulo
  <1>5. AtEndOfFrame
    BY DEF AtEndOfFrame, DataInit
  <1> QED
    BY <1>1, <1>2, <1>4, <1>5, BitsOfOneMore
    DEF DataInit, FieldsInv, PlaceInv, FieldsTakeTheirTurns

\* What was printed stays, and so do its bits.
LEMMA PrintedStays ==
  ASSUME DataTypeOK, FieldsInv, mFields' = mFields,
         Len(printed') \in Nat, Len(printed) <= Len(printed'),
         \A k \in 1 .. Len(printed) : printed'[k] = printed[k]
  PROVE  \A k \in 0 .. Len(printed) : BitsOf(k)' = BitsOf(k)
  <1>1. Len(printed) \in Nat
    BY PrintedFields
  <1>2. \A k \in 1 .. Len(printed) : FieldOf(k)' = FieldOf(k)
    BY DEF FieldOf
  <1> QED
    BY <1>1, <1>2, BitsOfStay

\* What is read comes behind what was read.
LEMMA BitsAreTaken ==
  ASSUME TypeOK, NEW n \in Nat \ {0}, Reads(n), n <= BitsTillEnd
  PROVE  /\ Len(taken) \in Nat /\ Len(taken') = Len(taken) + n
         /\ DOMAIN taken = 1 .. Len(taken) /\ DOMAIN taken' = 1 .. Len(taken) + n
         /\ \A j \in 1 .. Len(taken) : taken'[j] = taken[j]
         /\ \A j \in 0 .. n - 1 : taken'[Len(taken) + j + 1] = BitAt(position + j)
  <1>1. position \in Nat /\ DataBits \in Nat /\ position + n <= DataBits
    <2>1. Capacity * BitsPerByte \in Nat /\ DataBits \in Nat
      BY DataBound
    <2>2. position \in Nat
      BY <2>1 DEF TypeOK
    <2> QED
      BY <2>1, <2>2 DEF BitsTillEnd
  <1> DEFINE bits == [i \in 1 .. n |-> BitAt(position + i - 1)]
  <1>2. bits \in Seq(Nat) /\ Len(bits) = n
    <2>1. ASSUME NEW i \in 1 .. n PROVE BitAt(position + i - 1) \in Nat
      <3>1. position + i - 1 \in Nat /\ position + i - 1 < DataBits
        BY <1>1
      <3> QED
        BY <3>1, BitIsANumber
    <2> QED
      BY <2>1
  <1>3. \A j \in 0 .. n - 1 : bits[j + 1] = BitAt(position + j)
    <2> TAKE j \in 0 .. n - 1
    <2>1. j + 1 \in 1 .. n /\ position + (j + 1) - 1 = position + j
      BY <1>1
    <2> QED
      BY <2>1
  <1>4. taken \in Seq(Nat) /\ taken' = taken \o bits
    BY DEF TypeOK, Reads
  <1> HIDE DEF bits
  <1>5. /\ Len(taken) \in Nat /\ Len(taken') = Len(taken) + n
        /\ DOMAIN taken = 1 .. Len(taken) /\ DOMAIN taken' = 1 .. Len(taken) + n
        /\ \A i \in 1 .. Len(taken) + n :
               taken'[i] = IF i <= Len(taken) THEN taken[i] ELSE bits[i - Len(taken)]
    <2>1. /\ taken' \in Seq(Nat) /\ Len(taken') = Len(taken) + Len(bits)
          /\ \A i \in 1 .. Len(taken) + Len(bits) :
                 taken'[i] = IF i <= Len(taken) THEN taken[i] ELSE bits[i - Len(taken)]
      BY <1>2, <1>4, ConcatProperties
    <2> QED
      BY <1>2, <1>4, <2>1
  <1>6. ASSUME NEW j \in 0 .. n - 1 PROVE taken'[Len(taken) + j + 1] = BitAt(position + j)
    <2>1. Len(taken) + j + 1 \in 1 .. Len(taken) + n /\ ~(Len(taken) + j + 1 <= Len(taken))
          /\ (Len(taken) + j + 1) - Len(taken) = j + 1
      BY <1>5
    <2> QED
      BY <1>3, <1>5, <2>1
  <1> QED
    BY <1>5, <1>6

LEMMA FieldsStep ==
  ASSUME TypeOK, DataTypeOK, FieldsInv, [DataNext]_dataVars
  PROVE  FieldsInv'
  <1>1. /\ Len(printed) \in Nat /\ DOMAIN printed = 1 .. Len(printed)
        /\ \A k \in 1 .. Len(printed) : TotalBits(FieldOf(k)) \in Nat
    BY PrintedFields
  <1>2. Len(mFields) \in Nat /\ mCurFieldIter \in 1 .. Len(mFields) + 1
    BY FieldsHaveBits DEF DataTypeOK
  <1>3. BitsOf(Len(printed)) \in Nat
    BY <1>1, BitsOfAreNumbers
  <1>4. mNumericValueBuilder.mValueBits \in Nat
    BY DataParserAssumption DEF DataTypeOK
  <1>5. CASE UNCHANGED parserVars /\ UNCHANGED taken
    <2>1. BitsOf(Len(printed))' = BitsOf(Len(printed))
      <3>1. Len(printed)' = Len(printed)
        BY <1>5 DEF parserVars
      <3> QED
        BY <3>1, <1>1, <1>5, PrintedStays DEF parserVars
    <2> QED
      BY <1>5, <2>1 DEF FieldsInv, PlaceInv, FieldsTakeTheirTurns, AtEndOfFrame, parserVars
  <1>6. ASSUME ReadSequenceStart \/ Progress \/ Terminated \/ UNCHANGED vars
               \/ \E answer \in Controls : Returns(answer)
        PROVE  UNCHANGED taken
    BY <1>6
    DEF Progress, Terminated, vars, ReadSequenceStart, OutOfSync, ReadSequenceContinue,
        OnStreamData, NothingToOffer, Interrupted, Exhausted, Overflows, Refills, Ends, Update,
        ReadSequenceEnd, Returns
  <1>7. CASE CyclesToFirstField
    <2>1. UNCHANGED <<taken, printed, mFields, mNumericValueBuilder>> /\ mCurFieldIter' = 1
      BY <1>7 DEF CyclesToFirstField, vars
    <2>2. BitsOf(Len(printed))' = BitsOf(Len(printed))
      BY <2>1, <1>1, PrintedStays
    <2>3. AtEndOfFrame /\ mFields # <<>>
      BY <1>7 DEF CyclesToFirstField
    <2>4. Len(mFields) \in Nat \ {0}
      BY <2>3, <1>2, FieldsHaveBits DEF DataTypeOK
    <2>5. ~AtEndOfFrame' /\ mCurFieldIter' = (Len(printed) % Len(mFields)) + 1
      BY <2>1, <2>3, <2>4 DEF AtEndOfFrame, FieldsInv, PlaceInv
    <2> QED
      BY <2>1, <2>2, <2>3, <2>5 DEF FieldsInv, PlaceInv, FieldsTakeTheirTurns
  <1>8. CASE Parse
    <2>1. PICK n \in 1 .. Capacity * BitsPerByte : Parsing(n)
      BY <1>8, ParseOutcomes
    <2> DEFINE built == BuiltBy(n)
    <2> HIDE DEF built
    <2>2. /\ Reads(n) /\ mFields' = mFields /\ mCurFieldIter \in 1 .. Len(mFields)
          /\ built.mTotalBits = TotalBits(CurField) /\ built.mPropsAreSet
          /\ built.mValueBits = mNumericValueBuilder.mValueBits + n
          /\ n \in Nat \ {0} /\ n <= BitsTillEnd
      BY <2>1 DEF Parsing, built
    <2>3. Len(taken') = Len(taken) + n
      BY <2>2, BitsAreTaken
    <2>4. Len(taken) = BitsOf(Len(printed)) + mNumericValueBuilder.mValueBits /\ Len(taken) \in Nat
      BY DEF FieldsInv, FieldsTakeTheirTurns, TypeOK
    <2>5. ~AtEndOfFrame /\ mFields # <<>> /\ Len(mFields) \in Nat \ {0}
      BY <1>2, <2>2 DEF AtEndOfFrame
    <2>6. mCurFieldIter = (Len(printed) % Len(mFields)) + 1
      BY <2>5 DEF FieldsInv, PlaceInv
    <2>7. CASE built.mValueBits = built.mTotalBits /\ FinishesField(built)
      <3> DEFINE value == [field |-> mCurFieldIter, value |-> built.mValue]
      <3> HIDE DEF value
      <3>1. /\ printed' = Append(printed, value) /\ value.field = mCurFieldIter
            /\ mCurFieldIter' = mCurFieldIter + 1 /\ mNumericValueBuilder' = ClearedValue
        BY <2>7 DEF FinishesField, value
      <3>2. /\ Len(printed') = Len(printed) + 1 /\ DOMAIN printed' = 1 .. Len(printed) + 1
            /\ printed'[Len(printed) + 1] = value
            /\ \A k \in 1 .. Len(printed) : printed'[k] = printed[k]
        BY <1>1, <3>1 DEF DataTypeOK
      <3>3. PICK len \in Nat : len = Len(printed)
        BY <1>1
      <3>4. /\ Len(printed)' = len + 1 /\ mFields' = mFields
            /\ printed'[len + 1].field = mCurFieldIter
        BY <2>2, <3>1, <3>2, <3>3
      <3>5. BitsOf(len)' = BitsOf(len)
        <4>1. \A k \in 0 .. Len(printed) : BitsOf(k)' = BitsOf(k)
          BY <2>2, <3>2, <1>1, PrintedStays
        <4> QED
          BY <4>1, <3>3
      <3>6. BitsOf(len + 1)' = BitsOf(len) + TotalBits(CurField)
        <4>1. FieldOf(len + 1)' = CurField
          BY <3>4 DEF FieldOf, CurField
        <4>2. BitsOf(len + 1)' = BitsOf(len)' + TotalBits(FieldOf(len + 1)')
          BY BitsOfOneMoreAfter DEF TotalBits
        <4> QED
          BY <3>5, <4>1, <4>2
      <3>7. Len(taken') = BitsOf(Len(printed))' + mNumericValueBuilder'.mValueBits
        <4>1. mNumericValueBuilder'.mValueBits = 0
          BY <3>1 DEF ClearedValue
        <4>2. Len(taken') = BitsOf(len + 1)'
          BY <1>3, <1>4, <2>2, <2>3, <2>4, <2>7, <3>3, <3>6
        <4>3. BitsOf(Len(printed))' = BitsOf(len + 1)'
          BY <3>4
        <4> QED
          BY <4>1, <4>2, <4>3, <3>6, <1>3, <3>3, <2>2, <2>3, <2>4
      <3>8. ASSUME NEW k \in DOMAIN printed'
            PROVE  printed'[k].field = ((k - 1) % Len(mFields)) + 1
        <4>1. CASE k \in 1 .. Len(printed)
          BY <4>1, <1>1, <3>2 DEF FieldsInv, FieldsTakeTheirTurns
        <4>2. CASE k = len + 1
          <5>1. k - 1 = len
            BY <4>2
          <5> QED
            BY <2>6, <3>3, <3>4, <4>2, <5>1
        <4> QED
          BY <4>1, <4>2, <3>2, <3>3
      <3>9. /\ len % Len(mFields) \in 0 .. Len(mFields) - 1
            /\ (len + 1) % Len(mFields) = IF len % Len(mFields) = Len(mFields) - 1 THEN 0
                                          ELSE (len % Len(mFields)) + 1
        BY <2>5, NextModulo
      <3>10. PlaceInv'
        <4>1. CASE len % Len(mFields) = Len(mFields) - 1
          <5>1. AtEndOfFrame'
            BY <2>2, <2>5, <2>6, <3>1, <3>3, <4>1 DEF AtEndOfFrame
          <5> QED
            BY <2>2, <2>5, <3>1, <3>4, <3>9, <4>1, <5>1 DEF PlaceInv, ClearedValue
        <4>2. CASE len % Len(mFields) # Len(mFields) - 1
          <5>1. ~AtEndOfFrame'
            BY <2>2, <2>5, <2>6, <3>1, <3>3, <3>9, <4>2 DEF AtEndOfFrame
          <5>2. mCurFieldIter' = ((len + 1) % Len(mFields)) + 1
            BY <2>6, <3>1, <3>3, <3>9, <4>2
          <5> QED
            BY <2>2, <2>5, <3>1, <3>4, <5>1, <5>2 DEF PlaceInv, ClearedValue
        <4> QED
          BY <4>1, <4>2
      <3> QED
        BY <2>2, <3>7, <3>8, <3>10 DEF FieldsInv, FieldsTakeTheirTurns
    <2>8. CASE /\ built.mValueBits < built.mTotalBits
               /\ mNumericValueBuilder' = built /\ UNCHANGED <<mCurFieldIter, printed>>
      <3>1. BitsOf(Len(printed))' = BitsOf(Len(printed))
        <4>1. Len(printed)' = Len(printed)
          BY <2>8
        <4> QED
          BY <4>1, <1>1, <2>2, <2>8, PrintedStays
      <3>2. Len(taken') = BitsOf(Len(printed))' + mNumericValueBuilder'.mValueBits
        BY <1>3, <1>4, <2>2, <2>3, <2>4, <2>8, <3>1
      <3>3. PlaceInv'
        BY <1>4, <2>2, <2>8 DEF FieldsInv, PlaceInv, AtEndOfFrame
      <3> QED
        BY <2>2, <2>8, <3>2, <3>3 DEF FieldsInv, FieldsTakeTheirTurns
    <2> QED
      BY <2>1, <2>7, <2>8 DEF Parsing, built
  <1>9. CASE (ReadSequenceStart \/ Progress \/ Terminated) /\ UNCHANGED parserVars
    BY <1>5, <1>6, <1>9
  <1>10. CASE NoFieldsToParse \/ FieldFails \/ ReturnsForMore
    <2>1. (\E answer \in Controls : Returns(answer)) /\ UNCHANGED parserVars
      BY <1>10 DEF NoFieldsToParse, FieldFails, ReturnsForMore, Controls
    <2> QED
      BY <1>5, <1>6, <2>1
  <1>11. CASE UNCHANGED dataVars
    BY <1>5, <1>6, <1>11 DEF dataVars
  <1> QED
    BY <1>7, <1>8, <1>9, <1>10, <1>11 DEF DataNext, StreamDataObserver

-----------------------------------------------------------------------------
(* No value has a bit of another *)

\* What a value is made of stays, when more is read.
LEMMA StaysMade ==
  ASSUME NEW value, NEW begin \in Nat, NEW end \in Nat, NEW end2 \in Nat, end <= end2,
         \A j \in DOMAIN taken : j \in Nat /\ j \in DOMAIN taken' /\ taken'[j] = taken[j],
         IsMadeOf(value, taken, begin, end)
  PROVE  IsMadeOf(value, taken', begin, end2)
  <1>1. ASSUME NEW j \in DOMAIN taken, begin < j, j <= end
        PROVE  j \in DOMAIN taken' /\ begin < j /\ j <= end2 /\ taken'[j] = taken[j]
    BY <1>1
  <1> QED
    BY <1>1 DEF IsMadeOf

LEMMA NothingIsMade ==
  ASSUME NEW bits, NEW begin, NEW end
  PROVE  IsMadeOf(ClearedValue.mValue, bits, begin, end)
  BY DEF IsMadeOf, ClearedValue

\* The value that has taken n bits more has them, and what it had before.
LEMMA BuiltIsMade ==
  ASSUME TypeOK, DataTypeOK, NEW n, Parsing(n), NEW begin \in Nat, begin <= Len(taken),
         IsMadeOf(mNumericValueBuilder.mValue, taken, begin, Len(taken))
  PROVE  IsMadeOf(BuiltBy(n).mValue, taken', begin, Len(taken'))
  <1>1. n \in Nat \ {0} /\ n <= BitsTillEnd /\ Reads(n) /\ ~AtEndOfFrame /\ ~CannotParse
    BY DEF Parsing
  <1>2. /\ Len(taken) \in Nat /\ Len(taken') = Len(taken) + n
        /\ DOMAIN taken = 1 .. Len(taken) /\ DOMAIN taken' = 1 .. Len(taken) + n
        /\ \A j \in 1 .. Len(taken) : taken'[j] = taken[j]
        /\ \A j \in 0 .. n - 1 : taken'[Len(taken) + j + 1] = BitAt(position + j)
    BY <1>1, BitsAreTaken
  <1> DEFINE Made(bit) == \/ bit = Zero
                          \/ \E j \in DOMAIN taken' : begin < j /\ j <= Len(taken') /\ bit = taken'[j]
  <1> DEFINE piece == ReadBits(n)
  <1>3. \A j \in 0 .. n - 1 : Made(piece[j])
    <2> TAKE j \in 0 .. n - 1
    <2>1. piece[j] = BitAt(position + j) \/ piece[j] = Zero
      BY DEF ReadBits
    <2>2. /\ Len(taken) + j + 1 \in DOMAIN taken' /\ begin < Len(taken) + j + 1
          /\ Len(taken) + j + 1 <= Len(taken')
      BY <1>1, <1>2
    <2> QED
      BY <1>2, <2>1, <2>2
  <1>4. Prepared \in Builders
    BY <1>1, PreparedBuilder
  <1>5. \A i \in ValueBits : Made(Prepared.mValue[i])
    <2>1. CASE Prepared = mNumericValueBuilder
      <3>1. IsMadeOf(mNumericValueBuilder.mValue, taken', begin, Len(taken'))
        BY <1>1, <1>2, StaysMade
      <3> QED
        BY <2>1, <3>1 DEF IsMadeOf
    <2>2. CASE Prepared = SetFieldProperties(CurField)
      <3>1. Prepared.mValue = [i \in ValueBits |-> Zero]
        BY <2>2 DEF SetFieldProperties, ClearedValue
      <3> QED
        BY <3>1
    <2> QED
      BY <2>1, <2>2 DEF Prepared
  <1> HIDE DEF piece, Made
  <1> DEFINE expanded == IF Prepared.mValueBits = 0 /\ Prepared.mIsSigned
                         THEN [i \in ValueBits |-> piece[n - 1]] ELSE Prepared.mValue
             value == [i \in ValueBits |-> IF i < n THEN piece[i] ELSE expanded[i - n]]
  <1>6. BuiltBy(n).mValue = value
    <2>1. BuiltBy(n) = [Prepared EXCEPT !.mValue = value, !.mValueBits = @ + n]
      BY DEF BuiltBy, ParseBits, piece
    <2> HIDE DEF value
    <2> QED
      BY <1>4, <2>1 DEF Builders
  <1>7. ASSUME NEW i \in ValueBits PROVE Made(value[i])
    <2>1. i \in Nat
      BY DEF ValueBits
    <2>2. CASE i < n
      BY <1>1, <1>3, <2>1, <2>2
    <2>3. CASE ~(i < n)
      <3>1. i - n \in ValueBits
        BY <1>1, <2>1, <2>3, DataParserAssumption DEF ValueBits
      <3>2. Made(expanded[i - n])
        <4>1. n - 1 \in 0 .. n - 1
          BY <1>1
        <4> QED
          BY <1>3, <1>5, <3>1, <4>1
      <3> QED
        BY <2>3, <3>2
    <2> QED
      BY <2>2, <2>3
  <1> HIDE DEF value
  <1> QED
    BY <1>6, <1>7 DEF IsMadeOf, Made

LEMMA BitsInitially == DataInit => NoBitIsAnothers
  <1> SUFFICES ASSUME DataInit PROVE NoBitIsAnothers
    OBVIOUS
  <1>1. mNumericValueBuilder = ClearedValue /\ DOMAIN printed = {}
    BY DEF DataInit
  <1> QED
    BY <1>1, NothingIsMade DEF NoBitIsAnothers

LEMMA BitsStep ==
  ASSUME TypeOK, DataTypeOK, FieldsInv, NoBitIsAnothers, [DataNext]_dataVars
  PROVE  NoBitIsAnothers'
  <1>1. /\ Len(printed) \in Nat /\ DOMAIN printed = 1 .. Len(printed)
        /\ \A k \in 1 .. Len(printed) : TotalBits(FieldOf(k)) \in Nat
    BY PrintedFields
  <1>2. \A k \in 0 .. Len(printed) : BitsOf(k) \in Nat
    <2> TAKE k \in 0 .. Len(printed)
    <2>1. k \in Nat /\ \A i \in 1 .. k : TotalBits(FieldOf(i)) \in Nat
      BY <1>1
    <2> QED
      BY <2>1, BitsOfAreNumbers
  \* Values that were printed before.
  <1>3. ASSUME mFields' = mFields, Len(printed') \in Nat, Len(printed) <= Len(printed'),
               \A i \in 1 .. Len(printed) : printed'[i] = printed[i],
               \A j \in DOMAIN taken : j \in Nat /\ j \in DOMAIN taken' /\ taken'[j] = taken[j],
               NEW k \in 1 .. Len(printed)
        PROVE  IsMadeOf(printed'[k].value, taken', BitsOf(k - 1)', BitsOf(k)')
    <2>1. k - 1 \in 0 .. Len(printed) /\ k \in 0 .. Len(printed)
      BY <1>1
    <2>2. BitsOf(k - 1)' = BitsOf(k - 1) /\ BitsOf(k)' = BitsOf(k)
      BY <1>3, <2>1, PrintedStays
    <2>3. IsMadeOf(printed[k].value, taken, BitsOf(k - 1), BitsOf(k))
      BY <1>1 DEF NoBitIsAnothers
    <2>4. BitsOf(k - 1) \in Nat /\ BitsOf(k) \in Nat /\ BitsOf(k) <= BitsOf(k)
      BY <1>2, <2>1
    <2>5. IsMadeOf(printed[k].value, taken', BitsOf(k - 1), BitsOf(k))
      BY <1>3, <2>3, <2>4, StaysMade
    <2>6. printed'[k] = printed[k]
      BY <1>3
    <2> QED
      BY <2>2, <2>5, <2>6
  <1>4. CASE UNCHANGED <<mFields, printed, mNumericValueBuilder, taken>>
    <2>1. \A j \in DOMAIN taken : j \in Nat /\ j \in DOMAIN taken' /\ taken'[j] = taken[j]
      BY <1>4 DEF TypeOK
    <2>2. \A k \in 1 .. Len(printed) :
              IsMadeOf(printed'[k].value, taken', BitsOf(k - 1)', BitsOf(k)')
      BY <1>1, <1>3, <1>4, <2>1
    <2>3. BitsOf(Len(printed))' = BitsOf(Len(printed))
      <3>1. Len(printed)' = Len(printed) /\ Len(printed) \in 0 .. Len(printed)
        BY <1>1, <1>4
      <3>2. \A k \in 0 .. Len(printed) : BitsOf(k)' = BitsOf(k)
        BY <1>1, <1>4, PrintedStays
      <3> QED
        BY <3>1, <3>2
    <2>4. IsMadeOf(mNumericValueBuilder.mValue, taken, BitsOf(Len(printed)), Len(taken))
      BY DEF NoBitIsAnothers
    <2> QED
      BY <1>1, <1>4, <2>2, <2>3, <2>4 DEF NoBitIsAnothers
  <1>5. ASSUME ReadSequenceStart \/ Progress \/ Terminated \/ UNCHANGED vars
               \/ \E answer \in Controls : Returns(answer)
        PROVE  UNCHANGED taken
    BY <1>5
    DEF Progress, Terminated, vars, ReadSequenceStart, OutOfSync, ReadSequenceContinue,
        OnStreamData, NothingToOffer, Interrupted, Exhausted, Overflows, Refills, Ends, Update,
        ReadSequenceEnd, Returns
  <1>6. CASE Parse
    <2>1. PICK n \in 1 .. Capacity * BitsPerByte : Parsing(n)
      BY <1>6, ParseOutcomes
    <2> DEFINE built == BuiltBy(n)
    <2> HIDE DEF built
    <2>2. /\ n \in Nat \ {0} /\ n <= BitsTillEnd /\ Reads(n) /\ mFields' = mFields
          /\ built.mValueBits = mNumericValueBuilder.mValueBits + n
      BY <2>1 DEF Parsing, built
    <2>3. /\ Len(taken) \in Nat /\ Len(taken') = Len(taken) + n
          /\ \A j \in DOMAIN taken : j \in Nat /\ j \in DOMAIN taken' /\ taken'[j] = taken[j]
      <3>1. /\ Len(taken) \in Nat /\ Len(taken') = Len(taken) + n
            /\ DOMAIN taken = 1 .. Len(taken) /\ DOMAIN taken' = 1 .. Len(taken) + n
            /\ \A j \in 1 .. Len(taken) : taken'[j] = taken[j]
        BY <2>2, BitsAreTaken
      <3> QED
        BY <2>2, <3>1
    <2>4. PICK len \in Nat : len = Len(printed)
      BY <1>1
    <2>5. BitsOf(len) \in Nat /\ BitsOf(len) <= Len(taken)
      <3>1. mNumericValueBuilder.mValueBits \in Nat
        BY DataParserAssumption DEF DataTypeOK
      <3>2. BitsOf(len) \in Nat
        BY <1>2, <2>4
      <3> QED
        BY <2>4, <3>1, <3>2 DEF FieldsInv, FieldsTakeTheirTurns
    <2>6. IsMadeOf(built.mValue, taken', BitsOf(len), Len(taken'))
      <3>1. IsMadeOf(mNumericValueBuilder.mValue, taken, BitsOf(len), Len(taken))
        BY <2>4 DEF NoBitIsAnothers
      <3> QED
        BY <2>1, <2>5, <3>1, BuiltIsMade DEF built
    <2>7. FieldsTakeTheirTurns'
      BY FieldsStep DEF FieldsInv
    <2>8. CASE FinishesField(built)
      <3> DEFINE value == [field |-> mCurFieldIter, value |-> built.mValue]
      <3>1. value.value = built.mValue /\ value.field = mCurFieldIter
        OBVIOUS
      <3> HIDE DEF value
      <3>2. printed' = Append(printed, value) /\ mNumericValueBuilder' = ClearedValue
        BY <2>8 DEF FinishesField, value
      <3>3. /\ Len(printed)' = len + 1 /\ DOMAIN printed' = 1 .. len + 1
            /\ printed'[len + 1] = value
            /\ \A i \in 1 .. len : printed'[i] = printed[i]
        BY <2>4, <3>2 DEF DataTypeOK
      <3>4. BitsOf(len)' = BitsOf(len)
        <4>1. \A k \in 0 .. Len(printed) : BitsOf(k)' = BitsOf(k)
          BY <2>2, <2>4, <3>3, PrintedStays
        <4> QED
          BY <2>4, <4>1
      <3>5. Len(taken') = BitsOf(len + 1)'
        <4>1. mNumericValueBuilder'.mValueBits = 0
          BY <3>2 DEF ClearedValue
        <4>2. BitsOf(Len(printed))' = BitsOf(len + 1)'
          BY <3>3
        <4>3. BitsOf(len + 1)' = BitsOf(len)' + TotalBits(FieldOf(len + 1))'
          BY BitsOfOneMoreAfter
        <4>4. Len(taken') = BitsOf(len + 1)' + 0
          BY <2>7, <4>1, <4>2 DEF FieldsTakeTheirTurns
        <4>5. TotalBits(FieldOf(len + 1))' \in Nat
          <5>1. FieldOf(len + 1)' = CurField
            BY <2>2, <3>1, <3>3 DEF FieldOf, CurField
          <5>2. TotalBits(CurField) \in Nat
            BY <2>1, DataParserAssumption DEF Parsing, Builders
          <5> QED
            BY <5>1, <5>2 DEF TotalBits
        <4> QED
          BY <2>5, <3>4, <4>3, <4>4, <4>5
      <3>6. ASSUME NEW k \in DOMAIN printed'
            PROVE  IsMadeOf(printed'[k].value, taken', BitsOf(k - 1)', BitsOf(k)')
        <4>1. CASE k \in 1 .. len
          BY <1>3, <2>2, <2>3, <2>4, <3>3, <4>1
        <4>2. CASE k = len + 1
          <5>1. k - 1 = len
            BY <4>2
          <5>2. BitsOf(k - 1)' = BitsOf(len)
            BY <3>4, <5>1
          <5>3. BitsOf(k)' = Len(taken')
            BY <3>5, <4>2
          <5>4. printed'[k].value = built.mValue
            BY <3>1, <3>3, <4>2
          <5> QED
            BY <2>6, <5>2, <5>3, <5>4
        <4> QED
          BY <3>3, <4>1, <4>2
      <3>7. IsMadeOf(mNumericValueBuilder'.mValue, taken', BitsOf(Len(printed))', Len(taken'))
        BY <3>2, NothingIsMade
      <3> QED
        BY <3>6, <3>7 DEF NoBitIsAnothers
    <2>9. CASE mNumericValueBuilder' = built /\ UNCHANGED <<mCurFieldIter, printed>>
      <3>1. Len(printed)' = len /\ DOMAIN printed' = 1 .. len
        BY <1>1, <2>4, <2>9
      <3>2. BitsOf(len)' = BitsOf(len) /\ BitsOf(Len(printed))' = BitsOf(len)'
        <4>1. \A k \in 0 .. Len(printed) : BitsOf(k)' = BitsOf(k)
          BY <1>1, <2>2, <2>9, PrintedStays
        <4> QED
          BY <2>4, <3>1, <4>1
      <3>3. \A k \in 1 .. len : IsMadeOf(printed'[k].value, taken', BitsOf(k - 1)', BitsOf(k)')
        BY <1>1, <1>3, <2>2, <2>3, <2>4, <2>9
      <3>4. IsMadeOf(mNumericValueBuilder'.mValue, taken', BitsOf(Len(printed))', Len(taken'))
        BY <2>6, <2>9, <3>2
      <3> QED
        BY <3>1, <3>3, <3>4 DEF NoBitIsAnothers
    <2> QED
      BY <2>1, <2>8, <2>9 DEF Parsing, built
  <1>7. CASE CyclesToFirstField
    BY <1>4, <1>7 DEF CyclesToFirstField, vars
  <1>8. CASE NoFieldsToParse \/ FieldFails \/ ReturnsForMore
    <2>1. (\E answer \in Controls : Returns(answer)) /\ UNCHANGED parserVars
      BY <1>8 DEF NoFieldsToParse, FieldFails, ReturnsForMore, Controls
    <2> QED
      BY <1>4, <1>5, <2>1 DEF parserVars
  <1>9. CASE (ReadSequenceStart \/ Progress \/ Terminated) /\ UNCHANGED parserVars
    BY <1>4, <1>5, <1>9 DEF parserVars
  <1>10. CASE UNCHANGED dataVars
    BY <1>4, <1>5, <1>10 DEF dataVars, parserVars
  <1> QED
    BY <1>6, <1>7, <1>8, <1>9, <1>10 DEF DataNext, StreamDataObserver

-----------------------------------------------------------------------------
(* All the data is read, or there is an error *)

\* The observer never goes back, and it continues to the end of the bits it is offered.
ControlInv ==
    /\ control \in {"Continue", "Error"}
    /\ phase = "Callback" => mBufferPositionBits <= position
    /\ phase = "Update" /\ control = "Continue" => BitsTillEnd = 0
    /\ phase = "Loop" => control = "Continue"

\* Of an input that a single read can take, the buffer holds what was received, and the bit stream is
\* behind the bits that were taken, which are the first ones.
SmallInv ==
    length < mChunkSize =>
        /\ phase \notin {"Ending", "Done"} => buffer = [i \in 1 .. received |-> i - 1]
        /\ phase \in {"Loop", "Callback", "Update"} => position = Len(taken)
        /\ phase \in {"Idle", "Continue"} => taken = <<>> /\ mBufferPositionBits = 0
        /\ mIn = "good" => received = 0
        /\ mIn = "eof" => received = length
        /\ taken = [i \in 1 .. Len(taken) |-> i - 1]
        /\ phase \in {"Ending", "Done"} /\ ~mHasError => Len(taken) = length * BitsPerByte

\* Reading a larger input ends with an error, for the position in the buffer is still behind the first
\* chunk when the last one, which is shorter, has come.
LargeInv ==
    length >= mChunkSize =>
        /\ phase \in {"Ending", "Done"} => mHasError
        /\ mIn = "eof" => \/ phase \in {"Ending", "Done"}
                          \/ phase = "Continue" /\ mBufferPositionBits > DataBits
        /\ phase \notin {"Ending", "Done"} /\ mIn = "good" =>
               IF received = 0 THEN buffer = <<>> ELSE Len(buffer) = mChunkSize

StreamInv == ControlInv /\ SmallInv /\ LargeInv

LEMMA StreamInitially == DataInit => StreamInv
  <1> SUFFICES ASSUME Init PROVE StreamInv
    BY DEF DataInit
  <1>1. <<>> = [i \in 1 .. 0 |-> i - 1] /\ Len(<<>>) = 0
    OBVIOUS
  <1> QED
    BY <1>1, Constants DEF Init, StreamInv, ControlInv, SmallInv, LargeInv

\* When the observer has continued to the end, nothing remains in the buffer.
LEMMA NothingRemains ==
  ASSUME TypeOK, PositionInv, ControlInv, phase = "Update", Goes
  PROVE  /\ control = "Continue" /\ position = DataBits /\ mBufferPositionBits = DataBits
         /\ Remaining = <<>>
  <1>1. DataBits \in Nat /\ position \in Nat
    <2>1. DataBits \in Nat /\ Capacity * BitsPerByte \in Nat
      BY DataBound
    <2> QED
      BY <2>1 DEF TypeOK
  <1>2. control = "Continue" /\ position = DataBits /\ mBufferPositionBits = DataBits
    BY <1>1 DEF ControlInv, PositionInv, Goes, BitsTillEnd
  <1>3. Len(buffer) \in Nat /\ buffer \in Seq(Nat)
    BY DEF TypeOK
  <1>4. DataBits \div BitsPerByte = Len(buffer)
    BY <1>3, Constants DEF DataBits
  <1>5. Remaining = <<>>
    BY <1>2, <1>3, <1>4, SubSeqEmpty DEF Remaining
  <1> QED
    BY <1>2, <1>5

\* The bits of a buffer that holds the first bytes are the first bits.
LEMMA FirstBits ==
  ASSUME received \in Nat, buffer = [i \in 1 .. received |-> i - 1],
         NEW p \in Nat, p < DataBits
  PROVE  BitAt(p) = p
  <1>1. Len(buffer) = received
    OBVIOUS
  <1>2. p \div BitsPerByte \in Nat /\ p \div BitsPerByte < received
    BY <1>1, Split, ByteOfBit DEF DataBits
  <1>3. buffer[p \div BitsPerByte + 1] = p \div BitsPerByte
    BY <1>2
  <1>4. p % BitsPerByte \in Nat /\ p = BitsPerByte * (p \div BitsPerByte) + (p % BitsPerByte)
    BY Split
  <1>5. (p \div BitsPerByte) * BitsPerByte = BitsPerByte * (p \div BitsPerByte)
    BY <1>2, Constants
  <1> QED
    BY <1>3, <1>4, <1>5 DEF BitAt

LEMMA ControlStep ==
  ASSUME TypeOK, PositionInv, DataTypeOK, ControlInv, [DataNext]_dataVars
  PROVE  ControlInv'
  <1>1. DataBits \in Nat /\ position \in Nat /\ mBufferPositionBits \in Nat
    <2>1. DataBits \in Nat /\ Capacity * BitsPerByte \in Nat
      BY DataBound
    <2> QED
      BY <2>1 DEF TypeOK
  <1>2. CASE ReadSequenceStart \/ OutOfSync \/ OnStreamData \/ NothingToOffer
    BY <1>1, <1>2
    DEF ControlInv, PositionInv, ReadSequenceStart, OutOfSync, OnStreamData, NothingToOffer,
        localVars, streamVars, BitsTillEnd, DataBits
  <1>3. CASE ReadSequenceContinue
    BY <1>3 DEF ControlInv, ReadSequenceContinue, streamVars
  <1>4. CASE Interrupted \/ Exhausted \/ Overflows \/ (\E n \in 0 .. mChunkSize : Refills(n))
               \/ ReadSequenceEnd \/ Terminated
    BY <1>4
    DEF ControlInv, Interrupted, Exhausted, Overflows, Refills, Ends, Update, ReadSequenceEnd,
        Terminated, vars, localVars
  <1>5. CASE NoFieldsToParse \/ FieldFails
    BY <1>1, <1>5 DEF NoFieldsToParse, FieldFails, Returns, ControlInv
  <1>6. CASE ReturnsForMore
    BY <1>1, <1>6 DEF ReturnsForMore, Returns, NothingRead, ControlInv
  <1>7. CASE Parse
    <2>1. PICK n \in 1 .. Capacity * BitsPerByte : Parsing(n)
      BY <1>7, ParseOutcomes
    <2>2. n \in Nat /\ Reads(n)
      BY <2>1 DEF Parsing
    <2> QED
      BY <1>1, <2>2 DEF Reads, ControlInv, streamVars
  <1>8. CASE UNCHANGED vars
    BY <1>8 DEF vars, ControlInv, localVars, streamVars, BitsTillEnd, DataBits
  <1> QED
    BY <1>2, <1>3, <1>4, <1>5, <1>6, <1>7, <1>8
    DEF DataNext, Progress, StreamDataObserver, CyclesToFirstField, dataVars

LEMMA SmallStep ==
  ASSUME TypeOK, PositionInv, DataTypeOK, ControlInv, SmallInv, [DataNext]_dataVars
  PROVE  SmallInv'
  <1> SUFFICES ASSUME length' < mChunkSize
               PROVE  SmallInv'
    BY DEF SmallInv
  <1>1. DataBits \in Nat /\ position \in Nat /\ mBufferPositionBits \in Nat
    <2>1. DataBits \in Nat /\ Capacity * BitsPerByte \in Nat
      BY DataBound
    <2> QED
      BY <2>1 DEF TypeOK
  <1>2. length' = length
    BY DEF DataNext, Progress, StreamDataObserver, ReadSequenceStart, OutOfSync, OnStreamData,
        NothingToOffer, ReadSequenceContinue, Interrupted, Exhausted, Overflows, Refills, Ends,
        Update, ReadSequenceEnd, Terminated, NoFieldsToParse, FieldFails, ReturnsForMore, Returns,
        Parse, ParsePiece, Reads, CyclesToFirstField, dataVars, vars, inputVars
  <1>3. /\ received \in Nat /\ length \in Nat /\ taken \in Seq(Nat) /\ Len(taken) \in Nat
        /\ mHasError \in BOOLEAN
    BY Constants DEF TypeOK
  <1>4. CASE ReadSequenceStart \/ OutOfSync \/ OnStreamData \/ NothingToOffer
    BY <1>1, <1>2, <1>4
    DEF SmallInv, PositionInv, ReadSequenceStart, OutOfSync, OnStreamData, NothingToOffer,
        localVars, streamVars, inputVars
  <1>5. CASE ReadSequenceContinue
    BY <1>2, <1>5 DEF SmallInv, ReadSequenceContinue, streamVars, inputVars
  <1>6. CASE Interrupted \/ Overflows
    <2>1. mHasError' = TRUE /\ phase' = "Ending" /\ UNCHANGED <<received, mIn, taken>>
      BY <1>6 DEF Interrupted, Overflows, Ends, Update, Goes, ControlInv
    <2> QED
      BY <1>2, <2>1 DEF SmallInv
  <1>7. CASE Exhausted
    <2>1. /\ Goes /\ mIn # "good" /\ phase = "Update" /\ phase' = "Ending"
          /\ mHasError' = (mHasError \/ mIn = "bad") /\ UNCHANGED <<received, mIn, taken>>
      BY <1>7 DEF Exhausted, Ends, Update
    <2>2. position = DataBits /\ position = Len(taken) /\ Len(buffer) = received
      BY <1>2, <1>3, <2>1, NothingRemains DEF SmallInv
    <2>3. ~mHasError' => Len(taken') = length' * BitsPerByte
      BY <1>2, <2>1, <2>2 DEF SmallInv, DataBits, TypeOK
    <2> QED
      BY <1>2, <2>1, <2>3 DEF SmallInv
  <1>8. CASE \E n \in 0 .. mChunkSize : Refills(n)
    <2>1. PICK n \in 0 .. mChunkSize : Refills(n)
      BY <1>8
    <2>2. /\ Goes /\ mIn = "good" /\ phase = "Update" /\ phase' = "Continue" /\ ReadImpl(n)
          /\ buffer' = Remaining \o [i \in 1 .. n |-> received + i - 1]
          /\ UNCHANGED <<mBufferPositionBits, taken>>
      BY <2>1 DEF Refills, Update
    <2>3. received = 0 /\ position = Len(taken) /\ Len(buffer) = 0
      BY <1>2, <1>3, <2>2 DEF SmallInv
    <2>4. position = 0 /\ mBufferPositionBits = 0 /\ Remaining = <<>>
      BY <2>2, <2>3, NothingRemains, Constants DEF DataBits
    <2>5. taken = <<>>
      BY <1>3, <2>3, <2>4, EmptySeq
    <2>6. /\ n \in Nat /\ received' = n /\ (mIn' = "eof" => n = length)
          /\ (mIn' = "good" => n = mChunkSize) /\ n <= length
      BY <1>3, <2>2, <2>3, Constants DEF ReadImpl
    <2>7. buffer' = [i \in 1 .. n |-> i - 1]
      <3> DEFINE bytes == [i \in 1 .. n |-> received + i - 1]
      <3>1. bytes = [i \in 1 .. n |-> i - 1]
        BY <2>3
      <3>2. bytes \in Seq(Nat)
        BY <2>6, <3>1
      <3> HIDE DEF bytes
      <3> QED
        BY <2>2, <2>4, <3>1, <3>2, ConcatEmptySeq DEF bytes
    <2> QED
      BY <1>2, <1>3, <2>2, <2>4, <2>5, <2>6, <2>7, Constants DEF SmallInv
  <1>9. CASE ReadSequenceEnd \/ Terminated \/ UNCHANGED vars
    BY <1>2, <1>9
    DEF SmallInv, ReadSequenceEnd, Terminated, vars, localVars, inputVars, streamVars
  <1>10. CASE NoFieldsToParse \/ FieldFails \/ ReturnsForMore
    <2>1. /\ phase = "Callback" /\ phase' \in {"Loop", "Update"}
          /\ UNCHANGED <<inputVars, buffer, position, taken>>
      BY <1>1, <1>10 DEF NoFieldsToParse, FieldFails, ReturnsForMore, Returns, ControlInv
    <2> QED
      BY <1>2, <2>1 DEF SmallInv, inputVars
  <1>11. CASE Parse
    <2>1. PICK n \in 1 .. Capacity * BitsPerByte : Parsing(n)
      BY <1>11, ParseOutcomes
    <2>2. /\ n \in Nat \ {0} /\ phase = "Callback" /\ phase' = "Callback" /\ n <= BitsTillEnd
          /\ position' = position + n
          /\ taken' = taken \o [i \in 1 .. n |-> BitAt(position + i - 1)]
          /\ UNCHANGED <<inputVars, buffer>>
      BY <2>1 DEF Parsing, Reads
    <2>3. position = Len(taken) /\ buffer = [i \in 1 .. received |-> i - 1]
      BY <1>2, <2>2 DEF SmallInv
    <2> DEFINE bits == [i \in 1 .. n |-> BitAt(position + i - 1)]
    <2>4. bits = [i \in 1 .. n |-> position + i - 1]
      <3>1. ASSUME NEW i \in 1 .. n PROVE BitAt(position + i - 1) = position + i - 1
        <4>1. position + i - 1 \in Nat /\ position + i - 1 < DataBits
          BY <1>1, <2>2 DEF BitsTillEnd
        <4> QED
          BY <4>1, <1>3, <2>3, FirstBits
      <3> QED
        BY <3>1
    <2> HIDE DEF bits
    <2>5. bits \in Seq(Nat) /\ Len(bits) = n
      <3>1. \A i \in 1 .. n : position + i - 1 \in Nat
        BY <1>1, <2>2
      <3> QED
        BY <2>2, <2>4, <3>1
    <2>6. /\ taken' \in Seq(Nat) /\ Len(taken') = Len(taken) + n
          /\ \A i \in 1 .. Len(taken) + n :
                taken'[i] = IF i <= Len(taken) THEN taken[i] ELSE bits[i - Len(taken)]
      BY <1>3, <2>2, <2>5, ConcatProperties DEF bits
    <2>7. \A i \in 1 .. Len(taken) : taken[i] = i - 1
      BY <1>2 DEF SmallInv
    <2>8. \A i \in 1 .. Len(taken') : taken'[i] = i - 1
      <3> TAKE i \in 1 .. Len(taken')
      <3>1. i \in 1 .. Len(taken) + n
        BY <2>6
      <3>2. CASE i <= Len(taken)
        <4>1. i \in 1 .. Len(taken) /\ taken'[i] = taken[i]
          BY <1>3, <2>6, <3>1, <3>2
        <4> QED
          BY <2>7, <4>1
      <3>3. CASE ~(i <= Len(taken))
        <4>1. i - Len(taken) \in 1 .. n /\ position + (i - Len(taken)) - 1 = i - 1
          BY <1>3, <2>2, <2>3, <3>1, <3>3
        <4>2. bits[i - Len(taken)] = i - 1
          BY <2>4, <4>1
        <4> QED
          BY <2>6, <3>1, <3>3, <4>2
      <3> QED
        BY <3>2, <3>3
    <2>9. taken' = [i \in 1 .. Len(taken') |-> i - 1]
      BY <2>6, <2>8
    <2> QED
      BY <1>2, <2>2, <2>3, <2>6, <2>9 DEF SmallInv, inputVars
  <1> QED
    BY <1>4, <1>5, <1>6, <1>7, <1>8, <1>9, <1>10, <1>11
    DEF DataNext, Progress, StreamDataObserver, CyclesToFirstField, dataVars

LEMMA LargeStep ==
  ASSUME TypeOK, PositionInv, DataTypeOK, ControlInv, LargeInv, [DataNext]_dataVars
  PROVE  LargeInv'
  <1> SUFFICES ASSUME length' >= mChunkSize
               PROVE  LargeInv'
    BY DEF LargeInv
  <1>1. DataBits \in Nat /\ position \in Nat /\ mBufferPositionBits \in Nat
    <2>1. DataBits \in Nat /\ Capacity * BitsPerByte \in Nat
      BY DataBound
    <2> QED
      BY <2>1 DEF TypeOK
  <1>2. length' = length
    BY DEF DataNext, Progress, StreamDataObserver, ReadSequenceStart, OutOfSync, OnStreamData,
        NothingToOffer, ReadSequenceContinue, Interrupted, Exhausted, Overflows, Refills, Ends,
        Update, ReadSequenceEnd, Terminated, NoFieldsToParse, FieldFails, ReturnsForMore, Returns,
        Parse, ParsePiece, Reads, CyclesToFirstField, dataVars, vars, inputVars
  <1>3. /\ received \in Nat /\ length \in Nat /\ received <= length /\ mHasError \in BOOLEAN
        /\ mIn \in {"good", "eof", "bad"} /\ Len(buffer) \in Nat
    BY Constants DEF TypeOK
  <1>4. CASE ReadSequenceStart \/ OutOfSync \/ OnStreamData \/ NothingToOffer
    BY <1>1, <1>2, <1>4
    DEF LargeInv, ReadSequenceStart, OutOfSync, OnStreamData, NothingToOffer, DataBits,
        localVars, streamVars, inputVars
  <1>5. CASE ReadSequenceContinue
    BY <1>1, <1>2, <1>5 DEF LargeInv, ReadSequenceContinue, streamVars, inputVars
  <1>6. CASE Interrupted \/ Overflows
    <2>1. mHasError' = TRUE /\ phase' = "Ending"
      BY <1>6 DEF Interrupted, Overflows, Ends, Update, Goes, ControlInv
    <2> QED
      BY <1>2, <2>1 DEF LargeInv
  <1>7. CASE Exhausted
    <2>1. /\ mIn # "good" /\ phase = "Update" /\ phase' = "Ending"
          /\ mHasError' = (mHasError \/ mIn = "bad")
      BY <1>7 DEF Exhausted, Ends, Update
    <2>2. mIn = "bad"
      BY <1>2, <1>3, <2>1 DEF LargeInv
    <2> QED
      BY <2>1, <2>2 DEF LargeInv
  <1>8. CASE \E n \in 0 .. mChunkSize : Refills(n)
    <2>1. PICK n \in 0 .. mChunkSize : Refills(n)
      BY <1>8
    <2>2. /\ Goes /\ mIn = "good" /\ phase = "Update" /\ phase' = "Continue" /\ ReadImpl(n)
          /\ buffer' = Remaining \o [i \in 1 .. n |-> received + i - 1]
          /\ mBufferPositionBits' = mBufferPositionBits
      BY <2>1 DEF Refills, Update
    <2>3. mBufferPositionBits = DataBits /\ Remaining = <<>>
      BY <2>2, NothingRemains
    <2>4. n \in Nat /\ received' = received + n
      BY <2>2, Constants DEF ReadImpl
    <2>5. Len(buffer') = n
      <3> DEFINE bytes == [i \in 1 .. n |-> received + i - 1]
      <3>1. bytes \in Seq(Nat) /\ Len(bytes) = n
        <4>1. \A i \in 1 .. n : received + i - 1 \in Nat
          BY <1>3, <2>4
        <4> QED
          BY <2>4, <4>1
      <3> HIDE DEF bytes
      <3> QED
        BY <2>2, <2>3, <3>1, ConcatEmptySeq DEF bytes
    <2>6. mIn' = "good" => n = mChunkSize /\ received' # 0
      BY <1>3, <2>2, <2>4, Constants DEF ReadImpl
    <2>7. mIn' = "eof" => n < mChunkSize /\ n = length - received
      BY <2>2, Constants DEF ReadImpl
    <2>8. ASSUME mIn' = "eof" PROVE mBufferPositionBits' > DataBits'
      <3>1. received # 0
        BY <1>2, <1>3, <2>4, <2>7, <2>8, Constants
      <3>2. Len(buffer) = mChunkSize
        BY <1>2, <2>2, <3>1 DEF LargeInv
      <3>3. mBufferPositionBits = mChunkSize * BitsPerByte
        BY <2>3, <3>2 DEF DataBits
      <3>4. DataBits' = n * BitsPerByte
        BY <2>5 DEF DataBits
      <3>5. n + 1 <= mChunkSize
        BY <2>4, <2>7, <2>8, Constants
      <3>6. (n + 1) * BitsPerByte <= mChunkSize * BitsPerByte
        BY <2>4, <3>5, Times, Constants
      <3>7. (n + 1) * BitsPerByte = n * BitsPerByte + BitsPerByte /\ n * BitsPerByte \in Nat
        BY <2>4, Constants
      <3> QED
        BY <1>1, <2>2, <3>3, <3>4, <3>6, <3>7, Constants
    <2> QED
      BY <1>2, <2>2, <2>5, <2>6, <2>8 DEF LargeInv
  <1>9. CASE ReadSequenceEnd \/ Terminated \/ UNCHANGED vars
    BY <1>2, <1>9
    DEF LargeInv, ReadSequenceEnd, Terminated, DataBits, vars, localVars, inputVars, streamVars
  <1>10. CASE NoFieldsToParse \/ FieldFails \/ ReturnsForMore
    <2>1. phase = "Callback" /\ phase' \in {"Loop", "Update"} /\ UNCHANGED <<inputVars, buffer>>
      BY <1>1, <1>10 DEF NoFieldsToParse, FieldFails, ReturnsForMore, Returns, ControlInv
    <2> QED
      BY <1>2, <2>1 DEF LargeInv, inputVars
  <1>11. CASE Parse
    <2>1. PICK n \in 1 .. Capacity * BitsPerByte : Parsing(n)
      BY <1>11, ParseOutcomes
    <2>2. phase = "Callback" /\ phase' = "Callback" /\ UNCHANGED <<inputVars, buffer>>
      BY <2>1 DEF Parsing, Reads
    <2> QED
      BY <1>2, <2>2 DEF LargeInv, inputVars
  <1> QED
    BY <1>4, <1>5, <1>6, <1>7, <1>8, <1>9, <1>10, <1>11
    DEF DataNext, Progress, StreamDataObserver, CyclesToFirstField, dataVars

-----------------------------------------------------------------------------
(* The values of an input that a single read can take *)

\* A field that was begun, and is not finished, has taken all the bits there are.
CutOffInv ==
    length < mChunkSize /\ mNumericValueBuilder.mPropsAreSet =>
        /\ phase \notin {"Idle", "Continue"}
        /\ phase \in {"Loop", "Callback", "Update"} => BitsTillEnd = 0

ValuesInv == CutOffInv /\ WholeOrNarrowFieldsAreRead

LEMMA WithoutRest ==
  ASSUME NEW q \in Nat, NEW r \in Nat, r < BitsPerByte
  PROVE  (BitsPerByte * q + r) % BitsPerByte = r /\ (BitsPerByte * q + r) \div BitsPerByte = q
  BY Constants

\* A run of bits begins in the byte of the output that it belongs to, if the field begins with a byte
\* of the input or is within the first byte of the output.
LEMMA RunBeginsInItsByte ==
  ASSUME position \in Nat, NEW j \in Nat, position % BitsPerByte = 0 \/ j < BitsPerByte
  PROVE  j \div BitsPerByte = RunBegin(j) \div BitsPerByte
  <1> DEFINE q == j \div BitsPerByte
             r == j % BitsPerByte
  <1>1. q \in Nat /\ r \in Nat /\ j = BitsPerByte * q + r /\ r < BitsPerByte
    BY Split, Constants
  <1>2. CASE j < BitsPerByte
    <2>1. (position + j) % BitsPerByte \in Nat
      BY Split
    <2>2. RunBegin(j) \in Nat /\ RunBegin(j) < BitsPerByte
      BY <1>2, <2>1, Constants DEF RunBegin
    <2>3. \A x \in Nat : x < BitsPerByte => x \div BitsPerByte = 0
      BY Constants
    <2> QED
      BY <1>2, <2>2, <2>3
  <1>3. CASE position % BitsPerByte = 0
    <2> DEFINE p == position \div BitsPerByte
    <2>1. p \in Nat /\ position = BitsPerByte * p
      <3>1. p \in Nat /\ position = BitsPerByte * p + (position % BitsPerByte)
        BY Split
      <3> HIDE DEF p
      <3>2. BitsPerByte * p \in Nat
        BY <3>1, Constants
      <3> QED
        BY <1>3, <3>1, <3>2
    <2> HIDE DEF p, q, r
    <2>2. position + j = BitsPerByte * (p + q) + r /\ p + q \in Nat
      BY <1>1, <2>1, Constants
    <2>3. (position + j) % BitsPerByte = r
      BY <1>1, <2>2, WithoutRest
    <2>4. BitsPerByte * q \in Nat /\ BitsPerByte * q + 0 = BitsPerByte * q /\ 0 < BitsPerByte
      BY <1>1, Constants
    <2>5. RunBegin(j) = BitsPerByte * q
      BY <1>1, <2>3, <2>4 DEF RunBegin
    <2>6. (BitsPerByte * q) \div BitsPerByte = q
      BY <1>1, <2>4, WithoutRest
    <2> QED
      BY <2>5, <2>6 DEF q
  <1> QED
    BY <1>2, <1>3

\* A field that is read at once has its bits, and its sign beyond them.
LEMMA ValueReadAtOnce ==
  ASSUME TypeOK, DataTypeOK, received \in Nat, buffer = [i \in 1 .. received |-> i - 1],
         ~mNumericValueBuilder.mPropsAreSet,
         NEW n, Parsing(n), position % BitsPerByte = 0 \/ n <= BitsPerByte
  PROVE  BuiltBy(n).mValue =
            [i \in ValueBits |-> IF i < n THEN position + i
                                 ELSE IF CurField.mSigned THEN position + n - 1 ELSE Zero]
  <1>1. n \in Nat \ {0} /\ n <= BitsTillEnd /\ ~AtEndOfFrame /\ ~CannotParse
    BY DEF Parsing
  <1>2. DataBits \in Nat /\ position \in Nat
    <2>1. DataBits \in Nat /\ Capacity * BitsPerByte \in Nat
      BY DataBound
    <2> QED
      BY <2>1 DEF TypeOK
  <1>3. Prepared = SetFieldProperties(CurField)
    BY DEF Prepared
  <1>4. /\ Prepared.mValueBits = 0 /\ Prepared.mIsSigned = CurField.mSigned
        /\ Prepared.mValue = [i \in ValueBits |-> Zero]
    BY <1>3 DEF SetFieldProperties, ClearedValue
  <1> DEFINE piece == ReadBits(n)
  <1>5. \A j \in 0 .. n - 1 : piece[j] = position + j
    <2> TAKE j \in 0 .. n - 1
    <2>1. j \in Nat /\ position + j \in Nat /\ position + j < DataBits
      BY <1>1, <1>2 DEF BitsTillEnd
    <2>2. position % BitsPerByte = 0 \/ j < BitsPerByte
      BY <1>1, <2>1, Constants
    <2>3. j \div BitsPerByte = RunBegin(j) \div BitsPerByte
      BY <1>2, <2>1, <2>2, RunBeginsInItsByte
    <2>4. BitAt(position + j) = position + j
      BY <2>1, FirstBits
    <2> QED
      BY <2>3, <2>4 DEF ReadBits
  <1> HIDE DEF piece
  <1> DEFINE expanded == IF Prepared.mValueBits = 0 /\ Prepared.mIsSigned
                         THEN [i \in ValueBits |-> piece[n - 1]] ELSE Prepared.mValue
             value == [i \in ValueBits |-> IF i < n THEN piece[i] ELSE expanded[i - n]]
  <1>6. Prepared \in Builders
    BY <1>1, PreparedBuilder
  <1>7. BuiltBy(n).mValue = value
    <2>1. BuiltBy(n) = [Prepared EXCEPT !.mValue = value, !.mValueBits = @ + n]
      BY DEF BuiltBy, ParseBits, piece
    <2> HIDE DEF value
    <2> QED
      BY <1>6, <2>1 DEF Builders
  <1>8. ASSUME NEW i \in ValueBits
        PROVE  value[i] = IF i < n THEN position + i
                          ELSE IF CurField.mSigned THEN position + n - 1 ELSE Zero
    <2>1. i \in Nat
      BY DEF ValueBits
    <2>2. CASE i < n
      BY <1>1, <1>5, <2>1, <2>2
    <2>3. CASE ~(i < n)
      <3>1. i - n \in ValueBits
        BY <1>1, <2>1, <2>3, DataParserAssumption DEF ValueBits
      <3>2. piece[n - 1] = position + n - 1
        BY <1>1, <1>2, <1>5
      <3>3. value[i] = expanded[i - n]
        BY <2>3
      <3>4. expanded[i - n] = IF CurField.mSigned THEN position + n - 1 ELSE Zero
        BY <1>4, <3>1, <3>2
      <3> QED
        BY <2>3, <3>3, <3>4
    <2> QED
      BY <2>2, <2>3
  <1>9. value = [i \in ValueBits |-> value[i]]
    OBVIOUS
  <1> HIDE DEF value
  <1> QED
    BY <1>7, <1>8, <1>9

LEMMA ValuesInitially == DataInit => ValuesInv
  <1> SUFFICES ASSUME DataInit PROVE ValuesInv
    OBVIOUS
  <1>1. ~mNumericValueBuilder.mPropsAreSet /\ DOMAIN printed = {}
    BY DEF DataInit, ClearedValue
  <1> QED
    BY <1>1 DEF ValuesInv, CutOffInv, WholeOrNarrowFieldsAreRead

\* What is the same for every step of the data parser.
LEMMA LengthStays == [DataNext]_dataVars => length' = length
  BY DEF DataNext, Progress, StreamDataObserver, ReadSequenceStart, OutOfSync, OnStreamData,
      NothingToOffer, ReadSequenceContinue, Interrupted, Exhausted, Overflows, Refills, Ends,
      Update, ReadSequenceEnd, Terminated, NoFieldsToParse, FieldFails, ReturnsForMore, Returns,
      Parse, ParsePiece, Reads, CyclesToFirstField, dataVars, vars, inputVars

LEMMA CutOffStep ==
  ASSUME TypeOK, PositionInv, DataTypeOK, FieldsInv, StreamInv, CutOffInv, [DataNext]_dataVars
  PROVE  CutOffInv'
  <1> SUFFICES ASSUME length' < mChunkSize, mNumericValueBuilder'.mPropsAreSet
               PROVE  /\ phase' \notin {"Idle", "Continue"}
                      /\ phase' \in {"Loop", "Callback", "Update"} => BitsTillEnd' = 0
    BY DEF CutOffInv
  <1>1. length < mChunkSize
    BY LengthStays
  <1>2. CASE ReadSequenceStart /\ UNCHANGED parserVars
    BY <1>1, <1>2 DEF ReadSequenceStart, CutOffInv, parserVars
  <1>3. CASE /\ OutOfSync \/ ReadSequenceEnd \/ Interrupted \/ Exhausted \/ Overflows
             /\ UNCHANGED parserVars
    BY <1>3 DEF OutOfSync, ReadSequenceEnd, Interrupted, Exhausted, Overflows, Ends
  <1>4. CASE ReadSequenceContinue /\ UNCHANGED parserVars
    BY <1>1, <1>4 DEF ReadSequenceContinue, CutOffInv, parserVars
  <1>5. CASE (OnStreamData \/ NothingToOffer) /\ UNCHANGED parserVars
    BY <1>1, <1>5
    DEF OnStreamData, NothingToOffer, CutOffInv, parserVars, localVars, BitsTillEnd, DataBits
  <1>6. CASE (\E n \in 0 .. mChunkSize : Refills(n)) /\ UNCHANGED parserVars
    <2>1. /\ Goes /\ phase = "Update" /\ mIn = "good" /\ mNumericValueBuilder.mPropsAreSet
      BY <1>6 DEF Refills, Update, parserVars
    <2>2. received = 0 /\ buffer = [i \in 1 .. received |-> i - 1] /\ position = Len(taken)
      BY <1>1, <2>1 DEF StreamInv, SmallInv
    <2>3. Len(taken) = 0
      <3>1. Len(buffer) = 0
        BY <2>2
      <3>2. position = DataBits
        BY <2>1, NothingRemains DEF StreamInv
      <3> QED
        BY <2>2, <3>1, <3>2, Constants DEF DataBits
    <2>4. BitsOf(Len(printed)) \in Nat
      BY PrintedFields, BitsOfAreNumbers
    <2>5. mNumericValueBuilder.mValueBits > 0 /\ mNumericValueBuilder.mValueBits \in Nat
      BY <2>1, DataParserAssumption DEF FieldsInv, PlaceInv, DataTypeOK
    <2>6. Len(taken) = BitsOf(Len(printed)) + mNumericValueBuilder.mValueBits
      BY DEF FieldsInv, FieldsTakeTheirTurns
    <2> QED
      BY <2>3, <2>4, <2>5, <2>6
  <1>7. CASE NoFieldsToParse \/ FieldFails \/ ReturnsForMore
    <2>1. /\ phase = "Callback" /\ phase' \in {"Loop", "Update", "Ending"}
          /\ UNCHANGED <<buffer, position, parserVars>>
      BY <1>7 DEF NoFieldsToParse, FieldFails, ReturnsForMore, Returns
    <2> QED
      BY <1>1, <2>1 DEF CutOffInv, BitsTillEnd, DataBits, parserVars
  <1>8. CASE CyclesToFirstField
    BY <1>1, <1>8
    DEF CyclesToFirstField, CutOffInv, BitsTillEnd, DataBits, vars, localVars, streamVars, inputVars
  <1>9. CASE Parse
    <2>1. PICK n \in 1 .. Capacity * BitsPerByte : Parsing(n)
      BY <1>9, ParseOutcomes
    <2>2. ~ClearedValue.mPropsAreSet
      BY DEF ClearedValue
    <2>3. n = BitsTillEnd /\ n \in Nat
      BY <2>1, <2>2 DEF Parsing, FinishesField
    <2>4. phase' = "Callback" /\ position' = position + n /\ buffer' = buffer
      BY <2>1 DEF Parsing, Reads
    <2>5. DataBits \in Nat /\ position \in Nat
      <3>1. DataBits \in Nat /\ Capacity * BitsPerByte \in Nat
        BY DataBound
      <3> QED
        BY <3>1 DEF TypeOK
    <2>6. BitsTillEnd' = 0
      BY <2>3, <2>4, <2>5 DEF BitsTillEnd, DataBits
    <2> QED
      BY <2>4, <2>6
  <1>10. CASE (Terminated /\ UNCHANGED parserVars) \/ UNCHANGED dataVars
    BY <1>1, <1>10
    DEF Terminated, dataVars, parserVars, vars, localVars, CutOffInv, BitsTillEnd, DataBits
  <1> QED
    BY <1>2, <1>3, <1>4, <1>5, <1>6, <1>7, <1>8, <1>9, <1>10
    DEF DataNext, Progress, StreamDataObserver

LEMMA ValuesStep ==
  ASSUME TypeOK, DataTypeOK, FieldsInv, StreamInv, CutOffInv, WholeOrNarrowFieldsAreRead,
         [DataNext]_dataVars
  PROVE  WholeOrNarrowFieldsAreRead'
  <1> SUFFICES ASSUME length' < mChunkSize, NEW k \in DOMAIN printed',
                      BitsOf(k - 1)' % BitsPerByte = 0 \/ TotalBits(FieldOf(k)') <= BitsPerByte
               PROVE  IsItsBits(k)'
    BY DEF WholeOrNarrowFieldsAreRead, TotalBits
  <1>1. length < mChunkSize
    BY LengthStays
  <1>2. /\ Len(printed) \in Nat /\ DOMAIN printed = 1 .. Len(printed)
        /\ \A i \in 1 .. Len(printed) : TotalBits(FieldOf(i)) \in Nat
    BY PrintedFields
  \* Values that were printed before.
  <1>3. ASSUME mFields' = mFields, Len(printed') \in Nat, Len(printed) <= Len(printed'),
               \A i \in 1 .. Len(printed) : printed'[i] = printed[i], k \in 1 .. Len(printed)
        PROVE  IsItsBits(k)'
    <2>1. \A i \in 0 .. Len(printed) : BitsOf(i)' = BitsOf(i)
      BY <1>3, PrintedStays
    <2>2. k - 1 \in 0 .. Len(printed)
      BY <1>2, <1>3
    <2>3. BitsOf(k - 1)' = BitsOf(k - 1)
      BY <2>1, <2>2
    <2>4. FieldOf(k)' = FieldOf(k) /\ printed'[k] = printed[k]
      BY <1>3 DEF FieldOf
    <2>5. IsItsBits(k)
      BY <1>1, <1>2, <1>3, <2>3, <2>4 DEF WholeOrNarrowFieldsAreRead
    <2> QED
      BY <2>3, <2>4, <2>5 DEF IsItsBits, TotalBits
  <1>4. CASE UNCHANGED <<mFields, printed>>
    BY <1>2, <1>3, <1>4
  <1>5. CASE Parse
    <2>1. PICK n \in 1 .. Capacity * BitsPerByte : Parsing(n)
      BY <1>5, ParseOutcomes
    <2>2. CASE UNCHANGED printed
      BY <1>4, <2>1, <2>2 DEF Parsing
    <2>3. CASE BuiltBy(n).mValueBits = BuiltBy(n).mTotalBits /\ FinishesField(BuiltBy(n))
      <3> DEFINE value == [field |-> mCurFieldIter, value |-> BuiltBy(n).mValue]
      <3>1. value.field = mCurFieldIter /\ value.value = BuiltBy(n).mValue
        OBVIOUS
      <3> HIDE DEF value
      <3>2. printed' = Append(printed, value) /\ mFields' = mFields
        BY <2>1, <2>3 DEF FinishesField, Parsing, value
      <3>3. PICK len \in Nat : len = Len(printed)
        BY <1>2
      <3>4. /\ Len(printed') = len + 1 /\ DOMAIN printed' = 1 .. len + 1
            /\ printed'[len + 1] = value
            /\ \A i \in 1 .. len : printed'[i] = printed[i]
        BY <3>2, <3>3 DEF DataTypeOK
      <3>5. CASE k \in 1 .. len
        BY <1>3, <3>2, <3>3, <3>4, <3>5
      <3>6. CASE k = len + 1
        <4>1. ~mNumericValueBuilder.mPropsAreSet /\ phase = "Callback"
          <5>1. phase = "Callback" /\ BitsTillEnd > 0
            BY <1>5 DEF Parse
          <5>2. BitsTillEnd \in Int
            BY DataBound DEF BitsTillEnd, TypeOK
          <5> QED
            BY <1>1, <5>1, <5>2 DEF CutOffInv
        <4>2. mNumericValueBuilder.mValueBits = 0
          BY <4>1 DEF DataTypeOK, ClearedValue
        <4>3. /\ received \in Nat /\ buffer = [i \in 1 .. received |-> i - 1]
              /\ position = Len(taken)
          BY <1>1, <4>1 DEF StreamInv, SmallInv, TypeOK
        <4>4. BitsOf(len) \in Nat /\ BitsOf(len)' = BitsOf(len)
          <5>1. \A i \in 0 .. Len(printed) : BitsOf(i)' = BitsOf(i)
            BY <1>2, <3>2, <3>3, <3>4, PrintedStays
          <5> QED
            BY <1>2, <3>3, <5>1, BitsOfAreNumbers
        <4>5. position = BitsOf(len)
          BY <3>3, <4>2, <4>3, <4>4 DEF FieldsInv, FieldsTakeTheirTurns
        <4>6. FieldOf(len + 1)' = CurField
          BY <3>1, <3>2, <3>4 DEF FieldOf, CurField
        <4>7. n = TotalBits(CurField)
          BY <2>1, <2>3, <4>2 DEF Parsing
        <4>8. position % BitsPerByte = 0 \/ n <= BitsPerByte
          <5>1. k - 1 = len
            BY <3>6
          <5> QED
            BY <3>6, <4>4, <4>5, <4>6, <4>7, <5>1
        <4>9. BuiltBy(n).mValue =
                [i \in ValueBits |-> IF i < n THEN position + i
                                     ELSE IF CurField.mSigned THEN position + n - 1 ELSE Zero]
          BY <2>1, <4>1, <4>3, <4>8, ValueReadAtOnce
        <4>10. (len + 1) - 1 = len
          OBVIOUS
        <4>11. printed'[len + 1].value =
                [i \in ValueBits |->
                    IF i < TotalBits(FieldOf(len + 1)') THEN BitsOf(len)' + i
                    ELSE IF FieldOf(len + 1)'.mSigned
                         THEN BitsOf(len)' + TotalBits(FieldOf(len + 1)') - 1 ELSE Zero]
          BY <3>1, <3>4, <4>4, <4>5, <4>6, <4>7, <4>9
        <4>12. IsItsBits(len + 1)'
          BY <4>10, <4>11 DEF IsItsBits, TotalBits
        <4> QED
          BY <3>6, <4>12
      <3> QED
        BY <3>4, <3>5, <3>6
    <2> QED
      BY <2>1, <2>2, <2>3 DEF Parsing
  <1> QED
    BY <1>4, <1>5
    DEF DataNext, StreamDataObserver, NoFieldsToParse, FieldFails, ReturnsForMore,
        CyclesToFirstField, parserVars, dataVars

-----------------------------------------------------------------------------
(* The inductive invariant of the data parser *)

DInv == IInv /\ DataTypeOK /\ FieldsInv /\ NoBitIsAnothers /\ StreamInv /\ ValuesInv

LEMMA DInvInitially == DataInit => DInv
  BY DataInitially, FieldsInitially, BitsInitially, StreamInitially, ValuesInitially DEF DInv

LEMMA DInvInitiallyAfter == (DataInit => DInv)'
  BY DInvInitially, PTL

LEMMA DInvStep == DInv /\ [DataNext]_dataVars => DInv'
  <1> SUFFICES ASSUME DInv, [DataNext]_dataVars PROVE DInv'
    OBVIOUS
  <1>1. IInv /\ TypeOK /\ PositionInv /\ DataTypeOK /\ FieldsInv /\ NoBitIsAnothers /\ ControlInv /\ SmallInv /\ LargeInv
        /\ StreamInv /\ CutOffInv /\ WholeOrNarrowFieldsAreRead
    BY DEF DInv, IInv, StreamInv, ValuesInv
  <1>2. IInv'
    BY <1>1, ObserverSteps, Stepwise
  <1>3. DataTypeOK'
    BY <1>1, DataTypesStep
  <1>4. FieldsInv' /\ NoBitIsAnothers'
    BY <1>1, FieldsStep, BitsStep
  <1>5. ControlInv' /\ SmallInv' /\ LargeInv'
    BY <1>1, ControlStep, SmallStep, LargeStep
  <1>6. CutOffInv' /\ WholeOrNarrowFieldsAreRead'
    BY <1>1, CutOffStep, ValuesStep
  <1> QED
    BY <1>2, <1>3, <1>4, <1>5, <1>6 DEF DInv, StreamInv, ValuesInv

\* Reading the fields of a specification is one of the ways to observe a bit stream, of which all that
\* was proved there holds.
THEOREM DataParserIsAnObserver == DataSpec => Safety
  <1>1. DataInit => Init
    BY DEF DataInit
  <1>2. DInv /\ [DataNext]_dataVars => [Next]_vars
    BY ObserverSteps DEF DInv, IInv
  <1> QED
    BY <1>1, <1>2, DInvInitially, DInvStep, PTL DEF DataSpec, Safety

-----------------------------------------------------------------------------
(* The program *)

\* The data parser is as it was created until the specification was read; when the program is done
\* with the data, it has said whether there was an error.
StageInv ==
    /\ stage \in Stages
    /\ stage # "Reading" => DataInit \/ (stage = "Exited" /\ phase = "Done")
    /\ stage = "Exited" /\ phase = "Done" /\ ret = 0 => ~mHasError

AInv == DInv /\ StageInv

LEMMA AInvInitially == ApplicationInit => AInv
  BY DInvInitially DEF ApplicationInit, AInv, StageInv, Stages

\* What a step of the program does to the data parser.
LEMMA StepsOfTheData ==
  ASSUME StageInv, [ApplicationNext]_appVars
  PROVE  \/ UNCHANGED dataVars
         \/ stage = "Reading" /\ phase # "Done" /\ DataNext /\ UNCHANGED appOnlyVars
         \/ stage = "parse" /\ stage' = "Reading" /\ \E root \in Roots : SetRoot(root)
  BY DEF ApplicationNext, Executes, Ended, Exits, ParsesArguments, RefusesArguments, RunsCommand,
      HelpsOrTests, RefusesCommand, CmdValidateSpec, CmdParseFails, RefusesSpecification,
      ReadsSpecification, OpensFiles, ArgumentsAreRead, ReadStream, DataIsRead, appVars

\* A root that is set is one to start from.
LEMMA RootIsSet ==
  ASSUME DataInit, NEW root \in Roots, SetRoot(root)
  PROVE  DataInit'
  <1>1. Init'
    BY DEF DataInit, SetRoot, Init, vars, inputVars, streamVars, localVars
  <1>2. mNumericValueBuilder' = ClearedValue' /\ printed' = <<>>
    BY DEF DataInit, SetRoot, ClearedValue
  <1>3. mFields' \in Roots /\ mCurFieldIter' = Len(mFields') + 1
    BY DEF SetRoot
  <1> QED
    BY <1>1, <1>2, <1>3 DEF DataInit

LEMMA AInvStep == AInv /\ [ApplicationNext]_appVars => AInv'
  <1> SUFFICES ASSUME AInv, [ApplicationNext]_appVars PROVE AInv'
    OBVIOUS
  <1>1. DInv /\ StageInv
    BY DEF AInv
  <1>2. DInv'
    <2>1. CASE UNCHANGED dataVars
      BY <1>1, <2>1, DInvStep
    <2>2. CASE DataNext
      BY <1>1, <2>2, DInvStep
    <2>3. CASE stage = "parse" /\ \E root \in Roots : SetRoot(root)
      BY <1>1, <2>3, RootIsSet, DInvInitiallyAfter DEF StageInv
    <2> QED
      BY <1>1, <2>1, <2>2, <2>3, StepsOfTheData
  <1>3. ASSUME UNCHANGED dataVars PROVE (DataInit <=> DataInit') /\ phase' = phase /\ mHasError' = mHasError
    BY <1>3 DEF dataVars, parserVars, vars, inputVars, streamVars, localVars, DataInit, Init,
                ClearedValue
  <1>4. StageInv'
    <2>1. CASE ParsesArguments \/ RunsCommand
      BY <1>1, <1>3, <2>1
      DEF ParsesArguments, RunsCommand, Command, Plain, Argument, ArgumentsAreRead, StageInv, Stages
    <2>2. CASE RefusesArguments \/ HelpsOrTests \/ RefusesCommand \/ CmdValidateSpec
               \/ CmdParseFails \/ RefusesSpecification
      <3>1. stage \notin {"Reading", "Exited"} /\ \E code \in {0, 1, FinishParse(parser).mResult} : Exits(code)
        BY <2>2 DEF RefusesArguments, HelpsOrTests, RefusesCommand, CmdValidateSpec, CmdParseFails,
                    RefusesSpecification, OpensFiles, ArgumentsAreRead
      <3>2. DataInit /\ UNCHANGED dataVars /\ stage' = "Exited"
        BY <1>1, <3>1 DEF StageInv, Exits
      <3>3. DataInit' /\ phase' = "Idle"
        BY <1>3, <3>2 DEF DataInit, Init
      <3> QED
        BY <3>2, <3>3 DEF StageInv, Stages
    <2>3. CASE ReadsSpecification
      BY <2>3 DEF ReadsSpecification, StageInv, Stages
    <2>4. CASE ReadStream
      BY <1>1, <2>4 DEF ReadStream, appOnlyVars, StageInv
    <2>5. CASE DataIsRead
      BY <1>3, <2>5 DEF DataIsRead, Exits, StageInv, Stages
    <2>6. CASE UNCHANGED appVars
      BY <1>1, <1>3, <2>6 DEF appVars, appOnlyVars, StageInv
    <2> QED
      BY <2>1, <2>2, <2>3, <2>4, <2>5, <2>6 DEF ApplicationNext, Executes, Ended
  <1> QED
    BY <1>2, <1>4 DEF AInv

LEMMA AInvAlways == ApplicationSpec => []AInv
  BY AInvInitially, AInvStep, PTL DEF ApplicationSpec

\* The fields are read in their order with the bits they have, and the value of each is put together
\* from its own bits only, whatever the fields, the sizes of bytes and chunks and the input.
THEOREM ValuesHaveNoOthersBits == ApplicationSpec => []ValuesAreOfTheirBits
  <1>1. AInv => ValuesAreOfTheirBits
    BY DEF AInv, DInv, FieldsInv, ValuesAreOfTheirBits
  <1> QED
    BY <1>1, AInvAlways, PTL

\* Values that begin with a byte or that are not wider than one are right, of an input that is smaller
\* than a chunk.
THEOREM FieldsAreRead == ApplicationSpec => []WholeOrNarrowFieldsAreRead
  <1>1. AInv => WholeOrNarrowFieldsAreRead
    BY DEF AInv, DInv, ValuesInv
  <1> QED
    BY <1>1, AInvAlways, PTL

\* The parse command succeeds only when every bit of the data was read, in order.
THEOREM SuccessIsComplete == ApplicationSpec => []SuccessReadsAllData
  <1>1. AInv => SuccessReadsAllData
    <2> SUFFICES ASSUME AInv, stage = "Exited", phase = "Done", ret = 0
                 PROVE  taken = [i \in 1 .. length * BitsPerByte |-> i - 1]
      BY DEF SuccessReadsAllData
    <2>1. ~mHasError /\ SmallInv /\ LargeInv
      BY DEF AInv, StageInv, DInv, StreamInv
    <2>2. length \in Nat
      BY Constants DEF AInv, DInv, IInv, TypeOK
    <2>3. length < mChunkSize
      BY <2>1, <2>2, Constants DEF LargeInv
    <2> QED
      BY <2>1, <2>3 DEF SmallInv
  <1> QED
    BY <1>1, AInvAlways, PTL

\* The program uses the bit stream as an observer may, from the beginning.
THEOREM ApplicationObserves == ApplicationSpec => Safety
  <1>1. ApplicationInit => Init
    BY DEF ApplicationInit, DataInit
  <1>2. AInv /\ [ApplicationNext]_appVars => [Next]_vars
    <2> SUFFICES ASSUME AInv, [ApplicationNext]_appVars PROVE [Next]_vars
      OBVIOUS
    <2>1. TypeOK /\ DataTypeOK /\ StageInv
      BY DEF AInv, DInv, IInv
    <2>2. CASE UNCHANGED dataVars
      BY <2>2 DEF dataVars
    <2>3. CASE DataNext
      BY <2>1, <2>3, ObserverSteps
    <2>4. CASE \E root \in Roots : SetRoot(root)
      BY <2>4 DEF SetRoot
    <2> QED
      BY <2>1, <2>2, <2>3, <2>4, StepsOfTheData
  <1> QED
    BY <1>1, <1>2, AInvAlways, PTL DEF ApplicationSpec, Safety

-----------------------------------------------------------------------------
(* The parameters of the commands *)

\* The parameters that a sequence of them has.
Left(params) == {params[i] : i \in DOMAIN params}

AreParams(params) == \A a \in params : a.mHasValue \in BOOLEAN /\ a.mIsTerminator \in BOOLEAN

\* What a command has: only switches, of which those with a value save it, and no argument names two.
AreSwitches(params) ==
    /\ \A a \in params : /\ ~a.mIsPositional /\ ~a.mIsCounter /\ a.mIsTerminator = FALSE
                         /\ a.mHasValue \in BOOLEAN /\ a.saves = a.mHasValue
    /\ \A a, b \in params : a.mLongName = b.mLongName => a = b
    /\ \A a, b \in params : \A arg : Names(arg, a) /\ Names(arg, b) => a = b

IsSwitch(a, long, short, hasValue) ==
    /\ a.mLongName = long /\ a.mShortName = short /\ a.mHasValue = hasValue /\ a.saves = hasValue
    /\ ~a.mIsPositional /\ ~a.mIsCounter /\ a.mIsTerminator = FALSE

LEMMA SwitchesAreMade ==
  ASSUME NEW long, NEW short, NEW default
  PROVE  /\ IsSwitch(SetOptional(CreateLong(long, short)), long, short, FALSE)
         /\ IsSwitch(Saving(SetValueName(CreateLong(long, short))), long, short, TRUE)
         /\ IsSwitch(Saving(SetDefault(CreateLong(long, short), default)), long, short, TRUE)
  <1>1. IsSwitch(SetOptional(CreateLong(long, short)), long, short, FALSE)
    BY DEF IsSwitch, SetOptional, CreateLong
  <1>2. IsSwitch(Saving(SetValueName(CreateLong(long, short))), long, short, TRUE)
    BY DEF IsSwitch, SetValueName, Saving, CreateLong
  <1>3. IsSwitch(Saving(SetDefault(CreateLong(long, short), default)), long, short, TRUE)
    BY DEF IsSwitch, SetDefault, Saving, CreateLong
  <1> QED
    BY <1>1, <1>2, <1>3

LEMMA MainSwitches == MainParams \in Seq(Left(MainParams)) /\ AreParams(Left(MainParams))
  <1>1. /\ HelpParam.mHasValue \in BOOLEAN /\ HelpParam.mIsTerminator \in BOOLEAN
    BY DEF HelpParam, SetOptional, CreateLong
  <1>2. /\ SetCounter(CreateLong("verbose", "v")).mHasValue \in BOOLEAN
        /\ SetCounter(CreateLong("verbose", "v")).mIsTerminator \in BOOLEAN
    BY DEF SetCounter, CreateLong
  <1>3. CreateCommand.mHasValue \in BOOLEAN /\ CreateCommand.mIsTerminator \in BOOLEAN
    BY DEF CreateCommand, CreateLong
  <1> QED
    BY <1>1, <1>2, <1>3 DEF MainParams, Left, AreParams

LEMMA CommandsHaveSwitches ==
  ASSUME NEW command
  PROVE  /\ ParamsOf(command) \in Seq(Left(ParamsOf(command))) /\ AreSwitches(Left(ParamsOf(command)))
         /\ \A i, j \in DOMAIN ParamsOf(command) :
                ParamsOf(command)[i].mLongName = ParamsOf(command)[j].mLongName => i = j
  <1>1. CASE ParamsOf(command) = ParseParams
    <2> DEFINE help == HelpParam
               spec == Saving(SetValueName(CreateLong("spec", "s")))
               data == Saving(SetDefault(CreateLong("data", "d"), Plain("")))
               format == Saving(SetDefault(CreateLong("format", "f"), Plain("raw")))
    <2>1. /\ IsSwitch(help, "help", "h", FALSE)
          /\ IsSwitch(spec, "spec", "s", TRUE)
          /\ IsSwitch(data, "data", "d", TRUE)
          /\ IsSwitch(format, "format", "f", TRUE)
      BY SwitchesAreMade, Zenon DEF HelpParam
    <2>2. ParseParams = <<help, spec, data, format>>
      BY DEF ParseParams
    <2> HIDE DEF help, spec, data, format
    <2>3. Left(ParseParams) = {help, spec, data, format} /\ DOMAIN ParseParams = 1 .. 4
      BY <2>2 DEF Left
    <2>4. ParseParams \in Seq(Left(ParseParams))
      BY <2>2, <2>3
    <2>5. \A a \in {help, spec, data, format} : /\ ~a.mIsPositional /\ ~a.mIsCounter /\ a.mIsTerminator = FALSE
                /\ a.mHasValue \in BOOLEAN /\ a.saves = a.mHasValue
      BY <2>1 DEF IsSwitch
    <2>6. \A a, b \in {help, spec, data, format} : a.mLongName = b.mLongName => a = b
      BY <2>1 DEF IsSwitch
    <2>7. ASSUME NEW a \in {help, spec, data, format}, NEW b \in {help, spec, data, format}, NEW arg, Names(arg, a), Names(arg, b)
          PROVE  a = b
      <3>1. \/ arg.name = a.mLongName \/ arg.name = a.mShortName
        BY <2>7 DEF Names, MatchLongName, MatchShortName
      <3>2. \/ arg.name = b.mLongName \/ arg.name = b.mShortName
        BY <2>7 DEF Names, MatchLongName, MatchShortName
      <3> QED
        BY <2>1, <3>1, <3>2 DEF IsSwitch
    <2>8. \A i, j \in 1 .. 4 : ParseParams[i].mLongName = ParseParams[j].mLongName => i = j
      BY <2>1, <2>2 DEF IsSwitch
    <2>9. AreSwitches(Left(ParseParams))
      BY <2>3, <2>5, <2>6, <2>7, Zenon DEF AreSwitches
    <2> QED
      BY <1>1, <2>3, <2>4, <2>8, <2>9, Zenon
  <1>2. CASE ParamsOf(command) = ValidateSpecParams
    <2> DEFINE help == HelpParam
               file == Saving(SetValueName(CreateLong("file", "f")))
               testing == SetOptional(CreateLong("testing", "t"))
    <2>1. /\ IsSwitch(help, "help", "h", FALSE)
          /\ IsSwitch(file, "file", "f", TRUE)
          /\ IsSwitch(testing, "testing", "t", FALSE)
      BY SwitchesAreMade, Zenon DEF HelpParam
    <2>2. ValidateSpecParams = <<help, file, testing>>
      BY DEF ValidateSpecParams
    <2> HIDE DEF help, file, testing
    <2>3. Left(ValidateSpecParams) = {help, file, testing} /\ DOMAIN ValidateSpecParams = 1 .. 3
      BY <2>2 DEF Left
    <2>4. ValidateSpecParams \in Seq(Left(ValidateSpecParams))
      BY <2>2, <2>3
    <2>5. \A a \in {help, file, testing} : /\ ~a.mIsPositional /\ ~a.mIsCounter /\ a.mIsTerminator = FALSE
                /\ a.mHasValue \in BOOLEAN /\ a.saves = a.mHasValue
      BY <2>1 DEF IsSwitch
    <2>6. \A a, b \in {help, file, testing} : a.mLongName = b.mLongName => a = b
      BY <2>1 DEF IsSwitch
    <2>7. ASSUME NEW a \in {help, file, testing}, NEW b \in {help, file, testing}, NEW arg, Names(arg, a), Names(arg, b)
          PROVE  a = b
      <3>1. \/ arg.name = a.mLongName \/ arg.name = a.mShortName
        BY <2>7 DEF Names, MatchLongName, MatchShortName
      <3>2. \/ arg.name = b.mLongName \/ arg.name = b.mShortName
        BY <2>7 DEF Names, MatchLongName, MatchShortName
      <3> QED
        BY <2>1, <3>1, <3>2 DEF IsSwitch
    <2>8. \A i, j \in 1 .. 3 : ValidateSpecParams[i].mLongName = ValidateSpecParams[j].mLongName => i = j
      BY <2>1, <2>2 DEF IsSwitch
    <2>9. AreSwitches(Left(ValidateSpecParams))
      BY <2>3, <2>5, <2>6, <2>7, Zenon DEF AreSwitches
    <2> QED
      BY <1>2, <2>3, <2>4, <2>8, <2>9, Zenon
  <1> QED
    BY <1>1, <1>2 DEF ParamsOf

-----------------------------------------------------------------------------
(* A parameter is erased *)

Distinct(params) == \A i, j \in DOMAIN params : params[i] = params[j] => i = j

LEMMA Removed ==
  ASSUME NEW S, NEW params \in Seq(S), NEW i \in 1 .. Len(params)
  PROVE  /\ Seqs!RemoveAt(params, i) \in Seq(S)
         /\ Len(Seqs!RemoveAt(params, i)) = Len(params) - 1
         /\ \A k \in 1 .. Len(params) - 1 :
                Seqs!RemoveAt(params, i)[k] = IF k < i THEN params[k] ELSE params[k + 1]
  <1> DEFINE first == SubSeq(params, 1, i - 1)
             last == SubSeq(params, i + 1, Len(params))
  <1>1. PICK n \in Nat, m \in Nat : n = Len(params) /\ m = i - 1 /\ m < n
    OBVIOUS
  <1>2. first \in Seq(S) /\ Len(first) = m /\ \A k \in 1 .. m : first[k] = params[k]
    BY <1>1
  <1>3. /\ last \in Seq(S) /\ Len(last) = n - (m + 1)
        /\ \A k \in 1 .. n - (m + 1) : last[k] = params[m + 1 + k]
    BY <1>1
  <1>4. Seqs!RemoveAt(params, i) = first \o last
    BY DEF Seqs!RemoveAt
  <1> HIDE DEF first, last
  <1>5. /\ first \o last \in Seq(S) /\ Len(first \o last) = Len(first) + Len(last)
        /\ \A k \in 1 .. Len(first) + Len(last) :
               (first \o last)[k] = IF k <= Len(first) THEN first[k] ELSE last[k - Len(first)]
    BY <1>2, <1>3, ConcatProperties
  <1>6. Len(first) + Len(last) = n - 1
    BY <1>2, <1>3
  <1>7. ASSUME NEW k \in 1 .. n - 1
        PROVE  (first \o last)[k] = IF k < i THEN params[k] ELSE params[k + 1]
    <2>1. CASE k <= m
      BY <1>1, <1>2, <1>5, <1>6, <2>1
    <2>2. CASE ~(k <= m)
      <3>1. k - m \in 1 .. n - (m + 1) /\ m + 1 + (k - m) = k + 1 /\ ~(k < i)
        BY <1>1, <2>2
      <3> QED
        BY <1>2, <1>3, <1>5, <1>6, <2>2, <3>1
    <2> QED
      BY <2>1, <2>2
  <1> QED
    BY <1>1, <1>4, <1>5, <1>6, <1>7

LEMMA LeftOfRemoved ==
  ASSUME NEW S, NEW params \in Seq(S), NEW i \in 1 .. Len(params), Distinct(params)
  PROVE  /\ Distinct(Seqs!RemoveAt(params, i))
         /\ Left(Seqs!RemoveAt(params, i)) = Left(params) \ {params[i]}
  <1>1. PICK rest \in Seq(S) : rest = Seqs!RemoveAt(params, i)
    BY Removed
  <1>2. PICK n \in Nat : n = Len(params)
    OBVIOUS
  <1>3. /\ DOMAIN params = 1 .. n /\ DOMAIN rest = 1 .. n - 1 /\ i \in 1 .. n
        /\ \A k \in 1 .. n - 1 : rest[k] = IF k < i THEN params[k] ELSE params[k + 1]
    <2>1. /\ Len(rest) = Len(params) - 1
          /\ \A k \in 1 .. Len(params) - 1 :
                 rest[k] = IF k < i THEN params[k] ELSE params[k + 1]
      BY <1>1, Removed
    <2>2. DOMAIN params = 1 .. Len(params) /\ DOMAIN rest = 1 .. Len(rest)
      BY <1>1
    <2> QED
      BY <1>2, <2>1, <2>2
  <1>4. \A j, k \in 1 .. n : params[j] = params[k] => j = k
    BY <1>3 DEF Distinct
  <1>5. Distinct(rest)
    <2> SUFFICES ASSUME NEW j \in 1 .. n - 1, NEW k \in 1 .. n - 1, rest[j] = rest[k] PROVE j = k
      BY <1>3 DEF Distinct
    <2>1. PICK x \in 1 .. n : rest[j] = params[x] /\ x = IF j < i THEN j ELSE j + 1
      BY <1>3
    <2>2. PICK y \in 1 .. n : rest[k] = params[y] /\ y = IF k < i THEN k ELSE k + 1
      BY <1>3
    <2>3. x = y
      BY <1>4, <2>1, <2>2, Zenon
    <2> QED
      BY <2>1, <2>2, <2>3
  <1>6. ASSUME NEW k \in 1 .. n - 1 PROVE \E j \in 1 .. n : j # i /\ rest[k] = params[j]
    BY <1>3
  <1>7. ASSUME NEW j \in 1 .. n, j # i PROVE \E k \in 1 .. n - 1 : rest[k] = params[j]
    <2>1. CASE j < i
      BY <1>3, <2>1
    <2>2. CASE ~(j < i)
      <3>1. j - 1 \in 1 .. n - 1 /\ ~(j - 1 < i) /\ (j - 1) + 1 = j
        BY <1>3, <1>7, <2>2
      <3> QED
        BY <1>3, <3>1
    <2> QED
      BY <2>1, <2>2
  <1>8. Left(rest) = {params[j] : j \in 1 .. n} \ {params[i]}
    <2>1. ASSUME NEW a \in Left(rest) PROVE a \in {params[j] : j \in 1 .. n} /\ a # params[i]
      BY <1>3, <1>4, <1>6, <2>1 DEF Left
    <2>2. ASSUME NEW a \in {params[j] : j \in 1 .. n}, a # params[i] PROVE a \in Left(rest)
      <3>1. PICK j \in 1 .. n : a = params[j]
        OBVIOUS
      <3>2. PICK k \in 1 .. n - 1 : rest[k] = params[j]
        BY <1>7, <2>2, <3>1
      <3> QED
        BY <1>3, <3>1, <3>2 DEF Left
    <2> QED
      BY <2>1, <2>2
  <1>9. Left(params) = {params[j] : j \in 1 .. n}
    BY <1>3 DEF Left
  <1>10. Left(rest) = Left(params) \ {params[i]}
    BY <1>8, <1>9, Zenon
  <1> QED
    BY <1>1, <1>5, <1>10, Zenon

-----------------------------------------------------------------------------
(* The parser's operators *)

Members == {"mCurParams", "mParseIndex", "mKeepParsing", "mResult", "mSkipNextArg", "saved", "crashed"}

\* A parser with some of the parameters S left; one that goes on has not failed.
IsParser(p, S) ==
    /\ p = [member \in Members |-> p[member]]
    /\ p.mCurParams \in Seq(S) /\ p.mParseIndex \in Nat
    /\ p.mKeepParsing \in BOOLEAN /\ p.mSkipNextArg \in BOOLEAN /\ p.crashed \in BOOLEAN
    /\ p.mResult \in {0, 1} /\ (p.mKeepParsing => p.mResult = 0)

LEMMA Started ==
  ASSUME NEW S, NEW params \in Seq(S)
  PROVE  LET p == StartedParser(params)
         IN  /\ IsParser(p, S) /\ p.mCurParams = params /\ p.mParseIndex = 1 /\ p.mKeepParsing
             /\ ~p.mSkipNextArg /\ ~p.crashed /\ p.saved = [n \in {} |-> Plain("")]
  BY DEF StartedParser, IsParser, Members

LEMMA FailsDoes ==
  ASSUME NEW S, NEW p, IsParser(p, S), NEW q, q = Fails(p)
  PROVE  /\ IsParser(q, S) /\ q.mCurParams = p.mCurParams /\ q.mParseIndex = p.mParseIndex
         /\ ~q.mKeepParsing /\ q.mResult = 1 /\ q.mSkipNextArg = p.mSkipNextArg
         /\ q.saved = p.saved /\ q.crashed = p.crashed
  BY DEF Fails, IsParser, Members

LEMMA DiscoverDoes ==
  ASSUME NEW S, NEW p, IsParser(p, S), NEW i \in 1 .. Len(p.mCurParams), NEW q, q = Discover(p, i)
  PROVE  /\ IsParser(q, S) /\ q.mParseIndex = p.mParseIndex
         /\ q.mKeepParsing = p.mKeepParsing /\ q.mResult = p.mResult
         /\ q.mSkipNextArg = p.mSkipNextArg /\ q.saved = p.saved /\ q.crashed = p.crashed
         /\ q.mCurParams = IF p.mCurParams[i].mIsCounter THEN p.mCurParams
                           ELSE Seqs!RemoveAt(p.mCurParams, i)
  <1>1. Seqs!RemoveAt(p.mCurParams, i) \in Seq(S)
    BY Removed DEF IsParser
  <1> QED
    BY <1>1 DEF Discover, IsParser, Members

LEMMA CallBackDoes ==
  ASSUME NEW S, NEW p, IsParser(p, S), p.mResult = 0, NEW param, NEW value,
         param.mHasValue \in BOOLEAN, param.mIsTerminator \in BOOLEAN, NEW q, q = CallBack(p, param, value)
  PROVE  /\ IsParser(q, S) /\ q.mCurParams = p.mCurParams /\ q.mParseIndex = p.mParseIndex
         /\ q.mKeepParsing = ~param.mIsTerminator /\ q.mResult = 0
         /\ q.mSkipNextArg = (p.mSkipNextArg \/ param.mHasValue) /\ q.crashed = p.crashed
         /\ q.saved = IF param.saves THEN Save(p.saved, param.mLongName, value) ELSE p.saved
  BY DEF CallBack, IsParser, Members

LEMMA CrashDoes ==
  ASSUME NEW S, NEW p, IsParser(p, S), NEW q, q = [p EXCEPT !.crashed = TRUE]
  PROVE  IsParser(q, S) /\ q.crashed /\ q.mParseIndex = p.mParseIndex
  BY DEF IsParser, Members

LEMMA NothingBehind == NotCounted # Null /\ NotCounted \notin Arguments /\ Null \notin Arguments
  BY DEF NotCounted, Null, Argument, Arguments

\* The parser after one of the parameters at the indices was dispatched, with what there is behind
\* the argument.
IsDispatched(p, q, i, param, behind) ==
    /\ param = p.mCurParams[i] /\ q.mResult = 0 /\ q.crashed = p.crashed
    /\ param.mHasValue => behind \notin {NotCounted, Null}
    /\ q.mCurParams = IF param.mIsCounter THEN p.mCurParams ELSE Seqs!RemoveAt(p.mCurParams, i)
    /\ q.mKeepParsing = ~param.mIsTerminator
    /\ q.mSkipNextArg = (p.mSkipNextArg \/ param.mHasValue)
    /\ q.saved = IF param.saves
                 THEN Save(p.saved, param.mLongName, IF param.mHasValue THEN behind ELSE Plain(""))
                 ELSE p.saved

HasFailed(p, q) == q.mResult = 1 /\ ~q.mKeepParsing /\ q.crashed = p.crashed

\* The parameter that is dispatched is one of those that were looked for, unless there is none.
LEMMA DispatchNextDoes ==
  ASSUME NEW S, NEW p, IsParser(p, S), p.mResult = 0, AreParams(S), NEW behind,
         NEW indices \in SUBSET (1 .. Len(p.mCurParams)),
         NEW q, q = DispatchNext(p, indices, behind)
  PROVE  /\ IsParser(q, S) /\ q.mParseIndex = p.mParseIndex
         /\ \/ HasFailed(p, q)
            \/ q.crashed /\ behind = Null
            \/ \E i \in indices : \E param \in S : IsDispatched(p, q, i, param, behind)
  <1>1. CASE indices = {}
    <2>1. q = Fails(p)
      BY <1>1 DEF DispatchNext
    <2> QED
      BY <2>1, FailsDoes DEF HasFailed
  <1>2. CASE indices # {}
    <2>1. \E i \in indices : \A j \in indices : i <= j
      <3>1. indices \in SUBSET Nat
        OBVIOUS
      <3>2. PICK i \in indices : \A j \in indices : ~(j < i)
        BY <1>2, <3>1, LeastNumber
      <3> QED
        BY <3>1, <3>2
    <2>2. PICK i \in indices : q = Dispatch(Discover(p, i), p.mCurParams[i], behind)
      BY <1>2, <2>1, Zenon DEF DispatchNext
    <2>3. PICK param \in S : param = p.mCurParams[i]
      <3>1. p.mCurParams \in Seq(S) /\ i \in 1 .. Len(p.mCurParams)
        BY DEF IsParser
      <3> QED
        BY <3>1
    <2>10. PICK r : r = Discover(p, i)
      OBVIOUS
    <2>4. /\ IsParser(r, S) /\ r.mParseIndex = p.mParseIndex /\ r.mResult = 0
          /\ r.mSkipNextArg = p.mSkipNextArg /\ r.saved = p.saved /\ r.crashed = p.crashed
          /\ r.mCurParams = IF param.mIsCounter THEN p.mCurParams ELSE Seqs!RemoveAt(p.mCurParams, i)
      BY <2>3, <2>10, DiscoverDoes
    <2>5. param.mHasValue \in BOOLEAN /\ param.mIsTerminator \in BOOLEAN
      BY DEF AreParams
    <2>6. q = Dispatch(r, param, behind)
      BY <2>2, <2>3, <2>10, Zenon
    <2>7. CASE param.mHasValue /\ behind = NotCounted
      <3>1. q = Fails(r)
        BY <2>6, <2>7, NothingBehind DEF Dispatch
      <3> QED
        BY <2>4, <3>1, FailsDoes DEF HasFailed
    <2>8. CASE param.mHasValue /\ behind = Null
      <3>1. q = [r EXCEPT !.crashed = TRUE]
        BY <2>6, <2>8, NothingBehind DEF Dispatch
      <3> QED
        BY <2>4, <2>8, <3>1, CrashDoes
    <2>9. CASE param.mHasValue => behind \notin {NotCounted, Null}
      <3>1. PICK value : value = IF param.mHasValue THEN behind ELSE Plain("")
        OBVIOUS
      <3>2. q = CallBack(r, param, value)
        BY <2>6, <2>9, <3>1, Zenon DEF Dispatch
      <3>3. /\ IsParser(q, S) /\ q.mCurParams = r.mCurParams /\ q.mParseIndex = r.mParseIndex
            /\ q.mKeepParsing = ~param.mIsTerminator /\ q.mResult = 0
            /\ q.mSkipNextArg = (r.mSkipNextArg \/ param.mHasValue) /\ q.crashed = r.crashed
            /\ q.saved = IF param.saves THEN Save(r.saved, param.mLongName, value) ELSE r.saved
        BY <2>4, <2>5, <3>2, CallBackDoes
      <3>4. IsDispatched(p, q, i, param, behind)
        BY <2>3, <2>4, <2>9, <3>1, <3>3, Zenon DEF IsDispatched
      <3> QED
        BY <2>4, <3>3, <3>4, Zenon
    <2> QED
      BY <2>7, <2>8, <2>9, Zenon
  <1> QED
    BY <1>1, <1>2

-----------------------------------------------------------------------------
(* The loops of the parser, which are recursive functions: there are functions that satisfy the
   recursions *)

AreShorts(f, p, letters, n) ==
    f = [k \in 0 .. n |-> IF k = 0 THEN p ELSE ProcShort(f[k - 1], letters[k])]

LEMMA ShortsExist ==
  ASSUME NEW p, NEW letters, NEW n \in Nat
  PROVE  \E f : AreShorts(f, p, letters, n)
  <1> DEFINE S == {k \in Nat : \E f : AreShorts(f, p, letters, k)}
  <1>1. 0 \in S
    <2> DEFINE f == [k \in 0 .. 0 |-> p]
    <2>1. AreShorts(f, p, letters, 0)
      BY DEF AreShorts
    <2> QED
      BY <2>1
  <1>2. ASSUME NEW k \in S PROVE k + 1 \in S
    <2>1. PICK f : AreShorts(f, p, letters, k)
      OBVIOUS
    <2> DEFINE g == [i \in 0 .. k + 1 |-> IF i = k + 1 THEN ProcShort(f[k], letters[k + 1]) ELSE f[i]]
    <2>2. ASSUME NEW i \in 0 .. k + 1
          PROVE  g[i] = IF i = 0 THEN p ELSE ProcShort(g[i - 1], letters[i])
      <3>1. CASE i = k + 1
        <4>1. i # 0 /\ i - 1 = k /\ k \in 0 .. k + 1 /\ k # k + 1
          BY <3>1
        <4> QED
          BY <3>1, <4>1
      <3>2. CASE i \in 0 .. k
        <4>1. f[i] = IF i = 0 THEN p ELSE ProcShort(f[i - 1], letters[i])
          BY <2>1, <3>2 DEF AreShorts
        <4>2. g[i] = f[i] /\ (i # 0 => g[i - 1] = f[i - 1])
          BY <3>2
        <4> QED
          BY <4>1, <4>2
      <3> QED
        BY <3>1, <3>2
    <2>3. g = [i \in 0 .. k + 1 |-> IF i = 0 THEN p ELSE ProcShort(g[i - 1], letters[i])]
      <3> HIDE DEF g
      <3>1. g = [i \in 0 .. k + 1 |-> g[i]]
        BY DEF g
      <3> QED
        BY <2>2, <3>1
    <2>4. AreShorts(g, p, letters, k + 1)
      BY <2>3 DEF AreShorts
    <2> HIDE DEF g
    <2> QED
      BY <2>4
  <1>3. S = Nat
    <2> HIDE DEF S
    <2>1. S \in SUBSET Nat
      BY DEF S
    <2> QED
      BY <1>1, <1>2, <2>1, Induction
  <1> QED
    BY <1>3

AreUnvisited(f, p, params, n) ==
    f = [k \in 0 .. n |-> IF k = 0 THEN p ELSE Unvisited(f[k - 1], params[k])]

LEMMA UnvisitedExist ==
  ASSUME NEW p, NEW params, NEW n \in Nat
  PROVE  \E f : AreUnvisited(f, p, params, n)
  <1> DEFINE S == {k \in Nat : \E f : AreUnvisited(f, p, params, k)}
  <1>1. 0 \in S
    <2> DEFINE f == [k \in 0 .. 0 |-> p]
    <2>1. AreUnvisited(f, p, params, 0)
      BY DEF AreUnvisited
    <2> QED
      BY <2>1
  <1>2. ASSUME NEW k \in S PROVE k + 1 \in S
    <2>1. PICK f : AreUnvisited(f, p, params, k)
      OBVIOUS
    <2> DEFINE g == [i \in 0 .. k + 1 |-> IF i = k + 1 THEN Unvisited(f[k], params[k + 1]) ELSE f[i]]
    <2>2. ASSUME NEW i \in 0 .. k + 1
          PROVE  g[i] = IF i = 0 THEN p ELSE Unvisited(g[i - 1], params[i])
      <3>1. CASE i = k + 1
        <4>1. i # 0 /\ i - 1 = k /\ k \in 0 .. k + 1 /\ k # k + 1
          BY <3>1
        <4> QED
          BY <3>1, <4>1
      <3>2. CASE i \in 0 .. k
        <4>1. f[i] = IF i = 0 THEN p ELSE Unvisited(f[i - 1], params[i])
          BY <2>1, <3>2 DEF AreUnvisited
        <4>2. g[i] = f[i] /\ (i # 0 => g[i - 1] = f[i - 1])
          BY <3>2
        <4> QED
          BY <4>1, <4>2
      <3> QED
        BY <3>1, <3>2
    <2>3. g = [i \in 0 .. k + 1 |-> IF i = 0 THEN p ELSE Unvisited(g[i - 1], params[i])]
      <3> HIDE DEF g
      <3>1. g = [i \in 0 .. k + 1 |-> g[i]]
        BY DEF g
      <3> QED
        BY <2>2, <3>1
    <2>4. AreUnvisited(g, p, params, k + 1)
      BY <2>3 DEF AreUnvisited
    <2> HIDE DEF g
    <2> QED
      BY <2>4
  <1>3. S = Nat
    <2> HIDE DEF S
    <2>1. S \in SUBSET Nat
      BY DEF S
    <2> QED
      BY <1>1, <1>2, <2>1, Induction
  <1> QED
    BY <1>3

LEMMA ShortsAre ==
  ASSUME NEW p, NEW letters, Len(letters) \in Nat
  PROVE  \E f : AreShorts(f, p, letters, Len(letters)) /\ ProcShorts(p, letters) = f[Len(letters)]
  <1> DEFINE n == Len(letters)
             g == CHOOSE f : AreShorts(f, p, letters, n)
  <1>1. AreShorts(g, p, letters, n)
    BY ShortsExist
  <1>2. g = CHOOSE f : f = [k \in 0 .. n |-> IF k = 0 THEN p ELSE ProcShort(f[k - 1], letters[k])]
    BY DEF AreShorts
  <1>3. ProcShorts(p, letters) = g[n]
    BY <1>2, Zenon DEF ProcShorts
  <1> QED
    BY <1>1, <1>3, Zenon

LEMMA UnvisitedAre ==
  ASSUME NEW p, Len(p.mCurParams) \in Nat, p.mKeepParsing
  PROVE  \E f : /\ AreUnvisited(f, p, p.mCurParams, Len(p.mCurParams))
                /\ FinishParse(p) = [f[Len(p.mCurParams)] EXCEPT !.mCurParams = <<>>]
  <1> DEFINE n == Len(p.mCurParams)
             g == CHOOSE f : AreUnvisited(f, p, p.mCurParams, n)
  <1>1. AreUnvisited(g, p, p.mCurParams, n)
    BY UnvisitedExist
  <1>2. g = CHOOSE f : f = [k \in 0 .. n |-> IF k = 0 THEN p ELSE Unvisited(f[k - 1], p.mCurParams[k])]
    BY DEF AreUnvisited
  <1>3. FinishParse(p) = [g[n] EXCEPT !.mCurParams = <<>>]
    BY <1>2, Zenon DEF FinishParse
  <1> QED
    BY <1>1, <1>3, Zenon

LEMMA MatchesAreLeft ==
  ASSUME NEW S, NEW p, IsParser(p, S), NEW arg, NEW name
  PROVE  /\ MatchingArgs(p, arg) \in SUBSET (1 .. Len(p.mCurParams))
         /\ ShortArgs(p, name) \in SUBSET (1 .. Len(p.mCurParams))
         /\ PositionalArgs(p) \in SUBSET (1 .. Len(p.mCurParams))
  <1>1. DOMAIN p.mCurParams = 1 .. Len(p.mCurParams)
    BY DEF IsParser
  <1> QED
    BY <1>1 DEF MatchingArgs, ShortArgs, PositionalArgs

LEMMA ProcShortDoes ==
  ASSUME NEW S, AreParams(S), NEW p, IsParser(p, S), NEW name, NEW q, q = ProcShort(p, name)
  PROVE  /\ IsParser(q, S) /\ q.mParseIndex = p.mParseIndex
         /\ \/ HasFailed(p, q)
            \/ q = p /\ ~p.mKeepParsing
            \/ p.mKeepParsing /\ \E i \in 1 .. Len(p.mCurParams) : \E param \in S :
                   /\ IsDispatched(p, q, i, param, NotCounted)
                   /\ MatchShortName(param, name)
  <1>1. CASE p.mKeepParsing
    <2>1. p.mResult = 0
      BY <1>1 DEF IsParser
    <2>2. PICK indices : indices = ShortArgs(p, name) /\ indices \in SUBSET (1 .. Len(p.mCurParams))
      BY MatchesAreLeft
    <2>3. q = DispatchNext(p, indices, NotCounted)
      BY <1>1, <2>2, Zenon DEF ProcShort
    <2>4. /\ IsParser(q, S) /\ q.mParseIndex = p.mParseIndex
          /\ \/ HasFailed(p, q)
             \/ q.crashed /\ NotCounted = Null
             \/ \E i \in indices : \E param \in S : IsDispatched(p, q, i, param, NotCounted)
      BY <2>1, <2>2, <2>3, DispatchNextDoes
    <2>5. ASSUME NEW i \in indices, NEW param \in S, IsDispatched(p, q, i, param, NotCounted)
          PROVE  i \in 1 .. Len(p.mCurParams) /\ MatchShortName(param, name)
      <3>1. param = p.mCurParams[i]
        BY <2>5 DEF IsDispatched
      <3>2. MatchShortName(p.mCurParams[i], name)
        BY <2>2, Zenon DEF ShortArgs
      <3> QED
        BY <2>2, <3>1, <3>2
    <2> QED
      BY <1>1, <2>4, <2>5, NothingBehind
  <1>2. CASE ~p.mKeepParsing
    BY <1>2 DEF ProcShort
  <1> QED
    BY <1>1, <1>2

\* A parser goes on as a parser, at the same place.
LEMMA ProcShortsDoes ==
  ASSUME NEW S, AreParams(S), NEW p, IsParser(p, S), NEW letters \in Seq(STRING),
         NEW q, q = ProcShorts(p, letters)
  PROVE  IsParser(q, S) /\ q.mParseIndex = p.mParseIndex
  <1>1. PICK n \in Nat : n = Len(letters)
    OBVIOUS
  <1>2. PICK f : AreShorts(f, p, letters, n) /\ q = f[n]
    BY <1>1, ShortsAre
  <1> DEFINE T == {k \in Nat : k <= n => IsParser(f[k], S) /\ f[k].mParseIndex = p.mParseIndex}
  <1>3. 0 \in T
    BY <1>2 DEF AreShorts
  <1>4. ASSUME NEW k \in T PROVE k + 1 \in T
    <2>1. ASSUME k + 1 <= n PROVE IsParser(f[k + 1], S) /\ f[k + 1].mParseIndex = p.mParseIndex
      <3>1. k + 1 \in 0 .. n /\ k + 1 # 0 /\ (k + 1) - 1 = k /\ k <= n
        BY <2>1
      <3>2. f[k + 1] = ProcShort(f[k], letters[k + 1])
        BY <1>2, <3>1 DEF AreShorts
      <3>3. IsParser(f[k], S) /\ f[k].mParseIndex = p.mParseIndex
        BY <3>1
      <3> QED
        BY <3>2, <3>3, ProcShortDoes
    <2> QED
      BY <2>1
  <1>5. T = Nat
    <2> HIDE DEF T
    <2>1. T \in SUBSET Nat
      BY DEF T
    <2> QED
      BY <1>3, <1>4, <2>1, Induction
  <1> QED
    BY <1>2, <1>5

LEMMA ProcArgsDoes ==
  ASSUME NEW S, AreParams(S), NEW p, IsParser(p, S), p.mKeepParsing, NEW arg \in Arguments, NEW behind,
         NEW q, q = ProcArgs(p, arg, behind)
  PROVE  IsParser(q, S) /\ q.mParseIndex = p.mParseIndex
  <1>0. p.mResult = 0
    BY DEF IsParser
  <1>1. CASE arg.form \in {"Slash", "Long"}
    <2>1. q = DispatchNext(p, MatchingArgs(p, arg), behind)
      BY <1>1 DEF ProcArgs
    <2> QED
      BY <1>0, <2>1, MatchesAreLeft, DispatchNextDoes
  <1>2. CASE arg.form = "LongWithValue"
    <2>1. q = Fails(p)
      BY <1>2 DEF ProcArgs
    <2> QED
      BY <2>1, FailsDoes
  <1>3. CASE arg.form = "Shorts"
    <2>1. q = ProcShorts(p, arg.letters)
      BY <1>3 DEF ProcArgs
    <2>2. arg.letters \in Seq(STRING)
      BY DEF Arguments
    <2> QED
      BY <2>1, <2>2, ProcShortsDoes
  <1>4. CASE arg.form = "Stop"
    BY <1>4 DEF ProcArgs, IsParser, Members
  <1>5. CASE arg.form \notin {"Slash", "Long", "LongWithValue", "Shorts", "Stop"}
    <2>1. q = DispatchNext(p, PositionalArgs(p), arg)
      BY <1>5 DEF ProcArgs
    <2> QED
      BY <1>0, <2>1, MatchesAreLeft, DispatchNextDoes
  <1> QED
    BY <1>1, <1>2, <1>3, <1>4, <1>5

\* A round of the loop goes forward by one or two arguments, or stops the parsing.
LEMMA ParseArgDoes ==
  ASSUME NEW S, AreParams(S), NEW p, IsParser(p, S), NEW args \in Seq(Arguments), HasNextArg(p, args),
         p.mParseIndex \in 1 .. Len(args) + 1, NEW q, q = ParseArg(p, args)
  PROVE  IsParser(q, S) /\ q.mParseIndex \in 1 .. Len(args) + 1 /\ ~q.mSkipNextArg
  <1>1. PICK n \in Nat, x \in Nat : n = Len(args) /\ x = p.mParseIndex /\ 1 <= x /\ x < n /\ p.mKeepParsing
    BY DEF HasNextArg, IsParser
  <1>2. PICK arg \in Arguments : arg = args[x + 1]
    BY <1>1
  <1>3. PICK behind : behind = IF x + 1 < n THEN args[x + 2] ELSE Null
    OBVIOUS
  <1>4. PICK r : r = ProcArgs(p, arg, behind)
    OBVIOUS
  <1>5. q = [r EXCEPT !.mParseIndex = @ + (IF r.mSkipNextArg THEN 1 ELSE 0)
                                        + (IF r.mKeepParsing THEN 1 ELSE 0),
                      !.mSkipNextArg = FALSE]
    BY <1>1, <1>2, <1>3, <1>4, Zenon DEF ParseArg
  <1>6. IsParser(r, S) /\ r.mParseIndex = x
    BY <1>1, <1>4, ProcArgsDoes
  <1>7. /\ q = [member \in Members |-> q[member]]
        /\ q.mCurParams = r.mCurParams /\ q.mKeepParsing = r.mKeepParsing /\ q.crashed = r.crashed
        /\ q.mResult = r.mResult /\ q.mSkipNextArg = FALSE
        /\ q.mParseIndex = x + (IF r.mSkipNextArg THEN 1 ELSE 0) + (IF r.mKeepParsing THEN 1 ELSE 0)
    BY <1>5, <1>6 DEF IsParser, Members
  <1>8. q.mParseIndex \in Nat /\ q.mParseIndex \in 1 .. n + 1
    BY <1>1, <1>7
  <1> QED
    BY <1>1, <1>6, <1>7, <1>8 DEF IsParser

-----------------------------------------------------------------------------
(* The loop over the parameters that were not visited *)

LEMMA SaveDoes ==
  ASSUME NEW saved, NEW name, NEW value, NEW after, after = Save(saved, name, value)
  PROVE  /\ DOMAIN after = DOMAIN saved \cup {name} /\ after[name] = value
         /\ \A n \in DOMAIN saved : n # name => after[n] = saved[n]
  BY DEF Save

IsRecord(p) == p = [member \in Members |-> p[member]] /\ p.mResult \in {0, 1}

\* The default of a parameter that is optional was saved, if it is one to save.
IsDefaulted(p, param, q) ==
    /\ p.mResult = 0 /\ param.mIsOptional
    /\ param.mHasValue /\ param.saves => q.saved = Save(p.saved, param.mLongName, param.mDefaultValue)
    /\ ~(param.mHasValue /\ param.saves) => q.saved = p.saved

LEMMA UnvisitedDoes ==
  ASSUME NEW p, IsRecord(p), NEW param, NEW q, q = Unvisited(p, param)
  PROVE  IsRecord(q) /\ (q.mResult = 0 => IsDefaulted(p, param, q))
  <1>1. CASE ~param.mIsOptional
    <2>1. q = [p EXCEPT !.mResult = 1]
      BY <1>1 DEF Unvisited
    <2> QED
      BY <2>1 DEF IsRecord, Members
  <1>2. CASE param.mIsOptional /\ param.mHasValue
    <2>1. q = CallBack(p, param, param.mDefaultValue)
      BY <1>2 DEF Unvisited
    <2>2. /\ q = [member \in Members |-> q[member]] /\ q.mResult = p.mResult
          /\ q.saved = IF param.saves THEN Save(p.saved, param.mLongName, param.mDefaultValue) ELSE p.saved
      BY <2>1 DEF CallBack, IsRecord, Members
    <2> QED
      BY <1>2, <2>2 DEF IsRecord, IsDefaulted
  <1>3. CASE param.mIsOptional /\ ~param.mHasValue
    <2>1. q = p
      BY <1>3 DEF Unvisited
    <2> QED
      BY <1>3, <2>1 DEF IsDefaulted
  <1> QED
    BY <1>1, <1>2, <1>3

\* What was saved when the first k parameters, which were not visited, have got their defaults.
DefaultsAreSaved(p, q, params, k) ==
    /\ p.mResult = 0
    /\ \A j \in 1 .. k : /\ params[j].mIsOptional
                         /\ params[j].mHasValue /\ params[j].saves =>
                                /\ params[j].mLongName \in DOMAIN q.saved
                                /\ q.saved[params[j].mLongName] = params[j].mDefaultValue
    /\ \A name \in DOMAIN p.saved : (\A j \in 1 .. k : params[j].mLongName # name) =>
           name \in DOMAIN q.saved /\ q.saved[name] = p.saved[name]

LEMMA DefaultIsSaved ==
  ASSUME NEW n \in Nat, NEW k \in Nat, k + 1 <= n, NEW params, NEW p, NEW q, IsRecord(q),
         \A i, j \in 1 .. n : params[i].mLongName = params[j].mLongName => i = j,
         q.mResult = 0 => DefaultsAreSaved(p, q, params, k),
         NEW r, r = Unvisited(q, params[k + 1]), r.mResult = 0
  PROVE  DefaultsAreSaved(p, r, params, k + 1)
  <1>1. PICK param : param = params[k + 1]
    OBVIOUS
  <1>2. q.mResult = 0 /\ IsDefaulted(q, param, r)
    <2>1. r = Unvisited(q, param)
      BY <1>1
    <2>2. IsDefaulted(q, param, r)
      BY <2>1, UnvisitedDoes
    <2> QED
      BY <2>2 DEF IsDefaulted
  <1>3. DefaultsAreSaved(p, q, params, k)
    BY <1>2
  <1>4. /\ DOMAIN q.saved \subseteq DOMAIN r.saved
        /\ param.mHasValue /\ param.saves =>
               param.mLongName \in DOMAIN r.saved /\ r.saved[param.mLongName] = param.mDefaultValue
        /\ \A name \in DOMAIN q.saved : name # param.mLongName => r.saved[name] = q.saved[name]
    <2>1. CASE param.mHasValue /\ param.saves
      <3>1. r.saved = Save(q.saved, param.mLongName, param.mDefaultValue)
        BY <1>2, <2>1 DEF IsDefaulted
      <3>2. /\ DOMAIN r.saved = DOMAIN q.saved \cup {param.mLongName}
            /\ r.saved[param.mLongName] = param.mDefaultValue
            /\ \A name \in DOMAIN q.saved : name # param.mLongName => r.saved[name] = q.saved[name]
        BY <3>1 DEF Save
      <3> QED
        BY <3>2
    <2>2. CASE ~(param.mHasValue /\ param.saves)
      <3>1. r.saved = q.saved
        BY <1>2, <2>2 DEF IsDefaulted
      <3> QED
        BY <2>2, <3>1
    <2> QED
      BY <2>1, <2>2
  <1>5. ASSUME NEW j \in 1 .. k + 1
        PROVE  /\ params[j].mIsOptional
               /\ params[j].mHasValue /\ params[j].saves =>
                      /\ params[j].mLongName \in DOMAIN r.saved
                      /\ r.saved[params[j].mLongName] = params[j].mDefaultValue
    <2>1. CASE j = k + 1
      BY <1>1, <1>2, <1>4, <2>1 DEF IsDefaulted
    <2>2. CASE j \in 1 .. k
      <3>1. j \in 1 .. n /\ k + 1 \in 1 .. n /\ j # k + 1
        BY <2>2
      <3>2. params[j].mLongName # param.mLongName
        BY <1>1, <3>1
      <3> QED
        BY <1>3, <1>4, <2>2, <3>2 DEF DefaultsAreSaved
    <2> QED
      BY <2>1, <2>2
  <1>6. ASSUME NEW name \in DOMAIN p.saved, \A j \in 1 .. k + 1 : params[j].mLongName # name
        PROVE  name \in DOMAIN r.saved /\ r.saved[name] = p.saved[name]
    <2>1. k + 1 \in 1 .. k + 1 /\ \A j \in 1 .. k : j \in 1 .. k + 1
      OBVIOUS
    <2>2. name \in DOMAIN q.saved /\ q.saved[name] = p.saved[name]
      BY <1>3, <1>6, <2>1, Zenon DEF DefaultsAreSaved
    <2>3. name # param.mLongName
      BY <1>1, <1>6, <2>1
    <2> QED
      BY <1>4, <2>2, <2>3
  <1>7. p.mResult = 0
    BY <1>3 DEF DefaultsAreSaved
  <1> QED
    BY <1>5, <1>6, <1>7, Zenon DEF DefaultsAreSaved

LEMMA FinishParseDoes ==
  ASSUME NEW S, NEW p, IsParser(p, S), NEW q, q = FinishParse(p)
  PROVE  /\ q.mResult \in {0, 1}
         /\ ~p.mKeepParsing => q = p
         /\ /\ q.mResult = 0 /\ p.mKeepParsing
            /\ \A i, j \in DOMAIN p.mCurParams :
                   p.mCurParams[i].mLongName = p.mCurParams[j].mLongName => i = j
            => DefaultsAreSaved(p, q, p.mCurParams, Len(p.mCurParams))
  <1>1. CASE ~p.mKeepParsing
    BY <1>1 DEF FinishParse, IsParser
  <1>2. CASE p.mKeepParsing
    <2>1. PICK n \in Nat : n = Len(p.mCurParams) /\ DOMAIN p.mCurParams = 1 .. n
      BY DEF IsParser
    <2>2. PICK f : /\ AreUnvisited(f, p, p.mCurParams, n)
                   /\ q = [f[n] EXCEPT !.mCurParams = <<>>]
      BY <1>2, <2>1, UnvisitedAre
    <2>3. PICK params : params = p.mCurParams
      OBVIOUS
    <2> DEFINE Named == \A i, j \in 1 .. n : params[i].mLongName = params[j].mLongName => i = j
               T == {k \in Nat : k <= n =>
                       /\ IsRecord(f[k])
                       /\ Named /\ f[k].mResult = 0 => DefaultsAreSaved(p, f[k], params, k)}
    <2>4. 0 \in T
      <3>1. f[0] = p
        BY <2>2 DEF AreUnvisited
      <3>2. IsRecord(p)
        BY DEF IsParser, IsRecord
      <3>3. p.mResult = 0 => DefaultsAreSaved(p, p, params, 0)
        BY DEF DefaultsAreSaved
      <3> QED
        BY <3>1, <3>2, <3>3
    <2>5. ASSUME NEW k \in T PROVE k + 1 \in T
      <3>1. ASSUME k + 1 <= n
            PROVE  /\ IsRecord(f[k + 1])
                   /\ Named /\ f[k + 1].mResult = 0 => DefaultsAreSaved(p, f[k + 1], params, k + 1)
        <4>1. k + 1 \in 0 .. n /\ k + 1 # 0 /\ (k + 1) - 1 = k /\ k <= n
          BY <3>1
        <4>2. f[k + 1] = Unvisited(f[k], params[k + 1])
          BY <2>2, <2>3, <4>1 DEF AreUnvisited
        <4>3. IsRecord(f[k]) /\ (Named /\ f[k].mResult = 0 => DefaultsAreSaved(p, f[k], params, k))
          BY <4>1
        <4> HIDE DEF T
        <4>4. IsRecord(f[k + 1])
          BY <4>2, <4>3, UnvisitedDoes
        <4>5. ASSUME Named, f[k + 1].mResult = 0 PROVE DefaultsAreSaved(p, f[k + 1], params, k + 1)
          <5>1. k \in Nat
            BY DEF T
          <5> QED
            BY <3>1, <4>2, <4>3, <4>5, <5>1, DefaultIsSaved
        <4> QED
          BY <4>4, <4>5
      <3> QED
        BY <3>1
    <2>6. T = Nat
      <3> HIDE DEF T
      <3>1. T \in SUBSET Nat
        BY DEF T
      <3> QED
        BY <2>4, <2>5, <3>1, Induction
    <2>7. IsRecord(f[n]) /\ (Named /\ f[n].mResult = 0 => DefaultsAreSaved(p, f[n], params, n))
      BY <2>6
    <2> HIDE DEF T
    <2>8. q.mResult = f[n].mResult /\ q.saved = f[n].saved
      BY <2>2, <2>7 DEF IsRecord, Members
    <2>9. DefaultsAreSaved(p, f[n], params, n) => DefaultsAreSaved(p, q, params, n)
      BY <2>8 DEF DefaultsAreSaved
    <2> QED
      BY <1>2, <2>1, <2>3, <2>7, <2>8, <2>9 DEF IsRecord
  <1> QED
    BY <1>1, <1>2

-----------------------------------------------------------------------------
(* The values that a command has read *)

AreValues(f, args, params, n) ==
    f = [i \in 1 .. n |-> /\ i > 2 /\ ~f[i - 1]
                          /\ \E j \in DOMAIN params : params[j].mHasValue /\ Names(args[i - 1], params[j])]

IsValueOf(args, params, i) ==
    \E j \in DOMAIN params : params[j].mHasValue /\ Names(args[i - 1], params[j])

LEMMA ValuesExist ==
  ASSUME NEW args, NEW params, NEW n \in Nat
  PROVE  \E f : AreValues(f, args, params, n)
  <1> DEFINE S == {k \in Nat : \E f : AreValues(f, args, params, k)}
  <1>1. 0 \in S
    <2> DEFINE f == [i \in 1 .. 0 |-> TRUE]
    <2>1. f = [i \in 1 .. 0 |-> /\ i > 2 /\ ~f[i - 1] /\ IsValueOf(args, params, i)]
      OBVIOUS
    <2>2. AreValues(f, args, params, 0)
      BY <2>1, Zenon DEF AreValues, IsValueOf
    <2> QED
      BY <2>2
  <1>2. ASSUME NEW k \in S PROVE k + 1 \in S
    <2>1. PICK f : AreValues(f, args, params, k)
      OBVIOUS
    <2>2. f = [i \in 1 .. k |-> i > 2 /\ ~f[i - 1] /\ IsValueOf(args, params, i)]
      BY <2>1, Zenon DEF AreValues, IsValueOf
    <2> DEFINE g == [i \in 1 .. k + 1 |-> IF i = k + 1 THEN i > 2 /\ ~f[i - 1] /\ IsValueOf(args, params, i)
                                           ELSE f[i]]
    <2>3. ASSUME NEW i \in 1 .. k + 1
          PROVE  g[i] = (i > 2 /\ ~g[i - 1] /\ IsValueOf(args, params, i))
      <3>0. i > 2 => i - 1 \in 1 .. k /\ i - 1 # k + 1 /\ i - 1 \in 1 .. k + 1
        BY k \in Nat
      <3>1. i > 2 => g[i - 1] = f[i - 1]
        BY <3>0
      <3>2. CASE i = k + 1
        <4>1. g[i] = (i > 2 /\ ~f[i - 1] /\ IsValueOf(args, params, i))
          BY <3>2
        <4> HIDE DEF g
        <4> QED
          BY <3>1, <4>1
      <3>3. CASE i \in 1 .. k
        <4>1. f[i] = (i > 2 /\ ~f[i - 1] /\ IsValueOf(args, params, i))
          BY <2>2, <3>3, Zenon
        <4>2. g[i] = f[i]
          BY <3>3
        <4> HIDE DEF g
        <4> QED
          BY <3>1, <4>1, <4>2
      <3> QED
        BY <3>2, <3>3
    <2>4. g = [i \in 1 .. k + 1 |-> i > 2 /\ ~g[i - 1] /\ IsValueOf(args, params, i)]
      <3> HIDE DEF g
      <3>1. g = [i \in 1 .. k + 1 |-> g[i]]
        BY DEF g
      <3> QED
        BY <2>3, <3>1
    <2> HIDE DEF g
    <2>5. AreValues(g, args, params, k + 1)
      BY <2>4, Zenon DEF AreValues, IsValueOf
    <2> QED
      BY <2>5
  <1>3. S = Nat
    <2> HIDE DEF S
    <2>1. S \in SUBSET Nat
      BY DEF S
    <2> QED
      BY <1>1, <1>2, <2>1, Induction
  <1> QED
    BY <1>3

LEMMA ValuesAre ==
  ASSUME NEW args, NEW params, Len(args) \in Nat, NEW i \in 1 .. Len(args)
  PROVE  IsValueIn(args, params)[i] =
            (i > 2 /\ ~IsValueIn(args, params)[i - 1] /\ IsValueOf(args, params, i))
  <1> DEFINE n == Len(args)
             g == CHOOSE f : AreValues(f, args, params, n)
  <1>1. AreValues(g, args, params, n)
    BY ValuesExist
  <1>2. g = IsValueIn(args, params)
    BY Zenon DEF AreValues, IsValueIn
  <1> HIDE DEF g
  <1>3. g = [k \in 1 .. n |-> k > 2 /\ ~g[k - 1] /\ IsValueOf(args, params, k)]
    BY <1>1, Zenon DEF AreValues, IsValueOf
  <1> QED
    BY <1>2, <1>3, Zenon

\* A parser that goes on between two arguments.
GoesOn(p, S) == IsParser(p, S) /\ p.mKeepParsing /\ ~p.crashed /\ ~p.mSkipNextArg /\ Distinct(p.mCurParams)

\* It has failed.
Refused(q) == q.mResult = 1 /\ ~q.mKeepParsing

\* It went on, and no parameter with a value was touched.
Passed(p, q, S) ==
    /\ GoesOn(q, S) /\ q.saved = p.saved /\ Left(q.mCurParams) \subseteq Left(p.mCurParams)
    /\ \A a \in Left(p.mCurParams) : a.mHasValue => a \in Left(q.mCurParams)

\* It went on, and the parameter a got the value that is behind the argument.
Valued(p, q, S, a, behind) ==
    /\ IsParser(q, S) /\ q.mKeepParsing /\ ~q.crashed /\ q.mSkipNextArg /\ Distinct(q.mCurParams)
    /\ a.mHasValue /\ a \in Left(p.mCurParams) /\ Left(q.mCurParams) = Left(p.mCurParams) \ {a}
    /\ behind # Null /\ q.saved = Save(p.saved, a.mLongName, behind)

LEMMA SwitchDispatched ==
  ASSUME NEW S, AreSwitches(S), NEW p, GoesOn(p, S), NEW behind, NEW q, IsParser(q, S),
         NEW i \in 1 .. Len(p.mCurParams), NEW a \in S, IsDispatched(p, q, i, a, behind)
  PROVE  /\ a \in Left(p.mCurParams)
         /\ a.mHasValue => Valued(p, q, S, a, behind)
         /\ ~a.mHasValue => Passed(p, q, S)
         /\ a.mHasValue => behind # NotCounted
  <1>1. /\ ~a.mIsPositional /\ ~a.mIsCounter /\ ~a.mIsTerminator
        /\ a.mHasValue \in BOOLEAN /\ a.saves = a.mHasValue
    BY DEF AreSwitches
  <1>2. PICK params \in Seq(S) : params = p.mCurParams /\ i \in 1 .. Len(params) /\ Distinct(params)
    BY DEF GoesOn, IsParser
  <1>3. a = params[i] /\ params[i] \in Left(params)
    <2>1. a = p.mCurParams[i]
      BY Zenon DEF IsDispatched
    <2> QED
      BY <1>2, <2>1 DEF Left
  <1>4. q.mCurParams = Seqs!RemoveAt(params, i)
    BY <1>1, <1>2 DEF IsDispatched
  <1>5. Distinct(q.mCurParams) /\ Left(q.mCurParams) = Left(params) \ {a}
    BY <1>2, <1>3, <1>4, LeftOfRemoved
  <1>6. q.mKeepParsing /\ ~q.crashed /\ (q.mSkipNextArg <=> a.mHasValue)
    <2>1. /\ q.mKeepParsing = ~a.mIsTerminator /\ q.crashed = p.crashed
          /\ q.mSkipNextArg = (p.mSkipNextArg \/ a.mHasValue)
      BY Zenon DEF IsDispatched
    <2> QED
      BY <1>1, <2>1 DEF GoesOn
  <1>7. CASE a.mHasValue
    <2>1. behind \notin {NotCounted, Null} /\ q.saved = Save(p.saved, a.mLongName, behind)
      BY <1>1, <1>7 DEF IsDispatched
    <2> QED
      BY <1>2, <1>3, <1>5, <1>6, <1>7, <2>1, Zenon DEF Valued
  <1>8. CASE ~a.mHasValue
    <2>1. q.saved = p.saved
      BY <1>1, <1>8 DEF IsDispatched
    <2>2. \A b \in Left(params) : b.mHasValue => b \in Left(q.mCurParams)
      BY <1>5, <1>8
    <2>3. Left(q.mCurParams) \subseteq Left(params)
      BY <1>5
    <2>4. GoesOn(q, S)
      BY <1>5, <1>6, <1>8, Zenon DEF GoesOn
    <2> QED
      BY <1>2, <1>3, <1>8, <2>1, <2>2, <2>3, <2>4, Zenon DEF Passed
  <1> QED
    BY <1>7, <1>8

LEMMA SwitchesAreParams == ASSUME NEW S, AreSwitches(S) PROVE AreParams(S)
  <1>1. \A a \in S : a.mHasValue \in BOOLEAN /\ a.mIsTerminator = FALSE
    BY Zenon DEF AreSwitches
  <1> QED
    BY <1>1 DEF AreParams

\* Of several short names none has a value.
LEMMA ShortsPassed ==
  ASSUME NEW S, AreSwitches(S), NEW p, GoesOn(p, S), NEW letters \in Seq(STRING),
         NEW q, q = ProcShorts(p, letters)
  PROVE  Refused(q) \/ Passed(p, q, S)
  <1>0. AreParams(S)
    BY SwitchesAreParams
  <1>1. PICK n \in Nat : n = Len(letters)
    OBVIOUS
  <1>2. PICK f : AreShorts(f, p, letters, n) /\ q = f[n]
    BY <1>1, ShortsAre
  <1> DEFINE T == {k \in Nat : k <= n => /\ IsParser(f[k], S)
                                         /\ Refused(f[k]) \/ Passed(p, f[k], S)}
  <1>3. 0 \in T
    <2>1. f[0] = p
      BY <1>2 DEF AreShorts
    <2>2. Passed(p, p, S)
      BY DEF Passed
    <2> QED
      BY <2>1, <2>2 DEF GoesOn
  <1>4. ASSUME NEW k \in T PROVE k + 1 \in T
    <2>1. ASSUME k + 1 <= n
          PROVE  /\ IsParser(f[k + 1], S)
                 /\ Refused(f[k + 1]) \/ Passed(p, f[k + 1], S)
      <3>1. k + 1 \in 0 .. n /\ k + 1 # 0 /\ (k + 1) - 1 = k /\ k <= n
        BY <2>1
      <3>2. PICK r : r = f[k]
        OBVIOUS
      <3>3. PICK s : s = f[k + 1]
        OBVIOUS
      <3>4. PICK name : name = letters[k + 1]
        OBVIOUS
      <3>5. s = ProcShort(r, name)
        BY <1>2, <3>1, <3>2, <3>3, <3>4 DEF AreShorts
      <3>6. IsParser(r, S) /\ (Refused(r) \/ Passed(p, r, S))
        BY <3>1, <3>2
      <3> HIDE DEF T
      <3>7. /\ IsParser(s, S)
            /\ \/ HasFailed(r, s)
               \/ s = r /\ ~r.mKeepParsing
               \/ r.mKeepParsing /\ \E i \in 1 .. Len(r.mCurParams) : \E a \in S :
                      IsDispatched(r, s, i, a, NotCounted)
        BY <1>0, <3>5, <3>6, ProcShortDoes
      <3>8. ASSUME r.mKeepParsing, NEW i \in 1 .. Len(r.mCurParams), NEW a \in S,
                   IsDispatched(r, s, i, a, NotCounted)
            PROVE  Passed(p, s, S)
        <4>1. Passed(p, r, S)
          BY <3>6, <3>8 DEF Refused
        <4>2. GoesOn(r, S)
          BY <4>1 DEF Passed
        <4>3. Passed(r, s, S)
          <5>1. a.mHasValue \in BOOLEAN
            BY DEF AreSwitches
          <5> QED
            BY <3>7, <3>8, <4>2, <5>1, SwitchDispatched
        <4> QED
          BY <4>1, <4>3 DEF Passed
      <3>9. Refused(s) \/ Passed(p, s, S)
        BY <3>6, <3>7, <3>8 DEF HasFailed, Refused, Passed, GoesOn
      <3> QED
        BY <3>3, <3>7, <3>9
    <2> QED
      BY <2>1
  <1>5. T = Nat
    <2> HIDE DEF T
    <2>1. T \in SUBSET Nat
      BY DEF T
    <2> QED
      BY <1>3, <1>4, <2>1, Induction
  <1> QED
    BY <1>2, <1>5

\* An argument that a command does not refuse names a parameter with a value, which is there, or none.
LEMMA SwitchIsRead ==
  ASSUME NEW S, AreSwitches(S), NEW p, GoesOn(p, S), NEW arg \in Arguments, arg.form # "Stop", NEW behind,
         NEW q, q = ProcArgs(p, arg, behind)
  PROVE  \/ Refused(q)
         \/ q.crashed
         \/ Passed(p, q, S) /\ \A a \in S : a.mHasValue => ~Names(arg, a)
         \/ \E a \in S : Valued(p, q, S, a, behind) /\ Names(arg, a)
  <1>0. IsParser(p, S) /\ p.mResult = 0 /\ AreParams(S)
    BY SwitchesAreParams DEF GoesOn, IsParser
  <1>1. CASE arg.form \in {"Slash", "Long"}
    <2>1. q = DispatchNext(p, MatchingArgs(p, arg), behind)
      BY <1>1 DEF ProcArgs
    <2>2. PICK indices : indices = MatchingArgs(p, arg) /\ indices \in SUBSET (1 .. Len(p.mCurParams))
      BY <1>0, MatchesAreLeft
    <2>3. /\ IsParser(q, S)
          /\ \/ HasFailed(p, q)
             \/ q.crashed
             \/ \E i \in indices : \E a \in S : IsDispatched(p, q, i, a, behind)
      BY <1>0, <2>1, <2>2, DispatchNextDoes
    <2>4. ASSUME NEW i \in indices, NEW a \in S, IsDispatched(p, q, i, a, behind)
          PROVE  \/ Passed(p, q, S) /\ \A b \in S : b.mHasValue => ~Names(arg, b)
                 \/ Valued(p, q, S, a, behind) /\ Names(arg, a)
      <3>1. Names(arg, a)
        <4>1. a = p.mCurParams[i]
          BY <2>4 DEF IsDispatched
        <4>2. \/ MatchLongName(p.mCurParams[i], arg.name)
              \/ arg.form = "Slash" /\ MatchShortName(p.mCurParams[i], arg.name)
          BY <2>2, Zenon DEF MatchingArgs
        <4> QED
          BY <1>1, <4>1, <4>2, Zenon DEF Names
      <3>2. i \in 1 .. Len(p.mCurParams)
        BY <2>2
      <3>3. (a.mHasValue => Valued(p, q, S, a, behind)) /\ (~a.mHasValue => Passed(p, q, S))
        BY <2>3, <2>4, <3>2, SwitchDispatched
      <3>4. \A b \in S : Names(arg, b) => b = a
        BY <3>1, Zenon DEF AreSwitches
      <3> QED
        BY <3>1, <3>3, <3>4, Zenon
    <2> QED
      BY <2>3, <2>4, Zenon DEF HasFailed, Refused
  <1>2. CASE arg.form = "LongWithValue"
    <2>1. q = Fails(p)
      BY <1>2 DEF ProcArgs
    <2> QED
      BY <1>0, <2>1, FailsDoes DEF Refused
  <1>3. CASE arg.form = "Shorts"
    <2>1. q = ProcShorts(p, arg.letters)
      BY <1>3 DEF ProcArgs
    <2>2. arg.letters \in Seq(STRING)
      BY DEF Arguments
    <2>3. \A a : ~Names(arg, a)
      BY <1>3 DEF Names
    <2> QED
      BY <2>1, <2>2, <2>3, ShortsPassed, Zenon
  <1>4. CASE arg.form \notin {"Slash", "Long", "LongWithValue", "Shorts", "Stop"}
    <2>1. q = DispatchNext(p, PositionalArgs(p), arg)
      BY <1>4 DEF ProcArgs
    <2>2. PositionalArgs(p) = {}
      <3>1. \A i \in DOMAIN p.mCurParams : p.mCurParams[i] \in S
        BY <1>0 DEF IsParser
      <3> QED
        BY <3>1 DEF PositionalArgs, AreSwitches
    <2>3. q = Fails(p)
      BY <2>1, <2>2 DEF DispatchNext
    <2> QED
      BY <1>0, <2>3, FailsDoes DEF Refused
  <1> QED
    BY <1>1, <1>2, <1>3, <1>4

\* The parameter a is still to be read: no argument up to the index x names it.
IsUnread(p, args, params, a) ==
    /\ a \in Left(p.mCurParams)
    /\ \A i \in 2 .. p.mParseIndex : ~(~IsValueIn(args, params)[i] /\ Names(args[i], a))

\* Or it was read: it is named once, and what stands behind the name was saved.
IsReadAt(p, args, params, a, i) ==
    /\ a \notin Left(p.mCurParams)
    /\ i \in 2 .. p.mParseIndex - 1 /\ ~IsValueIn(args, params)[i] /\ Names(args[i], a)
    /\ \A j \in 2 .. p.mParseIndex : ~IsValueIn(args, params)[j] /\ Names(args[j], a) => j = i
    /\ a.mLongName \in DOMAIN p.saved /\ p.saved[a.mLongName] = args[i + 1]

IsReadOrUnread(p, args, params, a) ==
    IsUnread(p, args, params, a) \/ \E i \in 2 .. Len(args) : IsReadAt(p, args, params, a, i)

\* A parser of the arguments of a command that has not failed is between two arguments, and each
\* parameter with a value was read or is still to be read.
ArgsInv(p, args, params) ==
    p.mResult = 0 =>
        /\ p.mKeepParsing /\ Distinct(p.mCurParams)
        /\ p.mParseIndex \in 1 .. Len(args)
        /\ p.mParseIndex < Len(args) => ~IsValueIn(args, params)[p.mParseIndex + 1]
        /\ \A a \in Left(params) : a.mHasValue =>
              IsReadOrUnread(p, args, params, a)

\* The parameter is as it was if no argument in between names it, and what was saved for it is kept.
LEMMA StaysAsItWas ==
  ASSUME NEW args, NEW params, NEW a, NEW p, NEW q, NEW x \in Nat, NEW y \in Nat, x <= y,
         p.mParseIndex = x, q.mParseIndex = y,
         \A i \in x + 1 .. y : ~(~IsValueIn(args, params)[i] /\ Names(args[i], a)),
         a \in Left(q.mCurParams) <=> a \in Left(p.mCurParams),
         a.mLongName \in DOMAIN p.saved =>
            a.mLongName \in DOMAIN q.saved /\ q.saved[a.mLongName] = p.saved[a.mLongName]
  PROVE  /\ IsUnread(p, args, params, a) => IsUnread(q, args, params, a)
         /\ \A i : IsReadAt(p, args, params, a, i) => IsReadAt(q, args, params, a, i)
  <1> DEFINE N(i) == ~IsValueIn(args, params)[i] /\ Names(args[i], a)
  <1>1. \A i \in x + 1 .. y : ~N(i)
    OBVIOUS
  <1>2. \A i \in 2 .. y : i \in 2 .. x \/ i \in x + 1 .. y
    OBVIOUS
  <1>3. ASSUME IsUnread(p, args, params, a) PROVE IsUnread(q, args, params, a)
    <2>1. a \in Left(q.mCurParams) /\ \A i \in 2 .. x : ~N(i)
      BY <1>3, Zenon DEF IsUnread
    <2>2. \A i \in 2 .. y : ~N(i)
      <3> HIDE DEF N
      <3> QED
        BY <1>1, <1>2, <2>1, Zenon
    <2> QED
      BY <2>1, <2>2, Zenon DEF IsUnread
  <1>4. ASSUME NEW i, IsReadAt(p, args, params, a, i) PROVE IsReadAt(q, args, params, a, i)
    <2>1. /\ a \notin Left(p.mCurParams) /\ i \in 2 .. x - 1 /\ N(i)
          /\ \A j \in 2 .. x : N(j) => j = i
          /\ a.mLongName \in DOMAIN p.saved /\ p.saved[a.mLongName] = args[i + 1]
      BY <1>4, Zenon DEF IsReadAt
    <2>2. i \in 2 .. y - 1
      BY <2>1
    <2>3. \A j \in 2 .. y : N(j) => j = i
      <3> HIDE DEF N
      <3> QED
        BY <1>1, <1>2, <2>1, Zenon
    <2>4. /\ a \notin Left(q.mCurParams)
          /\ a.mLongName \in DOMAIN q.saved /\ q.saved[a.mLongName] = args[i + 1]
      BY <2>1, Zenon
    <2> QED
      BY <2>1, <2>2, <2>3, <2>4, Zenon DEF IsReadAt
  <1> QED
    BY <1>3, <1>4, Zenon

\* A round with an argument that has no value.
LEMMA WithoutValue ==
  ASSUME NEW args \in Seq(Arguments), NEW params, AreSwitches(Left(params)), NEW p, NEW q, NEW x \in Nat,
         x >= 1, x + 1 <= Len(args), p.mParseIndex = x, q.mParseIndex = x + 1,
         Passed(p, q, Left(params)),
         \A a \in Left(params) : a.mHasValue => ~Names(args[x + 1], a),
         NEW a \in Left(params), a.mHasValue, IsReadOrUnread(p, args, params, a)
  PROVE  IsReadOrUnread(q, args, params, a)
  <1>1. \A i \in x + 1 .. x + 1 : ~(~IsValueIn(args, params)[i] /\ Names(args[i], a))
    <2>1. ~Names(args[x + 1], a)
      OBVIOUS
    <2>2. \A i \in x + 1 .. x + 1 : i = x + 1
      OBVIOUS
    <2> QED
      BY <2>1, <2>2, Zenon
  <1>2. a \in Left(q.mCurParams) <=> a \in Left(p.mCurParams)
    BY DEF Passed
  <1>3. q.saved = p.saved
    BY DEF Passed
  <1>4. PICK y \in Nat : y = x + 1 /\ x <= y
    OBVIOUS
  <1>5. /\ q.mParseIndex = y
        /\ \A i \in x + 1 .. y : ~(~IsValueIn(args, params)[i] /\ Names(args[i], a))
        /\ a.mLongName \in DOMAIN p.saved =>
              a.mLongName \in DOMAIN q.saved /\ q.saved[a.mLongName] = p.saved[a.mLongName]
    BY <1>1, <1>3, <1>4, Zenon
  <1>6. /\ IsUnread(p, args, params, a) => IsUnread(q, args, params, a)
        /\ \A i : IsReadAt(p, args, params, a, i) => IsReadAt(q, args, params, a, i)
    BY <1>2, <1>4, <1>5, StaysAsItWas, Zenon
  <1> QED
    BY <1>6, Zenon DEF IsReadOrUnread

\* A round with an argument that has a value, which is the next argument.
LEMMA WithValue ==
  ASSUME NEW args \in Seq(Arguments), NEW params, AreSwitches(Left(params)), NEW p, NEW q, NEW x \in Nat,
         x >= 1, x + 2 <= Len(args), p.mParseIndex = x, q.mParseIndex = x + 2,
         NEW b \in Left(params), b \in Left(p.mCurParams), Names(args[x + 1], b),
         Left(q.mCurParams) = Left(p.mCurParams) \ {b}, q.saved = Save(p.saved, b.mLongName, args[x + 2]),
         ~IsValueIn(args, params)[x + 1], IsValueIn(args, params)[x + 2],
         NEW a \in Left(params), a.mHasValue, IsReadOrUnread(p, args, params, a)
  PROVE  IsReadOrUnread(q, args, params, a)
  <1>1. /\ DOMAIN q.saved = DOMAIN p.saved \cup {b.mLongName} /\ q.saved[b.mLongName] = args[x + 2]
        /\ \A n \in DOMAIN p.saved : n # b.mLongName => q.saved[n] = p.saved[n]
    BY DEF Save
  <1>2. PICK y \in Nat : y = x + 2 /\ x <= y
    OBVIOUS
  <1>3. \A i \in x + 1 .. y : i = x + 1 \/ i = x + 2
    BY <1>2
  <1>4. CASE a = b
    <2> DEFINE N(i) == ~IsValueIn(args, params)[i] /\ Names(args[i], a)
    <2>1. \A j \in 2 .. x : ~N(j)
      <3>1. IsUnread(p, args, params, a)
        BY <1>4, Zenon DEF IsReadOrUnread, IsReadAt
      <3> QED
        BY <3>1, Zenon DEF IsUnread
    <2>2. \A j \in 2 .. y : j \in 2 .. x \/ j = x + 1 \/ j = x + 2
      BY <1>2
    <2>3. N(x + 1) /\ ~N(x + 2)
      BY <1>4, Zenon
    <2>4. \A j \in 2 .. y : N(j) => j = x + 1
      <3> HIDE DEF N
      <3> QED
        BY <2>1, <2>2, <2>3, Zenon
    <2>5. x + 1 \in 2 .. y - 1 /\ x + 1 \in 2 .. Len(args) /\ (x + 1) + 1 = x + 2
      BY <1>2
    <2>6. a \notin Left(q.mCurParams)
      BY <1>4
    <2>7. a.mLongName \in DOMAIN q.saved /\ q.saved[a.mLongName] = args[(x + 1) + 1]
      BY <1>1, <1>4, <2>5
    <2>8. q.mParseIndex = y
      BY <1>2
    <2>9. IsReadAt(q, args, params, a, x + 1)
      BY <2>3, <2>4, <2>5, <2>6, <2>7, <2>8, Zenon DEF IsReadAt
    <2> QED
      BY <2>5, <2>9, Zenon DEF IsReadOrUnread
  <1>5. CASE a # b
    <2>1. ~Names(args[x + 1], a) /\ a.mLongName # b.mLongName
      BY <1>5, Zenon DEF AreSwitches
    <2>2. \A i \in x + 1 .. y : ~(~IsValueIn(args, params)[i] /\ Names(args[i], a))
      BY <1>3, <2>1, Zenon
    <2>3. a \in Left(q.mCurParams) <=> a \in Left(p.mCurParams)
      BY <1>5
    <2>4. a.mLongName \in DOMAIN p.saved =>
              a.mLongName \in DOMAIN q.saved /\ q.saved[a.mLongName] = p.saved[a.mLongName]
      BY <1>1, <2>1
    <2>5. q.mParseIndex = y
      BY <1>2
    <2>6. /\ IsUnread(p, args, params, a) => IsUnread(q, args, params, a)
          /\ \A i : IsReadAt(p, args, params, a, i) => IsReadAt(q, args, params, a, i)
      BY <1>2, <2>2, <2>3, <2>4, <2>5, StaysAsItWas, Zenon
    <2> QED
      BY <2>6, Zenon DEF IsReadOrUnread
  <1> QED
    BY <1>4, <1>5

\* How a round of the loop ends, and what it finds behind the argument.
Advance(r) ==
    [r EXCEPT !.mParseIndex = @ + (IF r.mSkipNextArg THEN 1 ELSE 0) + (IF r.mKeepParsing THEN 1 ELSE 0),
              !.mSkipNextArg = FALSE]
Behind(args, x) == IF x + 1 < Len(args) THEN args[x + 2] ELSE Null
ProcNext(p, args) == ProcArgs(p, args[p.mParseIndex + 1], Behind(args, p.mParseIndex))

HasAdvanced(r, q) ==
    /\ q.mCurParams = r.mCurParams /\ q.mKeepParsing = r.mKeepParsing /\ q.crashed = r.crashed
    /\ q.mResult = r.mResult /\ q.mSkipNextArg = FALSE /\ q.saved = r.saved
    /\ q.mParseIndex = r.mParseIndex + (IF r.mSkipNextArg THEN 1 ELSE 0)
                                     + (IF r.mKeepParsing THEN 1 ELSE 0)

LEMMA AdvanceDoes ==
  ASSUME NEW S, NEW r, IsParser(r, S), NEW q, q = Advance(r)
  PROVE  HasAdvanced(r, q)
  BY DEF IsParser, Members, Advance, HasAdvanced

\* What a round of the loop does to the parser, around ProcArgs.
LEMMA RoundDoes ==
  ASSUME NEW S, AreParams(S), NEW p, IsParser(p, S), NEW args \in Seq(Arguments), HasNextArg(p, args),
         NEW q, q = ParseArg(p, args), NEW r, r = ProcNext(p, args)
  PROVE  IsParser(r, S) /\ r.mParseIndex = p.mParseIndex /\ HasAdvanced(r, q)
  <1>0. PICK x \in Nat : x = p.mParseIndex
    BY DEF IsParser
  <1>1. p.mKeepParsing /\ x + 1 \in 1 .. Len(args)
    BY <1>0 DEF HasNextArg
  <1>2. args[x + 1] \in Arguments
    BY <1>1
  <1>3. q = Advance(r)
    BY Zenon DEF ParseArg, ProcNext, Behind, Advance
  <1>4. IsParser(r, S) /\ r.mParseIndex = p.mParseIndex
    <2>1. r = ProcArgs(p, args[x + 1], Behind(args, x))
      BY <1>0, Zenon DEF ProcNext
    <2> QED
      BY <1>1, <1>2, <2>1, ProcArgsDoes
  <1>5. HasAdvanced(r, q)
    BY <1>3, <1>4, AdvanceDoes, Zenon
  <1> QED
    BY <1>4, <1>5, Zenon

\* The invariant of the parser is kept by a round of the loop.
LEMMA ArgsInvKept ==
  ASSUME NEW params, AreSwitches(Left(params)), DOMAIN params = 1 .. Len(params), NEW args \in Seq(Arguments),
         \A i \in DOMAIN args : args[i].form # "Stop",
         NEW p, IsParser(p, Left(params)), ~p.crashed, ~p.mSkipNextArg, ArgsInv(p, args, params),
         HasNextArg(p, args), NEW q, q = ParseArg(p, args), ~q.crashed
  PROVE  ArgsInv(q, args, params)
  <1> DEFINE S == Left(params)
             V(i) == IsValueIn(args, params)[i]
  <1>1. AreParams(S)
    BY SwitchesAreParams
  <1>2. p.mKeepParsing /\ p.mResult = 0
    BY DEF HasNextArg, IsParser
  <1>3. PICK n \in Nat, x \in Nat : n = Len(args) /\ x = p.mParseIndex /\ 1 <= x /\ x < n
    BY DEF HasNextArg, IsParser, ArgsInv
  <1>4. /\ Distinct(p.mCurParams) /\ ~V(x + 1)
        /\ \A a \in S : a.mHasValue => IsReadOrUnread(p, args, params, a)
    BY <1>2, <1>3, Zenon DEF ArgsInv
  <1>5. PICK arg \in Arguments : arg = args[x + 1] /\ arg.form # "Stop"
    BY <1>3
  <1>6. PICK behind : behind = Behind(args, x)
    OBVIOUS
  <1>7. PICK r : r = ProcArgs(p, arg, behind)
    OBVIOUS
  <1>8. /\ IsParser(r, S)
        /\ q.mCurParams = r.mCurParams /\ q.mKeepParsing = r.mKeepParsing /\ q.crashed = r.crashed
        /\ q.mResult = r.mResult /\ q.mSkipNextArg = FALSE /\ q.saved = r.saved
        /\ q.mParseIndex = x + (IF r.mSkipNextArg THEN 1 ELSE 0) + (IF r.mKeepParsing THEN 1 ELSE 0)
    <2>2. r = ProcNext(p, args)
      BY <1>3, <1>5, <1>6, <1>7, Zenon DEF ProcNext
    <2> HIDE DEF S
    <2>3. IsParser(p, S)
      BY Zenon DEF S
    <2>4. IsParser(r, S) /\ r.mParseIndex = p.mParseIndex /\ HasAdvanced(r, q)
      BY <1>1, <2>2, <2>3, RoundDoes, Zenon
    <2>5. r.mParseIndex = x
      BY <1>3, <2>4
    <2>6. /\ q.mCurParams = r.mCurParams /\ q.mKeepParsing = r.mKeepParsing /\ q.crashed = r.crashed
          /\ q.mResult = r.mResult /\ q.mSkipNextArg = FALSE /\ q.saved = r.saved
      BY <2>4, Zenon DEF HasAdvanced
    <2>7. q.mParseIndex = r.mParseIndex + (IF r.mSkipNextArg THEN 1 ELSE 0)
                                        + (IF r.mKeepParsing THEN 1 ELSE 0)
      BY <2>4, Zenon DEF HasAdvanced
    <2> QED
      BY <2>4, <2>5, <2>6, <2>7
  <1>9. GoesOn(p, S)
    BY <1>2, <1>4 DEF GoesOn
  <1>10. \/ Refused(r)
         \/ r.crashed
         \/ Passed(p, r, S) /\ \A a \in S : a.mHasValue => ~Names(arg, a)
         \/ \E a \in S : Valued(p, r, S, a, behind) /\ Names(arg, a)
    BY <1>5, <1>7, <1>9, SwitchIsRead
  <1>11. \A i \in 1 .. n : V(i) = (i > 2 /\ ~V(i - 1) /\ IsValueOf(args, params, i))
    BY <1>3, ValuesAre
  <1>12. ~r.crashed
    BY <1>8, Zenon
  <1>13. CASE Refused(r)
    BY <1>8, <1>13 DEF Refused, ArgsInv
  <1>14. CASE Passed(p, r, S) /\ \A a \in S : a.mHasValue => ~Names(arg, a)
    <2>1. r.mKeepParsing /\ ~r.mSkipNextArg /\ Distinct(r.mCurParams) /\ r.saved = p.saved
      BY <1>14 DEF Passed, GoesOn
    <2>2. q.mParseIndex = x + 1
      BY <1>8, <2>1
    <2>3. ~IsValueOf(args, params, x + 2)
      <3>1. \A j \in DOMAIN params : params[j] \in S
        BY DEF Left
      <3>2. (x + 2) - 1 = x + 1
        OBVIOUS
      <3> QED
        BY <1>5, <1>14, <3>1, <3>2, Zenon DEF IsValueOf
    <2>4. x + 1 < n => ~V(x + 2)
      <3>1. x + 1 < n => x + 2 \in 1 .. n
        BY <1>3
      <3> QED
        BY <1>11, <2>3, <3>1, Zenon
    <2>5. Passed(p, q, S)
      <3>1. IsParser(q, S)
        BY <1>8, <1>3, <1>1, ParseArgDoes
      <3> QED
        BY <1>8, <1>14, <3>1, Zenon DEF Passed, GoesOn
    <2>6. ASSUME NEW a \in S, a.mHasValue PROVE IsReadOrUnread(q, args, params, a)
      <3>1. x >= 1 /\ x + 1 <= Len(args) /\ p.mParseIndex = x
        BY <1>3
      <3>2. \A b \in Left(params) : b.mHasValue => ~Names(args[x + 1], b)
        BY <1>5, <1>14, Zenon
      <3>3. IsReadOrUnread(p, args, params, a)
        BY <1>4, <2>6, Zenon
      <3> QED
        BY <2>2, <2>5, <2>6, <3>1, <3>2, <3>3, WithoutValue
    <2>7. /\ q.mKeepParsing /\ Distinct(q.mCurParams) /\ q.mParseIndex \in 1 .. Len(args)
          /\ q.mParseIndex < Len(args) => ~IsValueIn(args, params)[q.mParseIndex + 1]
      <3>1. x + 1 \in 1 .. n /\ (x + 1) + 1 = x + 2
        BY <1>3
      <3> QED
        BY <1>3, <1>8, <2>1, <2>2, <2>4, <3>1, Zenon
    <2> QED
      BY <2>6, <2>7, Zenon DEF ArgsInv
  <1>15. ASSUME NEW b \in S, Valued(p, r, S, b, behind), Names(arg, b) PROVE ArgsInv(q, args, params)
    <2>1. r.mKeepParsing /\ r.mSkipNextArg /\ Distinct(r.mCurParams) /\ behind # Null /\ b.mHasValue
      BY <1>15 DEF Valued
    <2>2. q.mParseIndex = x + 2
      BY <1>8, <2>1
    <2>3. x + 1 < n /\ behind = args[x + 2]
      BY <1>3, <1>6, <2>1 DEF Behind
    <2>4. IsValueOf(args, params, x + 2)
      <3>1. PICK j \in DOMAIN params : b = params[j]
        BY DEF Left
      <3>2. (x + 2) - 1 = x + 1
        OBVIOUS
      <3> QED
        BY <1>5, <1>15, <2>1, <3>1, <3>2, Zenon DEF IsValueOf
    <2>5. V(x + 2)
      <3>1. x + 2 \in 1 .. n /\ x + 2 > 2 /\ (x + 2) - 1 = x + 1
        BY <1>3, <2>3
      <3> QED
        BY <1>4, <1>11, <2>4, <3>1, Zenon
    <2>6. x + 2 < n => ~V(x + 3)
      <3>1. x + 2 < n => x + 3 \in 1 .. n /\ (x + 3) - 1 = x + 2
        BY <1>3
      <3> QED
        BY <1>11, <2>5, <3>1, Zenon
    <2>7. Valued(p, r, S, b, args[x + 2])
      BY <1>15, <2>3, Zenon
    <2>8. ASSUME NEW a \in S, a.mHasValue PROVE IsReadOrUnread(q, args, params, a)
      <3>1. x >= 1 /\ x + 2 <= Len(args) /\ p.mParseIndex = x
        BY <1>3, <2>3
      <3>2. IsReadOrUnread(p, args, params, a)
        BY <1>4, <2>8, Zenon
      <3>3. /\ b.mHasValue /\ b \in Left(p.mCurParams)
            /\ Left(q.mCurParams) = Left(p.mCurParams) \ {b}
            /\ q.saved = Save(p.saved, b.mLongName, args[x + 2])
        BY <1>8, <2>7, Zenon DEF Valued
      <3> QED
        BY <1>4, <1>5, <1>15, <2>2, <2>5, <2>8, <3>1, <3>2, <3>3, WithValue
    <2>9. /\ q.mKeepParsing /\ Distinct(q.mCurParams) /\ q.mParseIndex \in 1 .. Len(args)
          /\ q.mParseIndex < Len(args) => ~IsValueIn(args, params)[q.mParseIndex + 1]
      <3>1. x + 2 \in 1 .. n /\ (x + 2) + 1 = x + 3
        BY <1>3, <2>3
      <3> QED
        BY <1>3, <1>8, <2>1, <2>2, <2>6, <3>1, Zenon
    <2> QED
      BY <2>8, <2>9, Zenon DEF ArgsInv
  <1> QED
    BY <1>10, <1>12, <1>13, <1>14, <1>15, Zenon

\* It holds when a command begins.
LEMMA ArgsInvStarts ==
  ASSUME NEW params, params \in Seq(Left(params)), NEW args \in Seq(Arguments), Len(args) >= 1,
         \A i, j \in DOMAIN params : params[i].mLongName = params[j].mLongName => i = j
  PROVE  ArgsInv(StartedParser(params), args, params)
  <1>1. PICK p : p = StartedParser(params)
    OBVIOUS
  <1>2. p.mCurParams = params /\ p.mParseIndex = 1 /\ p.mKeepParsing
    BY <1>1 DEF StartedParser
  <1>3. Distinct(params)
    BY DEF Distinct
  <1>4. 1 \in 1 .. Len(args)
    OBVIOUS
  <1>5. 1 < Len(args) => ~IsValueIn(args, params)[1 + 1]
    <2>1. 1 < Len(args) => 2 \in 1 .. Len(args)
      OBVIOUS
    <2>2. Len(args) \in Nat /\ ~(2 > 2) /\ 1 + 1 = 2
      OBVIOUS
    <2> QED
      BY <2>1, <2>2, ValuesAre, Zenon
  <1>6. ASSUME NEW a \in Left(params) PROVE IsReadOrUnread(p, args, params, a)
    <2>1. 2 .. 1 = {}
      OBVIOUS
    <2>2. IsUnread(p, args, params, a)
      BY <1>2, <2>1, Zenon DEF IsUnread
    <2> QED
      BY <2>2, Zenon DEF IsReadOrUnread
  <1> QED
    BY <1>1, <1>2, <1>3, <1>4, <1>5, <1>6, Zenon DEF ArgsInv

\* When the arguments have ended, the values are what was written.
LEMMA ArgsInvEnds ==
  ASSUME NEW params, params \in Seq(Left(params)), AreSwitches(Left(params)), NEW args \in Seq(Arguments),
         NEW p, IsParser(p, Left(params)), ~p.crashed, ArgsInv(p, args, params), ~HasNextArg(p, args),
         NEW q, q = FinishParse(p), q.mResult = 0
  PROVE  IsReadFrom(q.saved, args, params)
  <1> DEFINE S == Left(params)
             N(a, i) == ~IsValueIn(args, params)[i] /\ Names(args[i], a)
  <1>1. p.mKeepParsing
    <2>1. ~p.mKeepParsing => q = p
      BY FinishParseDoes
    <2> QED
      BY <2>1, Zenon DEF ArgsInv
  <1>2. p.mResult = 0
    BY <1>1 DEF IsParser
  <1>3. /\ Distinct(p.mCurParams) /\ p.mParseIndex \in 1 .. Len(args)
        /\ \A a \in S : a.mHasValue => IsReadOrUnread(p, args, params, a)
    BY <1>2, Zenon DEF ArgsInv
  <1>4. p.mParseIndex = Len(args)
    BY <1>1, <1>3 DEF HasNextArg
  <1>5. PICK left \in Seq(S) : left = p.mCurParams
    BY DEF IsParser
  <1>6. \A i, j \in DOMAIN left : left[i].mLongName = left[j].mLongName => i = j
    <2>1. ASSUME NEW i \in DOMAIN left, NEW j \in DOMAIN left, left[i].mLongName = left[j].mLongName
          PROVE  i = j
      <3>1. left[i] \in S /\ left[j] \in S
        OBVIOUS
      <3>2. left[i] = left[j]
        BY <2>1, <3>1, Zenon DEF AreSwitches
      <3> QED
        BY <1>3, <1>5, <3>2, Zenon DEF Distinct
    <2> QED
      BY <2>1
  <1>7. DefaultsAreSaved(p, q, left, Len(left))
    BY <1>1, <1>5, <1>6, FinishParseDoes
  <1>8. DOMAIN left = 1 .. Len(left)
    OBVIOUS
  <1>9. ASSUME NEW k \in DOMAIN params, NEW a, a = params[k], a.saves
        PROVE  /\ a.mLongName \in DOMAIN q.saved
               /\ \/ /\ NamedAt(args, params, a) = {} /\ a.mIsOptional
                     /\ q.saved[a.mLongName] = a.mDefaultValue
                  \/ \E i \in NamedAt(args, params, a) :
                        /\ NamedAt(args, params, a) = {i} /\ i < Len(args)
                        /\ q.saved[a.mLongName] = args[i + 1]
    <2>1. a \in S
      BY <1>9 DEF Left
    <2>2. a.mHasValue
      BY <1>9, <2>1, Zenon DEF AreSwitches
    <2>3. \A i : i \in NamedAt(args, params, a) <=> i \in 2 .. Len(args) /\ N(a, i)
      BY Zenon DEF NamedAt
    <2>4. CASE IsUnread(p, args, params, a)
      <3>1. a \in Left(left) /\ \A i \in 2 .. Len(args) : ~N(a, i)
        BY <1>4, <1>5, <2>4, Zenon DEF IsUnread
      <3>2. PICK j \in 1 .. Len(left) : a = left[j]
        BY <1>8, <3>1, Zenon DEF Left
      <3>3. /\ a.mIsOptional /\ a.mLongName \in DOMAIN q.saved
            /\ q.saved[a.mLongName] = a.mDefaultValue
        BY <1>7, <1>9, <2>2, <3>2, Zenon DEF DefaultsAreSaved
      <3>4. NamedAt(args, params, a) = {}
        BY <2>3, <3>1, Zenon
      <3> QED
        BY <3>3, <3>4, Zenon
    <2>5. ASSUME NEW i \in 2 .. Len(args), IsReadAt(p, args, params, a, i)
          PROVE  /\ a.mLongName \in DOMAIN q.saved
                 /\ i \in NamedAt(args, params, a) /\ NamedAt(args, params, a) = {i} /\ i < Len(args)
                 /\ q.saved[a.mLongName] = args[i + 1]
      <3>1. /\ a \notin Left(left) /\ i \in 2 .. Len(args) - 1 /\ N(a, i)
            /\ \A j \in 2 .. Len(args) : N(a, j) => j = i
            /\ a.mLongName \in DOMAIN p.saved /\ p.saved[a.mLongName] = args[i + 1]
        BY <1>4, <1>5, <2>5, Zenon DEF IsReadAt
      <3>2. i \in 2 .. Len(args) /\ i < Len(args)
        BY <3>1
      <3>3. \A j \in 1 .. Len(left) : left[j].mLongName # a.mLongName
        <4>1. ASSUME NEW j \in 1 .. Len(left), left[j].mLongName = a.mLongName PROVE FALSE
          <5>1. left[j] \in S /\ left[j] \in Left(left)
            BY <1>8 DEF Left
          <5>2. left[j] = a
            BY <2>1, <4>1, <5>1, Zenon DEF AreSwitches
          <5> QED
            BY <3>1, <5>1, <5>2, Zenon
        <4> QED
          BY <4>1, Zenon
      <3>4. a.mLongName \in DOMAIN q.saved /\ q.saved[a.mLongName] = p.saved[a.mLongName]
        BY <1>7, <3>1, <3>3, Zenon DEF DefaultsAreSaved
      <3>5. i \in NamedAt(args, params, a) /\ \A j \in NamedAt(args, params, a) : j = i
        BY <2>3, <3>1, <3>2, Zenon
      <3>6. NamedAt(args, params, a) = {i}
        BY <3>5, Zenon
      <3> QED
        BY <3>1, <3>2, <3>4, <3>5, <3>6, Zenon
    <2>6. IsReadOrUnread(p, args, params, a)
      BY <1>3, <2>1, <2>2, Zenon
    <2> QED
      BY <2>4, <2>5, <2>6, Zenon DEF IsReadOrUnread
  <1> QED
    BY <1>9, Zenon DEF IsReadFrom

-----------------------------------------------------------------------------
(* The arguments of the program and of its commands *)

\* The parser of a command has its parameters, and has not lost a value.
CommandInv ==
    stage \in {"parse", "validate-spec"} =>
        /\ IsParser(parser, Left(ParamsOf(stage)))
        /\ (\A i \in DOMAIN argv : argv[i].form # "Stop") => ArgsInv(parser, argv, ParamsOf(stage))

ParserInv ==
    /\ argv \in Seq(Arguments)
    /\ stage \in Stages /\ ret \in {0, 1}
    /\ \E S : AreParams(S) /\ IsParser(parser, S)
    /\ parser.mParseIndex \in 1 .. Len(argv) + 1 /\ ~parser.mSkipNextArg
    /\ parser.crashed <=> stage = "Crashed"
    /\ CommandInv

LEMMA ParserInitially == ApplicationInit => ParserInv
  <1> SUFFICES ASSUME ApplicationInit PROVE ParserInv
    OBVIOUS
  <1>1. argv \in Seq(Arguments) /\ parser = StartedParser(MainParams) /\ stage = "Main" /\ ret = 0
    BY ApplicationAssumption DEF ApplicationInit
  <1>2. MainParams \in Seq(Left(MainParams)) /\ AreParams(Left(MainParams))
    BY MainSwitches
  <1>3. /\ IsParser(parser, Left(MainParams)) /\ parser.mParseIndex = 1
        /\ ~parser.mSkipNextArg /\ ~parser.crashed
    BY <1>1, <1>2, Started
  <1>4. 1 \in 1 .. Len(argv) + 1
    BY <1>1
  <1> QED
    BY <1>1, <1>2, <1>3, <1>4 DEF ParserInv, CommandInv, Stages

LEMMA CommandParses ==
  ASSUME NEW args \in Seq(Arguments), NEW command, NEW p, IsParser(p, Left(ParamsOf(command))),
         ~p.crashed, ~p.mSkipNextArg, HasNextArg(p, args),
         NEW q, q = ParseArg(p, args), ~q.crashed, \A i \in DOMAIN args : args[i].form # "Stop",
         ArgsInv(p, args, ParamsOf(command))
  PROVE  ArgsInv(q, args, ParamsOf(command))
  <1>1. PICK params : params = ParamsOf(command)
    OBVIOUS
  <1>2. params \in Seq(Left(params)) /\ AreSwitches(Left(params))
    BY <1>1, CommandsHaveSwitches, Zenon
  <1>3. DOMAIN params = 1 .. Len(params)
    BY <1>2
  <1>4. ArgsInv(p, args, params) /\ IsParser(p, Left(params))
    BY <1>1
  <1>5. ArgsInv(q, args, params)
    BY <1>2, <1>3, <1>4, ArgsInvKept, Zenon
  <1> QED
    BY <1>1, <1>5

LEMMA ParserParses == ParserInv /\ ParsesArguments => ParserInv'
  <1> SUFFICES ASSUME ParserInv, ParsesArguments PROVE ParserInv'
    OBVIOUS
  <1>1. PICK S : AreParams(S) /\ IsParser(parser, S)
    BY DEF ParserInv
  <1>2. /\ argv \in Seq(Arguments) /\ HasNextArg(parser, argv) /\ parser.mParseIndex \in 1 .. Len(argv) + 1
        /\ parser' = ParseArg(parser, argv) /\ argv' = argv /\ ret' = ret /\ ret \in {0, 1}
        /\ stage \in {"Main", "parse", "validate-spec"}
        /\ stage' = IF parser'.crashed THEN "Crashed" ELSE stage
        /\ ~parser.crashed /\ ~parser.mSkipNextArg
    BY DEF ParserInv, ParsesArguments
  <1>3. IsParser(parser', S) /\ parser'.mParseIndex \in 1 .. Len(argv) + 1 /\ ~parser'.mSkipNextArg
    BY <1>1, <1>2, ParseArgDoes
  <1>4. parser'.crashed \in BOOLEAN
    BY <1>3 DEF IsParser
  <1>5. stage' \in Stages /\ (parser'.crashed <=> stage' = "Crashed")
    BY <1>2, <1>4 DEF Stages
  <1>6. CommandInv'
    <2> SUFFICES ASSUME stage' \in {"parse", "validate-spec"}
                 PROVE  /\ IsParser(parser', Left(ParamsOf(stage)))
                        /\ (\A i \in DOMAIN argv : argv[i].form # "Stop") =>
                                ArgsInv(parser', argv, ParamsOf(stage))
      BY <1>2, <1>5 DEF CommandInv
    <2>1. stage' = stage /\ ~parser'.crashed
      BY <1>2, <1>5
    <2>2. /\ IsParser(parser, Left(ParamsOf(stage)))
          /\ (\A i \in DOMAIN argv : argv[i].form # "Stop") => ArgsInv(parser, argv, ParamsOf(stage))
      BY <2>1 DEF ParserInv, CommandInv
    <2>3. AreParams(Left(ParamsOf(stage)))
      BY CommandsHaveSwitches, SwitchesAreParams
    <2>4. IsParser(parser', Left(ParamsOf(stage)))
      BY <1>2, <2>2, <2>3, ParseArgDoes
    <2>5. ASSUME \A i \in DOMAIN argv : argv[i].form # "Stop" PROVE ArgsInv(parser', argv, ParamsOf(stage))
      BY <1>2, <2>1, <2>2, <2>5, CommandParses
    <2> QED
      BY <2>4, <2>5
  <1> QED
    BY <1>1, <1>2, <1>3, <1>5, <1>6 DEF ParserInv

LEMMA ParserRunsCommand == ParserInv /\ RunsCommand => ParserInv'
  <1> SUFFICES ASSUME ParserInv, RunsCommand PROVE ParserInv'
    OBVIOUS
  <1>1. PICK n \in Nat, x \in Nat : n = Len(argv) /\ x = parser.mParseIndex /\ x < n /\ x >= 1
    BY DEF ParserInv, RunsCommand
  <1>2. /\ argv \in Seq(Arguments) /\ argv' = SubSeq(argv, x + 1, n)
        /\ Command \in {Plain("parse"), Plain("validate-spec")} /\ stage' = Command.name
        /\ parser' = StartedParser(ParamsOf(stage')) /\ ret' = ret /\ ret \in {0, 1}
    BY <1>1 DEF ParserInv, RunsCommand
  <1>3. argv' \in Seq(Arguments) /\ Len(argv') >= 1
    BY <1>1, <1>2
  <1>4. stage' \in {"parse", "validate-spec"}
    BY <1>2 DEF Plain, Argument
  <1>5. PICK params : params = ParamsOf(stage')
    OBVIOUS
  <1>6. /\ params \in Seq(Left(params)) /\ AreSwitches(Left(params))
        /\ \A i, j \in DOMAIN params : params[i].mLongName = params[j].mLongName => i = j
    BY <1>5, CommandsHaveSwitches
  <1>7. /\ IsParser(parser', Left(params)) /\ parser'.mParseIndex = 1
        /\ ~parser'.mSkipNextArg /\ ~parser'.crashed
    BY <1>2, <1>5, <1>6, Started
  <1>8. AreParams(Left(params))
    BY <1>6, SwitchesAreParams
  <1>9. ArgsInv(parser', argv', params)
    BY <1>2, <1>3, <1>5, <1>6, ArgsInvStarts
  <1>10. 1 \in 1 .. Len(argv') + 1
    BY <1>3
  <1>11. CommandInv'
    BY <1>5, <1>7, <1>9 DEF CommandInv
  <1> QED
    BY <1>2, <1>3, <1>4, <1>7, <1>8, <1>10, <1>11 DEF ParserInv, Stages

\* The code that refused arguments make is 1.
LEMMA RefusedIsOne == ASSUME ParserInv PROVE FinishParse(parser).mResult \in {0, 1}
  <1>1. PICK S : IsParser(parser, S)
    BY DEF ParserInv
  <1> QED
    BY <1>1, FinishParseDoes

LEMMA ParserStep == ParserInv /\ [ApplicationNext]_appVars => ParserInv'
  <1> SUFFICES ASSUME ParserInv, [ApplicationNext]_appVars PROVE ParserInv'
    OBVIOUS
  <1>1. ASSUME NEW code \in {0, 1}, Exits(code), stage \notin {"Exited", "Crashed"} PROVE ParserInv'
    BY <1>1 DEF Exits, ParserInv, CommandInv, Stages
  <1>2. CASE ParsesArguments
    BY <1>2, ParserParses
  <1>3. CASE RunsCommand
    BY <1>3, ParserRunsCommand
  <1>4. CASE RefusesArguments \/ HelpsOrTests \/ RefusesCommand \/ CmdValidateSpec
             \/ CmdParseFails \/ RefusesSpecification \/ DataIsRead
    <2>1. stage \notin {"Exited", "Crashed"} /\ \E code \in {0, 1} : Exits(code)
      BY <1>4, RefusedIsOne DEF RefusesArguments, HelpsOrTests, RefusesCommand, CmdValidateSpec,
             CmdParseFails, RefusesSpecification, OpensFiles, ArgumentsAreRead, DataIsRead
    <2> QED
      BY <1>1, <2>1
  <1>5. CASE ReadsSpecification
    <2>1. stage = "parse" /\ stage' = "Reading" /\ UNCHANGED <<argv, parser, ret>>
      BY <1>5 DEF ReadsSpecification, OpensFiles, ArgumentsAreRead
    <2> QED
      BY <2>1 DEF ParserInv, CommandInv, Stages
  <1>6. CASE UNCHANGED appOnlyVars
    BY <1>6 DEF appOnlyVars, ParserInv, CommandInv
  <1>7. ReadStream \/ UNCHANGED appVars => UNCHANGED appOnlyVars
    BY DEF ReadStream, appVars
  <1> QED
    BY <1>2, <1>3, <1>4, <1>5, <1>6, <1>7 DEF ApplicationNext, Executes, Ended

LEMMA ParserInvAlways == ApplicationSpec => []ParserInv
  BY ParserInitially, ParserStep, PTL DEF ApplicationSpec

\* The program keeps its types: the parser of arguments does not leave the command line, except after the
\* last argument, and only the null pointer behind it stops the program before its end.
THEOREM ApplicationIsTyped == ApplicationSpec => []ApplicationTypeOK
  <1>1. AInv /\ ParserInv => ApplicationTypeOK
    <2> SUFFICES ASSUME AInv, ParserInv PROVE ApplicationTypeOK
      OBVIOUS
    <2>1. DataTypeOK
      BY DEF AInv, DInv
    <2>2. parser.mResult \in {0, 1}
      BY DEF ParserInv, IsParser
    <2> QED
      BY <2>1, <2>2 DEF ParserInv, ApplicationTypeOK
  <1> QED
    BY <1>1, AInvAlways, ParserInvAlways, PTL

\* What a command was told is what was written, of any command line without "--": each value stands behind
\* the name of its parameter, which is there once, or is the default of a parameter that nothing names.
THEOREM ValuesWereWritten == ApplicationSpec => []ValuesAreWhatWasWritten
  <1>1. ParserInv => ValuesAreWhatWasWritten
    <2> SUFFICES ASSUME ParserInv, stage \in {"parse", "validate-spec"}, ArgumentsEnd,
                        FinishParse(parser).mResult = 0, \A i \in DOMAIN argv : argv[i].form # "Stop"
                 PROVE  IsReadFrom(FinishParse(parser).saved, argv, ParamsOf(stage))
      BY DEF ValuesAreWhatWasWritten
    <2>1. PICK params : params = ParamsOf(stage)
      OBVIOUS
    <2>2. params \in Seq(Left(params)) /\ AreSwitches(Left(params))
      BY <2>1, CommandsHaveSwitches, Zenon
    <2>3. /\ argv \in Seq(Arguments) /\ IsParser(parser, Left(params)) /\ ~parser.crashed
          /\ ArgsInv(parser, argv, params)
      BY <2>1 DEF ParserInv, CommandInv
    <2>4. ~HasNextArg(parser, argv)
      BY DEF ArgumentsEnd
    <2>5. PICK q : q = FinishParse(parser)
      OBVIOUS
    <2>6. IsReadFrom(q.saved, argv, params)
      BY <2>2, <2>3, <2>4, <2>5, ArgsInvEnds
    <2> QED
      BY <2>1, <2>5, <2>6, Zenon
  <1> QED
    BY <1>1, ParserInvAlways, PTL
=============================================================================
