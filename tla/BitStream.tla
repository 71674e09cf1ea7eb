------------------------------ MODULE BitStream -------------------------------
(***************************************************************************)
(* Bfdp::Stream::StreamBase, of which RawStream is the instance in use:    *)
(* reads an input stream chunk by chunk into a buffer of two chunks, and   *)
(* offers an observer what is unprocessed as a stream of bits, as often as *)
(* the observer asks to continue.                                          *)
(*                                                                         *)
(* ReadStream is Start, Continue as long as it can, and End.  The observer *)
(* is called back by Continue; it reads from the bit stream and returns a  *)
(* control.  The bytes of the input are numbered, and so are its bits: the *)
(* buffer holds the numbers of the bytes that are in it.                   *)
(*                                                                         *)
(* mBufferDataOffset is zero whenever Continue is called, for one sequence *)
(* is read.  std::memcpy moves overlapping data as the comment beside it   *)
(* assumes.                                                                *)
(***************************************************************************)
EXTENDS Integers, Sequences

CONSTANTS
    BitsPerByte,       \* 8 in the code
    mChunkSize,        \* bytes that are read at a time
    MaxLength          \* bound: bytes of input

ASSUME BitStreamAssumption ==
    /\ BitsPerByte \in Nat \ {0} /\ mChunkSize \in Nat \ {0} /\ MaxLength \in Nat

Capacity == 2 * mChunkSize

Controls == {"Continue", "NoData", "Stop", "Error"}

VARIABLES
    length,            \* bytes of the input
    mIn,               \* "good", or why it is not: "eof" or "bad"
    received,          \* bytes of the input that were read from it
    buffer,            \* the numbers of the unprocessed bytes in mBuffer
    mBufferPositionBits, mHasError, mLastControlCode,
    mTotalProcessedBytes, mTotalProcessedBits,
    phase,             \* "Idle", "Continue" before each call of it, "Loop" at the head of its
                       \* while, "Callback", "Update" after the loop, "Ending" and "Done"
    startPositionBits, control,    \* Continue's locals
    position,          \* of the bit stream that the observer reads from
    taken              \* history: the numbers of the bits that the observer has read

inputVars == <<length, mIn, received>>
totals == <<mTotalProcessedBytes, mTotalProcessedBits>>
streamVars == <<mBufferPositionBits, mHasError, mLastControlCode,
                mTotalProcessedBytes, mTotalProcessedBits>>
localVars == <<startPositionBits, control, position>>
vars == <<inputVars, buffer, streamVars, phase, localVars, taken>>

DataBits == Len(buffer) * BitsPerByte
BitsTillEnd == DataBits - position

\* The number of the bit at a position of the bit stream.
BitAt(p) == buffer[p \div BitsPerByte + 1] * BitsPerByte + (p % BitsPerByte)

TypeOK ==
    /\ length \in 0 .. MaxLength /\ received \in 0 .. length
    /\ mIn \in {"good", "eof", "bad"}
    /\ buffer \in Seq(Nat) /\ Len(buffer) <= Capacity
    /\ mBufferPositionBits \in 0 .. Capacity * BitsPerByte
    /\ mHasError \in BOOLEAN /\ mLastControlCode \in Controls
    /\ mTotalProcessedBytes \in Nat /\ mTotalProcessedBits \in 0 .. BitsPerByte - 1
    /\ phase \in {"Idle", "Continue", "Loop", "Callback", "Update", "Ending", "Done"}
    /\ startPositionBits \in 0 .. mBufferPositionBits
    /\ control \in Controls
    /\ position \in 0 .. Capacity * BitsPerByte
    /\ taken \in Seq(Nat)

Init ==
    /\ length \in 0 .. MaxLength /\ received = 0 /\ mIn = "good"
    /\ buffer = <<>> /\ mBufferPositionBits = 0
    /\ mHasError = FALSE /\ mLastControlCode = "Continue"
    /\ mTotalProcessedBytes = 0 /\ mTotalProcessedBits = 0
    /\ phase = "Idle"
    /\ startPositionBits = 0 /\ control = "Continue" /\ position = 0
    /\ taken = <<>>

-----------------------------------------------------------------------------

ReadSequenceStart ==
    /\ phase = "Idle"
    /\ phase' = "Continue" /\ mHasError' = FALSE
    /\ UNCHANGED <<inputVars, buffer, mBufferPositionBits, mLastControlCode, totals, localVars, taken>>

\* SetDataBytes or SeekBits fails.
OutOfSync ==
    /\ phase = "Continue"
    /\ Len(buffer) > Capacity \/ mBufferPositionBits > DataBits
    /\ phase' = "Ending" /\ mHasError' = TRUE
    /\ UNCHANGED <<inputVars, buffer, mBufferPositionBits, mLastControlCode, totals, localVars, taken>>

ReadSequenceContinue ==
    /\ phase = "Continue"
    /\ Len(buffer) <= Capacity /\ mBufferPositionBits <= DataBits
    /\ phase' = "Loop"
    /\ startPositionBits' = mBufferPositionBits /\ position' = mBufferPositionBits
    /\ control' = "Continue"
    /\ UNCHANGED <<inputVars, buffer, streamVars, taken>>

OnStreamData ==
    /\ phase = "Loop" /\ BitsTillEnd > 0
    /\ phase' = "Callback"
    /\ UNCHANGED <<inputVars, buffer, streamVars, localVars, taken>>

NothingToOffer ==
    /\ phase = "Loop" /\ BitsTillEnd = 0
    /\ phase' = "Update"
    /\ UNCHANGED <<inputVars, buffer, streamVars, localVars, taken>>

\* The observer reads bits.
Reads(n) ==
    /\ phase = "Callback" /\ mBufferPositionBits <= position /\ n <= BitsTillEnd
    /\ position' = position + n
    /\ taken' = taken \o [i \in 1 .. n |-> BitAt(position + i - 1)]
    /\ UNCHANGED <<inputVars, buffer, streamVars, phase, startPositionBits, control>>

\* The observer goes back behind the position it was called at, although it is expected only to
\* read, and does not read after that.
SeeksBack(p) ==
    /\ phase = "Callback" /\ p < mBufferPositionBits
    /\ position' = p
    /\ UNCHANGED <<inputVars, buffer, streamVars, phase, startPositionBits, control, taken>>

\* Mutant: the implicit NoData is not detected.
ReturnsUndetected(answer) ==
    /\ phase = "Callback"
    /\ mLastControlCode' = answer
    /\ IF position < mBufferPositionBits
       THEN phase' = "Ending" /\ mHasError' = TRUE /\ UNCHANGED <<mBufferPositionBits, control>>
       ELSE /\ control' = answer
            /\ mBufferPositionBits' = position
            /\ phase' = IF control' = "Continue" THEN "Loop" ELSE "Update"
            /\ UNCHANGED mHasError
    /\ UNCHANGED <<inputVars, buffer, totals, startPositionBits, position, taken>>

\* The observer returns.  To continue without having read is the same as NoData, but is
\* remembered as it was.
Returns(answer) ==
    /\ phase = "Callback"
    /\ mLastControlCode' = answer
    /\ IF position < mBufferPositionBits
       THEN phase' = "Ending" /\ mHasError' = TRUE /\ UNCHANGED <<mBufferPositionBits, control>>
       ELSE /\ control' = IF position = mBufferPositionBits /\ answer = "Continue" THEN "NoData"
                          ELSE answer
            /\ mBufferPositionBits' = position
            /\ phase' = IF control' = "Continue" THEN "Loop" ELSE "Update"
            /\ UNCHANGED mHasError
    /\ UNCHANGED <<inputVars, buffer, totals, startPositionBits, position, taken>>

\* Mutant: bits that make up a byte are not carried into the bytes.
CountWithoutCarry ==
    LET processed == mBufferPositionBits - startPositionBits
    IN  /\ mTotalProcessedBytes' = mTotalProcessedBytes + processed \div BitsPerByte
        /\ mTotalProcessedBits' = (mTotalProcessedBits + processed) % BitsPerByte

Count ==
    LET bits == mTotalProcessedBits + mBufferPositionBits - startPositionBits
    IN  /\ mTotalProcessedBytes' = mTotalProcessedBytes + bits \div BitsPerByte
        /\ mTotalProcessedBits' = bits % BitsPerByte

\* The bytes that were read to their end are dropped.  The position in the buffer does not follow
\* the data that moves to its beginning.
Remaining == SubSeq(buffer, mBufferPositionBits \div BitsPerByte + 1, Len(buffer))

\* Mutant: the data may be larger than the room.
HasRoomOffByOne == Capacity - Len(Remaining) + 1 >= mChunkSize

\* A whole chunk fits behind the unprocessed data.
HasRoom == Capacity - Len(Remaining) >= mChunkSize

Goes == control \notin {"Error", "Stop"}

\* The counters are brought up to date before anything else.
Update ==
    /\ phase = "Update"
    /\ Count
    /\ UNCHANGED <<length, mBufferPositionBits, mLastControlCode, localVars, taken>>

Ends(hasError) ==
    /\ Update
    /\ buffer' = Remaining
    /\ phase' = "Ending" /\ mHasError' = hasError
    /\ UNCHANGED <<mIn, received>>

Interrupted == ~Goes /\ Ends(mHasError \/ control = "Error")

Exhausted == Goes /\ mIn # "good" /\ Ends(mHasError \/ mIn = "bad")

Overflows == Goes /\ mIn = "good" /\ ~HasRoom /\ Ends(TRUE)

\* The next bytes of the input, as many as were asked for unless it ends or fails.
ReadImpl(n) ==
    /\ n <= length - received
    /\ received' = received + n
    /\ \/ n = mChunkSize /\ mIn' = "good"
       \/ n < mChunkSize /\ n = length - received /\ mIn' = "eof"
       \/ n < mChunkSize /\ mIn' = "bad"

Refills(n) ==
    /\ Goes /\ mIn = "good" /\ HasRoom
    /\ Update
    /\ ReadImpl(n)
    /\ buffer' = Remaining \o [i \in 1 .. n |-> received + i - 1]
    /\ phase' = "Continue"
    /\ UNCHANGED mHasError

ReadSequenceEnd ==
    /\ phase = "Ending"
    /\ phase' = "Done"
    /\ mHasError' = (mHasError \/ (mLastControlCode = "Continue" /\ buffer # <<>>))
    /\ UNCHANGED <<inputVars, buffer, mBufferPositionBits, mLastControlCode, totals, localVars, taken>>

-----------------------------------------------------------------------------

\* The code of ReadStream.
Progress ==
    \/ OutOfSync \/ ReadSequenceContinue \/ OnStreamData \/ NothingToOffer
    \/ Interrupted \/ Exhausted \/ Overflows \/ \E n \in 0 .. mChunkSize : Refills(n)
    \/ ReadSequenceEnd

\* Any observer.
ObserverReturns == \E answer \in Controls : Returns(answer)

Observer ==
    \/ \E n \in 1 .. Capacity * BitsPerByte : Reads(n)
    \/ \E p \in 0 .. Capacity * BitsPerByte : SeeksBack(p)
    \/ ObserverReturns

\* A stream object reads one sequence.
Terminated == phase = "Done" /\ UNCHANGED vars

Next == ReadSequenceStart \/ Progress \/ Observer \/ Terminated

Safety == Init /\ [][Next]_vars

\* ReadStream does not wait for anything, and the observer returns.
Spec == Safety /\ WF_vars(Progress) /\ WF_vars(ObserverReturns)

-----------------------------------------------------------------------------
(* Properties *)

TotalProcessed == mTotalProcessedBytes * BitsPerByte + mTotalProcessedBits

\* The totals, whole bytes and the bits beyond them, are the bits the observer has read, up to
\* the last call of Continue, unless the observer went back: reads that end within a byte are
\* carried from one call of Continue to the next.
TotalIsWhatWasTaken ==
    /\ mTotalProcessedBits < BitsPerByte
    /\ phase \in {"Continue", "Ending", "Done"} /\ mBufferPositionBits <= position =>
           TotalProcessed = Len(taken)

\* IStreamObserver: after the data is exhausted, more data will be read before the callback is
\* called again; the observer is handed the bits of the input, one after the other.
HandedOverInOrder == \A i \in 1 .. Len(taken) : taken[i] = i - 1

\* ReadStream returns, whatever the observer answers and however little it reads.
EveryReadEnds == phase = "Continue" ~> phase = "Done"
=============================================================================
