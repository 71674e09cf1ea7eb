----------------------------- MODULE ParsePositions -----------------------------
(***************************************************************************)
(* The loop of BfsdlParser::ParseStream over the chunks of a stream, with  *)
(* the ParsePosition that tells where a parse error is and the ByteWindow  *)
(* of what stands before it.                                               *)
(*                                                                         *)
(* The Tokenizer is arbitrary here: it takes some of the bytes it is       *)
(* given, or fails behind some of them.  It may also wait for more; the    *)
(* Tokenizer of the program does not, as ASCII has no code of two bytes.   *)
(* The other side of the loop, with this Tokenizer and without the chunks, *)
(* is StreamParser.tla.                                                    *)
(***************************************************************************)
EXTENDS Integers, Sequences, FiniteSets

CONSTANTS
    Streams,           \* bound: what the streams contain
    aChunkSize,
    aPretextLen,       \* how much is shown before an error: 10 in the code
    aPosttextLen,      \* and behind it: 6
    Pushes             \* bound: the data pushed at once into a window

Newlines == {10, 13}

ASSUME ParsePositionsAssumption ==
    /\ Streams \subseteq Seq(Nat) /\ Pushes \subseteq Seq(Nat)
    /\ aChunkSize \in Nat \ {0} /\ aPretextLen \in Nat /\ aPosttextLen \in Nat

VARIABLES
    stream, consumed,  \* the stream, and how many of its bytes were read
    buf, dataStart, bytesRead, i,
    window, mNewlineChar, mCurLineNumber, remainder,      \* the position
    stage,             \* "Read", "Parse", "Failed" or "Done"
    parsed, waited     \* history: the bytes the parser took, and whether it waited for more

positionVars == <<window, mNewlineChar, mCurLineNumber, remainder>>
posVars == <<stream, consumed, buf, dataStart, bytesRead, i, positionVars, stage, parsed, waited>>

Least(a, b) == IF a < b THEN a ELSE b

-----------------------------------------------------------------------------
(* ByteWindow *)

Unset == 0

InitWindow(size) ==
    [mBuf |-> [k \in 0 .. size - 1 |-> Unset], bufSize |-> size,
     mBeginCounter |-> 0, mEndCounter |-> 0, mHead |-> 0]

GetSize(w) == w.mEndCounter - w.mBeginCounter

\* The window's memory is not cleared.
ResetWindow(w) ==
    [mBuf |-> w.mBuf, bufSize |-> w.bufSize, mBeginCounter |-> 0, mEndCounter |-> 0, mHead |-> 0]

IncrementIndex(w, index, count) ==
    IF count = 0 \/ w.bufSize = 0 THEN index ELSE (index + count) % w.bufSize

GetByte(w, k) == IF k >= GetSize(w) THEN 0 ELSE w.mBuf[IncrementIndex(w, w.mHead, k)]

\* Mutant: only up to the end of the buffer.
CopyCircToEnd(mBuf, bufSize, index, data) ==
    LET OffsetOf(k) == (k - index + bufSize) % bufSize
    IN  IF index >= bufSize THEN mBuf
        ELSE [k \in DOMAIN mBuf |-> IF k >= index /\ OffsetOf(k) < Len(data)
                                    THEN data[OffsetOf(k) + 1] ELSE mBuf[k]]

\* In two parts, if the end of the buffer is in between.
CopyCirc(mBuf, bufSize, index, data) ==
    LET OffsetOf(k) == (k - index + bufSize) % bufSize
    IN  IF index >= bufSize THEN mBuf
        ELSE [k \in DOMAIN mBuf |-> IF OffsetOf(k) < Len(data)
                                    THEN data[OffsetOf(k) + 1] ELSE mBuf[k]]

\* More data than the buffer holds cycles out the window.
SkipToEnd(w, skipped) ==
    [mBuf |-> w.mBuf, bufSize |-> w.bufSize, mBeginCounter |-> w.mEndCounter + skipped,
     mEndCounter |-> w.mEndCounter + skipped, mHead |-> 0]

\* The first bytes fill the space there is, the others move the head.
FillAndMove(w, data) ==
    LET fitting == Least(Len(data), w.bufSize - GetSize(w))
        moved == Len(data) - fitting
        tail == IncrementIndex(w, w.mHead, GetSize(w))
        filled == CopyCirc(w.mBuf, w.bufSize, tail, SubSeq(data, 1, fitting))
        next == IncrementIndex(w, tail, fitting)
    IN  [mBuf |-> CopyCirc(filled, w.bufSize, next, SubSeq(data, fitting + 1, Len(data))),
         bufSize |-> w.bufSize,
         mBeginCounter |-> w.mBeginCounter + moved, mEndCounter |-> w.mEndCounter + fitting + moved,
         mHead |-> IncrementIndex(w, w.mHead, moved)]

PushData(w, data) ==
    LET skipped == Len(data) - w.bufSize
    IN  IF skipped > 0
        THEN FillAndMove(SkipToEnd(w, skipped), SubSeq(data, skipped + 1, Len(data)))
        ELSE FillAndMove(w, data)

ContentOf(w) == [k \in 1 .. GetSize(w) |-> GetByte(w, k - 1)]

-----------------------------------------------------------------------------
(* ParsePosition *)

\* Mutant: every newline character begins a line.
ProcessByteUndetected(p, byte) ==
    IF byte \in Newlines
    THEN [p EXCEPT !.window = ResetWindow(@), !.line = @ + 1, !.newline = byte]
    ELSE [p EXCEPT !.window = PushData(@, <<byte>>)]

\* The first newline character is the one that counts; the other is left out.
ProcessByte(p, byte) ==
    LET newline == IF p.newline = Unset THEN byte ELSE p.newline
    IN  CASE byte \in Newlines /\ byte = newline ->
                [window |-> ResetWindow(p.window), line |-> p.line + 1, newline |-> newline]
          [] byte \in Newlines /\ byte # newline -> p
          [] OTHER -> [p EXCEPT !.window = PushData(@, <<byte>>)]

ProcessNewData(data) ==
    LET begun == [window |-> window, line |-> mCurLineNumber, newline |-> mNewlineChar]
        after[k \in 0 .. Len(data)] ==
            IF k = 0 THEN begun ELSE ProcessByte(after[k - 1], data[k])
        p == after[Len(data)]
    IN  /\ window' = p.window /\ mCurLineNumber' = p.line /\ mNewlineChar' = p.newline

\* The remainder of ProcessRemainderData; new data clears it.
Remainder(data) == SubSeq(data, 1, Least(Len(data), aPosttextLen))

GetCurColNumber == window.mEndCounter + 1

\* What is before the first newline character.
FirstLine(data) ==
    LET ends == {k \in DOMAIN data : data[k] \in Newlines}
    IN  IF ends = {} THEN data ELSE SubSeq(data, 1, (CHOOSE k \in ends : \A l \in ends : k <= l) - 1)

GetPrintableContext == ContentOf(window) \o FirstLine(remainder)

-----------------------------------------------------------------------------
(* ParseStream *)

ParsePositionsInit ==
    /\ stream \in Streams /\ consumed = 0
    /\ buf = [k \in 1 .. aChunkSize |-> 0] /\ dataStart = 0 /\ bytesRead = 0 /\ i = 0
    /\ window = InitWindow(aPretextLen) /\ mNewlineChar = Unset /\ mCurLineNumber = 1
    /\ remainder = <<>>
    /\ stage = "Read" /\ parsed = <<>> /\ waited = FALSE

Reads ==
    /\ stage = "Read"
    /\ LET n == Least(aChunkSize - dataStart, Len(stream) - consumed)
       IN  /\ bytesRead' = n /\ consumed' = consumed + n
           /\ buf' = [k \in 1 .. aChunkSize |->
                         IF k \in dataStart + 1 .. dataStart + n
                         THEN stream[consumed + k - dataStart] ELSE buf[k]]
           /\ stage' = IF n = 0 THEN "Done" ELSE "Parse"
    /\ i' = 0
    /\ UNCHANGED <<stream, dataStart, positionVars, parsed, waited>>

\* The bytes given to the Tokenizer, of which it takes n.
Taken(n) == SubSeq(buf, i + 1, i + n)
BytesLeft == bytesRead - i

ParsesSome(n) ==
    /\ stage = "Parse"
    /\ ProcessNewData(Taken(n)) /\ remainder' = <<>>
    /\ i' = i + n
    /\ stage' = IF i + n = bytesRead THEN "Read" ELSE "Parse"
    /\ parsed' = parsed \o Taken(n)
    /\ UNCHANGED <<stream, consumed, buf, dataStart, bytesRead, waited>>

FailsBehind(n) ==
    /\ stage = "Parse"
    /\ ProcessNewData(Taken(n))
    /\ remainder' = Remainder(SubSeq(buf, i + n + 1, bytesRead))
    /\ stage' = "Failed"
    /\ parsed' = parsed \o Taken(n)
    /\ UNCHANGED <<stream, consumed, buf, dataStart, bytesRead, i, waited>>

\* The bytes that are left move to the front; that they have to be parsed again is forgotten when
\* the next are counted.
WaitsForMore ==
    /\ stage = "Parse"
    /\ buf' = [k \in 1 .. aChunkSize |-> IF k <= BytesLeft THEN buf[i + k] ELSE buf[k]]
    /\ dataStart' = BytesLeft
    /\ remainder' = <<>>
    /\ stage' = "Read" /\ waited' = TRUE
    /\ UNCHANGED <<stream, consumed, bytesRead, i, window, mNewlineChar, mCurLineNumber, parsed>>

Ends == stage \in {"Failed", "Done"} /\ UNCHANGED posVars

ParsePositionsNext ==
    \/ Reads
    \/ \E n \in 1 .. BytesLeft : ParsesSome(n)
    \/ \E n \in 0 .. BytesLeft : FailsBehind(n)
    \/ WaitsForMore
    \/ Ends

ParsePositionsSpec == ParsePositionsInit /\ [][ParsePositionsNext]_posVars

-----------------------------------------------------------------------------
(* Properties *)

\* A definition of lines: of the bytes, those behind the last newline character of the kind that comes
\* first, without the other kind.
NewlineOf(bytes) ==
    LET ends == {k \in DOMAIN bytes : bytes[k] \in Newlines}
    IN  IF ends = {} THEN Unset ELSE bytes[CHOOSE k \in ends : \A l \in ends : k <= l]

LineEnds(bytes) ==
    {0} \cup {k \in DOMAIN bytes : bytes[k] \in Newlines /\ bytes[k] = NewlineOf(bytes)}

\* The bytes that are shown: no newlines of either kind.
Shown(bytes) ==
    LET shown[k \in 0 .. Len(bytes)] ==
            IF k = 0 THEN <<>>
            ELSE IF bytes[k] \in Newlines THEN shown[k - 1] ELSE Append(shown[k - 1], bytes[k])
    IN  shown[Len(bytes)]

LastLine(bytes) ==
    LET end == CHOOSE k \in LineEnds(bytes) : \A l \in LineEnds(bytes) : l <= k
    IN  Shown(SubSeq(bytes, end + 1, Len(bytes)))

LastOf(n, s) == IF Len(s) > n THEN SubSeq(s, Len(s) - n + 1, Len(s)) ELSE s

\* The line and column of an error are those of the byte behind which the Tokenizer failed, wherever the
\* chunks end, and the context shows the text of this line before and behind it; unless the Tokenizer
\* has waited for more, which no tokenizer of the program does.
ErrorsAreWhereTheyAre ==
    stage = "Failed" /\ ~waited =>
        LET line == LastLine(parsed)
            behind == SubSeq(stream, Len(parsed) + 1, Len(stream))
        IN  /\ parsed = SubSeq(stream, 1, Len(parsed))
            /\ mCurLineNumber = Cardinality(LineEnds(parsed))
            /\ GetCurColNumber = Len(line) + 1
            /\ \E m \in 0 .. Least(aPosttextLen, Len(behind)) :
                   GetPrintableContext = LastOf(aPretextLen, line) \o FirstLine(SubSeq(behind, 1, m))

\* Pushing data into a window, however much and wherever its head is, leaves the last bytes of what was
\* pushed, and counts all of it.
WindowSlides ==
    \A data \in Pushes :
        LET w == PushData(window, data)
        IN  /\ ContentOf(w) = LastOf(aPretextLen, ContentOf(window) \o data)
            /\ GetSize(w) = Len(ContentOf(w))
            /\ w.mEndCounter = window.mEndCounter + Len(data)
=============================================================================
