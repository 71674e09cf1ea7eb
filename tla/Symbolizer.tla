------------------------------ MODULE Symbolizer ------------------------------
(***************************************************************************)
(* Bfdp::Lexer::Symbolizer: cuts a stream of bytes into runs of symbols of *)
(* one category and reports each run to an observer.                       *)
(*                                                                         *)
(* The owner hands the stream over in chunks of any size (Parse), resumes  *)
(* at the position Parse returned, and calls EndParsing when the stream is *)
(* exhausted: the protocol in the header of Symbolizer.hpp.  The stream is *)
(* revealed symbol by symbol; "ahead" holds the symbol at the stream's     *)
(* position once it was looked at, so that a resumed call sees it again.   *)
(* One step is one report to the observer or one symbol stored.            *)
(***************************************************************************)
EXTENDS Integers, Sequences, SequencesExt

CONSTANTS
    Symbols,           \* code points
    Width,             \* the number of bytes that encode each of them
    Registrations,     \* the categories, in the order AddCategory is called
    VetoedCategories,  \* categories whose reports the observer may answer with false
    MaxLength,         \* capacity of the symbol buffer
    MaxChunk,          \* bound: bytes in a chunk
    MaxStream          \* bound: bytes in a stream

NoCategory == "NoCategory"
Unknown == "Unknown"
Categories == {Registrations[i].category : i \in DOMAIN Registrations}

Entries == [category : Categories, symbols : SUBSET Symbols, concatenates : BOOLEAN]

ASSUME SymbolizerAssumption ==
    /\ Width \in [Symbols -> Nat \ {0}]
    /\ Registrations \in Seq(Entries)
    /\ Categories \cap {NoCategory, Unknown} = {}
    /\ VetoedCategories \subseteq Categories \cup {Unknown}
    /\ MaxLength \in Nat \ {0} /\ MaxChunk \in Nat \ {0} /\ MaxStream \in Nat

\* Symbolizer.hpp: the category objects "define unique sets of symbols".  A category may be
\* registered in several parts (as the letters of the Tokenizer are), all of one kind.
ASSUME CategoriesDisjoint ==
    \A i, j \in DOMAIN Registrations :
        i # j => /\ Registrations[i].symbols \cap Registrations[j].symbols = {}
                 /\ Registrations[i].category = Registrations[j].category =>
                        Registrations[i].concatenates = Registrations[j].concatenates

VARIABLES
    mSymbolMap, mLastMapEntry,   \* the registered categories, and an index into them or 0
    mSavedCategory, mSymbolBuffer,
    phase,       \* "Idle": between calls; "Parsing": in Parse's loop; "Failed": Parse returned
                 \* false; "Ended": after EndParsing
    left,        \* bytes of the chunk after the position, aNumBytes - curPos
    ahead,       \* <<>>, or the symbol at the position
    read,        \* history: the symbols before the position
    position,    \* history: the bytes before the position
    reports,     \* history: what the observer was told
    delivered    \* history: the symbols in those reports

mapVars == <<mSymbolMap, mLastMapEntry>>
bufferVars == <<mSavedCategory, mSymbolBuffer>>
streamVars == <<read, position>>
reportVars == <<reports, delivered>>
vars == <<mapVars, bufferVars, phase, left, ahead, streamVars, reportVars>>

TypeOK ==
    /\ mSymbolMap \in Seq(Entries)
    /\ mLastMapEntry \in 0 .. Len(mSymbolMap)
    /\ mSavedCategory \in Categories \cup {NoCategory, Unknown}
    /\ mSymbolBuffer \in Seq(Symbols) /\ Len(mSymbolBuffer) <= MaxLength
    /\ phase \in {"Idle", "Parsing", "Failed", "Ended"}
    /\ left \in 0 .. MaxChunk
    /\ ahead \in Seq(Symbols) /\ Len(ahead) <= 1
    /\ read \in Seq(Symbols) /\ delivered \in Seq(Symbols)
    /\ reports \in Seq([category : Categories \cup {NoCategory, Unknown}, symbols : Seq(Symbols)])
    /\ position \in 0 .. MaxStream

Init ==
    /\ mSymbolMap = <<>> /\ mLastMapEntry = 0
    /\ mSavedCategory = NoCategory /\ mSymbolBuffer = <<>>
    /\ phase = "Idle" /\ left = 0 /\ ahead = <<>>
    /\ read = <<>> /\ reports = <<>> /\ delivered = <<>>
    /\ position = 0

-----------------------------------------------------------------------------
(* Categories *)

\* The first category becomes the cached entry, and so does one added while nothing is cached.
AddCategory ==
    /\ phase = "Idle" /\ read = <<>> /\ ahead = <<>>
    /\ Len(mSymbolMap) < Len(Registrations)
    /\ mSymbolMap' = Append(mSymbolMap, Registrations[Len(mSymbolMap) + 1])
    /\ mLastMapEntry' = IF mLastMapEntry = 0 THEN Len(mSymbolMap) + 1 ELSE mLastMapEntry
    /\ UNCHANGED <<bufferVars, phase, left, ahead, streamVars, reportVars>>

Fitting(s) == {i \in DOMAIN mSymbolMap : s \in mSymbolMap[i].symbols}

\* Mutant: the cached entry is believed without asking whether it contains the symbol.
LookupStale(s) ==
    CASE mLastMapEntry # 0 -> mLastMapEntry
      [] mLastMapEntry = 0 /\ Fitting(s) # {} -> CHOOSE i \in Fitting(s) : TRUE
      [] OTHER -> 0

\* LookupCategory's search: the cached entry if it fits, else the first that does (the only one,
\* as categories are disjoint), 0 if none does.
Lookup(s) ==
    CASE mLastMapEntry \in Fitting(s) -> mLastMapEntry
      [] mLastMapEntry \notin Fitting(s) /\ Fitting(s) # {} -> CHOOSE i \in Fitting(s) : TRUE
      [] OTHER -> 0

CategoryAt(i) == IF i = 0 THEN Unknown ELSE mSymbolMap[i].category
ConcatenatesAt(i) == i # 0 => mSymbolMap[i].concatenates

-----------------------------------------------------------------------------
(* Reports *)

\* What the observer may answer to a report of the category.
Answers(category) == IF category \in VetoedCategories THEN BOOLEAN ELSE {TRUE}

Report(category, text) ==
    /\ reports' = Append(reports, [category |-> category, symbols |-> text])
    /\ delivered' = delivered \o text

\* ReportSymbolFound on a buffer holding text returns answer.  Its conversion to UTF-8 cannot
\* fail: no converter produces a code point above the largest one it accepts.
ReportSymbolFound(category, text, answer) ==
    /\ Report(category, text)
    /\ mSymbolBuffer' = <<>>
    /\ answer \in Answers(category)

-----------------------------------------------------------------------------
(* Parse *)

BeginParse(n) ==
    /\ phase = "Idle" /\ position + n <= MaxStream
    /\ phase' = "Parsing" /\ left' = n
    /\ UNCHANGED <<mapVars, bufferVars, ahead, streamVars, reportVars>>

\* The symbol at the position, with the category the lookup finds for it.
AtPosition(s) ==
    /\ phase = "Parsing"
    /\ ahead \in {<<>>, <<s>>}
    /\ Width[s] <= left

\* ConvertBytes returns 0 for a sequence that is malformed, and for one the chunk cuts off.  Bytes
\* that were not looked at may be malformed; the symbol that an earlier call stopped at is not.
ConversionFails ==
    /\ phase = "Parsing" /\ left > 0
    /\ \A s \in Symbols : ahead = <<s>> => Width[s] > left
    /\ phase' = "Failed"
    /\ UNCHANGED <<mapVars, bufferVars, left, ahead, streamVars, reportVars>>

\* At the end of a loop iteration the position moves over the symbol.
Advance(s) ==
    /\ ahead' = <<>> /\ read' = Append(read, s)
    /\ left' = left - Width[s] /\ position' = position + Width[s]
    /\ UNCHANGED phase

\* "return true" in mid-chunk: the rest of the chunk is handed over again.
ReturnHere(s) ==
    /\ phase' = "Idle" /\ left' = 0 /\ ahead' = <<s>>
    /\ UNCHANGED streamVars

\* Mutant: a veto skips the symbol that ended the run.
BoundaryLosingSymbol(s, answer) ==
    /\ AtPosition(s)
    /\ mSavedCategory # NoCategory /\ CategoryAt(Lookup(s)) # mSavedCategory
    /\ mSymbolBuffer # <<>>
    /\ mLastMapEntry' = Lookup(s)
    /\ ReportSymbolFound(mSavedCategory, mSymbolBuffer, answer)
    /\ IF answer THEN ahead' = <<s>> /\ UNCHANGED <<phase, left, streamVars>>
       ELSE /\ Advance(s)
    /\ UNCHANGED <<mSymbolMap, mSavedCategory>>

\* The category changes: the run in the buffer is complete.
Boundary(s, answer) ==
    /\ AtPosition(s)
    /\ mSavedCategory # NoCategory /\ CategoryAt(Lookup(s)) # mSavedCategory
    /\ mSymbolBuffer # <<>>
    /\ mLastMapEntry' = Lookup(s)
    /\ ReportSymbolFound(mSavedCategory, mSymbolBuffer, answer)
    /\ IF answer THEN ahead' = <<s>> /\ UNCHANGED <<phase, left, streamVars>>
       ELSE ReturnHere(s)
    /\ UNCHANGED <<mSymbolMap, mSavedCategory>>

\* No run has to be reported before the symbol is saved.
SameRun(s) ==
    mSavedCategory = NoCategory \/ CategoryAt(Lookup(s)) = mSavedCategory \/ mSymbolBuffer = <<>>

\* Uncategorized text that does not fit is reported in pieces.
FlushUnknown(s, answer) ==
    /\ AtPosition(s) /\ SameRun(s)
    /\ Len(mSymbolBuffer) = MaxLength /\ Lookup(s) = 0
    /\ mLastMapEntry' = 0
    /\ mSavedCategory' = Unknown
    /\ ReportSymbolFound(Unknown, mSymbolBuffer, answer)
    /\ IF answer THEN ahead' = <<s>> /\ UNCHANGED <<phase, left, streamVars>>
       ELSE ReturnHere(s)
    /\ UNCHANGED mSymbolMap

SymbolTooBig(s) ==
    /\ AtPosition(s) /\ SameRun(s)
    /\ Len(mSymbolBuffer) = MaxLength /\ Lookup(s) # 0
    /\ mLastMapEntry' = Lookup(s)
    /\ mSavedCategory' = CategoryAt(Lookup(s))
    /\ phase' = "Failed" /\ ahead' = <<s>>
    /\ UNCHANGED <<mSymbolMap, mSymbolBuffer, left, streamVars, reportVars>>

\* Mutant: the capacity check is off by one.
HasRoomOffByOne == Len(mSymbolBuffer) <= MaxLength

\* StaticSymbolBuffer::Add
HasRoom == Len(mSymbolBuffer) < MaxLength

Store(s) ==
    /\ AtPosition(s) /\ SameRun(s)
    /\ HasRoom /\ ConcatenatesAt(Lookup(s))
    /\ mLastMapEntry' = Lookup(s)
    /\ mSavedCategory' = CategoryAt(Lookup(s))
    /\ mSymbolBuffer' = Append(mSymbolBuffer, s)
    /\ Advance(s)
    /\ UNCHANGED <<mSymbolMap, reportVars>>

\* A category that does not concatenate is reported at once, before the position moves.
StoreAlone(s, answer) ==
    /\ AtPosition(s) /\ SameRun(s)
    /\ HasRoom /\ ~ConcatenatesAt(Lookup(s))
    /\ mLastMapEntry' = Lookup(s)
    /\ mSavedCategory' = CategoryAt(Lookup(s))
    /\ ReportSymbolFound(CategoryAt(Lookup(s)), Append(mSymbolBuffer, s), answer)
    /\ IF answer THEN Advance(s) ELSE ReturnHere(s)
    /\ UNCHANGED mSymbolMap

ChunkEnd(answer) ==
    /\ phase = "Parsing" /\ left = 0
    /\ phase' = "Idle"
    /\ IF mSavedCategory = Unknown
       THEN ReportSymbolFound(Unknown, mSymbolBuffer, answer)
       ELSE answer = TRUE /\ UNCHANGED <<mSymbolBuffer, reportVars>>
    /\ UNCHANGED <<mapVars, mSavedCategory, left, ahead, streamVars>>

-----------------------------------------------------------------------------
(* The end of an operation *)

ClearBuffer == mSymbolBuffer' = <<>> /\ mSavedCategory' = NoCategory

\* The owner calls EndParsing when every byte has been read.
EndParsing ==
    /\ phase = "Idle" /\ ahead = <<>>
    /\ phase' = "Ended"
    /\ IF mSymbolBuffer # <<>>
       THEN Report(mSavedCategory, mSymbolBuffer)
       ELSE UNCHANGED reportVars
    /\ ClearBuffer
    /\ UNCHANGED <<mapVars, left, ahead, streamVars>>

\* The next operation on the same instance; Reset() is called after one that failed or that the
\* owner gives up.
NextOperation ==
    /\ phase # "Parsing"
    /\ phase' = "Idle" /\ left' = 0 /\ ahead' = <<>>
    /\ IF phase = "Ended" THEN UNCHANGED bufferVars ELSE ClearBuffer
    /\ read' = <<>> /\ reports' = <<>> /\ delivered' = <<>>
    /\ position' = 0
    /\ UNCHANGED mapVars

ParseStep ==
    \/ \E s \in Symbols, answer \in BOOLEAN :
          Boundary(s, answer) \/ FlushUnknown(s, answer) \/ StoreAlone(s, answer)
    \/ ConversionFails
    \/ \E s \in Symbols : SymbolTooBig(s) \/ Store(s)
    \/ \E answer \in BOOLEAN : ChunkEnd(answer)

Next ==
    \/ AddCategory
    \/ \E n \in 1 .. MaxChunk : BeginParse(n)
    \/ ParseStep
    \/ EndParsing
    \/ NextOperation

Spec == Init /\ [][Next]_vars

-----------------------------------------------------------------------------
(* Properties *)

\* What was reported, followed by what is buffered, is exactly what was read: no symbol is
\* lost, repeated or moved by a change of category, a full buffer, a veto or a chunk boundary.
DeliveredOnce == delivered \o mSymbolBuffer = read

CategoryOf(s) ==
    IF \E i \in DOMAIN Registrations : s \in Registrations[i].symbols
    THEN Registrations[CHOOSE i \in DOMAIN Registrations : s \in Registrations[i].symbols].category
    ELSE Unknown

Concatenating ==
    {Registrations[i].category : i \in {j \in DOMAIN Registrations : Registrations[j].concatenates}}

\* runs with one more run, joined to the last one if they have one category in cats.
Join(runs, run, cats) ==
    IF runs # <<>> /\ Last(runs).category = run.category /\ run.category \in cats
    THEN Append(Front(runs), [category |-> run.category, symbols |-> Last(runs).symbols \o run.symbols])
    ELSE Append(runs, run)

JoinAll(runs, cats) ==
    LET joined[i \in 0 .. Len(runs)] ==
            IF i = 0 THEN <<>> ELSE Join(joined[i - 1], runs[i], cats)
    IN  joined[Len(runs)]

\* The maximal runs of the stream, and the reports with the pieces of uncategorized text joined.
RunsOf(stream) ==
    JoinAll([i \in DOMAIN stream |-> [category |-> CategoryOf(stream[i]), symbols |-> <<stream[i]>>]],
            Concatenating \cup {Unknown})

PiecesJoined == JoinAll(reports, {Unknown})

\* When the stream has ended the observer was told the stream's maximal runs, with their
\* categories, and nothing else: the chunks the stream came in, the vetoes and the cached map
\* entry leave no trace, except that uncategorized text may come in pieces.
ReportsAreTheRuns ==
    phase = "Ended" /\ mSymbolMap = Registrations => PiecesJoined = RunsOf(read)
=============================================================================
