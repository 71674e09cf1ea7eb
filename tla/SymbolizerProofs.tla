--------------------------- MODULE SymbolizerProofs ---------------------------
(***************************************************************************)
(* Theorems about the symbolizer, for every alphabet, set of categories,   *)
(* buffer capacity, chunking and stream.  The inductive invariant adds to  *)
(* the type invariant that the map is a prefix of the registrations (so    *)
(* that what it says of a category is what the registrations say), that    *)
(* the buffer is empty once parsing has ended, and that no chunk reaches   *)
(* beyond the stream.  That the reports are the stream's runs is proved by *)
(* carrying, through every step, that the reports so far with the buffered *)
(* run joined to them are the runs of what was read.                       *)
(***************************************************************************)
EXTENDS Symbolizer, SetInduction, SequenceTheorems

MapIsPrefix ==
    /\ Len(mSymbolMap) <= Len(Registrations)
    /\ \A i \in DOMAIN mSymbolMap : mSymbolMap[i] = Registrations[i]

ChunkInStream == phase = "Parsing" => position + left <= MaxStream

EmptyAtEnd == phase = "Ended" => mSymbolBuffer = <<>>

TInv == TypeOK /\ ChunkInStream

\* The observer never vetoes the report of a symbol that does not concatenate.
VetoesOnlyRuns ==
    \A i \in DOMAIN Registrations :
        ~Registrations[i].concatenates => Registrations[i].category \notin VetoedCategories

DInv == MapIsPrefix /\ EmptyAtEnd /\ DeliveredOnce

-----------------------------------------------------------------------------
(* Facts about the helpers *)

LEMMA LookupInMap ==
    ASSUME TypeOK, NEW s \in Symbols
    PROVE  /\ Lookup(s) \in 0 .. Len(mSymbolMap)
           /\ CategoryAt(Lookup(s)) \in Categories \cup {Unknown}
  <1>1. Fitting(s) \subseteq 1 .. Len(mSymbolMap)
    BY DEF TypeOK, Fitting
  <1>2. Lookup(s) \in {0} \cup Fitting(s)
    BY DEF Lookup
  <1>3. \A i \in 1 .. Len(mSymbolMap) : mSymbolMap[i] \in Entries
    BY DEF TypeOK
  <1>4. Lookup(s) \in 0 .. Len(mSymbolMap)
    BY <1>1, <1>2 DEF TypeOK
  <1> QED
    BY <1>1, <1>2, <1>3, <1>4 DEF CategoryAt, Entries

LEMMA ReportTyped ==
    ASSUME TypeOK, NEW category \in Categories \cup {NoCategory, Unknown}, NEW text \in Seq(Symbols),
           Report(category, text)
    PROVE  /\ delivered' \in Seq(Symbols)
           /\ reports' \in Seq([category : Categories \cup {NoCategory, Unknown},
                                symbols : Seq(Symbols)])
  <1>1. [category |-> category, symbols |-> text] \in
            [category : Categories \cup {NoCategory, Unknown}, symbols : Seq(Symbols)]
    OBVIOUS
  <1> QED
    BY <1>1, ConcatProperties, AppendProperties DEF TypeOK, Report

ReportVarsTyped ==
    /\ delivered \in Seq(Symbols)
    /\ reports \in Seq([category : Categories \cup {NoCategory, Unknown}, symbols : Seq(Symbols)])

\* A report leaves an empty buffer and typed histories.
LEMMA ReportSymbolFoundTyped ==
    ASSUME TypeOK, NEW category \in Categories \cup {NoCategory, Unknown}, NEW text \in Seq(Symbols),
           NEW answer, ReportSymbolFound(category, text, answer)
    PROVE  /\ ReportVarsTyped'
           /\ mSymbolBuffer' \in Seq(Symbols) /\ Len(mSymbolBuffer') <= MaxLength
  <1>1. ReportVarsTyped'
    BY ReportTyped DEF ReportSymbolFound, ReportVarsTyped
  <1>2. mSymbolBuffer' = <<>> /\ <<>> \in Seq(Symbols) /\ Len(<<>>) = 0
    BY EmptySeq DEF ReportSymbolFound
  <1> QED
    BY <1>1, <1>2, SymbolizerAssumption

LEMMA AdvanceTyped ==
    ASSUME TInv, NEW s \in Symbols, AtPosition(s), Advance(s)
    PROVE  /\ ahead' \in Seq(Symbols) /\ Len(ahead') <= 1
           /\ read' \in Seq(Symbols)
           /\ left' \in 0 .. MaxChunk /\ position' \in 0 .. MaxStream
           /\ position' + left' <= MaxStream /\ phase' = "Parsing"
  <1>1. Width[s] \in Nat \ {0}
    BY SymbolizerAssumption
  <1>2. ahead' = <<>> /\ <<>> \in Seq(Symbols) /\ Len(<<>>) = 0
    BY EmptySeq DEF Advance
  <1>3. read' \in Seq(Symbols)
    BY AppendProperties DEF Advance, TInv, TypeOK
  <1>4. /\ left \in 0 .. MaxChunk /\ position \in 0 .. MaxStream /\ position + left <= MaxStream
        /\ Width[s] <= left /\ phase = "Parsing"
        /\ left' = left - Width[s] /\ position' = position + Width[s] /\ phase' = phase
    BY DEF Advance, AtPosition, TInv, TypeOK, ChunkInStream
  <1>5. /\ left' \in 0 .. MaxChunk /\ position' \in 0 .. MaxStream
        /\ position' + left' <= MaxStream
    BY <1>1, <1>4, SymbolizerAssumption
  <1> QED
    BY <1>2, <1>3, <1>4, <1>5

LEMMA ReturnHereTyped ==
    ASSUME TInv, NEW s \in Symbols, ReturnHere(s)
    PROVE  /\ ahead' \in Seq(Symbols) /\ Len(ahead') <= 1
           /\ read' \in Seq(Symbols)
           /\ left' \in 0 .. MaxChunk /\ position' \in 0 .. MaxStream /\ phase' = "Idle"
  <1>1. <<s>> \in Seq(Symbols) /\ Len(<<s>>) = 1
    OBVIOUS
  <1> QED
    BY <1>1, SymbolizerAssumption DEF ReturnHere, TInv, TypeOK, streamVars

-----------------------------------------------------------------------------
(* Type correctness *)

LEMMA InitTInv == Init => TInv
  <1> SUFFICES ASSUME Init PROVE TInv
    OBVIOUS
  <1>1. \A S : <<>> \in Seq(S)
    BY EmptySeq
  <1>2. Len(<<>>) = 0
    OBVIOUS
  <1>3. 0 \in 0 .. MaxChunk /\ 0 \in 0 .. MaxStream /\ 0 <= MaxLength
    BY SymbolizerAssumption
  <1> QED
    BY <1>1, <1>2, <1>3 DEF Init, TInv, TypeOK, ChunkInStream

\* The typing of the parts of the state that a step of the loop can change.
LoopTyped ==
    /\ ahead \in Seq(Symbols) /\ Len(ahead) <= 1
    /\ read \in Seq(Symbols)
    /\ left \in 0 .. MaxChunk /\ position \in 0 .. MaxStream
    /\ phase \in {"Idle", "Parsing"}
    /\ ChunkInStream

\* Whether the observer goes on, at the symbol or past it, or vetoes.
LEMMA LoopStepTyped ==
    ASSUME TInv, NEW s \in Symbols, AtPosition(s),
           \/ Advance(s)
           \/ ReturnHere(s)
           \/ ahead' = <<s>> /\ UNCHANGED <<phase, left, streamVars>>
    PROVE  LoopTyped'
  <1>1. CASE Advance(s)
    BY <1>1, AdvanceTyped DEF LoopTyped, ChunkInStream
  <1>2. CASE ReturnHere(s)
    BY <1>2, ReturnHereTyped DEF LoopTyped, ChunkInStream
  <1>3. CASE ahead' = <<s>> /\ UNCHANGED <<phase, left, streamVars>>
    <2>1. <<s>> \in Seq(Symbols) /\ Len(<<s>>) = 1
      OBVIOUS
    <2> QED
      BY <1>3, <2>1 DEF LoopTyped, AtPosition, TInv, TypeOK, ChunkInStream, streamVars
  <1> QED
    BY <1>1, <1>2, <1>3

LEMMA NextTInv == TInv /\ [Next]_vars => TInv'
  <1> SUFFICES ASSUME TInv, [Next]_vars PROVE TInv'
    OBVIOUS
  <1> USE DEF TInv
  <1>1. CASE AddCategory
    BY <1>1, SymbolizerAssumption
       DEF AddCategory, TypeOK, ChunkInStream, bufferVars, streamVars, reportVars
  <1>2. ASSUME NEW n \in 1 .. MaxChunk, BeginParse(n) PROVE TInv'
    BY <1>2, SymbolizerAssumption
       DEF BeginParse, TypeOK, ChunkInStream, mapVars, bufferVars, streamVars, reportVars
  <1>3. ASSUME NEW s \in Symbols, NEW answer \in BOOLEAN, Boundary(s, answer) PROVE TInv'
    <2>1. ReportVarsTyped' /\ mSymbolBuffer' \in Seq(Symbols) /\ Len(mSymbolBuffer') <= MaxLength
      BY <1>3, ReportSymbolFoundTyped DEF Boundary, TypeOK
    <2>2. LoopTyped'
      BY <1>3, LoopStepTyped DEF Boundary
    <2> QED
      BY <1>3, <2>1, <2>2, LookupInMap DEF Boundary, TypeOK, ReportVarsTyped, LoopTyped
  <1>4. ASSUME NEW s \in Symbols, NEW answer \in BOOLEAN, FlushUnknown(s, answer) PROVE TInv'
    <2>1. ReportVarsTyped' /\ mSymbolBuffer' \in Seq(Symbols) /\ Len(mSymbolBuffer') <= MaxLength
      BY <1>4, ReportSymbolFoundTyped DEF FlushUnknown, TypeOK
    <2>2. LoopTyped'
      BY <1>4, LoopStepTyped DEF FlushUnknown
    <2>3. /\ mSymbolMap' = mSymbolMap /\ mLastMapEntry' = 0 /\ mSavedCategory' = Unknown
          /\ mSymbolMap \in Seq(Entries)
      BY <1>4 DEF FlushUnknown, TypeOK
    <2>4. 0 \in 0 .. Len(mSymbolMap)
      BY <2>3
    <2> QED
      BY <2>1, <2>2, <2>3, <2>4 DEF TypeOK, ReportVarsTyped, LoopTyped
  <1>5. ASSUME NEW s \in Symbols, NEW answer \in BOOLEAN, StoreAlone(s, answer) PROVE TInv'
    <2>1. Append(mSymbolBuffer, s) \in Seq(Symbols)
      BY AppendProperties DEF TypeOK
    <2>2. ReportVarsTyped' /\ mSymbolBuffer' \in Seq(Symbols) /\ Len(mSymbolBuffer') <= MaxLength
      BY <1>5, <2>1, LookupInMap, ReportSymbolFoundTyped DEF StoreAlone
    <2>3. LoopTyped'
      BY <1>5, LoopStepTyped DEF StoreAlone
    <2> QED
      BY <1>5, <2>2, <2>3, LookupInMap DEF StoreAlone, TypeOK, ReportVarsTyped, LoopTyped
  <1>6. ASSUME ConversionFails PROVE TInv'
    BY <1>6 DEF ConversionFails, TypeOK, ChunkInStream, mapVars, bufferVars, streamVars, reportVars
  <1>7. ASSUME NEW s \in Symbols, SymbolTooBig(s) PROVE TInv'
    BY <1>7, LookupInMap DEF SymbolTooBig, TypeOK, ChunkInStream, streamVars, reportVars
  <1>8. ASSUME NEW s \in Symbols, Store(s) PROVE TInv'
    <2>1. LoopTyped'
      BY <1>8, LoopStepTyped DEF Store
    <2>2. mSymbolBuffer' \in Seq(Symbols) /\ Len(mSymbolBuffer') <= MaxLength
      BY <1>8, AppendProperties, SymbolizerAssumption DEF Store, HasRoom, TypeOK
    <2> QED
      BY <1>8, <2>1, <2>2, LookupInMap DEF Store, TypeOK, LoopTyped, reportVars
  <1>9. ASSUME NEW answer \in BOOLEAN, ChunkEnd(answer) PROVE TInv'
    <2>1. ReportVarsTyped' /\ mSymbolBuffer' \in Seq(Symbols) /\ Len(mSymbolBuffer') <= MaxLength
      BY <1>9, ReportSymbolFoundTyped DEF ChunkEnd, TypeOK, ReportVarsTyped, reportVars
    <2> QED
      BY <1>9, <2>1 DEF ChunkEnd, TypeOK, ReportVarsTyped, ChunkInStream, mapVars, streamVars
  <1>10. CASE EndParsing
    <2>1. ReportVarsTyped'
      BY <1>10, ReportTyped DEF EndParsing, TypeOK, ReportVarsTyped, reportVars
    <2>2. mSymbolBuffer' = <<>> /\ <<>> \in Seq(Symbols) /\ Len(<<>>) = 0
      BY <1>10, EmptySeq DEF EndParsing, ClearBuffer
    <2>3. /\ mSavedCategory' = NoCategory /\ phase' = "Ended"
          /\ UNCHANGED <<mapVars, left, ahead, streamVars>>
      BY <1>10 DEF EndParsing, ClearBuffer
    <2> QED
      BY <2>1, <2>2, <2>3, SymbolizerAssumption
         DEF TypeOK, ReportVarsTyped, ChunkInStream, mapVars, streamVars
  <1>11. CASE NextOperation
    <2>1. \A S : <<>> \in Seq(S)
      BY EmptySeq
    <2>2. mSymbolBuffer' \in Seq(Symbols) /\ Len(mSymbolBuffer') <= MaxLength
      <3>1. mSymbolBuffer' = <<>> \/ mSymbolBuffer' = mSymbolBuffer
        BY <1>11 DEF NextOperation, ClearBuffer, bufferVars
      <3>2. <<>> \in Seq(Symbols) /\ Len(<<>>) = 0 /\ 0 <= MaxLength
        BY SymbolizerAssumption
      <3> QED
        BY <3>1, <3>2 DEF TypeOK
    <2>3. /\ mSavedCategory' \in Categories \cup {NoCategory, Unknown}
          /\ UNCHANGED <<mSymbolMap, mLastMapEntry>>
          /\ phase' = "Idle" /\ left' = 0 /\ ahead' = <<>> /\ Len(<<>>) = 0
          /\ read' = <<>> /\ reports' = <<>> /\ delivered' = <<>> /\ position' = 0
      BY <1>11 DEF NextOperation, ClearBuffer, bufferVars, mapVars, TypeOK
    <2>4. 0 \in 0 .. MaxChunk /\ 0 \in 0 .. MaxStream
      BY SymbolizerAssumption
    <2> QED
      BY <2>1, <2>2, <2>3, <2>4 DEF TypeOK, ChunkInStream
  <1>12. CASE UNCHANGED vars
    BY <1>12 DEF vars, TypeOK, ChunkInStream, mapVars, bufferVars, streamVars, reportVars
  <1> QED
    BY <1>1, <1>2, <1>3, <1>4, <1>5, <1>6, <1>7, <1>8, <1>9, <1>10, <1>11, <1>12
       DEF Next, ParseStep

\* The buffer never outgrows its capacity, the cached entry is always a registered one, and
\* Parse never reads beyond its chunk.
THEOREM TypeCorrect == Spec => []TypeOK
  <1>1. Spec => []TInv
    BY InitTInv, NextTInv, PTL DEF Spec
  <1> QED
    BY <1>1, PTL DEF TInv

-----------------------------------------------------------------------------
(* Nothing lost, nothing repeated *)

LEMMA InitDInv == Init => DInv
  <1> SUFFICES ASSUME Init PROVE DInv
    OBVIOUS
  <1>1. Len(Registrations) \in Nat
    BY SymbolizerAssumption
  <1>2. <<>> \o <<>> = <<>>
    BY EmptySeq, ConcatEmptySeq
  <1> QED
    BY <1>1, <1>2 DEF Init, DInv, MapIsPrefix, EmptyAtEnd, DeliveredOnce

\* Reporting the buffer moves its symbols to the delivered ones.
LEMMA ReportKeepsOrder ==
    ASSUME TypeOK, DeliveredOnce, NEW category, NEW answer,
           ReportSymbolFound(category, mSymbolBuffer, answer)
    PROVE  delivered' \o mSymbolBuffer' = read
  <1>1. delivered' = read /\ mSymbolBuffer' = <<>>
    BY DEF ReportSymbolFound, Report, DeliveredOnce
  <1> QED
    BY <1>1, ConcatEmptySeq DEF TypeOK

\* So does storing a symbol and taking it for read, whether it is then reported or not.
LEMMA AppendKeepsOrder ==
    ASSUME TypeOK, DeliveredOnce, NEW s \in Symbols
    PROVE  delivered \o Append(mSymbolBuffer, s) = Append(read, s)
  <1>1. Append(mSymbolBuffer, s) = mSymbolBuffer \o <<s>> /\ Append(read, s) = read \o <<s>>
    BY AppendIsConcat DEF TypeOK
  <1>2. <<s>> \in Seq(Symbols)
    OBVIOUS
  <1>3. delivered \o (mSymbolBuffer \o <<s>>) = (delivered \o mSymbolBuffer) \o <<s>>
    BY <1>2, ConcatAssociative DEF TypeOK
  <1> QED
    BY <1>1, <1>3 DEF DeliveredOnce

\* The only step that reports a symbol before the position has passed it cannot be vetoed.
LEMMA AloneNotVetoed ==
    ASSUME VetoesOnlyRuns, TypeOK, MapIsPrefix, NEW s \in Symbols, NEW answer \in BOOLEAN,
           StoreAlone(s, answer)
    PROVE  answer = TRUE
  <1> DEFINE i == Lookup(s)
  <1>1. i # 0 /\ ~mSymbolMap[i].concatenates
    BY DEF StoreAlone, ConcatenatesAt
  <1>2. i \in DOMAIN mSymbolMap /\ i \in DOMAIN Registrations /\ mSymbolMap[i] = Registrations[i]
    BY <1>1, LookupInMap, SymbolizerAssumption DEF TypeOK, MapIsPrefix
  <1>3. CategoryAt(i) \notin VetoedCategories
    BY <1>1, <1>2 DEF VetoesOnlyRuns, CategoryAt
  <1> QED
    BY <1>3 DEF StoreAlone, ReportSymbolFound, Answers

LEMMA NextDInv == VetoesOnlyRuns /\ TypeOK /\ DInv /\ [Next]_vars => DInv'
  <1> SUFFICES ASSUME VetoesOnlyRuns, TypeOK, DInv, [Next]_vars PROVE DInv'
    OBVIOUS
  <1> USE DEF DInv
  <1>1. CASE AddCategory
    <2>1. MapIsPrefix'
      <3>1. mSymbolMap' = Append(mSymbolMap, Registrations[Len(mSymbolMap) + 1])
        BY <1>1 DEF AddCategory
      <3>2. Len(mSymbolMap) + 1 \in DOMAIN Registrations
        BY <1>1, SymbolizerAssumption DEF AddCategory, TypeOK
      <3>3. Registrations[Len(mSymbolMap) + 1] \in Entries
        BY <3>2, SymbolizerAssumption
      <3> QED
        BY <3>1, <3>2, <3>3, AppendProperties, SymbolizerAssumption DEF TypeOK, MapIsPrefix
    <2> QED
      BY <1>1, <2>1
         DEF AddCategory, EmptyAtEnd, DeliveredOnce, bufferVars, streamVars, reportVars
  <1>2. ASSUME NEW n \in 1 .. MaxChunk, BeginParse(n) PROVE DInv'
    BY <1>2 DEF BeginParse, MapIsPrefix, EmptyAtEnd, DeliveredOnce, mapVars, bufferVars, streamVars,
                reportVars
  <1>3. ASSUME NEW s \in Symbols, NEW answer \in BOOLEAN,
               Boundary(s, answer) \/ FlushUnknown(s, answer)
        PROVE  DInv'
    <2>1. UNCHANGED <<mSymbolMap, read>> /\ phase' \in {"Idle", "Parsing"}
      BY <1>3 DEF Boundary, FlushUnknown, ReturnHere, AtPosition, streamVars
    <2>2. DeliveredOnce'
      BY <1>3, <2>1, ReportKeepsOrder DEF Boundary, FlushUnknown, DeliveredOnce
    <2> QED
      BY <2>1, <2>2 DEF MapIsPrefix, EmptyAtEnd
  <1>4. ASSUME NEW s \in Symbols, NEW answer \in BOOLEAN, StoreAlone(s, answer) PROVE DInv'
    <2>1. answer = TRUE
      BY <1>4, AloneNotVetoed
    <2>2. /\ delivered' = delivered \o Append(mSymbolBuffer, s) /\ mSymbolBuffer' = <<>>
          /\ read' = Append(read, s) /\ phase' = "Parsing" /\ UNCHANGED mSymbolMap
      BY <1>4, <2>1 DEF StoreAlone, ReportSymbolFound, Report, Advance, AtPosition
    <2>3. delivered' = read' /\ read' \in Seq(Symbols)
      BY <2>2, AppendKeepsOrder, AppendProperties DEF TypeOK
    <2> QED
      BY <2>2, <2>3, ConcatEmptySeq DEF MapIsPrefix, EmptyAtEnd, DeliveredOnce
  <1>5. ASSUME ConversionFails \/ \E s \in Symbols : SymbolTooBig(s) PROVE DInv'
    BY <1>5 DEF ConversionFails, SymbolTooBig, MapIsPrefix, EmptyAtEnd, DeliveredOnce, mapVars,
                bufferVars, streamVars, reportVars
  <1>6. ASSUME NEW s \in Symbols, Store(s) PROVE DInv'
    <2>1. /\ mSymbolBuffer' = Append(mSymbolBuffer, s) /\ read' = Append(read, s)
          /\ phase' = "Parsing" /\ UNCHANGED <<mSymbolMap, delivered>>
      BY <1>6 DEF Store, Advance, AtPosition, reportVars
    <2> QED
      BY <2>1, AppendKeepsOrder DEF MapIsPrefix, EmptyAtEnd, DeliveredOnce
  <1>7. ASSUME NEW answer \in BOOLEAN, ChunkEnd(answer) PROVE DInv'
    <2>1. UNCHANGED <<mSymbolMap, read>> /\ phase' = "Idle"
      BY <1>7 DEF ChunkEnd, mapVars, streamVars
    <2>2. DeliveredOnce'
      BY <1>7, <2>1, ReportKeepsOrder DEF ChunkEnd, DeliveredOnce, reportVars
    <2> QED
      BY <2>1, <2>2 DEF MapIsPrefix, EmptyAtEnd
  <1>8. CASE EndParsing
    <2>1. UNCHANGED <<mSymbolMap, read>> /\ mSymbolBuffer' = <<>>
      BY <1>8 DEF EndParsing, ClearBuffer, mapVars, streamVars
    <2>2. delivered' = read
      <3>1. CASE mSymbolBuffer # <<>>
        BY <1>8, <3>1 DEF EndParsing, Report, DeliveredOnce
      <3>2. CASE mSymbolBuffer = <<>>
        BY <1>8, <3>2, ConcatEmptySeq DEF EndParsing, reportVars, DeliveredOnce, TypeOK
      <3> QED
        BY <3>1, <3>2
    <2> QED
      BY <2>1, <2>2, ConcatEmptySeq DEF MapIsPrefix, EmptyAtEnd, DeliveredOnce, TypeOK
  <1>9. CASE NextOperation
    <2>1. /\ mSymbolBuffer' = <<>> /\ delivered' = <<>> /\ read' = <<>> /\ phase' = "Idle"
          /\ UNCHANGED mSymbolMap
      BY <1>9 DEF NextOperation, ClearBuffer, EmptyAtEnd, bufferVars, mapVars
    <2> QED
      BY <2>1, EmptySeq, ConcatEmptySeq DEF MapIsPrefix, EmptyAtEnd, DeliveredOnce
  <1>10. CASE UNCHANGED vars
    BY <1>10 DEF vars, MapIsPrefix, EmptyAtEnd, DeliveredOnce, mapVars, bufferVars, streamVars,
                 reportVars
  <1> QED
    BY <1>1, <1>2, <1>3, <1>4, <1>5, <1>6, <1>7, <1>8, <1>9, <1>10 DEF Next, ParseStep

\* Whatever the chunks, and whenever the observer vetoes the report of a run, what it was told is
\* the part of the stream that was read and is no longer buffered: in order, whole, and once.  The
\* hypothesis is needed: a symbol that does not concatenate is reported before it can be vetoed,
\* and an owner that resumes where Parse returned to has it reported again.
THEOREM ReportedExactlyOnce == VetoesOnlyRuns => (Spec => []DeliveredOnce)
  <1> SUFFICES ASSUME VetoesOnlyRuns PROVE Spec => []DeliveredOnce
    OBVIOUS
  <1>1. TypeOK /\ DInv /\ [Next]_vars => DInv'
    BY NextDInv
  <1>2. Spec => []DInv
    BY <1>1, InitDInv, TypeCorrect, PTL DEF Spec
  <1> QED
    BY <1>2, PTL DEF DInv

-----------------------------------------------------------------------------
(* Joining runs *)

\* f[i] joins the first i of the runs.
AreJoined(f, runs, cats, k) ==
    f = [i \in 0 .. k |-> IF i = 0 THEN <<>> ELSE Join(f[i - 1], runs[i], cats)]

\* There is a function that satisfies the recursion.
LEMMA JoinedExist ==
    ASSUME NEW runs, NEW cats, NEW k \in Nat
    PROVE  \E f : AreJoined(f, runs, cats, k)
  <1> DEFINE S == {n \in Nat : \E f : AreJoined(f, runs, cats, n)}
  <1>1. 0 \in S
    <2> DEFINE f == [i \in 0 .. 0 |-> <<>>]
    <2>1. AreJoined(f, runs, cats, 0)
      BY DEF AreJoined
    <2> QED
      BY <2>1
  <1>2. ASSUME NEW n \in S PROVE n + 1 \in S
    <2>1. PICK f : AreJoined(f, runs, cats, n)
      OBVIOUS
    <2> DEFINE g == [i \in 0 .. n + 1 |-> IF i = n + 1 THEN Join(f[n], runs[n + 1], cats) ELSE f[i]]
    <2>2. ASSUME NEW i \in 0 .. n + 1
          PROVE  g[i] = IF i = 0 THEN <<>> ELSE Join(g[i - 1], runs[i], cats)
      <3>1. CASE i = n + 1
        <4>1. i # 0 /\ i - 1 = n /\ n \in 0 .. n + 1 /\ n # n + 1
          BY <3>1
        <4> QED
          BY <3>1, <4>1
      <3>2. CASE i \in 0 .. n
        <4>1. f[i] = IF i = 0 THEN <<>> ELSE Join(f[i - 1], runs[i], cats)
          BY <2>1, <3>2 DEF AreJoined
        <4>2. g[i] = f[i] /\ (i # 0 => g[i - 1] = f[i - 1])
          BY <3>2
        <4> QED
          BY <4>1, <4>2
      <3> QED
        BY <3>1, <3>2
    <2>3. g = [i \in 0 .. n + 1 |-> IF i = 0 THEN <<>> ELSE Join(g[i - 1], runs[i], cats)]
      <3> HIDE DEF g
      <3>1. g = [i \in 0 .. n + 1 |-> g[i]]
        BY DEF g
      <3> QED
        BY <2>2, <3>1
    <2>4. AreJoined(g, runs, cats, n + 1)
      BY <2>3 DEF AreJoined
    <2> HIDE DEF g
    <2> QED
      BY <2>4
  <1>3. S = Nat
    <2> HIDE DEF S
    <2>1. S \in SUBSET Nat
      BY DEF S
    <2> QED
      BY <1>1, <1>2, <2>1, Induction
  <1> QED
    BY <1>3

\* And only one, of which joining fewer runs is a part.
LEMMA JoinedAreUnique ==
    ASSUME NEW cats, NEW k \in Nat, NEW f, NEW v, AreJoined(f, v, cats, k),
           NEW m \in Nat, NEW g, NEW w, AreJoined(g, w, cats, m), k <= m, \A i \in 1 .. k : v[i] = w[i]
    PROVE  \A i \in 0 .. k : f[i] = g[i]
  <1> DEFINE S == {n \in Nat : n <= k => f[n] = g[n]}
  <1>1. 0 \in S
    <2>1. 0 \in 0 .. k /\ 0 \in 0 .. m
      OBVIOUS
    <2>2. f[0] = <<>>
      BY <2>1 DEF AreJoined
    <2>3. g[0] = <<>>
      BY <2>1 DEF AreJoined
    <2> QED
      BY <2>2, <2>3
  <1>2. ASSUME NEW n \in S PROVE n + 1 \in S
    <2>1. ASSUME n + 1 <= k PROVE f[n + 1] = g[n + 1]
      <3>1. n + 1 \in 0 .. k /\ n + 1 \in 0 .. m /\ n + 1 # 0 /\ (n + 1) - 1 = n /\ n + 1 \in 1 .. k
        BY <2>1
      <3>2. f[n + 1] = Join(f[n], v[n + 1], cats) /\ g[n + 1] = Join(g[n], w[n + 1], cats)
        BY <3>1 DEF AreJoined
      <3> QED
        BY <2>1, <3>1, <3>2
    <2> QED
      BY <2>1
  <1>3. S = Nat
    <2> HIDE DEF S
    <2>1. S \in SUBSET Nat
      BY DEF S
    <2> QED
      BY <1>1, <1>2, <2>1, Induction
  <1> QED
    BY <1>3

\* JoinAll satisfies its recursion.
LEMMA JoinAllIsJoined ==
    ASSUME NEW X, NEW runs \in Seq(X), NEW cats
    PROVE  \E f : AreJoined(f, runs, cats, Len(runs)) /\ JoinAll(runs, cats) = f[Len(runs)]
  <1> DEFINE f == CHOOSE f : f = [i \in 0 .. Len(runs) |->
                                     IF i = 0 THEN <<>> ELSE Join(f[i - 1], runs[i], cats)]
  <1>1. Len(runs) \in Nat
    OBVIOUS
  <1>2. AreJoined(f, runs, cats, Len(runs))
    BY <1>1, JoinedExist DEF AreJoined
  <1>3. JoinAll(runs, cats) = f[Len(runs)]
    BY DEF JoinAll
  <1> QED
    BY <1>2, <1>3

\* No runs are joined to none, and one more run is joined to the others joined.
LEMMA JoinAllEmpty ==
    ASSUME NEW cats PROVE JoinAll(<<>>, cats) = <<>>
  <1>1. PICK f : AreJoined(f, <<>>, cats, Len(<<>>)) /\ JoinAll(<<>>, cats) = f[Len(<<>>)]
    <2>1. <<>> \in Seq({})
      BY EmptySeq
    <2> QED
      BY <2>1, JoinAllIsJoined
  <1>2. Len(<<>>) = 0 /\ 0 \in 0 .. 0
    OBVIOUS
  <1>3. f[0] = <<>>
    BY <1>1, <1>2 DEF AreJoined
  <1> QED
    BY <1>1, <1>2, <1>3

LEMMA JoinAllOneMore ==
    ASSUME NEW X, NEW runs \in Seq(X), NEW run \in X, NEW cats
    PROVE  JoinAll(Append(runs, run), cats) = Join(JoinAll(runs, cats), run, cats)
  <1> DEFINE all == Append(runs, run)
             n == Len(runs)
  <1>1. /\ all \in Seq(X) /\ n \in Nat /\ Len(all) = n + 1 /\ all[n + 1] = run
        /\ \A i \in 1 .. n : runs[i] = all[i]
    OBVIOUS
  <1>2. PICK f : AreJoined(f, runs, cats, n) /\ JoinAll(runs, cats) = f[n]
    BY JoinAllIsJoined
  <1>3. PICK g : AreJoined(g, all, cats, n + 1) /\ JoinAll(all, cats) = g[n + 1]
    <2> HIDE DEF all
    <2> QED
      BY <1>1, JoinAllIsJoined
  <1>4. f[n] = g[n]
    <2> HIDE DEF all, n
    <2>1. n <= n + 1 /\ n + 1 \in Nat /\ n \in 0 .. n
      BY <1>1
    <2>2. PICK v : AreJoined(f, v, cats, n) /\ v = runs
      BY <1>2
    <2>3. PICK m \in Nat : m = n + 1
      BY <2>1
    <2>5. PICK w : AreJoined(g, w, cats, m) /\ w = all
      BY <1>3, <2>3
    <2>6. n \in Nat /\ n <= m /\ \A i \in 1 .. n : v[i] = w[i]
      BY <1>1, <2>1, <2>2, <2>3, <2>5
    <2>4. \A i \in 0 .. n : f[i] = g[i]
      BY <2>2, <2>5, <2>6, JoinedAreUnique
    <2> QED
      BY <2>1, <2>4
  <1>5. g[n + 1] = Join(g[n], all[n + 1], cats)
    <2> HIDE DEF all, n
    <2>1. n + 1 \in 0 .. n + 1 /\ n + 1 # 0 /\ (n + 1) - 1 = n
      BY <1>1
    <2>2. g[n + 1] = IF n + 1 = 0 THEN <<>> ELSE Join(g[(n + 1) - 1], all[n + 1], cats)
      BY <1>3, <2>1 DEF AreJoined
    <2> QED
      BY <2>1, <2>2
  <1> HIDE DEF all
  <1>6. JoinAll(all, cats) = Join(JoinAll(runs, cats), run, cats)
    BY <1>1, <1>2, <1>3, <1>4, <1>5
  <1> QED
    BY <1>6 DEF all

\* The categories whose symbols form runs.
RunCategories == Concatenating \cup {Unknown}

Reported == [category : Categories \cup {NoCategory, Unknown}, symbols : Seq(Symbols)]

LEMMA FrontAndLast ==
    ASSUME NEW X, NEW s \in Seq(X)
    PROVE  /\ s # <<>> => Front(s) \in Seq(X) /\ Last(s) \in X
           /\ \A x \in X : /\ Append(s, x) \in Seq(X) /\ Append(s, x) # <<>>
                          /\ Front(Append(s, x)) = s /\ Last(Append(s, x)) = x
  <1>1. ASSUME s # <<>> PROVE Front(s) \in Seq(X) /\ Last(s) \in X
    BY <1>1 DEF Front, Last
  <1>2. ASSUME NEW x \in X
        PROVE  /\ Append(s, x) \in Seq(X) /\ Append(s, x) # <<>>
               /\ Front(Append(s, x)) = s /\ Last(Append(s, x)) = x
    <2>1. Append(s, x) \in Seq(X) /\ Len(Append(s, x)) = Len(s) + 1 /\ Len(s) \in Nat
      OBVIOUS
    <2>2. Append(s, x) # <<>> /\ Last(Append(s, x)) = x
      BY DEF Last
    <2>3. Front(Append(s, x)) = s
      <3>1. (Len(s) + 1) - 1 = Len(s)
        BY <2>1
      <3> QED
        BY <2>1, <3>1 DEF Front
    <2> QED
      BY <2>1, <2>2, <2>3
  <1> QED
    BY <1>1, <1>2

\* The last of the joined runs has the category of the run that was joined.
LEMMA JoinTyped ==
    ASSUME NEW runs \in Seq(Reported), NEW run \in Reported, NEW cats
    PROVE  /\ Join(runs, run, cats) \in Seq(Reported) /\ Join(runs, run, cats) # <<>>
           /\ Last(Join(runs, run, cats)).category = run.category
  <1>1. CASE runs # <<>> /\ Last(runs).category = run.category /\ run.category \in cats
    <2> DEFINE longer == [category |-> run.category, symbols |-> Last(runs).symbols \o run.symbols]
    <2>1. Last(runs) \in Reported /\ Front(runs) \in Seq(Reported)
      BY <1>1, FrontAndLast
    <2>2. longer \in Reported /\ longer.category = run.category
      BY <2>1, ConcatProperties DEF Reported
    <2>3. Join(runs, run, cats) = Append(Front(runs), longer)
      BY <1>1 DEF Join
    <2> HIDE DEF longer
    <2>4. /\ Append(Front(runs), longer) \in Seq(Reported) /\ Append(Front(runs), longer) # <<>>
          /\ Last(Append(Front(runs), longer)) = longer
      BY <2>1, <2>2, FrontAndLast
    <2> QED
      BY <2>2, <2>3, <2>4
  <1>2. CASE ~(runs # <<>> /\ Last(runs).category = run.category /\ run.category \in cats)
    <2>1. Join(runs, run, cats) = Append(runs, run)
      BY <1>2 DEF Join
    <2>2. /\ Append(runs, run) \in Seq(Reported) /\ Append(runs, run) # <<>>
          /\ Last(Append(runs, run)) = run
      BY FrontAndLast
    <2> QED
      BY <2>1, <2>2
  <1> QED
    BY <1>1, <1>2

\* A run that is joined in two parts is joined as a whole.
LEMMA JoinTwice ==
    ASSUME NEW runs \in Seq(Reported), NEW c \in Categories \cup {NoCategory, Unknown},
           NEW a \in Seq(Symbols), NEW b \in Seq(Symbols), c \in RunCategories
    PROVE  Join(Join(runs, [category |-> c, symbols |-> a], {Unknown}),
                [category |-> c, symbols |-> b], RunCategories)
               = Join(runs, [category |-> c, symbols |-> a \o b], {Unknown})
  <1> DEFINE first == [category |-> c, symbols |-> a]
             second == [category |-> c, symbols |-> b]
             whole == [category |-> c, symbols |-> a \o b]
  <1>1. first \in Reported /\ second \in Reported /\ whole \in Reported
    BY ConcatProperties DEF Reported
  <1>5. \A x, y, z \in Seq(Symbols) : (x \o y) \o z = x \o (y \o z)
    BY ConcatAssociative
  <1>2. ASSUME NEW x \in Seq(Reported), NEW y \in Reported, y.category = c
        PROVE  Join(Append(x, y), second, RunCategories)
                   = Append(x, [category |-> c, symbols |-> y.symbols \o b])
    <2>1. /\ Append(x, y) # <<>> /\ Last(Append(x, y)) = y /\ Front(Append(x, y)) = x
      BY FrontAndLast
    <2>2. second.category = c /\ second.symbols = b
      OBVIOUS
    <2> HIDE DEF second
    <2> QED
      BY <1>2, <2>1, <2>2 DEF Join
  <1>3. CASE runs # <<>> /\ Last(runs).category = c /\ c \in {Unknown}
    <2>0. PICK last \in Reported : last = Last(runs)
      BY <1>3, FrontAndLast
    <2> DEFINE joined == [category |-> c, symbols |-> last.symbols \o a]
    <2>1. last \in Reported /\ Front(runs) \in Seq(Reported)
      BY <1>3, FrontAndLast
    <2>2. joined \in Reported /\ joined.category = c
      BY <2>1, ConcatProperties DEF Reported
    <2>3. Join(runs, first, {Unknown}) = Append(Front(runs), joined)
      <3>1. first.category = c /\ first.symbols = a
        OBVIOUS
      <3> HIDE DEF first
      <3> QED
        BY <1>3, <2>0, <3>1 DEF Join
    <2>4. Join(runs, whole, {Unknown})
              = Append(Front(runs), [category |-> c, symbols |-> last.symbols \o (a \o b)])
      <3>1. whole.category = c /\ whole.symbols = a \o b
        OBVIOUS
      <3> HIDE DEF whole
      <3> QED
        BY <1>3, <2>0, <3>1 DEF Join
    <2>5. Join(Append(Front(runs), joined), second, RunCategories)
              = Append(Front(runs), [category |-> c, symbols |-> joined.symbols \o b])
      <3> HIDE DEF joined, second
      <3> QED
        BY <1>2, <2>1, <2>2
    <2>6. joined.symbols \o b = last.symbols \o (a \o b)
      <3>1. last.symbols \in Seq(Symbols)
        BY <2>1 DEF Reported
      <3>2. (last.symbols \o a) \o b = last.symbols \o (a \o b)
        BY <1>5, <3>1
      <3> QED
        BY <3>2
    <2> QED
      BY <2>3, <2>4, <2>5, <2>6
  <1>4. CASE ~(runs # <<>> /\ Last(runs).category = c /\ c \in {Unknown})
    <2>1. Join(runs, first, {Unknown}) = Append(runs, first)
      BY <1>4 DEF Join
    <2>2. Join(runs, whole, {Unknown}) = Append(runs, whole)
      BY <1>4 DEF Join
    <2>3. Join(Append(runs, first), second, RunCategories)
              = Append(runs, [category |-> c, symbols |-> first.symbols \o b])
      <3>1. first.category = c
        OBVIOUS
      <3> HIDE DEF first, second
      <3> QED
        BY <1>1, <1>2, <3>1
    <2> QED
      BY <2>1, <2>2, <2>3
  <1> QED
    BY <1>3, <1>4

LEMMA JoinAllTyped ==
    ASSUME NEW runs \in Seq(Reported), NEW cats
    PROVE  JoinAll(runs, cats) \in Seq(Reported)
  <1>1. PICK k \in Nat : k = Len(runs)
    OBVIOUS
  <1>2. PICK f : AreJoined(f, runs, cats, k) /\ JoinAll(runs, cats) = f[k]
    BY <1>1, JoinAllIsJoined
  <1> DEFINE S == {n \in Nat : n <= k => f[n] \in Seq(Reported)}
  <1>3. 0 \in S
    <2>1. 0 \in 0 .. k /\ <<>> \in Seq(Reported)
      BY EmptySeq
    <2>2. f[0] = <<>>
      BY <1>2, <2>1 DEF AreJoined
    <2> QED
      BY <2>1, <2>2
  <1>4. ASSUME NEW n \in S PROVE n + 1 \in S
    <2>1. ASSUME n + 1 <= k PROVE f[n + 1] \in Seq(Reported)
      <3>1. n + 1 \in 0 .. k /\ n + 1 # 0 /\ (n + 1) - 1 = n /\ n <= k
        BY <2>1
      <3>2. f[n + 1] = Join(f[n], runs[n + 1], cats)
        BY <1>2, <3>1 DEF AreJoined
      <3>3. runs[n + 1] \in Reported
        BY <1>1, <3>1
      <3>4. f[n] \in Seq(Reported)
        BY <3>1
      <3> QED
        BY <3>2, <3>3, <3>4, JoinTyped
    <2> QED
      BY <2>1
  <1>5. S = Nat
    <2> HIDE DEF S
    <2>1. S \in SUBSET Nat
      BY DEF S
    <2> QED
      BY <1>3, <1>4, <2>1, Induction
  <1> QED
    BY <1>2, <1>5

-----------------------------------------------------------------------------
(* The reports are the runs *)

Buffered == [category |-> mSavedCategory, symbols |-> mSymbolBuffer]

\* A buffered run has a category, uncategorized text is buffered when the chunk ends, and nothing
\* is reported or buffered before something was read.
BufferedRun ==
    /\ mSymbolBuffer # <<>> => mSavedCategory # NoCategory
    /\ (phase = "Parsing" /\ left = 0 /\ mSavedCategory = Unknown) => mSymbolBuffer # <<>>
    /\ read = <<>> => reports = <<>> /\ mSymbolBuffer = <<>>

\* The reports and the buffered run are the runs of what was read, and a symbol of the category
\* reported last is not the next to come, unless it is reported in pieces.
AllRuns ==
    /\ mSymbolBuffer # <<>> => mSavedCategory \in RunCategories
    /\ RunsOf(read) = IF mSymbolBuffer = <<>> THEN PiecesJoined
                      ELSE Join(PiecesJoined, Buffered, {Unknown})
    /\ (/\ mSymbolBuffer = <<>> /\ phase # "Ended"
        /\ PiecesJoined # <<>> /\ Last(PiecesJoined).category \in Concatenating) =>
           \E s \in Symbols : ahead = <<s>> /\ CategoryOf(s) # Last(PiecesJoined).category

RInv == BufferedRun /\ (mSymbolMap = Registrations => AllRuns)

\* Once every category is registered, the category the lookup finds is the symbol's own.
LEMMA CategoryIsFound ==
    ASSUME TypeOK, mSymbolMap = Registrations, NEW s \in Symbols
    PROVE  /\ CategoryAt(Lookup(s)) = CategoryOf(s) /\ CategoryOf(s) \in Categories \cup {Unknown}
           /\ ConcatenatesAt(Lookup(s)) <=> CategoryOf(s) \in RunCategories
           /\ Lookup(s) = 0 <=> CategoryOf(s) = Unknown
  <1> DEFINE R == Registrations
             Fit == {i \in DOMAIN R : s \in R[i].symbols}
  <1>1. Fitting(s) = Fit
    BY DEF Fitting
  <1>2. \A i \in DOMAIN R : i # 0 /\ R[i] \in Entries
    BY SymbolizerAssumption
  <1>3. \A i, j \in Fit : i = j
    BY CategoriesDisjoint
  <1>4. CASE Fit = {}
    <2>1. Lookup(s) = 0
      BY <1>1, <1>4 DEF Lookup
    <2>2. CategoryOf(s) = Unknown
      BY <1>4 DEF CategoryOf
    <2> QED
      BY <2>1, <2>2 DEF CategoryAt, ConcatenatesAt, RunCategories
  <1>5. CASE Fit # {}
    <2>1. PICK i \in Fit : TRUE
      BY <1>5
    <2>2. Lookup(s) = i
      BY <1>1, <1>3, <2>1 DEF Lookup
    <2>3. CategoryOf(s) = R[i].category
      <3>1. \E j \in DOMAIN R : s \in R[j].symbols
        BY <2>1
      <3>2. (CHOOSE j \in DOMAIN R : s \in R[j].symbols) = i
        BY <1>3, <2>1
      <3> QED
        BY <3>1, <3>2 DEF CategoryOf
    <2>4. i \in DOMAIN R /\ i # 0 /\ R[i] \in Entries
      BY <1>2, <2>1
    <2>5. R[i].category \in Categories /\ R[i].category # Unknown
      BY <2>4, SymbolizerAssumption DEF Categories
    <2>6. R[i].concatenates <=> R[i].category \in Concatenating
      BY <2>4, <1>2, CategoriesDisjoint DEF Concatenating, Entries
    <2> QED
      BY <2>2, <2>3, <2>4, <2>5, <2>6 DEF CategoryAt, ConcatenatesAt, RunCategories
  <1> QED
    BY <1>4, <1>5

LEMMA NothingRead == RunsOf(<<>>) = <<>>
  <1>1. [i \in DOMAIN <<>> |-> [category |-> CategoryOf(<<>>[i]), symbols |-> <<<<>>[i]>>]] = <<>>
    OBVIOUS
  <1> QED
    BY <1>1, JoinAllEmpty DEF RunsOf

LEMMA OneMoreRead ==
    ASSUME NEW stream \in Seq(Symbols), NEW s \in Symbols
    PROVE  RunsOf(Append(stream, s))
               = Join(RunsOf(stream), [category |-> CategoryOf(s), symbols |-> <<s>>], RunCategories)
  <1> DEFINE Alone(x) == [category |-> CategoryOf(x), symbols |-> <<x>>]
             X == {Alone(x) : x \in Symbols}
             runs == [i \in DOMAIN stream |-> Alone(stream[i])]
             more == [i \in DOMAIN Append(stream, s) |-> Alone(Append(stream, s)[i])]
  <1>1. RunsOf(stream) = JoinAll(runs, RunCategories)
    BY DEF RunsOf, RunCategories
  <1>2. RunsOf(Append(stream, s)) = JoinAll(more, RunCategories)
    BY DEF RunsOf, RunCategories
  <1>3. runs \in Seq(X) /\ Alone(s) \in X
    <2>1. DOMAIN stream = 1 .. Len(stream) /\ Len(stream) \in Nat
          /\ \A i \in 1 .. Len(stream) : stream[i] \in Symbols
      OBVIOUS
    <2>2. \A i \in 1 .. Len(stream) : Alone(stream[i]) \in X
      BY <2>1
    <2> HIDE DEF X, Alone
    <2>3. runs = [i \in 1 .. Len(stream) |-> Alone(stream[i])]
      BY <2>1
    <2>4. runs \in [1 .. Len(stream) -> X]
      BY <2>2, <2>3
    <2> QED
      BY <2>1, <2>4, SeqDef DEF X
  <1>4. more = Append(runs, Alone(s))
    <2>1. /\ Len(stream) \in Nat /\ DOMAIN stream = 1 .. Len(stream)
          /\ DOMAIN Append(stream, s) = 1 .. Len(stream) + 1
          /\ Append(stream, s)[Len(stream) + 1] = s
          /\ \A i \in 1 .. Len(stream) : Append(stream, s)[i] = stream[i]
      OBVIOUS
    <2> HIDE DEF Alone, X
    <2>2. PICK n \in Nat : n = Len(stream)
      BY <2>1
    <2>3. runs = [i \in 1 .. n |-> Alone(stream[i])]
          /\ more = [i \in 1 .. n + 1 |-> Alone(Append(stream, s)[i])]
      BY <2>1, <2>2
    <2> HIDE DEF runs, more
    <2>4. Len(runs) = n /\ \A i \in 1 .. n : runs[i] = Alone(stream[i])
      BY <1>3, <2>2, <2>3
    <2>5. \A i \in 1 .. n + 1 : more[i] = IF i = n + 1 THEN Alone(s) ELSE runs[i]
      BY <2>1, <2>2, <2>3, <2>4
    <2>6. more \in Seq(X)
      <3>1. \A i \in 1 .. n + 1 : more[i] \in X
        BY <1>3, <2>4, <2>5
      <3>2. more \in [1 .. n + 1 -> X]
        BY <2>3, <3>1
      <3> QED
        BY <2>2, <3>2, SeqDef
    <2>7. Len(more) = n + 1
      BY <2>3, <2>6
    <2>8. /\ Append(runs, Alone(s)) \in Seq(X) /\ Len(Append(runs, Alone(s))) = n + 1
          /\ Append(runs, Alone(s))[n + 1] = Alone(s)
          /\ \A i \in 1 .. n : Append(runs, Alone(s))[i] = runs[i]
      BY <1>3, <2>4, AppendProperties
    <2>9. \A i \in 1 .. n + 1 : more[i] = Append(runs, Alone(s))[i]
      BY <2>5, <2>8
    <2> QED
      BY <2>6, <2>7, <2>8, <2>9, SeqEqual
  <1> HIDE DEF X, runs, more, Alone
  <1>5. RunsOf(Append(stream, s)) = Join(RunsOf(stream), Alone(s), RunCategories)
    BY <1>1, <1>2, <1>3, <1>4, JoinAllOneMore
  <1> QED
    BY <1>5 DEF Alone

\* A report is joined to those before it.
LEMMA OneMoreReport ==
    ASSUME TypeOK, NEW category \in Categories \cup {NoCategory, Unknown},
           NEW text \in Seq(Symbols), Report(category, text)
    PROVE  PiecesJoined' = Join(PiecesJoined, [category |-> category, symbols |-> text], {Unknown})
  <1>1. reports \in Seq(Reported) /\ [category |-> category, symbols |-> text] \in Reported
    BY DEF TypeOK, Reported
  <1>2. reports' = Append(reports, [category |-> category, symbols |-> text])
    BY DEF Report
  <1> QED
    BY <1>1, <1>2, JoinAllOneMore DEF PiecesJoined

LEMMA PiecesJoinedTyped == TypeOK => PiecesJoined \in Seq(Reported)
  BY JoinAllTyped DEF TypeOK, Reported, PiecesJoined

\* The lookup finds no category only for uncategorized symbols.
LEMMA FoundHasName ==
    ASSUME TypeOK, NEW s \in Symbols
    PROVE  /\ CategoryAt(Lookup(s)) # NoCategory
           /\ Lookup(s) # 0 => CategoryAt(Lookup(s)) # Unknown
  <1>1. Lookup(s) \in 0 .. Len(mSymbolMap)
    BY LookupInMap
  <1>2. Lookup(s) # 0 => mSymbolMap[Lookup(s)].category \in Categories
    <2>1. \A i \in 1 .. Len(mSymbolMap) : mSymbolMap[i] \in Entries
      BY DEF TypeOK
    <2> QED
      BY <1>1, <2>1 DEF Entries
  <1>3. NoCategory # Unknown
    BY DEF NoCategory, Unknown
  <1> QED
    BY <1>2, <1>3, SymbolizerAssumption DEF CategoryAt

LEMMA InitRInv == Init => RInv
  <1> SUFFICES ASSUME Init PROVE RInv
    OBVIOUS
  <1>1. BufferedRun
    BY DEF Init, BufferedRun, NoCategory, Unknown
  <1>2. PiecesJoined = <<>> /\ RunsOf(read) = <<>>
    BY JoinAllEmpty, NothingRead DEF Init, PiecesJoined
  <1> QED
    BY <1>1, <1>2 DEF Init, RInv, AllRuns

LEMMA BufferedRunStep ==
    ASSUME VetoesOnlyRuns, TypeOK, DInv, BufferedRun, [Next]_vars
    PROVE  BufferedRun'
  <1> USE DEF BufferedRun, DInv
  <1>0. \A x \in Symbols : Append(read, x) # <<>> /\ Append(mSymbolBuffer, x) # <<>>
    <2>1. read \in Seq(Symbols) /\ mSymbolBuffer \in Seq(Symbols)
      BY DEF TypeOK
    <2> QED
      BY <2>1, AppendProperties
  <1>1. CASE AddCategory
    BY <1>1 DEF AddCategory, bufferVars, streamVars, reportVars
  <1>2. ASSUME NEW n \in 1 .. MaxChunk, BeginParse(n) PROVE BufferedRun'
    BY <1>2, SymbolizerAssumption DEF BeginParse, bufferVars, streamVars, reportVars
  <1>3. ASSUME NEW s \in Symbols, NEW answer \in BOOLEAN,
               Boundary(s, answer) \/ FlushUnknown(s, answer)
        PROVE  BufferedRun'
    <2>1. mSymbolBuffer # <<>> /\ mSymbolBuffer' = <<>>
      BY <1>3, SymbolizerAssumption DEF Boundary, FlushUnknown, ReportSymbolFound
    <2>2. read' = read /\ (phase' = "Parsing" => left' = left) /\ Width[s] <= left
      BY <1>3 DEF Boundary, FlushUnknown, ReturnHere, AtPosition, streamVars
    <2>3. left # 0
      BY <2>2, SymbolizerAssumption
    <2> QED
      BY <2>1, <2>2, <2>3
  <1>4. ASSUME NEW s \in Symbols, NEW answer \in BOOLEAN, StoreAlone(s, answer) PROVE BufferedRun'
    <2>1. answer = TRUE
      BY <1>4, AloneNotVetoed
    <2>2. mSymbolBuffer' = <<>> /\ read' = Append(read, s) /\ mSavedCategory' = CategoryAt(Lookup(s))
          /\ Lookup(s) # 0
      BY <1>4, <2>1 DEF StoreAlone, ReportSymbolFound, Advance, ConcatenatesAt
    <2> QED
      BY <1>0, <2>2, FoundHasName
  <1>5. ASSUME ConversionFails \/ \E s \in Symbols : SymbolTooBig(s) PROVE BufferedRun'
    <2>1. phase' = "Failed" /\ UNCHANGED <<mSymbolBuffer, read, reports>>
      BY <1>5 DEF ConversionFails, SymbolTooBig, bufferVars, streamVars, reportVars
    <2>2. mSavedCategory' = mSavedCategory \/ mSavedCategory' # NoCategory
      BY <1>5, FoundHasName DEF ConversionFails, SymbolTooBig, bufferVars
    <2> QED
      BY <2>1, <2>2
  <1>6. ASSUME NEW s \in Symbols, Store(s) PROVE BufferedRun'
    <2>1. mSymbolBuffer' = Append(mSymbolBuffer, s) /\ read' = Append(read, s)
          /\ mSavedCategory' = CategoryAt(Lookup(s))
      BY <1>6 DEF Store, Advance
    <2> QED
      BY <1>0, <2>1, FoundHasName
  <1>7. ASSUME NEW answer \in BOOLEAN, ChunkEnd(answer) PROVE BufferedRun'
    BY <1>7 DEF ChunkEnd, ReportSymbolFound, streamVars, reportVars
  <1>8. CASE EndParsing
    BY <1>8 DEF EndParsing, ClearBuffer, streamVars, reportVars
  <1>9. CASE NextOperation
    BY <1>9 DEF NextOperation, ClearBuffer, EmptyAtEnd, bufferVars
  <1>10. CASE UNCHANGED vars
    BY <1>10 DEF vars, bufferVars, streamVars, reportVars
  <1> QED
    BY <1>1, <1>2, <1>3, <1>4, <1>5, <1>6, <1>7, <1>8, <1>9, <1>10 DEF Next, ParseStep

\* Reporting the buffered run makes the reports the runs of what was read.
LEMMA BufferReported ==
    ASSUME TypeOK, AllRuns, mSymbolBuffer # <<>>, Report(mSavedCategory, mSymbolBuffer)
    PROVE  /\ PiecesJoined' = RunsOf(read)
           /\ PiecesJoined' # <<>> /\ Last(PiecesJoined').category = mSavedCategory
  <1>1. PiecesJoined' = Join(PiecesJoined, Buffered, {Unknown})
    BY OneMoreReport DEF TypeOK, Buffered
  <1>2. Buffered \in Reported /\ Buffered.category = mSavedCategory
    BY DEF TypeOK, Buffered, Reported
  <1>3. /\ Join(PiecesJoined, Buffered, {Unknown}) # <<>>
        /\ Last(Join(PiecesJoined, Buffered, {Unknown})).category = Buffered.category
    BY <1>2, PiecesJoinedTyped, JoinTyped
  <1> QED
    BY <1>1, <1>2, <1>3 DEF AllRuns

\* A symbol that joins the buffer joins the last run.
LEMMA SymbolStored ==
    ASSUME TypeOK, BufferedRun, mSymbolMap = Registrations, AllRuns,
           NEW s \in Symbols, AtPosition(s), SameRun(s)
    PROVE  /\ ConcatenatesAt(Lookup(s)) =>
                  RunsOf(Append(read, s))
                      = Join(PiecesJoined,
                             [category |-> CategoryOf(s), symbols |-> Append(mSymbolBuffer, s)],
                             {Unknown})
           /\ ~ConcatenatesAt(Lookup(s)) =>
                  /\ mSymbolBuffer = <<>>
                  /\ RunsOf(Append(read, s))
                         = Join(PiecesJoined, [category |-> CategoryOf(s), symbols |-> <<s>>], {Unknown})
  <1> DEFINE c == CategoryOf(s)
             alone == [category |-> c, symbols |-> <<s>>]
  <1>1. /\ c \in Categories \cup {NoCategory, Unknown} /\ <<s>> \in Seq(Symbols)
        /\ mSymbolBuffer \in Seq(Symbols) /\ PiecesJoined \in Seq(Reported)
    BY CategoryIsFound, PiecesJoinedTyped DEF TypeOK
  <1>2. RunsOf(Append(read, s)) = Join(RunsOf(read), alone, RunCategories)
    BY OneMoreRead DEF TypeOK
  <1>3. CASE mSymbolBuffer # <<>>
    <2>1. mSavedCategory = c /\ c \in RunCategories
      BY <1>3, CategoryIsFound DEF SameRun, BufferedRun, AllRuns
    <2>2. RunsOf(read) = Join(PiecesJoined, [category |-> c, symbols |-> mSymbolBuffer], {Unknown})
      BY <1>3, <2>1 DEF AllRuns, Buffered
    <2>3. Append(mSymbolBuffer, s) = mSymbolBuffer \o <<s>>
      BY AppendIsConcat DEF TypeOK
    <2>4. Join(Join(PiecesJoined, [category |-> c, symbols |-> mSymbolBuffer], {Unknown}),
               [category |-> c, symbols |-> <<s>>], RunCategories)
              = Join(PiecesJoined, [category |-> c, symbols |-> mSymbolBuffer \o <<s>>], {Unknown})
      <3> HIDE DEF c
      <3> QED
        BY <1>1, <2>1, JoinTwice
    <2> QED
      BY <1>2, <2>1, <2>2, <2>3, <2>4, CategoryIsFound
  <1>4. CASE mSymbolBuffer = <<>>
    <2>1. RunsOf(read) = PiecesJoined
      BY <1>4 DEF AllRuns
    <2>2. Append(mSymbolBuffer, s) = <<s>>
      BY <1>4
    <2>3. Join(PiecesJoined, alone, RunCategories) = Join(PiecesJoined, alone, {Unknown})
      <3>1. CASE PiecesJoined # <<>> /\ Last(PiecesJoined).category = c /\ c \in Concatenating
        <4>1. PICK x \in Symbols : ahead = <<x>> /\ CategoryOf(x) # c
          BY <1>4, <3>1 DEF AllRuns, AtPosition
        <4>2. x = s
          BY <4>1 DEF AtPosition
        <4> QED
          BY <4>1, <4>2
      <3>2. CASE ~(PiecesJoined # <<>> /\ Last(PiecesJoined).category = c /\ c \in Concatenating)
        <4>1. alone.category = c
          OBVIOUS
        <4> HIDE DEF c, alone
        <4>2. (/\ PiecesJoined # <<>> /\ Last(PiecesJoined).category = alone.category
               /\ alone.category \in RunCategories) <=>
              (/\ PiecesJoined # <<>> /\ Last(PiecesJoined).category = alone.category
               /\ alone.category \in {Unknown})
          BY <3>2, <4>1 DEF RunCategories
        <4> QED
          BY <4>2 DEF Join
      <3> QED
        BY <3>1, <3>2
    <2> QED
      BY <1>2, <1>4, <2>1, <2>2, <2>3
  <1> QED
    BY <1>3, <1>4

\* A step that reads, reports and buffers nothing keeps the runs.
LEMMA RunsKept ==
    ASSUME AllRuns,
           UNCHANGED <<mSymbolBuffer, reports, read, ahead>>, phase = "Ended" => phase' = "Ended",
           mSymbolBuffer # <<>> => mSavedCategory' = mSavedCategory
    PROVE  AllRuns'
  <1>1. PiecesJoined' = PiecesJoined
    BY DEF PiecesJoined
  <1>2. mSymbolBuffer # <<>> => Buffered' = Buffered
    BY DEF Buffered
  <1>3. RunsOf(read)' = RunsOf(read)
    BY DEF RunsOf
  <1> QED
    BY <1>1, <1>2, <1>3 DEF AllRuns

LEMMA AllRunsStep ==
    ASSUME VetoesOnlyRuns, TypeOK, TypeOK', DInv, RInv, [Next]_vars, (mSymbolMap = Registrations)'
    PROVE  AllRuns'
  <1> USE DEF DInv, RInv
  <1>0. RunsOf(read)' = RunsOf(read')
    OBVIOUS
  <1>1. CASE AddCategory
    <2>1. read = <<>> /\ reports = <<>> /\ mSymbolBuffer = <<>>
      BY <1>1 DEF AddCategory, BufferedRun
    <2>2. read' = <<>> /\ reports' = <<>> /\ mSymbolBuffer' = <<>>
      BY <1>1, <2>1 DEF AddCategory, bufferVars, streamVars, reportVars
    <2>3. PiecesJoined' = <<>> /\ RunsOf(read') = <<>>
      BY <2>2, JoinAllEmpty, NothingRead DEF PiecesJoined
    <2> QED
      BY <2>2, <2>3 DEF AllRuns
  <1> SUFFICES ASSUME ~AddCategory, mSymbolMap = Registrations PROVE AllRuns'
    <2>1. ~AddCategory => mSymbolMap' = mSymbolMap
      BY DEF Next, ParseStep, BeginParse, Boundary, FlushUnknown, StoreAlone, ConversionFails,
             SymbolTooBig, Store, ChunkEnd, EndParsing, NextOperation, mapVars, vars
    <2> QED
      BY <1>1, <2>1
  <1>2. ASSUME NEW n \in 1 .. MaxChunk, BeginParse(n) PROVE AllRuns'
    BY <1>2, RunsKept DEF BeginParse, bufferVars, streamVars, reportVars
  <1>3. ASSUME NEW s \in Symbols, NEW answer \in BOOLEAN, Boundary(s, answer) PROVE AllRuns'
    <2>1. /\ mSymbolBuffer # <<>> /\ mSymbolBuffer' = <<>> /\ read' = read
          /\ Report(mSavedCategory, mSymbolBuffer) /\ ahead' = <<s>>
      BY <1>3 DEF Boundary, ReturnHere, ReportSymbolFound, streamVars
    <2>2. PiecesJoined' = RunsOf(read) /\ Last(PiecesJoined').category = mSavedCategory
      BY <2>1, BufferReported
    <2>3. CategoryOf(s) # mSavedCategory
      BY <1>3, CategoryIsFound DEF Boundary
    <2> QED
      BY <2>1, <2>2, <2>3 DEF AllRuns
  <1>4. ASSUME NEW s \in Symbols, NEW answer \in BOOLEAN, FlushUnknown(s, answer) PROVE AllRuns'
    <2>1. /\ mSymbolBuffer # <<>> /\ mSymbolBuffer' = <<>> /\ read' = read
          /\ Report(Unknown, mSymbolBuffer)
      BY <1>4, SymbolizerAssumption DEF FlushUnknown, ReturnHere, ReportSymbolFound, streamVars
    <2>2. mSavedCategory = Unknown
      BY <1>4, <2>1 DEF FlushUnknown, SameRun, CategoryAt, BufferedRun
    <2>3. PiecesJoined' = RunsOf(read) /\ Last(PiecesJoined').category = Unknown
      BY <2>1, <2>2, BufferReported
    <2>4. Unknown \notin Concatenating
      BY SymbolizerAssumption DEF Concatenating, Categories
    <2> QED
      BY <2>1, <2>3, <2>4 DEF AllRuns
  <1>5. ASSUME NEW s \in Symbols, NEW answer \in BOOLEAN, StoreAlone(s, answer) PROVE AllRuns'
    <2> DEFINE alone == [category |-> CategoryOf(s), symbols |-> <<s>>]
    <2>1. answer = TRUE
      BY <1>5, AloneNotVetoed
    <2>2. mSymbolBuffer = <<>> /\ RunsOf(Append(read, s)) = Join(PiecesJoined, alone, {Unknown})
      BY <1>5, SymbolStored DEF StoreAlone
    <2>3. /\ mSymbolBuffer' = <<>> /\ read' = Append(read, s)
          /\ Report(CategoryOf(s), <<s>>)
      BY <1>5, <2>1, <2>2, CategoryIsFound DEF StoreAlone, ReportSymbolFound, Advance
    <2>4. /\ CategoryOf(s) \in Categories \cup {NoCategory, Unknown} /\ CategoryOf(s) \notin Concatenating
          /\ <<s>> \in Seq(Symbols)
      BY <1>5, CategoryIsFound DEF StoreAlone, RunCategories
    <2>5. PiecesJoined' = Join(PiecesJoined, alone, {Unknown})
      BY <2>3, <2>4, OneMoreReport
    <2>6. Last(PiecesJoined').category = CategoryOf(s)
      <3>1. alone \in Reported /\ alone.category = CategoryOf(s)
        BY <2>4 DEF Reported
      <3> HIDE DEF alone
      <3> QED
        BY <2>5, <3>1, PiecesJoinedTyped, JoinTyped
    <2> HIDE DEF alone
    <2> QED
      BY <2>2, <2>3, <2>4, <2>5, <2>6 DEF AllRuns
  <1>6. ASSUME ConversionFails PROVE AllRuns'
    BY <1>6, RunsKept DEF ConversionFails, bufferVars, streamVars, reportVars
  <1>7. ASSUME NEW s \in Symbols, SymbolTooBig(s) PROVE AllRuns'
    <2>1. /\ UNCHANGED <<mSymbolBuffer, read, reports>> /\ mSymbolBuffer # <<>>
          /\ mSavedCategory' = CategoryAt(Lookup(s))
      BY <1>7, SymbolizerAssumption DEF SymbolTooBig, streamVars, reportVars
    <2>2. mSavedCategory' = mSavedCategory
      BY <1>7, <2>1 DEF SymbolTooBig, SameRun, BufferedRun
    <2>3. PiecesJoined' = PiecesJoined /\ Buffered' = Buffered
      BY <2>1, <2>2 DEF PiecesJoined, Buffered
    <2> QED
      BY <2>1, <2>2, <2>3 DEF AllRuns
  <1>8. ASSUME NEW s \in Symbols, Store(s) PROVE AllRuns'
    <2>1. /\ mSymbolBuffer' = Append(mSymbolBuffer, s) /\ read' = Append(read, s)
          /\ mSavedCategory' = CategoryOf(s) /\ reports' = reports
          /\ CategoryOf(s) \in RunCategories
      BY <1>8, CategoryIsFound DEF Store, Advance, reportVars
    <2>2. mSymbolBuffer' # <<>>
      <3>1. mSymbolBuffer \in Seq(Symbols)
        BY DEF TypeOK
      <3>2. Append(mSymbolBuffer, s) # <<>>
        BY <3>1, AppendProperties, Zenon
      <3> QED
        BY <2>1, <3>2, Zenon
    <2>3. PiecesJoined' = PiecesJoined
      BY <2>1 DEF PiecesJoined
    <2>4. Buffered' = [category |-> CategoryOf(s), symbols |-> Append(mSymbolBuffer, s)]
      BY <2>1 DEF Buffered
    <2>5. RunsOf(read') = Join(PiecesJoined', Buffered', {Unknown})
      BY <1>8, <2>1, <2>3, <2>4, SymbolStored DEF Store
    <2> QED
      BY <2>1, <2>2, <2>5 DEF AllRuns
  <1>9. ASSUME NEW answer \in BOOLEAN, ChunkEnd(answer) PROVE AllRuns'
    <2>1. CASE mSavedCategory = Unknown
      <3>1. /\ mSymbolBuffer # <<>> /\ mSymbolBuffer' = <<>> /\ read' = read
            /\ Report(mSavedCategory, mSymbolBuffer)
        BY <1>9, <2>1 DEF ChunkEnd, BufferedRun, ReportSymbolFound, streamVars
      <3>2. PiecesJoined' = RunsOf(read) /\ Last(PiecesJoined').category = Unknown
        BY <2>1, <3>1, BufferReported
      <3>3. Unknown \notin Concatenating
        BY SymbolizerAssumption DEF Concatenating, Categories
      <3> QED
        BY <3>1, <3>2, <3>3 DEF AllRuns
    <2>2. CASE mSavedCategory # Unknown
      BY <1>9, <2>2, RunsKept DEF ChunkEnd, streamVars, reportVars
    <2> QED
      BY <2>1, <2>2
  <1>10. CASE EndParsing
    <2>1. mSymbolBuffer' = <<>> /\ read' = read /\ phase' = "Ended"
      BY <1>10 DEF EndParsing, ClearBuffer, streamVars
    <2>2. PiecesJoined' = RunsOf(read)
      <3>1. CASE mSymbolBuffer # <<>>
        BY <1>10, <3>1, BufferReported DEF EndParsing
      <3>2. CASE mSymbolBuffer = <<>>
        BY <1>10, <3>2 DEF EndParsing, AllRuns, PiecesJoined, reportVars
      <3> QED
        BY <3>1, <3>2
    <2> QED
      BY <2>1, <2>2 DEF AllRuns
  <1>11. CASE NextOperation
    <2>1. read' = <<>> /\ reports' = <<>> /\ mSymbolBuffer' = <<>>
      BY <1>11 DEF NextOperation, ClearBuffer, EmptyAtEnd, bufferVars
    <2>2. PiecesJoined' = <<>> /\ RunsOf(read') = <<>>
      BY <2>1, JoinAllEmpty, NothingRead DEF PiecesJoined
    <2> QED
      BY <2>1, <2>2 DEF AllRuns
  <1>12. CASE UNCHANGED vars
    BY <1>12, RunsKept DEF vars, bufferVars, streamVars, reportVars
  <1> QED
    BY <1>2, <1>3, <1>4, <1>5, <1>6, <1>7, <1>8, <1>9, <1>10, <1>11, <1>12 DEF Next, ParseStep

\* When a stream has ended, what the observer was told is the stream cut into its maximal runs of
\* one category, each with its category: whatever the chunks, the buffer's capacity, the cached map
\* entry and the vetoes of runs, as long as every category is registered.
THEOREM RunsAreReported == VetoesOnlyRuns => (Spec => []ReportsAreTheRuns)
  <1> SUFFICES ASSUME VetoesOnlyRuns PROVE Spec => []ReportsAreTheRuns
    OBVIOUS
  <1>1. TypeOK /\ DInv /\ [Next]_vars => DInv'
    BY NextDInv
  <1>2. Spec => []DInv
    BY <1>1, InitDInv, TypeCorrect, PTL DEF Spec
  <1>3. TypeOK /\ TypeOK' /\ DInv /\ RInv /\ [Next]_vars => RInv'
    BY BufferedRunStep, AllRunsStep DEF RInv
  <1>4. Spec => []RInv
    BY <1>2, <1>3, InitRInv, TypeCorrect, PTL DEF Spec
  <1>5. TypeOK /\ DInv /\ RInv => ReportsAreTheRuns
    BY DEF DInv, RInv, AllRuns, EmptyAtEnd, ReportsAreTheRuns
  <1> QED
    BY <1>2, <1>4, <1>5, TypeCorrect, PTL
=============================================================================
