---------------------------- MODULE TokenizerProofs ----------------------------
(***************************************************************************)
(* Theorems about the tokenizer, for every stream and every observer.      *)
(* Their inductive invariants say, for each point a report can have        *)
(* reached, what the state machine and the pending word are then: none of  *)
(* the properties is inductive without knowing which requests can be       *)
(* pending beside which symbols.                                           *)
(***************************************************************************)
EXTENDS Tokenizer, TLAPS

\* The type invariant in two parts: the flags and states, and the texts.
Scalars ==
    /\ mCurState \in ParseStates /\ mNextState \in ParseStates \cup {None}
    /\ symbols \in Categories \cup {None}
    /\ keepParsing \in BOOLEAN /\ reEvaluate \in BOOLEAN /\ mParseError \in BOOLEAN
    /\ phase \in {"Idle", "Evaluate", "DoTransition", "Stopped", "Ended"}
    /\ ending \in BOOLEAN
    /\ refused \in BOOLEAN /\ late \in 0 .. 2

Builders ==
    /\ ngraphBuilder \in Seq(NGraphCategories) /\ Len(ngraphBuilder) <= 1
    /\ ngraph \in Seq(NGraphCategories) /\ Len(ngraph) <= 2

Words == word \in Seq(WordCategories) /\ block \in Seq(WordCategories)
Told == told \in [text : Texts, parity : BOOLEAN]
Comments == comment \in (Categories \cup {None}) \X (Categories \cup {None})

\* What can be requested, and what is at hand when it is.
Requests ==
    /\ phase \in {"Idle", "Evaluate", "Stopped"} => mNextState = None
    /\ phase = "Evaluate" => ~reEvaluate /\ symbols \in Categories
    /\ phase = "DoTransition" /\ (reEvaluate \/ mNextState # None) => symbols \in Categories
    /\ phase = "DoTransition" /\ mNextState = "Word" =>
          mCurState = "MainSequence" /\ symbols \in WordCategories
    /\ phase = "DoTransition" /\ mNextState = "NGraph" => symbols \in NGraphCategories

TInv == Scalars /\ Builders /\ Words /\ Told /\ Comments /\ Requests

LEMMA TypeInParts == TypeOK <=> Scalars /\ Builders /\ Words /\ Told /\ Comments
  BY DEF TypeOK, Scalars, Builders, Words, Told, Comments

-----------------------------------------------------------------------------
(* Facts about the helpers *)

LEMMA CategoriesFact ==
    /\ WordCategories \subseteq Categories /\ NGraphCategories \subseteq Categories
    /\ ControlCategories \subseteq Categories
    /\ WordCategories \cap NGraphCategories = {}
    /\ None \notin Categories /\ None \notin ParseStates
  BY DEF WordCategories, NGraphCategories, ControlCategories, Categories, Concatenating, None,
         ParseStates

LEMMA WordsAreTexts == ASSUME NEW w \in Seq(WordCategories) PROVE w \in Texts
  BY CategoriesFact DEF Texts

LEMMA EmptyAndSingle ==
    ASSUME NEW S, NEW s \in S
    PROVE  <<s>> \in Seq(S) /\ Len(<<s>>) = 1 /\ <<>> \in Seq(S) /\ Len(<<>>) = 0
  OBVIOUS

LEMMA Empty == ASSUME NEW S PROVE <<>> \in Seq(S) /\ Len(<<>>) = 0
  OBVIOUS

LEMMA Appended ==
    ASSUME NEW S, NEW t \in Seq(S), NEW s \in S
    PROVE  Append(t, s) \in Seq(S) /\ Len(Append(t, s)) = Len(t) + 1
  OBVIOUS

LEMMA Lengthened ==
    ASSUME NEW S, NEW t \in Seq(S), NEW s \in S
    PROVE  /\ Append(t, s) \in Seq(S) /\ Len(Append(t, s)) = Len(t) + 1
           /\ Append(t, s)[Len(t) + 1] = s
           /\ \A i \in 1 .. Len(t) : Append(t, s)[i] = t[i]
  OBVIOUS

LEMMA Pair == ASSUME NEW S, NEW a \in S, NEW b \in S PROVE Append(<<a>>, b) = <<a, b>>
  <1>1. Append(<<a>>, b) \in Seq(S) /\ Len(Append(<<a>>, b)) = 2
    OBVIOUS
  <1>2. Append(<<a>>, b)[1] = a /\ Append(<<a>>, b)[2] = b
    OBVIOUS
  <1>3. \A q \in Seq(S) : Len(q) = 2 => q = <<q[1], q[2]>>
    OBVIOUS
  <1> QED
    BY <1>1, <1>2, <1>3, Zenon

\* What ParseNGraph leaves behind is one undecided character at most.
LEMMA ParseNGraphTyped ==
    ASSUME NEW builder \in Seq(NGraphCategories), Len(builder) <= 2, Builders, ParseNGraph(builder)
    PROVE  Builders'
  <1>1. CASE Digraph(builder) = "NotComplete"
    <2>1. Len(builder) = 1
      BY <1>1 DEF Digraph
    <2>2. ngraphBuilder' = builder /\ ngraph' = ngraph
      BY <1>1 DEF ParseNGraph
    <2>0. Len(builder) <= 1
      BY <2>1
    <2>3. ngraphBuilder' \in Seq(NGraphCategories) /\ Len(ngraphBuilder') <= 1
      BY <2>0, <2>2, Zenon
    <2>4. ngraph' \in Seq(NGraphCategories) /\ Len(ngraph') <= 2
      BY <2>2 DEF Builders
    <2> QED
      BY <2>3, <2>4 DEF Builders
  <1>2. CASE Digraph(builder) # "NotComplete"
    <2>1. ngraphBuilder' = <<>> /\ ngraph' = builder
      BY <1>2 DEF ParseNGraph
    <2> QED
      BY <2>1, Empty DEF Builders
  <1> QED
    BY <1>1, <1>2

LEMMA BuildersCleared ==
    ASSUME ngraphBuilder' = <<>>, ngraph' = <<>>
    PROVE  Builders'
  BY Empty DEF Builders

LEMMA HandleNGraphTyped ==
    ASSUME Scalars, NEW found, HandleNGraph(found)
    PROVE  /\ mNextState' \in {mNextState, "CommentSL", "CommentML"}
           /\ keepParsing' \in BOOLEAN /\ mParseError' \in BOOLEAN
  BY DEF HandleNGraph, Transition, Stay, Fail, Scalars

LEMMA TellTyped ==
    ASSUME Scalars, Told, NEW text \in Texts, NEW answer \in BOOLEAN, Tell(text, answer)
    PROVE  Told' /\ refused' \in BOOLEAN /\ late' \in 0 .. 2 /\ keepParsing' \in BOOLEAN
  <1>1. Told'
    BY DEF Tell, Told
  <1>2. refused' \in BOOLEAN /\ late' \in 0 .. 2 /\ keepParsing' \in BOOLEAN
    BY DEF Tell, Scalars
  <1> QED
    BY <1>1, <1>2

-----------------------------------------------------------------------------
(* Type correctness *)

LEMMA InitTyped == Init => TInv
  <1> SUFFICES ASSUME Init PROVE TInv
    OBVIOUS
  <1>0. Requests
    BY DEF Init, Requests
  <1>1. Scalars
    <2>1. /\ mCurState = "MainSequence" /\ mNextState = None /\ symbols = None /\ phase = "Idle"
          /\ keepParsing = TRUE /\ reEvaluate = FALSE /\ mParseError = FALSE
          /\ ending = FALSE /\ refused = FALSE /\ late = 0
      BY DEF Init
    <2>2. mCurState \in ParseStates /\ mNextState \in ParseStates \cup {None}
      BY <2>1 DEF ParseStates
    <2>3. symbols \in Categories \cup {None} /\ late \in 0 .. 2
      BY <2>1
    <2> QED
      BY <2>1, <2>2, <2>3 DEF Scalars
  <1>2. Builders /\ Words
    BY Empty DEF Init, Builders, Words
  <1>3. <<>> \in Texts
    BY DEF Texts
  <1>4. Told
    BY <1>3 DEF Init, Told
  <1>5. Comments
    BY DEF Init, Comments
  <1> QED
    BY <1>0, <1>1, <1>2, <1>4, <1>5 DEF TInv

\* A part whose variables a step leaves alone is preserved.
LEMMA Kept ==
    /\ Builders /\ UNCHANGED ngraphVars => Builders'
    /\ Words /\ UNCHANGED <<word, block>> => Words'
    /\ Told /\ UNCHANGED told => Told'
    /\ Comments /\ UNCHANGED comment => Comments'
  BY DEF Builders, Words, Told, Comments, ngraphVars

LEMMA EvaluateTyped == TInv /\ Evaluate => TInv'
  <1> SUFFICES ASSUME TInv, Evaluate PROVE TInv'
    OBVIOUS
  <1> USE DEF TInv
  <1>1. CASE CommentMLEvaluate
    <2>1. Scalars' /\ Requests'
      BY <1>1, CategoriesFact DEF CommentMLEvaluate, Evaluating, Scalars, Requests, Transition, Stay,
         ParseStates, observerVars
    <2>2. Builders'
      <3>1. CASE symbols \in NGraphCategories
        <4>1. ParseNGraph(Append(ngraphBuilder, symbols))
          BY <1>1, <3>1 DEF CommentMLEvaluate
        <4>2. Append(ngraphBuilder, symbols) \in Seq(NGraphCategories)
          BY <3>1, Appended DEF Builders
        <4>3. Len(Append(ngraphBuilder, symbols)) <= 2
          BY <3>1, Appended DEF Builders
        <4> QED
          BY <4>1, <4>2, <4>3, ParseNGraphTyped
      <3>2. CASE symbols \notin NGraphCategories
        <4>1. ngraphBuilder' = <<>> /\ ngraph' = ngraph
          BY <1>1, <3>2 DEF CommentMLEvaluate
        <4> QED
          BY <4>1, Empty DEF Builders
      <3> QED
        BY <3>1, <3>2
    <2>3. Comments'
      BY <1>1, CategoriesFact DEF CommentMLEvaluate, Comments, Evaluating
    <2> QED
      BY <1>1, <2>1, <2>2, <2>3, Kept DEF CommentMLEvaluate, observerVars
  <1>2. CASE CommentSLEvaluate
    <2>1. Scalars' /\ Requests'
      BY <1>2, CategoriesFact DEF CommentSLEvaluate, Evaluating, Scalars, Requests, Transition, Stay,
         ParseStates, observerVars
    <2> QED
      BY <1>2, <2>1, Kept DEF CommentSLEvaluate, observerVars
  <1>3. CASE MainBegins
    <2>1. Scalars' /\ Requests'
      BY <1>3, CategoriesFact DEF MainBegins, Begins, Evaluating, Scalars, Requests, Transition,
         ParseStates, observerVars, WordCategories, NGraphCategories
    <2> QED
      BY <1>3, <2>1, Kept DEF MainBegins, observerVars
  <1>4. CASE MainSkips
    <2>1. Scalars' /\ Requests'
      BY <1>4 DEF MainSkips, Evaluating, Scalars, Requests, None, observerVars
    <2> QED
      BY <1>4, <2>1, Kept DEF MainSkips, observerVars
  <1>5. CASE MainUnexpected
    <2>1. Scalars' /\ Requests'
      BY <1>5 DEF MainUnexpected, Evaluating, Scalars, Requests, Fail, None, observerVars
    <2> QED
      BY <1>5, <2>1, Kept DEF MainUnexpected, observerVars
  <1>6. CASE NGraphEvaluate
    <2>1. PICK found : HandleNGraph(found)
      BY <1>6 DEF NGraphEvaluate
    <2>2. Scalars' /\ Requests'
      BY <1>6, <2>1, HandleNGraphTyped, CategoriesFact
         DEF NGraphEvaluate, Evaluating, Scalars, Requests, ParseStates, observerVars
    <2>3. Builders'
      BY <1>6, BuildersCleared DEF NGraphEvaluate
    <2> QED
      BY <1>6, <2>2, <2>3, Kept DEF NGraphEvaluate, observerVars
  <1>7. CASE NGraphAlone
    <2>1. HandleNGraph(ngraphBuilder)
      BY <1>7 DEF NGraphAlone
    <2>2. Scalars' /\ Requests'
      BY <1>7, <2>1, HandleNGraphTyped, CategoriesFact
         DEF NGraphAlone, Evaluating, Scalars, Requests, ParseStates, observerVars
    <2>3. Builders'
      BY <1>7, BuildersCleared DEF NGraphAlone
    <2> QED
      BY <1>7, <2>2, <2>3, Kept DEF NGraphAlone, observerVars
  <1>8. CASE WordContinues
    <2>1. Scalars' /\ Requests'
      BY <1>8 DEF WordContinues, Evaluating, Scalars, Requests, None, observerVars
    <2>2. Words'
      BY <1>8, Appended DEF WordContinues, Evaluating, Words
    <2> QED
      BY <1>8, <2>1, <2>2, Kept DEF WordContinues, observerVars
  <1>9. ASSUME NEW answer \in BOOLEAN, MainControl(answer) PROVE TInv'
    <2>1. Tell(<<symbols>>, answer) /\ <<symbols>> \in Texts
      BY <1>9, EmptyAndSingle, CategoriesFact DEF MainControl, Evaluating, Texts
    <2>2. Told' /\ refused' \in BOOLEAN /\ late' \in 0 .. 2 /\ keepParsing' \in BOOLEAN
      BY <2>1, TellTyped
    <2>3. Scalars' /\ Requests'
      BY <1>9, <2>2 DEF MainControl, Evaluating, Scalars, Requests, None, Stay
    <2> QED
      BY <1>9, <2>2, <2>3, Kept DEF MainControl
  <1>10. ASSUME NEW answer \in BOOLEAN, WordEnds(answer) PROVE TInv'
    <2>1. Tell(word, answer) /\ word \in Texts
      BY <1>10, WordsAreTexts DEF WordEnds, Words
    <2>2. Told' /\ refused' \in BOOLEAN /\ late' \in 0 .. 2 /\ keepParsing' \in BOOLEAN
      BY <2>1, TellTyped
    <2>3. Scalars' /\ Requests'
      BY <1>10, <2>2, CategoriesFact DEF WordEnds, Evaluating, Scalars, Requests, Transition,
         ParseStates
    <2>4. Words'
      BY <1>10, Empty DEF WordEnds, Words
    <2> QED
      BY <1>10, <2>2, <2>3, <2>4, Kept DEF WordEnds
  <1>11. ASSUME NEW state \in ParseStates, LiteralContinues(state) PROVE TInv'
    <2>1. Scalars' /\ Requests'
      BY <1>11 DEF LiteralContinues, Evaluating, Scalars, Requests, None, observerVars
    <2> QED
      BY <1>11, <2>1, Kept DEF LiteralContinues, observerVars
  <1>12. ASSUME NEW state \in ParseStates, LiteralIsMalformed(state) PROVE TInv'
    <2>1. Scalars' /\ Requests'
      BY <1>12 DEF LiteralIsMalformed, Evaluating, Scalars, Requests, None, Fail, observerVars
    <2> QED
      BY <1>12, <2>1, Kept DEF LiteralIsMalformed, observerVars
  <1>13. ASSUME NEW state \in ParseStates, NEW answer \in BOOLEAN, LiteralIsComplete(state, answer)
         PROVE  TInv'
    <2>1. Tell(<<symbols>>, answer) /\ <<symbols>> \in Texts
      BY <1>13, EmptyAndSingle DEF LiteralIsComplete, Evaluating, Texts
    <2>2. Told' /\ refused' \in BOOLEAN /\ late' \in 0 .. 2 /\ keepParsing' \in BOOLEAN
      BY <2>1, TellTyped
    <2>3. Scalars' /\ Requests'
      BY <1>13, <2>2, CategoriesFact DEF LiteralIsComplete, Evaluating, Scalars, Requests, Transition,
         ParseStates
    <2> QED
      BY <1>13, <2>2, <2>3, Kept DEF LiteralIsComplete
  <1>14. {"NumericLiteral", "StringLiteral"} \subseteq ParseStates
    BY DEF ParseStates
  <1> QED
    BY <1>1, <1>2, <1>3, <1>4, <1>5, <1>6, <1>7, <1>8, <1>9, <1>10, <1>11, <1>12, <1>13, <1>14
       DEF Evaluate

LEMMA MachineTyped == TInv /\ (Enter \/ ReEvaluate \/ ReportReturns) => TInv'
  <1> SUFFICES ASSUME TInv, Enter \/ ReEvaluate \/ ReportReturns PROVE TInv'
    OBVIOUS
  <1> USE DEF TInv
  <1>1. CASE Enter
    <2>1. Scalars' /\ Requests'
      BY <1>1 DEF Enter, Scalars, Requests, observerVars, None
    <2>2. Builders'
      <3>1. CASE mNextState = "NGraph"
        <4>1. ngraphBuilder' = <<symbols>> /\ ngraph' = <<>> /\ symbols \in NGraphCategories
          BY <1>1, <3>1 DEF Enter, Requests
        <4> QED
          BY <4>1, EmptyAndSingle DEF Builders
      <3>2. CASE mNextState # "NGraph"
        BY <1>1, <3>2, Kept DEF Enter, ngraphVars
      <3> QED
        BY <3>1, <3>2
    <2>3. Words'
      <3>1. CASE mNextState = "Word"
        <4>1. word' = <<symbols>> /\ block' = block /\ symbols \in WordCategories
          BY <1>1, <3>1 DEF Enter, Requests
        <4> QED
          BY <4>1, EmptyAndSingle DEF Words
      <3>2. CASE mNextState # "Word"
        BY <1>1, <3>2, Kept DEF Enter
      <3> QED
        BY <3>1, <3>2
    <2>4. Comments'
      BY <1>1 DEF Enter, Comments
    <2> QED
      BY <1>1, <2>1, <2>2, <2>3, <2>4, Kept DEF Enter, observerVars
  <1>2. CASE ReEvaluate
    <2>1. Scalars'
      BY <1>2 DEF ReEvaluate, Scalars, machineVars, observerVars
    <2>2. Requests'
      BY <1>2 DEF ReEvaluate, Requests, machineVars
    <2> QED
      BY <1>2, <2>1, <2>2, Kept DEF ReEvaluate, observerVars
  <1>3. CASE ReportReturns
    <2>1. Scalars' /\ Requests'
      BY <1>3 DEF ReportReturns, Evaluated, Scalars, Requests, machineVars, observerVars
    <2> QED
      BY <1>3, <2>1, Kept DEF ReportReturns, observerVars
  <1> QED
    BY <1>1, <1>2, <1>3

LEMMA ReceiveTyped ==
    ASSUME TInv, phase = "Idle", NEW category \in Categories, Receive(category), ending' \in BOOLEAN
    PROVE  TInv'
  <1> USE DEF TInv
  <1>1. Scalars' /\ Requests'
    BY DEF Receive, Scalars, Requests, machineVars, observerVars
  <1>2. Words'
    <2>1. \/ block' = Append(block, category) /\ category \in WordCategories
          \/ block' = block
      BY DEF Receive
    <2>2. word' = word
      BY DEF Receive
    <2> QED
      BY <2>1, <2>2, Appended DEF Words
  <1> QED
    BY <1>1, <1>2, Kept DEF Receive, observerVars

LEMMA EndOfStreamTyped == TInv /\ EndOfStream => TInv'
  <1> SUFFICES ASSUME TInv, EndOfStream PROVE TInv'
    OBVIOUS
  <1> USE DEF TInv
  <1>1. CASE EndsQuietly
    <2>1. Scalars' /\ Requests'
      BY <1>1 DEF EndsQuietly, Finish, Scalars, Requests, observerVars
    <2> QED
      BY <1>1, <2>1, Kept DEF EndsQuietly, Finish, observerVars
  <1>2. CASE EndsInNGraph
    <2>1. HandleNGraph(ngraphBuilder)
      BY <1>2 DEF EndsInNGraph
    <2>2. Scalars' /\ Requests'
      BY <1>2, <2>1, HandleNGraphTyped DEF EndsInNGraph, Finish, Scalars, Requests, ParseStates,
         observerVars
    <2>3. Builders'
      BY <1>2, BuildersCleared DEF EndsInNGraph
    <2> QED
      BY <1>2, <2>2, <2>3, Kept DEF EndsInNGraph, Finish, observerVars
  <1>3. CASE EndsInLiteral
    <2>1. Scalars' /\ Requests'
      BY <1>3 DEF EndsInLiteral, Finish, Scalars, Requests, observerVars
    <2> QED
      BY <1>3, <2>1, Kept DEF EndsInLiteral, Finish, observerVars
  <1>4. ASSUME NEW answer \in BOOLEAN, EndsInWord(answer) PROVE TInv'
    <2>1. Tell(word, answer) /\ word \in Texts
      BY <1>4, WordsAreTexts DEF EndsInWord, Words
    <2>2. Told' /\ refused' \in BOOLEAN /\ late' \in 0 .. 2 /\ keepParsing' \in BOOLEAN
      BY <2>1, TellTyped
    <2>3. Scalars' /\ Requests'
      BY <1>4, <2>2 DEF EndsInWord, Finish, Scalars, Requests
    <2>4. Words'
      BY <1>4, Empty DEF EndsInWord, Words
    <2> QED
      BY <1>4, <2>2, <2>3, <2>4, Kept DEF EndsInWord, Finish
  <1> QED
    BY <1>1, <1>2, <1>3, <1>4 DEF EndOfStream

LEMMA StepTyped == TInv /\ [Next]_vars => TInv'
  <1> SUFFICES ASSUME TInv, [Next]_vars PROVE TInv'
    OBVIOUS
  <1> USE DEF TInv
  <1>1. ASSUME NEW category \in Categories, Report(category) PROVE TInv'
    <2>1. phase = "Idle" /\ Receive(category) /\ ending' \in BOOLEAN
      BY <1>1 DEF Report, Scalars
    <2> QED
      BY <2>1, ReceiveTyped
  <1>2. ASSUME NEW category \in Categories, EndParsingFlushes(category) PROVE TInv'
    <2>1. phase = "Idle" /\ Receive(category) /\ ending' \in BOOLEAN
      BY <1>2 DEF EndParsingFlushes
    <2> QED
      BY <2>1, ReceiveTyped
  <1>3. CASE SymbolizerFails
    <2>1. Scalars' /\ Requests'
      BY <1>3 DEF SymbolizerFails, Scalars, Requests, machineVars, observerVars
    <2> QED
      BY <1>3, <2>1, Kept DEF SymbolizerFails, observerVars
  <1>4. CASE EndParsingAfterError
    <2>1. Scalars' /\ Requests'
      BY <1>4 DEF EndParsingAfterError, Scalars, Requests, machineVars, observerVars
    <2> QED
      BY <1>4, <2>1, Kept DEF EndParsingAfterError, observerVars
  <1>5. CASE EndParsingFlushesNothing
    <2>1. Scalars' /\ Requests'
      BY <1>5 DEF EndParsingFlushesNothing, Scalars, Requests, machineVars, observerVars, None
    <2> QED
      BY <1>5, <2>1, Kept DEF EndParsingFlushesNothing, observerVars
  <1>6. CASE UNCHANGED vars
    <2>1. Scalars' /\ Requests'
      BY <1>6 DEF vars, Scalars, Requests, machineVars, observerVars
    <2> QED
      BY <1>6, <2>1, Kept DEF vars, ngraphVars, observerVars
  <1> QED
    BY <1>1, <1>2, <1>3, <1>4, <1>5, <1>6, EvaluateTyped, MachineTyped, EndOfStreamTyped
       DEF Next, Progress, Terminated

\* Every variable keeps its type; in particular at most one undecided character is carried along
\* in the digraph builder.
THEOREM TypeCorrect == Safety => []TypeOK
  <1>1. TInv => TypeOK
    BY TypeInParts DEF TInv
  <1> QED
    BY <1>1, InitTyped, StepTyped, PTL DEF Safety

-----------------------------------------------------------------------------
(* The observer is told nothing after a stop *)

\* A failure is never forgotten before the report ends, and the report then stops the Symbolizer.
ErrorInv ==
    mParseError => phase \notin {"Idle", "Evaluate"} /\ (phase = "DoTransition" => ~keepParsing)

\* The steps that tell the observer something.
Tells(answer) ==
    \/ MainControl(answer) \/ WordEnds(answer) \/ EndsInWord(answer)
    \/ \E state \in {"NumericLiteral", "StringLiteral"} : LiteralIsComplete(state, answer)

LEMMA OnlyTells ==
    ASSUME [Next]_vars, ~ \E answer \in BOOLEAN : Tells(answer)
    PROVE  UNCHANGED observerVars
  <1>1. CASE Evaluate
    <2>1. \/ CommentMLEvaluate \/ CommentSLEvaluate
          \/ MainBegins \/ MainSkips \/ MainUnexpected
          \/ NGraphEvaluate \/ NGraphAlone
          \/ WordContinues
          \/ \E state \in {"NumericLiteral", "StringLiteral"} :
                LiteralContinues(state) \/ LiteralIsMalformed(state)
      BY <1>1 DEF Evaluate, Tells
    <2> QED
      BY <2>1 DEF CommentMLEvaluate, CommentSLEvaluate, MainBegins, MainSkips, MainUnexpected,
         NGraphEvaluate, NGraphAlone, WordContinues, LiteralContinues, LiteralIsMalformed
  <1>2. CASE Enter \/ ReEvaluate \/ ReportReturns
    BY <1>2 DEF Enter, ReEvaluate, ReportReturns
  <1>3. CASE EndOfStream
    <2>1. EndsQuietly \/ EndsInNGraph \/ EndsInLiteral
      BY <1>3 DEF EndOfStream, Tells
    <2> QED
      BY <2>1 DEF EndsQuietly, EndsInNGraph, EndsInLiteral
  <1>4. ASSUME NEW category, Report(category) \/ EndParsingFlushes(category)
        PROVE  UNCHANGED observerVars
    BY <1>4 DEF Report, EndParsingFlushes, Receive
  <1>5. CASE SymbolizerFails \/ EndParsingAfterError \/ EndParsingFlushesNothing \/ UNCHANGED vars
    BY <1>5 DEF SymbolizerFails, EndParsingAfterError, EndParsingFlushesNothing, vars
  <1> QED
    BY <1>1, <1>2, <1>3, <1>4, <1>5 DEF Next, Progress, Terminated

\* An evaluation either leaves the error flag alone or sets it and stops the parsing.
LEMMA EvaluationErrs ==
    ASSUME Evaluate
    PROVE  /\ phase = "Evaluate" /\ phase' = "DoTransition"
           /\ UNCHANGED mParseError \/ (mParseError' = TRUE /\ keepParsing' = FALSE)
  <1>1. CASE CommentMLEvaluate \/ CommentSLEvaluate \/ MainBegins \/ MainSkips \/ MainUnexpected
             \/ WordContinues
    BY <1>1 DEF CommentMLEvaluate, CommentSLEvaluate, MainBegins, MainSkips, MainUnexpected,
       WordContinues, Evaluating, Fail
  <1>2. CASE NGraphEvaluate \/ NGraphAlone
    BY <1>2 DEF NGraphEvaluate, NGraphAlone, HandleNGraph, Evaluating, Fail
  <1>3. ASSUME NEW answer, MainControl(answer) \/ WordEnds(answer)
        PROVE  phase = "Evaluate" /\ phase' = "DoTransition" /\ UNCHANGED mParseError
    BY <1>3 DEF MainControl, WordEnds, Evaluating
  <1>4. ASSUME NEW state, LiteralContinues(state) \/ LiteralIsMalformed(state)
        PROVE  /\ phase = "Evaluate" /\ phase' = "DoTransition"
               /\ UNCHANGED mParseError \/ (mParseError' = TRUE /\ keepParsing' = FALSE)
    BY <1>4 DEF LiteralContinues, LiteralIsMalformed, Evaluating, Fail
  <1>5. ASSUME NEW state, NEW answer, LiteralIsComplete(state, answer)
        PROVE  phase = "Evaluate" /\ phase' = "DoTransition" /\ UNCHANGED mParseError
    BY <1>5 DEF LiteralIsComplete, Evaluating
  <1> QED
    BY <1>1, <1>2, <1>3, <1>4, <1>5 DEF Evaluate

LEMMA ErrorStep == ErrorInv /\ [Next]_vars => ErrorInv'
  <1> SUFFICES ASSUME ErrorInv, [Next]_vars PROVE ErrorInv'
    OBVIOUS
  <1>1. CASE Evaluate
    BY <1>1, EvaluationErrs DEF ErrorInv
  <1>2. CASE Enter \/ ReEvaluate \/ ReportReturns
    BY <1>2 DEF Enter, ReEvaluate, ReportReturns, Evaluated, ErrorInv
  <1>3. CASE EndOfStream
    BY <1>3 DEF EndOfStream, EndsQuietly, EndsInNGraph, EndsInLiteral, EndsInWord, Finish, ErrorInv
  <1>4. ASSUME NEW category, Report(category) \/ EndParsingFlushes(category) PROVE ErrorInv'
    BY <1>4 DEF Report, EndParsingFlushes, Receive, ErrorInv
  <1>5. CASE SymbolizerFails \/ EndParsingAfterError \/ EndParsingFlushesNothing \/ UNCHANGED vars
    BY <1>5 DEF SymbolizerFails, EndParsingAfterError, EndParsingFlushesNothing, vars, ErrorInv
  <1> QED
    BY <1>1, <1>2, <1>3, <1>4, <1>5 DEF Next, Progress, Terminated

\* Where a report is when the parsing is to stop: it does not collect a word, and has at most to
\* evaluate, in the main sequence, the run that ended the word refused.  EndParsing reports only a run
\* that concatenates, which tells nothing there.
StopInv ==
    /\ phase = "Idle" => keepParsing /\ ~ending
    /\ phase = "Stopped" => (mParseError \/ ~keepParsing) /\ ~ending
    /\ ending /\ (phase = "Evaluate" \/ (phase = "DoTransition" /\ reEvaluate)) =>
          symbols \in Concatenating
    /\ ~keepParsing /\ ~mParseError =>
          /\ phase = "Evaluate" => mCurState = "MainSequence" /\ symbols \notin WordCategories
          /\ phase = "DoTransition" /\ reEvaluate =>
                /\ symbols \notin WordCategories
                /\ mNextState = "MainSequence" \/ (mNextState = None /\ mCurState = "MainSequence")
          /\ phase \in {"DoTransition", "Stopped"} =>
                /\ mNextState # "Word"
                /\ mCurState = "Word" => mNextState = "MainSequence"

LEMMA StopEvaluate == TInv /\ StopInv /\ Evaluate => StopInv'
  <1> SUFFICES ASSUME TInv, StopInv, Evaluate PROVE StopInv'
    OBVIOUS
  <1>0. /\ phase = "Evaluate" /\ phase' = "DoTransition" /\ ~reEvaluate /\ mNextState = None
        /\ None \notin ParseStates /\ None # "MainSequence" /\ keepParsing \in BOOLEAN
    BY EvaluationErrs, CategoriesFact DEF TInv, Requests, Scalars, None
  <1>1. CASE CommentMLEvaluate \/ CommentSLEvaluate \/ WordContinues
    <2>1. mCurState # "MainSequence" /\ UNCHANGED <<keepParsing, mParseError, reEvaluate>>
      BY <1>1 DEF CommentMLEvaluate, CommentSLEvaluate, WordContinues, Evaluating
    <2> QED
      BY <1>0, <2>1 DEF StopInv
  <1>2. CASE NGraphEvaluate \/ NGraphAlone
    <2>1. /\ mCurState # "MainSequence" /\ UNCHANGED <<symbols, ending>>
          /\ \/ UNCHANGED <<keepParsing, mParseError>>
             \/ mParseError'
      BY <1>2 DEF NGraphEvaluate, NGraphAlone, HandleNGraph, Fail, Evaluating
    <2> QED
      BY <1>0, <2>1 DEF StopInv
  <1>3. CASE MainBegins
    <2>1. /\ mCurState' = "MainSequence" /\ mNextState' = Begins(symbols)
          /\ UNCHANGED <<symbols, ending, keepParsing, reEvaluate, mParseError>>
      BY <1>3 DEF MainBegins, Evaluating, Transition
    <2>2. symbols \notin WordCategories => Begins(symbols) # "Word"
      BY <1>3 DEF MainBegins, Evaluating, Begins
    <2> QED
      BY <1>0, <2>1, <2>2 DEF StopInv
  <1>4. CASE MainSkips \/ MainUnexpected
    BY <1>0, <1>4 DEF MainSkips, MainUnexpected, Evaluating, StopInv, Fail, None
  <1>5. ASSUME NEW answer \in BOOLEAN, MainControl(answer) PROVE StopInv'
    BY <1>0, <1>5 DEF MainControl, Evaluating, Stay, StopInv, None
  <1>6. ASSUME NEW answer \in BOOLEAN, WordEnds(answer) PROVE StopInv'
    BY <1>0, <1>6 DEF WordEnds, Evaluating, Transition, StopInv
  <1>7. ASSUME NEW state \in {"NumericLiteral", "StringLiteral"},
               LiteralContinues(state) \/ LiteralIsMalformed(state)
        PROVE  StopInv'
    BY <1>0, <1>7 DEF LiteralContinues, LiteralIsMalformed, Evaluating, Fail, StopInv
  <1>8. ASSUME NEW state \in {"NumericLiteral", "StringLiteral"}, NEW answer \in BOOLEAN,
               LiteralIsComplete(state, answer)
        PROVE  StopInv'
    BY <1>0, <1>8 DEF LiteralIsComplete, Evaluating, Transition, StopInv
  <1> QED
    BY <1>1, <1>2, <1>3, <1>4, <1>5, <1>6, <1>7, <1>8 DEF Evaluate

LEMMA StopStep == TInv /\ StopInv /\ [Next]_vars => StopInv'
  <1> SUFFICES ASSUME TInv, StopInv, [Next]_vars PROVE StopInv'
    OBVIOUS
  <1>1. CASE Enter
    BY <1>1 DEF Enter, StopInv, None
  <1>2. CASE ReEvaluate
    BY <1>2 DEF ReEvaluate, StopInv, machineVars, None
  <1>3. CASE ReportReturns
    BY <1>3 DEF ReportReturns, Evaluated, StopInv, machineVars, None
  <1>4. CASE EndOfStream
    <2>1. phase' = "Ended"
      BY <1>4 DEF EndOfStream, EndsQuietly, EndsInNGraph, EndsInLiteral, EndsInWord, Finish
    <2> QED
      BY <2>1 DEF StopInv
  <1>5. ASSUME NEW category \in Categories, Report(category) \/ EndParsingFlushes(category)
        PROVE  StopInv'
    <2>1. /\ keepParsing /\ keepParsing' = keepParsing /\ phase' = "Evaluate"
          /\ ending' => symbols' \in Concatenating
      BY <1>5 DEF Report, EndParsingFlushes, Receive, StopInv
    <2> QED
      BY <2>1 DEF StopInv
  <1>6. CASE SymbolizerFails
    BY <1>6 DEF SymbolizerFails, StopInv, machineVars
  <1>7. CASE EndParsingAfterError
    BY <1>7 DEF EndParsingAfterError, StopInv, machineVars
  <1>8. CASE EndParsingFlushesNothing
    BY <1>8 DEF EndParsingFlushesNothing, StopInv, machineVars
  <1>9. CASE UNCHANGED vars
    BY <1>9 DEF vars, StopInv, machineVars
  <1> QED
    BY <1>1, <1>2, <1>3, <1>4, <1>5, <1>6, <1>7, <1>8, <1>9, StopEvaluate
       DEF Next, Progress, Terminated

\* Nothing is told after a stop.
LEMMA NoTelling ==
  ASSUME TInv, ErrorInv, StopInv, HasStopped, NEW answer, Tells(answer)
  PROVE  FALSE
  <1>1. phase = "Evaluate" \/ (phase = "DoTransition" /\ ~mParseError /\ mNextState = None)
    BY DEF Tells, MainControl, WordEnds, EndsInWord, LiteralIsComplete, Evaluating, Finish, Evaluated
  <1>2. ending /\ ~keepParsing /\ ~mParseError
    BY <1>1 DEF HasStopped, ErrorInv
  <1>3. CASE phase = "Evaluate"
    <2>1. mCurState = "MainSequence" /\ symbols \in Concatenating
      BY <1>2, <1>3 DEF StopInv
    <2>2. MainControl(answer)
      BY <1>3, <2>1 DEF Tells, WordEnds, EndsInWord, LiteralIsComplete, Evaluating, Finish, Evaluated
    <2> QED
      BY <2>1, <2>2 DEF MainControl, Evaluating, ControlCategories, Concatenating, WordCategories
  <1>4. CASE phase = "DoTransition" /\ mNextState = None
    <2>1. mCurState # "Word"
      BY <1>2, <1>4 DEF StopInv, None
    <2> QED
      BY <1>4, <2>1 DEF Tells, MainControl, WordEnds, EndsInWord, LiteralIsComplete, Evaluating, Finish
  <1> QED
    BY <1>1, <1>3, <1>4

\* What has stopped stays so: nothing but an answer of the observer lets the parsing go on.
LEMMA StopsForGood ==
  ASSUME TInv, ErrorInv, StopInv, HasStopped, [Next]_vars
  PROVE  HasStopped' /\ told' = told
  <1>1. ~ \E answer \in BOOLEAN : Tells(answer)
    BY NoTelling
  <1>2. told' = told
    BY <1>1, OnlyTells DEF observerVars
  <1>3. CASE Evaluate
    <2>1. ending /\ ~keepParsing /\ ~mParseError /\ mCurState = "MainSequence" /\ phase = "Evaluate"
      BY <1>3, EvaluationErrs DEF HasStopped, ErrorInv, StopInv
    <2>2. MainBegins \/ MainSkips \/ MainUnexpected
      BY <1>1, <1>3, <2>1 DEF Evaluate, Tells, CommentMLEvaluate, CommentSLEvaluate, NGraphEvaluate,
         NGraphAlone, WordContinues, WordEnds, LiteralContinues, LiteralIsMalformed, Evaluating
    <2>3. (ending' /\ ~keepParsing') \/ mParseError'
      BY <2>1, <2>2 DEF MainBegins, MainSkips, MainUnexpected, Evaluating, Fail
    <2> QED
      BY <1>2, <2>3 DEF HasStopped
  <1>4. CASE Enter \/ ReEvaluate
    BY <1>2, <1>4 DEF Enter, ReEvaluate, HasStopped
  <1>5. CASE ReportReturns
    BY <1>2, <1>5 DEF ReportReturns, Evaluated, HasStopped
  <1>6. CASE EndOfStream
    <2>1. EndsQuietly \/ EndsInNGraph \/ EndsInLiteral
      BY <1>1, <1>6 DEF EndOfStream, Tells
    <2>2. /\ ending /\ ending' = ending /\ phase = "DoTransition"
          /\ mParseError' \/ UNCHANGED <<keepParsing, mParseError>>
      BY <2>1 DEF EndsQuietly, EndsInNGraph, EndsInLiteral, HandleNGraph, Fail, Finish, Evaluated
    <2> QED
      BY <1>2, <2>2 DEF HasStopped
  <1>7. ASSUME NEW category \in Categories, Report(category) \/ EndParsingFlushes(category)
        PROVE  FALSE
    BY <1>7 DEF Report, EndParsingFlushes, HasStopped, ErrorInv, StopInv
  <1>8. CASE SymbolizerFails \/ EndParsingAfterError
    BY <1>2, <1>8 DEF SymbolizerFails, EndParsingAfterError, HasStopped
  <1>9. CASE EndParsingFlushesNothing
    <2>1. ~keepParsing /\ keepParsing' = keepParsing /\ ending'
      BY <1>9 DEF EndParsingFlushesNothing, HasStopped, StopInv
    <2> QED
      BY <1>2, <2>1 DEF HasStopped
  <1>10. CASE UNCHANGED vars
    BY <1>10 DEF vars, HasStopped, observerVars
  <1> QED
    BY <1>3, <1>4, <1>5, <1>6, <1>7, <1>8, <1>9, <1>10 DEF Next, Progress, Terminated

\* Once parsing has failed, or Parse has returned false, nothing is told to the observer any more,
\* whatever is called: not by what is left of the report, and not by EndParsing.  The second part says
\* it of all the steps that follow, without HasStopped.
THEOREM NothingToldAfterStop ==
  Safety => /\ SilentAfterStop
            /\ [](mParseError \/ phase = "Stopped" => [][told' = told]_vars)
  <1>1. Init => ErrorInv /\ StopInv
    BY DEF Init, ErrorInv, StopInv
  <1>2. TInv /\ ErrorInv /\ StopInv /\ [Next]_vars => (HasStopped => HasStopped' /\ told' = told)
    BY StopsForGood
  <1>3. mParseError \/ phase = "Stopped" => HasStopped
    BY DEF HasStopped
  <1>4. TInv /\ ErrorInv /\ StopInv /\ [Next]_vars => TInv' /\ ErrorInv' /\ StopInv'
    BY StepTyped, ErrorStep, StopStep
  <1> QED
    BY <1>1, <1>2, <1>3, <1>4, InitTyped, PTL DEF Safety, SilentAfterStop

-----------------------------------------------------------------------------
(* Words are told whole, and none is lost *)

\* The runs that wait in mState.word; it keeps the text of the last word in the other states.
Pending == IF mCurState = "Word" THEN word ELSE <<>>

\* At every point of a report, where the runs since the last run of another kind are.
BlockInv ==
    /\ phase \in {"Idle", "Stopped"} => block = Pending
    /\ phase = "Evaluate" =>
          block = IF symbols \in WordCategories /\ mCurState \in {"MainSequence", "Word"}
                  THEN Append(Pending, symbols) ELSE Pending
    /\ phase = "DoTransition" =>
          /\ mNextState = None => block = Pending
          /\ mNextState = "Word" => block = <<symbols>>
          /\ mNextState \notin {None, "Word"} => block = <<>>
          /\ reEvaluate /\ ~mParseError => symbols \notin WordCategories
    /\ phase = "Ended" /\ ~mParseError /\ ~refused => block = <<>>

LEMMA BlockInit == Init => BlockInv
  <1> SUFFICES ASSUME Init PROVE BlockInv
    OBVIOUS
  <1>1. phase = "Idle" /\ block = <<>> /\ mCurState = "MainSequence"
    BY DEF Init
  <1> QED
    BY <1>1 DEF BlockInv, Pending

\* An evaluation that leaves words and state machine alone, while no word is waiting.
LEMMA BlockKept ==
    ASSUME TInv, BlockInv, phase = "Evaluate", phase' = "DoTransition",
           mCurState # "Word", mCurState # "MainSequence" \/ symbols \notin WordCategories,
           mNextState' # "Word", UNCHANGED <<mCurState, block, symbols>>,
           reEvaluate' => mParseError'
    PROVE  BlockInv'
  <1>1. block' = <<>> /\ Pending' = <<>>
    BY DEF BlockInv, Pending
  <1> QED
    BY <1>1 DEF BlockInv, TInv, Requests

\* A character on its own is no digraph.
LEMMA AloneFails == TInv /\ NGraphAlone => mParseError' = TRUE
  <1> SUFFICES ASSUME TInv, NGraphAlone PROVE mParseError' = TRUE
    OBVIOUS
  <1>1. Len(ngraphBuilder) <= 1
    BY DEF TInv, Builders
  <1>2. ngraphBuilder \notin {<<"ForwardSlash", "ForwardSlash">>, <<"ForwardSlash", "Asterisk">>}
    BY <1>1
  <1>3. HandleNGraph(ngraphBuilder)
    BY DEF NGraphAlone
  <1> QED
    BY <1>2, <1>3 DEF HandleNGraph, Fail

LEMMA BlockEvaluate == TInv /\ BlockInv /\ Evaluate => BlockInv'
  <1> SUFFICES ASSUME TInv, BlockInv, Evaluate PROVE BlockInv'
    OBVIOUS
  <1>0. phase = "Evaluate" /\ phase' = "DoTransition" /\ ~reEvaluate /\ mNextState = None
    BY EvaluationErrs DEF TInv, Requests
  <1>1. CASE CommentMLEvaluate
    BY <1>0, <1>1, BlockKept DEF CommentMLEvaluate, Evaluating, Transition, Stay, None
  <1>2. CASE CommentSLEvaluate
    BY <1>0, <1>2, BlockKept DEF CommentSLEvaluate, Evaluating, Transition, Stay, None
  <1>3. CASE MainBegins
    <2>1. /\ mCurState = "MainSequence" /\ mNextState' = Begins(symbols)
          /\ UNCHANGED <<mCurState, block, symbols, reEvaluate>>
      BY <1>3 DEF MainBegins, Evaluating, Transition
    <2>2. Begins(symbols) # None
      BY <1>3 DEF MainBegins, Evaluating, Begins, None
    <2>3. CASE symbols \in WordCategories
      <3>1. Begins(symbols) = "Word"
        BY <2>3 DEF Begins, WordCategories, NGraphCategories
      <3>2. block = Append(<<>>, symbols)
        BY <1>0, <2>1, <2>3 DEF BlockInv, Pending
      <3>3. Append(<<>>, symbols) = <<symbols>>
        OBVIOUS
      <3>4. block' = <<symbols'>>
        BY <2>1, <3>2, <3>3
      <3> QED
        BY <1>0, <2>1, <2>2, <3>1, <3>4 DEF BlockInv
    <2>4. CASE symbols \notin WordCategories
      <3>1. Begins(symbols) # "Word"
        BY <1>3, <2>4 DEF MainBegins, Evaluating, Begins
      <3> QED
        BY <1>0, <2>1, <2>4, <3>1, BlockKept
    <2> QED
      BY <2>3, <2>4
  <1>4. CASE MainSkips
    BY <1>0, <1>4, BlockKept DEF MainSkips, Evaluating, None, WordCategories
  <1>5. CASE MainUnexpected
    BY <1>0, <1>5, BlockKept DEF MainUnexpected, Evaluating, None, WordCategories
  <1>6. CASE NGraphEvaluate
    <2>1. mNextState' \in {mNextState, "CommentSL", "CommentML"}
      BY <1>6 DEF NGraphEvaluate, HandleNGraph, Transition, Stay
    <2> QED
      BY <1>0, <1>6, <2>1, BlockKept DEF NGraphEvaluate, Evaluating, None
  <1>7. CASE NGraphAlone
    <2>1. mNextState' \in {mNextState, "CommentSL", "CommentML"}
      BY <1>7 DEF NGraphAlone, HandleNGraph, Transition, Stay
    <2> QED
      BY <1>0, <1>7, <2>1, AloneFails, BlockKept DEF NGraphAlone, Evaluating, None
  <1>8. CASE WordContinues
    <2>1. /\ mCurState = "Word" /\ symbols \in WordCategories /\ word' = Append(word, symbols)
          /\ UNCHANGED <<mCurState, mNextState, block, reEvaluate, symbols>>
      BY <1>8 DEF WordContinues, Evaluating
    <2>2. block' = word' /\ Pending' = word'
      BY <1>0, <2>1 DEF BlockInv, Pending
    <2> QED
      BY <1>0, <2>1, <2>2 DEF BlockInv, None
  <1>9. ASSUME NEW answer \in BOOLEAN, MainControl(answer) PROVE BlockInv'
    BY <1>0, <1>9, BlockKept
       DEF MainControl, Evaluating, Stay, None, WordCategories, ControlCategories
  <1>10. ASSUME NEW answer \in BOOLEAN, WordEnds(answer) PROVE BlockInv'
    <2>1. /\ symbols' \notin WordCategories /\ block' = <<>> /\ mNextState' = "MainSequence"
      BY <1>10 DEF WordEnds, Evaluating, Transition
    <2> QED
      BY <1>0, <2>1 DEF BlockInv, None
  <1>11. ASSUME NEW state \in {"NumericLiteral", "StringLiteral"},
                LiteralContinues(state) \/ LiteralIsMalformed(state)
         PROVE  BlockInv'
    BY <1>0, <1>11, BlockKept DEF LiteralContinues, LiteralIsMalformed, Evaluating, None
  <1>12. ASSUME NEW state \in {"NumericLiteral", "StringLiteral"}, NEW answer \in BOOLEAN,
                LiteralIsComplete(state, answer)
         PROVE  BlockInv'
    BY <1>0, <1>12, BlockKept DEF LiteralIsComplete, Evaluating, Transition, None
  <1> QED
    BY <1>1, <1>2, <1>3, <1>4, <1>5, <1>6, <1>7, <1>8, <1>9, <1>10, <1>11, <1>12 DEF Evaluate

LEMMA BlockMachine == TInv /\ BlockInv /\ (Enter \/ ReEvaluate \/ ReportReturns) => BlockInv'
  <1> SUFFICES ASSUME TInv, BlockInv, Enter \/ ReEvaluate \/ ReportReturns PROVE BlockInv'
    OBVIOUS
  <1>1. CASE Enter
    <2>1. /\ phase = "DoTransition" /\ mNextState # None
          /\ mCurState' = mNextState /\ mNextState' = None
          /\ UNCHANGED <<symbols, reEvaluate, mParseError, phase, block>>
      BY <1>1 DEF Enter
    <2>2. block' = Pending'
      <3>1. CASE mNextState = "Word"
        BY <1>1, <2>1, <3>1 DEF Enter, BlockInv, Pending
      <3>2. CASE mNextState # "Word"
        BY <2>1, <3>2 DEF BlockInv, Pending
      <3> QED
        BY <3>1, <3>2
    <2> QED
      BY <2>1, <2>2 DEF BlockInv, None
  <1>2. CASE ReEvaluate
    <2>1. Pending' = Pending
      BY <1>2 DEF ReEvaluate, machineVars, Pending
    <2> QED
      BY <1>2, <2>1 DEF ReEvaluate, machineVars, BlockInv
  <1>3. CASE ReportReturns
    <2>1. Pending' = Pending
      BY <1>3 DEF ReportReturns, machineVars, Pending
    <2> QED
      BY <1>3, <2>1 DEF ReportReturns, Evaluated, machineVars, BlockInv
  <1> QED
    BY <1>1, <1>2, <1>3

LEMMA BlockReceive ==
    ASSUME TInv, BlockInv, phase = "Idle", NEW category \in Categories, Receive(category)
    PROVE  BlockInv'
  <1>1. /\ symbols' = category /\ phase' = "Evaluate"
        /\ UNCHANGED <<mCurState, mNextState, word, mParseError>>
    BY DEF Receive, machineVars
  <1>2. Pending' = Pending /\ block = Pending
    BY <1>1 DEF Pending, BlockInv
  <1>3. block' = IF category \in WordCategories /\ mCurState \in {"MainSequence", "Word"}
                 THEN Append(block, category) ELSE block
    BY DEF Receive
  <1> QED
    BY <1>1, <1>2, <1>3 DEF BlockInv

LEMMA BlockEndOfStream == BlockInv /\ EndOfStream => BlockInv'
  <1> SUFFICES ASSUME BlockInv, EndOfStream PROVE BlockInv'
    OBVIOUS
  <1>1. phase' = "Ended" /\ block = Pending
    BY DEF EndOfStream, EndsQuietly, EndsInNGraph, EndsInLiteral, EndsInWord, Finish, Evaluated,
       BlockInv
  <1>2. CASE EndsQuietly
    BY <1>1, <1>2 DEF EndsQuietly, Finish, Pending, BlockInv
  <1>3. CASE EndsInNGraph
    BY <1>1, <1>3 DEF EndsInNGraph, Finish, Pending, BlockInv
  <1>4. CASE EndsInLiteral
    BY <1>1, <1>4 DEF EndsInLiteral, Finish, Pending, BlockInv
  <1>5. ASSUME NEW answer \in BOOLEAN, EndsInWord(answer) PROVE BlockInv'
    BY <1>1, <1>5 DEF EndsInWord, BlockInv
  <1> QED
    BY <1>2, <1>3, <1>4, <1>5 DEF EndOfStream

LEMMA BlockStep == TInv /\ ErrorInv /\ BlockInv /\ [Next]_vars => BlockInv'
  <1> SUFFICES ASSUME TInv, ErrorInv, BlockInv, [Next]_vars PROVE BlockInv'
    OBVIOUS
  <1>1. ASSUME NEW category \in Categories, Report(category) \/ EndParsingFlushes(category)
        PROVE  BlockInv'
    BY <1>1, BlockReceive DEF Report, EndParsingFlushes
  <1>2. CASE SymbolizerFails
    BY <1>2 DEF SymbolizerFails, machineVars, BlockInv, Pending
  <1>3. CASE EndParsingAfterError
    BY <1>3 DEF EndParsingAfterError, machineVars, BlockInv, Pending
  <1>4. CASE EndParsingFlushesNothing
    BY <1>4 DEF EndParsingFlushesNothing, machineVars, BlockInv, Pending, TInv, Requests, None
  <1>5. CASE UNCHANGED vars
    BY <1>5 DEF vars, machineVars, observerVars, BlockInv, Pending
  <1> QED
    BY <1>1, <1>2, <1>3, <1>4, <1>5, BlockEvaluate, BlockMachine, BlockEndOfStream
       DEF Next, Progress, Terminated

\* A word is never dropped: between reports all of its runs are waiting, and a stream parsed to its
\* end without error or refusal has been told with its last word.
THEOREM NoWordIsLost == Safety => []NoWordLost
  <1>1. Init => ErrorInv
    BY DEF Init, ErrorInv
  <1>2. BlockInv => NoWordLost
    BY DEF BlockInv, Pending, NoWordLost
  <1> QED
    BY <1>1, <1>2, InitTyped, StepTyped, ErrorStep, BlockInit, BlockStep, PTL DEF Safety

\* A word is told exactly as it stands in the stream.
THEOREM WordsToldWhole == Safety => WordsAreWhole
  <1>1. Init => ErrorInv
    BY DEF Init, ErrorInv
  <1>2. BlockInv /\ [Next]_vars => [told' # told /\ mCurState = "Word" => told'.text = block]_vars
    <2> SUFFICES ASSUME BlockInv, [Next]_vars, told' # told, mCurState = "Word"
                 PROVE  told'.text = block
      OBVIOUS
    <2>1. PICK answer \in BOOLEAN : Tells(answer)
      BY OnlyTells DEF observerVars
    <2>2. WordEnds(answer) \/ EndsInWord(answer)
      BY <2>1 DEF Tells, MainControl, LiteralIsComplete, Evaluating
    <2>3. told'.text = word
      BY <2>2 DEF WordEnds, EndsInWord, Tell
    <2>4. block = word
      BY <2>2 DEF WordEnds, EndsInWord, Evaluating, Finish, Evaluated, BlockInv, Pending
    <2> QED
      BY <2>3, <2>4
  <1> QED
    BY <1>1, <1>2, InitTyped, StepTyped, ErrorStep, BlockInit, BlockStep, PTL
       DEF Safety, WordsAreWhole

-----------------------------------------------------------------------------
(* A refusal stops the parsing, if the observer sticks to it *)

\* After a refusal the report is on its way to a stop.  It can only still have to evaluate, in the
\* main sequence, the run that ended the word refused; and it is not going to collect a word.
RefusedInv ==
    /\ late > 0 => refused
    /\ refused =>
          /\ ~keepParsing /\ late <= 1
          /\ phase # "Idle"
          /\ phase = "Evaluate" =>
                mCurState = "MainSequence" /\ late = 0 /\ symbols \notin WordCategories
          /\ phase = "DoTransition" /\ reEvaluate =>
                /\ late = 0 /\ symbols \notin WordCategories
                /\ mNextState = "MainSequence" \/ (mNextState = None /\ mCurState = "MainSequence")
          /\ phase \in {"DoTransition", "Stopped"} =>
                /\ mNextState # "Word"
                /\ mCurState = "Word" => mNextState = "MainSequence"

LEMMA TellRefused ==
    ASSUME Consistent, TInv, RefusedInv, refused => late = 0, NEW text, NEW answer \in BOOLEAN,
           Tell(text, answer)
    PROVE  /\ late' \in 0 .. 1 /\ (late' > 0 => refused')
           /\ refused' => ~keepParsing'
           /\ ~refused => late' = 0
  BY DEF Tell, RefusedInv, TInv, Scalars

\* The evaluations that tell nothing, and what they can request after a refusal.
LEMMA RefusedEvaluate == Consistent /\ TInv /\ RefusedInv /\ Evaluate => RefusedInv'
  <1> SUFFICES ASSUME Consistent, TInv, RefusedInv, Evaluate PROVE RefusedInv'
    OBVIOUS
  <1>0. /\ phase = "Evaluate" /\ phase' = "DoTransition" /\ ~reEvaluate /\ mNextState = None
        /\ None \notin ParseStates
    BY EvaluationErrs, CategoriesFact DEF TInv, Requests
  <1>1. CASE CommentMLEvaluate \/ CommentSLEvaluate \/ WordContinues \/ NGraphEvaluate \/ NGraphAlone
    <2>1. mCurState # "MainSequence" /\ UNCHANGED observerVars
      BY <1>1 DEF CommentMLEvaluate, CommentSLEvaluate, WordContinues, NGraphEvaluate, NGraphAlone,
         Evaluating
    <2> QED
      BY <1>0, <2>1 DEF RefusedInv, observerVars
  <1>2. CASE MainBegins
    <2>1. /\ mCurState' = "MainSequence" /\ mNextState' = Begins(symbols)
          /\ UNCHANGED <<symbols, keepParsing, reEvaluate, refused, late>>
      BY <1>2 DEF MainBegins, Evaluating, Transition, observerVars
    <2>2. symbols \notin WordCategories => Begins(symbols) # "Word"
      BY <1>2 DEF MainBegins, Evaluating, Begins
    <2> QED
      BY <1>0, <2>1, <2>2 DEF RefusedInv
  <1>3. CASE MainSkips
    BY <1>0, <1>3 DEF MainSkips, Evaluating, RefusedInv, observerVars, None
  <1>4. CASE MainUnexpected
    BY <1>0, <1>4 DEF MainUnexpected, Evaluating, RefusedInv, observerVars, Fail, None
  <1>5. ASSUME NEW answer \in BOOLEAN, MainControl(answer) PROVE RefusedInv'
    <2>1. Tell(<<symbols>>, answer) /\ (refused => late = 0)
      BY <1>0, <1>5 DEF MainControl, RefusedInv
    <2>2. late' \in 0 .. 1 /\ (late' > 0 => refused') /\ (refused' => ~keepParsing')
      BY <2>1, TellRefused
    <2> QED
      BY <1>0, <1>5, <2>2 DEF MainControl, Evaluating, Stay, RefusedInv, None
  <1>6. ASSUME NEW answer \in BOOLEAN, WordEnds(answer) PROVE RefusedInv'
    <2>1. Tell(word, answer) /\ ~refused
      BY <1>0, <1>6 DEF WordEnds, Evaluating, RefusedInv
    <2>2. late' = 0 /\ (refused' => ~keepParsing')
      BY <2>1, TellRefused
    <2> QED
      BY <1>0, <1>6, <2>2 DEF WordEnds, Evaluating, Transition, RefusedInv
  <1>7. ASSUME NEW state \in {"NumericLiteral", "StringLiteral"},
               LiteralContinues(state) \/ LiteralIsMalformed(state)
        PROVE  RefusedInv'
    <2>1. ~refused /\ UNCHANGED observerVars
      BY <1>0, <1>7 DEF LiteralContinues, LiteralIsMalformed, Evaluating, RefusedInv
    <2> QED
      BY <1>0, <2>1 DEF RefusedInv, observerVars
  <1>8. ASSUME NEW state \in {"NumericLiteral", "StringLiteral"}, NEW answer \in BOOLEAN,
               LiteralIsComplete(state, answer)
        PROVE  RefusedInv'
    <2>1. Tell(<<symbols>>, answer) /\ ~refused
      BY <1>0, <1>8 DEF LiteralIsComplete, Evaluating, RefusedInv
    <2>2. late' = 0 /\ (refused' => ~keepParsing')
      BY <2>1, TellRefused
    <2> QED
      BY <1>0, <1>8, <2>2 DEF LiteralIsComplete, Evaluating, Transition, RefusedInv
  <1> QED
    BY <1>1, <1>2, <1>3, <1>4, <1>5, <1>6, <1>7, <1>8 DEF Evaluate

LEMMA RefusedStep == Consistent /\ TInv /\ RefusedInv /\ [Next]_vars => RefusedInv'
  <1> SUFFICES ASSUME Consistent, TInv, RefusedInv, [Next]_vars PROVE RefusedInv'
    OBVIOUS
  <1>1. CASE Enter
    BY <1>1 DEF Enter, RefusedInv, observerVars, None
  <1>2. CASE ReEvaluate
    BY <1>2 DEF ReEvaluate, RefusedInv, observerVars, machineVars, None
  <1>3. CASE ReportReturns
    BY <1>3 DEF ReportReturns, Evaluated, RefusedInv, observerVars, machineVars, None
  <1>4. CASE EndsQuietly \/ EndsInNGraph \/ EndsInLiteral
    <2>1. phase' = "Ended" /\ UNCHANGED <<refused, late>> /\ (keepParsing' => keepParsing)
      BY <1>4 DEF EndsQuietly, EndsInNGraph, EndsInLiteral, Finish, HandleNGraph, Fail, observerVars
    <2> QED
      BY <2>1, <1>4 DEF RefusedInv
  <1>5. ASSUME NEW answer \in BOOLEAN, EndsInWord(answer) PROVE RefusedInv'
    <2>1. Tell(word, answer) /\ ~refused /\ phase' = "Ended"
      BY <1>5 DEF EndsInWord, Finish, Evaluated, RefusedInv, None
    <2>2. late' = 0 /\ (refused' => ~keepParsing')
      BY <2>1, TellRefused
    <2> QED
      BY <2>1, <2>2 DEF RefusedInv
  <1>6. ASSUME NEW category \in Categories, Report(category) \/ EndParsingFlushes(category)
        PROVE  RefusedInv'
    <2>1. ~refused /\ UNCHANGED observerVars
      BY <1>6 DEF Report, EndParsingFlushes, Receive, RefusedInv
    <2> QED
      BY <2>1 DEF RefusedInv, observerVars
  <1>7. CASE SymbolizerFails
    BY <1>7 DEF SymbolizerFails, RefusedInv, observerVars, machineVars
  <1>8. CASE EndParsingAfterError
    BY <1>8 DEF EndParsingAfterError, RefusedInv, observerVars, machineVars
  <1>9. CASE EndParsingFlushesNothing
    BY <1>9 DEF EndParsingFlushesNothing, RefusedInv, observerVars, machineVars
  <1>10. CASE UNCHANGED vars
    BY <1>10 DEF vars, RefusedInv, observerVars, machineVars
  <1> QED
    BY <1>1, <1>2, <1>3, <1>4, <1>5, <1>6, <1>7, <1>8, <1>9, <1>10, RefusedEvaluate
       DEF Next, Progress, EndOfStream, Terminated

\* If an observer that once refused goes on refusing, as the Interpreter does, its refusal ends the
\* parsing, and at most one more token is told to it: the run that ended the word it refused.
THEOREM RefusalIsHeeded == Consistent /\ Safety => [](RefusalStops /\ AtMostOneAfterRefusal)
  <1> SUFFICES ASSUME Consistent PROVE Safety => [](RefusalStops /\ AtMostOneAfterRefusal)
    OBVIOUS
  <1>1. Init => RefusedInv
    BY DEF Init, RefusedInv
  <1>2. TInv /\ RefusedInv => RefusalStops /\ AtMostOneAfterRefusal
    BY DEF TInv, Scalars, RefusedInv, RefusalStops, AtMostOneAfterRefusal
  <1>3. TInv /\ RefusedInv /\ [Next]_vars => RefusedInv'
    BY RefusedStep
  <1> QED
    BY <1>1, <1>2, <1>3, InitTyped, StepTyped, PTL DEF Safety

\* What the rest of the program may rely on: an observer is told something by one step, which keeps its
\* answer, and after a refusal it is told of a control character and no more.
LEMMA StepTells ==
    ASSUME TInv, RefusedInv, [Next]_vars
    PROVE  \/ UNCHANGED observerVars
           \/ /\ told' # told
              /\ refused' = (refused \/ ~keepParsing')
              /\ late' = IF refused THEN late + 1 ELSE late
              /\ refused => late = 0 /\ told'.text \in {<<c>> : c \in ControlCategories}
  <1>1. CASE ~ \E answer \in BOOLEAN : Tells(answer)
    BY <1>1, OnlyTells
  <1>2. CASE \E answer \in BOOLEAN : Tells(answer)
    <2>1. PICK answer \in BOOLEAN : Tells(answer)
      BY <1>2
    <2>2. PICK text : Tell(text, answer)
      BY <2>1 DEF Tells, MainControl, WordEnds, EndsInWord, LiteralIsComplete
    <2>3. told' # told
      <3>1. told'.parity = ~told.parity /\ told.parity \in BOOLEAN
        BY <2>2 DEF Tell, TInv, Told
      <3> QED
        BY <3>1
    <2>4. ASSUME refused PROVE late = 0 /\ told'.text \in {<<c>> : c \in ControlCategories}
      <3>1. MainControl(answer)
        BY <2>1, <2>4 DEF Tells, WordEnds, EndsInWord, LiteralIsComplete, Evaluating, Finish, Evaluated,
                          RefusedInv, None
      <3> QED
        BY <2>4, <3>1 DEF MainControl, Evaluating, Tell, RefusedInv
    <2> QED
      BY <2>2, <2>3, <2>4 DEF Tell, TInv, Scalars
  <1> QED
    BY <1>1, <1>2

-----------------------------------------------------------------------------
(* How multi-line comments end *)

\* In a comment the undecided character is the run reported last, and none is undecided when the
\* comment is entered.
CommentInv ==
    /\ mCurState = "CommentML" =>
          /\ ngraphBuilder \in {<<>>, <<comment[2]>>}
          /\ mNextState # None =>
                mNextState = "MainSequence" /\ comment = <<"Asterisk", "ForwardSlash">>
    /\ phase = "DoTransition" /\ mNextState = "CommentML" => ngraphBuilder = <<>>

LEMMA CommentEvaluate == TInv /\ CommentInv /\ CommentMLEvaluate => CommentInv'
  <1> SUFFICES ASSUME TInv, CommentInv, CommentMLEvaluate PROVE CommentInv'
    OBVIOUS
  <1>1. /\ mCurState = "CommentML" /\ mCurState' = "CommentML" /\ mNextState = None
        /\ comment' = <<comment[2], symbols>>
    BY DEF CommentMLEvaluate, Evaluating, TInv, Requests
  <1>2. CASE symbols \notin NGraphCategories
    <2>1. ngraphBuilder' = <<>> /\ mNextState' = None
      BY <1>1, <1>2 DEF CommentMLEvaluate
    <2> QED
      BY <1>1, <2>1 DEF CommentInv, None
  <1>3. CASE symbols \in NGraphCategories
    <2> DEFINE builder == Append(ngraphBuilder, symbols)
    <2>1. builder \in {<<symbols>>, <<comment[2], symbols>>}
      <3>1. ngraphBuilder = <<>> \/ ngraphBuilder = <<comment[2]>>
        BY <1>1 DEF CommentInv
      <3>2. comment[2] \in Categories \cup {None} /\ symbols \in Categories \cup {None}
        BY DEF TInv, Comments, Scalars
      <3>3. Append(<<comment[2]>>, symbols) = <<comment[2], symbols>>
        BY <3>2, Pair
      <3>4. Append(<<>>, symbols) = <<symbols>>
        OBVIOUS
      <3> QED
        BY <3>1, <3>3, <3>4, Zenon
    <2>2. /\ ParseNGraph(builder)
          /\ mNextState' = IF builder = <<"Asterisk", "ForwardSlash">> THEN "MainSequence" ELSE None
      BY <1>1, <1>3 DEF CommentMLEvaluate, Transition, Stay
    <2> HIDE DEF builder
    <2>3. CASE builder = <<symbols>>
      <3>1. ngraphBuilder' \in {<<>>, <<symbols>>}
        BY <2>2, <2>3 DEF ParseNGraph
      <3>2. builder # <<"Asterisk", "ForwardSlash">>
        BY <2>3
      <3>3. mNextState' = None
        BY <2>2, <3>2
      <3> QED
        BY <1>1, <3>1, <3>3 DEF CommentInv, None
    <2>4. CASE builder = <<comment[2], symbols>>
      <3>1. ngraphBuilder' = <<>>
        <4>1. Len(builder) = 2
          BY <2>4
        <4>2. Digraph(builder) # "NotComplete"
          BY <4>1 DEF Digraph
        <4> QED
          BY <2>2, <4>2 DEF ParseNGraph
      <3>2. CASE builder = <<"Asterisk", "ForwardSlash">>
        BY <1>1, <2>2, <2>4, <3>1, <3>2 DEF CommentInv
      <3>3. CASE builder # <<"Asterisk", "ForwardSlash">>
        BY <1>1, <2>2, <3>1, <3>3 DEF CommentInv, None
      <3> QED
        BY <3>2, <3>3
    <2> QED
      BY <2>1, <2>3, <2>4
  <1> QED
    BY <1>2, <1>3

LEMMA CommentStep == TInv /\ CommentInv /\ [Next]_vars => CommentInv'
  <1> SUFFICES ASSUME TInv, CommentInv, [Next]_vars PROVE CommentInv'
    OBVIOUS
  <1> USE DEF CommentInv
  \* What begins in the main sequence is no comment: a comment begins after a digraph.
  <1>1. CASE MainBegins
    <2>1. mCurState' = "MainSequence" /\ mNextState' = Begins(symbols)
      BY <1>1 DEF MainBegins, Evaluating, Transition
    <2>2. Begins(symbols) # "CommentML"
      BY <1>1 DEF MainBegins, Evaluating, Begins
    <2> QED
      BY <2>1, <2>2
  <1>2. CASE CommentSLEvaluate \/ MainSkips \/ MainUnexpected \/ WordContinues
    BY <1>2 DEF CommentSLEvaluate, MainSkips, MainUnexpected, WordContinues, Evaluating, Transition,
       Stay, TInv, Requests, None
  <1>3. CASE NGraphEvaluate \/ NGraphAlone
    BY <1>3 DEF NGraphEvaluate, NGraphAlone, Evaluating
  <1>4. ASSUME NEW answer \in BOOLEAN, MainControl(answer) \/ WordEnds(answer) PROVE CommentInv'
    BY <1>4 DEF MainControl, WordEnds, Evaluating, Transition, Stay, TInv, Requests, None
  <1>5. ASSUME NEW state \in {"NumericLiteral", "StringLiteral"},
               LiteralContinues(state) \/ LiteralIsMalformed(state)
        PROVE  CommentInv'
    BY <1>5 DEF LiteralContinues, LiteralIsMalformed, Evaluating, TInv, Requests, None
  <1>6. ASSUME NEW state \in {"NumericLiteral", "StringLiteral"}, NEW answer \in BOOLEAN,
               LiteralIsComplete(state, answer)
        PROVE  CommentInv'
    BY <1>6 DEF LiteralIsComplete, Evaluating, Transition
  <1>7. CASE Evaluate
    BY <1>1, <1>2, <1>3, <1>4, <1>5, <1>6, <1>7, CommentEvaluate DEF Evaluate
  <1>8. CASE Enter
    <2>1. CASE mNextState = "CommentML"
      <3>1. ngraphBuilder' = <<>> /\ mNextState' = None
        BY <1>8, <2>1 DEF Enter, ngraphVars
      <3> QED
        BY <3>1 DEF None
    <2>2. CASE mNextState # "CommentML"
      BY <1>8, <2>2 DEF Enter, None
    <2> QED
      BY <2>1, <2>2
  <1>9. CASE ReEvaluate \/ ReportReturns
    BY <1>9 DEF ReEvaluate, ReportReturns, machineVars, ngraphVars
  <1>10. CASE EndOfStream
    BY <1>10 DEF EndOfStream, EndsQuietly, EndsInNGraph, EndsInLiteral, EndsInWord, Finish, ngraphVars
  <1>11. ASSUME NEW category, Report(category) \/ EndParsingFlushes(category) PROVE CommentInv'
    BY <1>11 DEF Report, EndParsingFlushes, Receive, machineVars, ngraphVars
  <1>12. CASE SymbolizerFails \/ EndParsingAfterError \/ EndParsingFlushesNothing
    BY <1>12 DEF SymbolizerFails, EndParsingAfterError, EndParsingFlushesNothing, machineVars,
       ngraphVars, TInv, Requests, None
  <1>13. CASE UNCHANGED vars
    BY <1>13 DEF vars, machineVars, ngraphVars
  <1> QED
    BY <1>7, <1>8, <1>9, <1>10, <1>11, <1>12, <1>13 DEF Next, Progress, Terminated

\* A multi-line comment ends with an asterisk and a slash that both stand after its opening, with
\* nothing between them.
THEOREM CommentEndsWithItsOwn == Safety => CommentEndsItself
  <1>1. Init => CommentInv
    BY DEF Init, CommentInv
  <1>2. TInv /\ CommentInv /\ [Next]_vars =>
           [mCurState = "CommentML" /\ mCurState' # "CommentML" =>
               comment = <<"Asterisk", "ForwardSlash">>]_vars
    <2> SUFFICES ASSUME TInv, CommentInv, [Next]_vars,
                        mCurState = "CommentML", mCurState' # "CommentML"
                 PROVE  comment = <<"Asterisk", "ForwardSlash">>
      OBVIOUS
    <2>1. mNextState # None
      <3>1. ASSUME Evaluate PROVE UNCHANGED mCurState
        BY <3>1 DEF Evaluate, CommentMLEvaluate, CommentSLEvaluate, MainBegins, MainSkips,
           MainUnexpected, NGraphEvaluate, NGraphAlone, WordContinues, MainControl, WordEnds,
           LiteralContinues, LiteralIsMalformed, LiteralIsComplete, Evaluating
      <3>2. ASSUME EndOfStream PROVE UNCHANGED mCurState
        BY <3>2 DEF EndOfStream, EndsQuietly, EndsInNGraph, EndsInLiteral, EndsInWord, Finish
      <3>3. Enter
        BY <3>1, <3>2 DEF Next, Progress, Terminated, Report, EndParsingFlushes, Receive,
           SymbolizerFails, EndParsingAfterError, EndParsingFlushesNothing, ReEvaluate,
           ReportReturns, vars, machineVars
      <3> QED
        BY <3>3 DEF Enter
    <2> QED
      BY <2>1 DEF CommentInv
  <1> QED
    BY <1>1, <1>2, InitTyped, StepTyped, CommentStep, PTL DEF Safety, CommentEndsItself
=============================================================================
