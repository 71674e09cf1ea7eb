-------------------------- MODULE StreamParserProofs --------------------------
(***************************************************************************)
(* Theorems about both sides of ParseStream.                               *)
(*                                                                         *)
(* With its Tokenizer and its Interpreter: what was proved of the          *)
(* Tokenizer alone, for an observer that goes on refusing, is used here    *)
(* for the one observer that the program has.  The inductive invariant     *)
(* says that the Interpreter is that observer: it has refused exactly when *)
(* it has found an error.                                                  *)
(*                                                                         *)
(* With its chunks and the position of its errors: the window shows the    *)
(* last bytes pushed into it, wherever its head is; from that and from a   *)
(* definition of lines, one more byte at a time, the position is that of   *)
(* what was parsed.  The inductive invariant adds that what was parsed and *)
(* what is left in the buffer are together what was read of the stream.    *)
(***************************************************************************)
EXTENDS StreamParser, ParsePositions, SetInduction, SequenceTheorems, FiniteSetTheorems, TLAPS

TP == INSTANCE TokenizerProofs WITH
    Consistent <- TRUE,
    mCurState <- tokenizerState, mParseError <- tokenizerError, late <- toldLate

-----------------------------------------------------------------------------
(* The Tokenizer of its proofs is the one of ParseStream *)

LEMMA TokenizerIsUsedRight == TP!TokenizerAssumption
  BY StreamParserAssumption
     DEF TP!TokenizerAssumption,
         T!Categories, T!WordCategories, T!Concatenating, T!NGraphCategories,
         T!ControlCategories, TP!Categories, TP!WordCategories, TP!Concatenating,
         TP!NGraphCategories, TP!ControlCategories

LEMMA SameInit == T!Init => TP!Init
  BY DEF T!Init, TP!Init, T!None, TP!None

LEMMA SameEvaluate == T!Evaluate => TP!Evaluate
  BY DEF T!Evaluate, T!CommentMLEvaluate, T!CommentSLEvaluate, T!MainBegins, T!MainSkips,
         T!MainUnexpected, T!NGraphEvaluate, T!NGraphAlone, T!WordContinues, T!MainControl,
         T!WordEnds, T!LiteralContinues, T!LiteralIsMalformed, T!LiteralIsComplete,
         T!ParseNGraph, T!Digraph, T!HandleNGraph, T!Begins, T!Verdicts, T!Evaluating,
         T!Transition, T!Stay, T!Fail, T!Tell, T!Categories, T!WordCategories,
         T!Concatenating, T!NGraphCategories, T!ControlCategories, T!machineVars,
         T!ngraphVars, T!observerVars, TP!Evaluate, TP!CommentMLEvaluate,
         TP!CommentSLEvaluate, TP!MainBegins, TP!MainSkips, TP!MainUnexpected,
         TP!NGraphEvaluate, TP!NGraphAlone, TP!WordContinues, TP!MainControl, TP!WordEnds,
         TP!LiteralContinues, TP!LiteralIsMalformed, TP!LiteralIsComplete, TP!ParseNGraph,
         TP!Digraph, TP!HandleNGraph, TP!Begins, TP!Verdicts, TP!Evaluating, TP!Transition,
         TP!Stay, TP!Fail, TP!Tell, TP!Categories, TP!WordCategories, TP!Concatenating,
         TP!NGraphCategories, TP!ControlCategories, TP!machineVars, TP!ngraphVars,
         TP!observerVars

LEMMA SameSteps == TokenizerSteps => TP!Next
  <1> SUFFICES ASSUME TokenizerSteps PROVE TP!Next
    OBVIOUS
  <1> USE DEF T!Categories, T!WordCategories, T!Concatenating, T!NGraphCategories,
         T!ControlCategories, T!machineVars, T!ngraphVars, T!observerVars, T!None,
         TP!Categories, TP!WordCategories, TP!Concatenating, TP!NGraphCategories,
         TP!ControlCategories, TP!machineVars, TP!ngraphVars, TP!observerVars, TP!None
  <1>1. ASSUME NEW category \in T!Categories, T!Report(category) PROVE TP!Next
    BY <1>1 DEF TP!Next,
         T!Report, T!Receive, T!Follows, TP!Report, TP!Receive, TP!Follows
  <1>2. CASE T!Evaluate
    BY <1>2, SameEvaluate DEF TP!Next, TP!Progress
  <1>3. CASE T!SymbolizerFails \/ T!Enter \/ T!ReEvaluate \/ T!ReportReturns
    BY <1>3 DEF TP!Next, TP!Progress,
         T!SymbolizerFails, T!Enter, T!ReEvaluate, T!ReportReturns, T!Evaluated,
         TP!SymbolizerFails, TP!Enter, TP!ReEvaluate, TP!ReportReturns, TP!Evaluated
  <1> QED
    BY <1>1, <1>2, <1>3 DEF TokenizerSteps

-----------------------------------------------------------------------------
(* The Interpreter *)

\* An error the Interpreter has found is not forgotten, and the tokens it is told after it are counted.
LEMMA ErrorsStay ==
    ASSUME NEW type, NEW value, I!Evaluate(type, value)
    PROVE  /\ interpreterError' = interpreterError \/ interpreterError' = TRUE
           /\ observedLate' = IF interpreterError THEN observedLate + 1 ELSE observedLate
  <1>1. ASSUME I!Header(type, value) PROVE UNCHANGED interpreterError \/ interpreterError' = TRUE
    BY <1>1 DEF I!Header, I!HeaderBeginEvaluate, I!HeaderBlank, I!HeaderNoIdentifier, I!HeaderOpens,
         I!HeaderKeywordMisplaced, I!HeaderEnds, I!HeaderSetting, I!HeaderEqualsEvaluate,
         I!HeaderParameterAccepted, I!HeaderParameterRefused, I!LogError
  <1>2. ASSUME I!Statement(type, value) PROVE UNCHANGED interpreterError \/ interpreterError' = TRUE
    BY <1>2 DEF I!Statement, I!StatementEmpty, I!StatementNoWord, I!StatementUnknown,
         I!StatementNumeric, I!NumericPeriod, I!NumericNoName, I!NumericName, I!NumericNoSuffix,
         I!NumericSuffix, I!StatementEndEvaluate, I!LogError
  <1>3. observedLate' = IF interpreterError THEN observedLate + 1 ELSE observedLate
    BY DEF I!Evaluate
  <1> QED
    BY <1>1, <1>2, <1>3 DEF I!Evaluate

\* The Interpreter has refused exactly when it has found an error, and both count the tokens told since.
SameRefusal ==
    /\ interpreterError \in BOOLEAN
    /\ refused = interpreterError
    /\ observedLate = toldLate

TokenizerInv == TP!TInv /\ TP!ErrorInv /\ TP!RefusedInv

SInv == TokenizerInv /\ SameRefusal /\ (result = "Success" => phase = "Idle")

LEMMA InitSInv == Init => SInv
  <1> SUFFICES ASSUME Init PROVE SInv
    OBVIOUS
  <1>1. TP!Init
    BY SameInit DEF Init
  <1>2. TokenizerInv
    <2>1. TP!TInv
      BY <1>1, TP!InitTyped, TokenizerIsUsedRight
    <2>2. TP!ErrorInv /\ TP!RefusedInv
      BY <1>1 DEF TP!Init, TP!ErrorInv, TP!RefusedInv
    <2> QED
      BY <2>1, <2>2 DEF TokenizerInv
  <1> QED
    BY <1>2 DEF Init, SInv, SameRefusal, T!Init, I!Init

LEMMA TokenizerStep ==
    ASSUME TokenizerInv, TokenizerSteps
    PROVE  /\ TokenizerInv'
           /\ \/ UNCHANGED <<told, refused, toldLate>>
              \/ /\ told' # told
                 /\ refused' = (refused \/ ~keepParsing')
                 /\ toldLate' = IF refused THEN toldLate + 1 ELSE toldLate
                 /\ refused => toldLate = 0 /\ told'.text \in {<<"Control">>, <<"Period">>}
  <1>1. TP!Next
    BY SameSteps
  <1>2. TP!TInv'
    BY <1>1, TP!StepTyped, TokenizerIsUsedRight DEF TokenizerInv
  <1>3. TP!ErrorInv'
    BY <1>1, TP!ErrorStep, TokenizerIsUsedRight DEF TokenizerInv
  <1>4. TP!RefusedInv'
    BY <1>1, TP!RefusedStep, TokenizerIsUsedRight DEF TokenizerInv
  <1>5. \/ UNCHANGED TP!observerVars
        \/ /\ told' # told
           /\ refused' = (refused \/ ~keepParsing')
           /\ toldLate' = IF refused THEN toldLate + 1 ELSE toldLate
           /\ refused => toldLate = 0 /\ told'.text \in {<<c>> : c \in TP!ControlCategories}
    BY <1>1, TP!StepTells, TokenizerIsUsedRight DEF TokenizerInv
  <1>6. {<<c>> : c \in TP!ControlCategories} = {<<"Control">>, <<"Period">>}
    BY DEF TP!ControlCategories
  <1> QED
    BY <1>2, <1>3, <1>4, <1>5, <1>6 DEF TokenizerInv, TP!observerVars

\* What the Tokenizer tells is a token as the Interpreter's own model expects it.
LEMMA ObservesRight ==
    ASSUME SameRefusal, Observes,
           refused => toldLate = 0 /\ told'.text \in {<<"Control">>, <<"Period">>}
    PROVE  /\ I!Next
           /\ interpreterError' = interpreterError \/ interpreterError' = TRUE
           /\ observedLate' = IF interpreterError THEN observedLate + 1 ELSE observedLate
  <1>1. PICK type, value :
           /\ I!Evaluate(type, value)
           /\ \/ type = "Control" /\ value \in Controls
              \/ type = "NumericLiteral" /\ value \in NumericLiterals /\ told'.text = <<"Hash">>
              \/ type = "StringLiteral" /\ value \in StringLiterals /\ told'.text = <<"DoubleQuotes">>
              \/ type = "Word" /\ value \in Words /\ told'.text[1] \in T!WordCategories
    BY StreamParserAssumption DEF Observes
  <1>2. interpreterError => type = "Control" /\ observedLate = 0
    <2>1. /\ <<"Hash">> \notin {<<"Control">>, <<"Period">>}
          /\ <<"DoubleQuotes">> \notin {<<"Control">>, <<"Period">>}
          /\ \A text \in {<<"Control">>, <<"Period">>} : text[1] \notin T!WordCategories
      BY DEF T!WordCategories
    <2> QED
      BY <1>1, <2>1 DEF SameRefusal
  <1>3. I!Observe(type, value)
    BY <1>1, <1>2 DEF I!Observe
  <1>4. I!Next
    BY <1>1, <1>3 DEF I!Next
  <1> QED
    BY <1>1, <1>4, ErrorsStay

LEMMA NextSInv == SInv /\ [Next]_vars => SInv' /\ [I!Next]_(I!vars)
  <1> SUFFICES ASSUME SInv, [Next]_vars PROVE SInv' /\ [I!Next]_(I!vars)
    OBVIOUS
  <1> USE DEF SInv
  <1>1. CASE Parses
    <2>1. TokenizerSteps /\ result' # "Success"
      BY <1>1 DEF Parses
    <2>2. TokenizerInv'
      BY <2>1, TokenizerStep
    <2>3. CASE told' = told
      <3>1. UNCHANGED interpreterVars
        BY <1>1, <2>3 DEF Parses
      <3>2. UNCHANGED <<refused, toldLate>>
        BY <2>1, <2>3, TokenizerStep
      <3> QED
        BY <2>1, <2>2, <3>1, <3>2
           DEF interpreterVars, SameRefusal, I!vars, I!headerVars, I!builderVars
    <2>4. CASE told' # told
      <3>1. Observes /\ keepParsing' = ~interpreterError'
        BY <1>1, <2>4 DEF Parses
      <3>2. /\ refused' = (refused \/ ~keepParsing')
            /\ toldLate' = IF refused THEN toldLate + 1 ELSE toldLate
            /\ refused => toldLate = 0 /\ told'.text \in {<<"Control">>, <<"Period">>}
        BY <2>1, <2>4, TokenizerStep
      <3>3. /\ I!Next
            /\ interpreterError' = interpreterError \/ interpreterError' = TRUE
            /\ observedLate' = IF interpreterError THEN observedLate + 1 ELSE observedLate
        BY <3>1, <3>2, ObservesRight
      <3>4. SameRefusal'
        BY <3>1, <3>2, <3>3 DEF SameRefusal
      <3> QED
        BY <2>1, <2>2, <3>3, <3>4
    <2> QED
      BY <2>3, <2>4
  <1>2. CASE ReturnsAtEnd \/ ReturnsOnError \/ UNCHANGED vars
    <2>1. /\ UNCHANGED <<tokenizerVars, interpreterVars>>
          /\ result' = "Success" => phase = "Idle"
      BY <1>2 DEF ReturnsAtEnd, ReturnsOnError, vars
    <2>2. TokenizerInv'
      BY <2>1 DEF tokenizerVars, TokenizerInv, TP!TInv, TP!Scalars, TP!Builders, TP!Words, TP!Told,
                  TP!Comments, TP!Requests, TP!ErrorInv, TP!RefusedInv
    <2> QED
      BY <2>1, <2>2 DEF tokenizerVars, interpreterVars, SameRefusal, I!vars, I!headerVars, I!builderVars
  <1> QED
    BY <1>1, <1>2 DEF Next

\* When ParseStream succeeds, neither the Tokenizer nor the Interpreter has found an error in what was
\* read, whichever step of a report found it and whatever came after.
THEOREM NoErrorUnreported == Spec => []ErrorsAreReported
  <1>1. SInv => ErrorsAreReported
    BY DEF SInv, TokenizerInv, SameRefusal, TP!ErrorInv, TP!RefusedInv, ErrorsAreReported
  <1> QED
    BY <1>1, InitSInv, NextSInv, PTL DEF Spec

\* The Tokenizer uses the Interpreter as the Interpreter's own model assumes, so what is proved of it
\* there, for any tokens that keep to that, holds of every stream.
THEOREM InterpreterIsUsedRight == Spec => UsesInterpreter
  <1>1. Init => I!Init
    BY DEF Init
  <1> QED
    BY <1>1, InitSInv, NextSInv, PTL DEF Spec, UsesInterpreter, I!Spec

-----------------------------------------------------------------------------
(* What is proved of the Interpreter holds of every stream *)

IP == INSTANCE InterpreterProofs WITH
    mCurState <- interpreterState, mParseError <- interpreterError, late <- observedLate

LEMMA SameInterpreter ==
    /\ I!Init => IP!Init
    /\ [I!Next]_(I!vars) => [IP!Next]_(IP!vars)
    /\ I!InterpreterAssumption => IP!InterpreterAssumption
  <1>1. I!Init => IP!Init
    BY DEF I!Init, IP!Init, I!Byte, IP!Byte
  <1>2. [I!Next]_(I!vars) => [IP!Next]_(IP!vars)
    <2>1. ASSUME NEW type, NEW value, I!Header(type, value) PROVE IP!Header(type, value)
      <3>0. I!MaxVersion = IP!MaxVersion /\ (I!IsCharacter(value) <=> IP!IsCharacter(value))
        <4>1. I!IsCharacter(value) => IP!IsCharacter(value)
          BY DEF I!TheoreticalMaxUnicodePoint, I!Noncharacters, I!PlaneSize, I!EndsPlane, I!IsCharacter,
                 IP!TheoreticalMaxUnicodePoint, IP!Noncharacters, IP!PlaneSize, IP!EndsPlane,
                 IP!IsCharacter
        <4>2. IP!IsCharacter(value) => I!IsCharacter(value)
          BY DEF I!TheoreticalMaxUnicodePoint, I!Noncharacters, I!PlaneSize, I!EndsPlane, I!IsCharacter,
                 IP!TheoreticalMaxUnicodePoint, IP!Noncharacters, IP!PlaneSize, IP!EndsPlane,
                 IP!IsCharacter
        <4> QED
          BY <4>1, <4>2 DEF I!MaxVersion, IP!MaxVersion
      <3>1. ASSUME NEW name, I!Accepts(name, type, value) PROVE IP!Accepts(name, type, value)
        BY <3>0, <3>1 DEF I!Accepts, IP!Accepts
      <3>2. ASSUME NEW name, IP!Accepts(name, type, value) PROVE I!Accepts(name, type, value)
        BY <3>0, <3>2 DEF I!Accepts, IP!Accepts
      <3>3. I!WithDefaults = IP!WithDefaults
        BY DEF I!WithDefaults, I!Settings, I!Defaults, I!Byte, IP!WithDefaults, IP!Settings,
               IP!Defaults, IP!Byte
      <3>4. CASE \/ I!HeaderBeginEvaluate(type, value) \/ I!HeaderBlank(type, value)
                 \/ I!HeaderNoIdentifier(type, value) \/ I!HeaderOpens(type, value)
                 \/ I!HeaderKeywordMisplaced(type, value) \/ I!HeaderSetting(type, value)
                 \/ I!HeaderEqualsEvaluate(type, value)
        BY <3>4 DEF IP!Header,
               I!HeaderBeginEvaluate, I!HeaderBlank, I!HeaderNoIdentifier, I!HeaderWord,
               I!HeaderOpens, I!HeaderKeywordMisplaced, I!HeaderSetting, I!HeaderEqualsEvaluate,
               I!EnterHeaderBegin, I!headerVars, I!builderVars, I!LogError, I!IsControl,
               IP!HeaderBeginEvaluate, IP!HeaderBlank, IP!HeaderNoIdentifier, IP!HeaderWord,
               IP!HeaderOpens, IP!HeaderKeywordMisplaced, IP!HeaderSetting,
               IP!HeaderEqualsEvaluate, IP!EnterHeaderBegin, IP!headerVars, IP!builderVars,
               IP!LogError, IP!IsControl
      <3>5. CASE I!HeaderEnds(type, value)
        BY <3>3, <3>5 DEF IP!Header,
               I!HeaderEnds, I!HeaderWord, I!headerVars, I!builderVars, IP!HeaderEnds,
               IP!HeaderWord, IP!headerVars, IP!builderVars
      <3>6. CASE I!HeaderParameterAccepted(type, value)
        BY <3>1, <3>6 DEF IP!Header,
               I!HeaderParameterAccepted, I!Add, I!Converted, I!EnterHeaderBegin, I!builderVars,
               I!Bit, I!Byte, IP!HeaderParameterAccepted, IP!Add, IP!Converted,
               IP!EnterHeaderBegin, IP!builderVars, IP!Bit, IP!Byte
      <3>7. CASE I!HeaderParameterRefused(type, value)
        BY <3>2, <3>7 DEF IP!Header,
               I!HeaderParameterRefused, I!LogError, I!headerVars, I!builderVars,
               IP!HeaderParameterRefused, IP!LogError, IP!headerVars, IP!builderVars
      <3> QED
        BY <2>1, <3>4, <3>5, <3>6, <3>7 DEF I!Header
    <2>2. ASSUME NEW type, NEW value, I!Statement(type, value) PROVE IP!Statement(type, value)
      BY <2>2
         DEF I!Statement, I!CalcBits, I!ParseIdentifier, I!ParseSuffix, I!StatementEmpty,
             I!StatementNoWord, I!StatementUnknown, I!StatementNumeric, I!NumericPeriod,
             I!NumericNoName, I!NumericName, I!NumericNoSuffix, I!NumericSuffix,
             I!StatementEndEvaluate, I!headerVars, I!builderVars, I!LogError, I!IsControl,
             I!IsEndOfLine, I!Invalid, I!Byte, I!Bit, I!MAX_NUMERIC_FIELD_BITS, I!MaxVersion,
             I!Settings, I!TheoreticalMaxUnicodePoint, I!Noncharacters, I!PlaneSize,
             I!EndsPlane, I!IsCharacter, IP!Statement, IP!CalcBits, IP!ParseIdentifier,
             IP!ParseSuffix, IP!StatementEmpty, IP!StatementNoWord, IP!StatementUnknown,
             IP!StatementNumeric, IP!NumericPeriod, IP!NumericNoName, IP!NumericName,
             IP!NumericNoSuffix, IP!NumericSuffix, IP!StatementEndEvaluate, IP!headerVars,
             IP!builderVars, IP!LogError, IP!IsControl, IP!IsEndOfLine, IP!Invalid, IP!Byte,
             IP!Bit, IP!MAX_NUMERIC_FIELD_BITS, IP!MaxVersion, IP!Settings,
             IP!TheoreticalMaxUnicodePoint, IP!Noncharacters, IP!PlaneSize, IP!EndsPlane,
             IP!IsCharacter
    <2>3. ASSUME NEW type, NEW value, I!Observe(type, value) PROVE IP!Observe(type, value)
      BY <2>1, <2>2, <2>3 DEF I!Observe, IP!Observe, I!Evaluate, IP!Evaluate
    <2>4. I!vars = IP!vars
      BY DEF I!vars, I!headerVars, I!builderVars, IP!vars, IP!headerVars, IP!builderVars
    <2>5. I!vars' = IP!vars'
      BY DEF I!vars, I!headerVars, I!builderVars, IP!vars, IP!headerVars, IP!builderVars
    <2> QED
      BY <2>3, <2>4, <2>5 DEF I!Next, IP!Next
  <1>3. I!InterpreterAssumption => IP!InterpreterAssumption
    BY DEF I!InterpreterAssumption, IP!InterpreterAssumption, I!Invalid, IP!Invalid
  <1> QED
    BY <1>1, <1>2, <1>3

LEMMA StreamsAreInterpreted == I!InterpreterAssumption => IP!InterpreterAssumption /\ (Spec => IP!Spec)
  <1> SUFFICES ASSUME I!InterpreterAssumption PROVE IP!InterpreterAssumption /\ (Spec => IP!Spec)
    OBVIOUS
  <1>1. Init => IP!Init
    BY SameInterpreter DEF Init
  <1>2. SInv /\ [Next]_vars => SInv' /\ [IP!Next]_(IP!vars)
    BY NextSInv, SameInterpreter
  <1>3. Spec => IP!Spec
    BY <1>1, <1>2, InitSInv, PTL DEF Spec, IP!Spec
  <1> QED
    BY <1>3, SameInterpreter

\* Whatever stream ParseStream is given, the tree is filled in order: settings once each, all of them
\* settled at the end of the header, then well-formed fields, and nothing after an error.
THEOREM StreamsFillTheTreeInOrder == I!InterpreterAssumption /\ Spec => IP!ImplementsTree
  <1> SUFFICES ASSUME I!InterpreterAssumption PROVE Spec => IP!ImplementsTree
    OBVIOUS
  <1>1. IP!Spec => IP!ImplementsTree
    BY StreamsAreInterpreted, IP!TreeIsFilledInOrder
  <1> QED
    BY <1>1, StreamsAreInterpreted, PTL

\* And each field of the tree has the sign and the widths that its own statement in the stream declared,
\* as long as the numbers there are small enough for the arithmetic of the code.
THEOREM StreamsDeclareTheirFields ==
    I!InterpreterAssumption /\ IP!NumbersFit /\ Spec => []IP!FieldsAsDeclared
  <1> SUFFICES ASSUME I!InterpreterAssumption, IP!NumbersFit PROVE Spec => []IP!FieldsAsDeclared
    OBVIOUS
  <1>1. IP!Spec => []IP!FieldsAsDeclared
    BY StreamsAreInterpreted, IP!FieldsAreDeclared
  <1> QED
    BY <1>1, StreamsAreInterpreted, PTL

-----------------------------------------------------------------------------
(* The window on the last bytes *)

\* What a window is at any time: its contents are less than its memory, and begin within it.
IsWindow(w) ==
    /\ w = [mBuf |-> w.mBuf, bufSize |-> aPretextLen,
            mBeginCounter |-> w.mBeginCounter, mEndCounter |-> w.mEndCounter, mHead |-> w.mHead]
    /\ w.bufSize = aPretextLen /\ w.mBuf \in [0 .. aPretextLen - 1 -> Nat]
    /\ w.mBeginCounter \in Nat /\ w.mEndCounter \in Nat /\ w.mHead \in Nat
    /\ w.mBeginCounter <= w.mEndCounter /\ w.mEndCounter - w.mBeginCounter <= aPretextLen
    /\ w.mHead < aPretextLen \/ w.mHead = 0

LEMMA Lengths == aPretextLen \in Nat /\ aPosttextLen \in Nat /\ aChunkSize \in Nat /\ aChunkSize > 0
  BY ParsePositionsAssumption

LEMMA Wraps ==
  ASSUME NEW s \in Nat, NEW p \in Nat, s > 0, p < 2 * s
  PROVE  p % s = IF p < s THEN p ELSE p - s
  <1>1. CASE p < s
    BY <1>1
  <1>2. CASE ~(p < s)
    <2> DEFINE q == p - s
    <2>1. q \in Nat /\ q < s /\ p = q + s
      BY <1>2
    <2> HIDE DEF q
    <2>2. p % s = q % s
      BY <2>1
    <2>3. q % s = q
      BY <2>1
    <2> QED
      BY <2>2, <2>3, <1>2 DEF q
  <1> QED
    BY <1>1, <1>2

\* The place a number of bytes behind another.
Behind(index, count) ==
    IF index + count < aPretextLen THEN index + count ELSE index + count - aPretextLen

LEMMA Increments ==
  ASSUME NEW w, w.bufSize = aPretextLen, NEW index \in Nat, NEW count \in Nat,
         index < aPretextLen, count <= aPretextLen
  PROVE  /\ IncrementIndex(w, index, count) = Behind(index, count)
         /\ Behind(index, count) \in Nat /\ Behind(index, count) < aPretextLen
  <1>1. CASE count = 0
    BY <1>1, Lengths DEF IncrementIndex, Behind
  <1>2. CASE count # 0
    <2>1. aPretextLen > 0 /\ index + count \in Nat /\ index + count < 2 * aPretextLen
      BY Lengths
    <2>2. (index + count) % aPretextLen = Behind(index, count)
      BY <2>1, Wraps, Lengths DEF Behind
    <2> QED
      BY <2>1, <2>2, <1>2, Lengths DEF IncrementIndex, Behind
  <1> QED
    BY <1>1, <1>2

\* How far a place is behind another.
OffsetFrom(index, k) == IF k < index THEN k - index + aPretextLen ELSE k - index

LEMMA Copies ==
  ASSUME NEW memory \in [0 .. aPretextLen - 1 -> Nat], NEW index \in Nat, index < aPretextLen,
         NEW data \in Seq(Nat)
  PROVE  /\ CopyCirc(memory, aPretextLen, index, data) \in [0 .. aPretextLen - 1 -> Nat]
         /\ \A k \in 0 .. aPretextLen - 1 :
                CopyCirc(memory, aPretextLen, index, data)[k] =
                    IF OffsetFrom(index, k) < Len(data) THEN data[OffsetFrom(index, k) + 1]
                    ELSE memory[k]
  <1>1. ~(index >= aPretextLen)
    BY Lengths
  <1>2. ASSUME NEW k \in 0 .. aPretextLen - 1
        PROVE  (k - index + aPretextLen) % aPretextLen = OffsetFrom(index, k)
    <2> DEFINE p == k - index + aPretextLen
    <2>1. p \in Nat /\ p < 2 * aPretextLen /\ aPretextLen > 0 /\ aPretextLen \in Nat
      BY Lengths
    <2>2. OffsetFrom(index, k) = IF p < aPretextLen THEN p ELSE p - aPretextLen
      BY Lengths DEF OffsetFrom
    <2> HIDE DEF p
    <2>3. p % aPretextLen = IF p < aPretextLen THEN p ELSE p - aPretextLen
      BY <2>1, Wraps
    <2> QED
      BY <2>2, <2>3 DEF p
  <1> DEFINE image == [k \in 0 .. aPretextLen - 1 |->
                          IF OffsetFrom(index, k) < Len(data) THEN data[OffsetFrom(index, k) + 1]
                          ELSE memory[k]]
  <1>3. CopyCirc(memory, aPretextLen, index, data) = image
    <2>1. DOMAIN memory = 0 .. aPretextLen - 1
      OBVIOUS
    <2> QED
      BY <1>1, <1>2, <2>1 DEF CopyCirc
  <1>4. image \in [0 .. aPretextLen - 1 -> Nat]
    <2>1. ASSUME NEW k \in 0 .. aPretextLen - 1, OffsetFrom(index, k) < Len(data)
          PROVE  data[OffsetFrom(index, k) + 1] \in Nat
      <3>1. OffsetFrom(index, k) \in Nat
        BY Lengths DEF OffsetFrom
      <3> QED
        BY <2>1, <3>1
    <2> QED
      BY <2>1
  <1> QED
    BY <1>3, <1>4

LEMMA Contents ==
  ASSUME NEW w, IsWindow(w)
  PROVE  /\ GetSize(w) \in Nat /\ GetSize(w) <= aPretextLen
         /\ ContentOf(w) \in Seq(Nat) /\ Len(ContentOf(w)) = GetSize(w)
         /\ \A k \in 1 .. GetSize(w) :
                /\ Behind(w.mHead, k - 1) \in 0 .. aPretextLen - 1
                /\ ContentOf(w)[k] = w.mBuf[Behind(w.mHead, k - 1)]
  <1>1. GetSize(w) \in Nat /\ GetSize(w) <= aPretextLen /\ w.mHead \in Nat
    BY Lengths DEF IsWindow, GetSize
  <1>2. ASSUME NEW k \in 1 .. GetSize(w)
        PROVE  /\ Behind(w.mHead, k - 1) \in 0 .. aPretextLen - 1
               /\ GetByte(w, k - 1) = w.mBuf[Behind(w.mHead, k - 1)]
    <2>1. w.bufSize = aPretextLen
      BY Zenon DEF IsWindow
    <2>2. w.mHead < aPretextLen
      BY <1>1, Lengths DEF IsWindow
    <2>3. k - 1 \in Nat /\ k - 1 <= aPretextLen /\ ~(k - 1 >= GetSize(w))
      BY <1>1, Lengths
    <2>4. /\ IncrementIndex(w, w.mHead, k - 1) = Behind(w.mHead, k - 1)
          /\ Behind(w.mHead, k - 1) \in Nat /\ Behind(w.mHead, k - 1) < aPretextLen
      BY <1>1, <2>1, <2>2, <2>3, Increments
    <2>5. Behind(w.mHead, k - 1) \in 0 .. aPretextLen - 1
      BY <2>4, Lengths
    <2> QED
      BY <2>3, <2>4, <2>5 DEF GetByte
  <1>3. w.mBuf \in [0 .. aPretextLen - 1 -> Nat]
    BY DEF IsWindow
  <1>4. \A k \in 1 .. GetSize(w) : GetByte(w, k - 1) \in Nat
    BY <1>2, <1>3
  <1>5. ContentOf(w) = [k \in 1 .. GetSize(w) |-> GetByte(w, k - 1)]
    BY DEF ContentOf
  <1> HIDE DEF ContentOf
  <1>6. ContentOf(w) \in Seq(Nat) /\ Len(ContentOf(w)) = GetSize(w)
    BY <1>1, <1>4, <1>5
  <1> QED
    BY <1>1, <1>2, <1>5, <1>6

LEMMA Parts ==
  ASSUME NEW s \in Seq(Nat), NEW a \in Int, NEW b \in Int, a > 0, b <= Len(s), a <= b + 1
  PROVE  /\ SubSeq(s, a, b) \in Seq(Nat)
         /\ Len(SubSeq(s, a, b)) = b - a + 1
         /\ \A k \in 1 .. b - a + 1 : SubSeq(s, a, b)[k] = s[a + k - 1]
  OBVIOUS

LEMMA PartsBehind ==
  ASSUME NEW s \in Seq(Nat), NEW e \in Nat, NEW size \in Nat, e + size <= Len(s)
  PROVE  /\ SubSeq(s, e + 1, e + size) \in Seq(Nat)
         /\ Len(SubSeq(s, e + 1, e + size)) = size
         /\ \A k \in 1 .. size : SubSeq(s, e + 1, e + size)[k] = s[e + k]
  <1>1. PICK a \in Nat : a = e + 1
    OBVIOUS
  <1>2. /\ a > 0 /\ e + size <= Len(s) /\ a <= e + size + 1 /\ e + size - a + 1 = size
        /\ a \in Int /\ e + size \in Int
    BY <1>1
  <1>3. /\ SubSeq(s, a, e + size) \in Seq(Nat)
        /\ Len(SubSeq(s, a, e + size)) = e + size - a + 1
        /\ \A k \in 1 .. e + size - a + 1 : SubSeq(s, a, e + size)[k] = s[a + k - 1]
    BY <1>2, Parts
  <1>4. \A k \in 1 .. size : a + k - 1 = e + k
    BY <1>1
  <1> QED
    BY <1>1, <1>2, <1>3, <1>4, Zenon

LEMMA Beginning ==
  ASSUME NEW s \in Seq(Nat), NEW n \in Nat, n <= Len(s)
  PROVE  /\ SubSeq(s, 1, n) \in Seq(Nat) /\ Len(SubSeq(s, 1, n)) = n
         /\ \A k \in 1 .. n : SubSeq(s, 1, n)[k] = s[k]
  OBVIOUS

LEMMA Rest ==
  ASSUME NEW s \in Seq(Nat), NEW n \in Nat, n <= Len(s)
  PROVE  /\ SubSeq(s, n + 1, Len(s)) \in Seq(Nat) /\ Len(SubSeq(s, n + 1, Len(s))) = Len(s) - n
         /\ \A k \in 1 .. Len(s) - n : SubSeq(s, n + 1, Len(s))[k] = s[n + k]
  OBVIOUS

LEMMA LastOnes ==
  ASSUME NEW n \in Nat, NEW s \in Seq(Nat)
  PROVE  /\ LastOf(n, s) \in Seq(Nat)
         /\ Len(LastOf(n, s)) = IF Len(s) > n THEN n ELSE Len(s)
         /\ \A k \in 1 .. Len(LastOf(n, s)) :
                LastOf(n, s)[k] = s[k + Len(s) - Len(LastOf(n, s))]
  <1>1. Len(s) \in Nat
    OBVIOUS
  <1>2. CASE Len(s) > n
    <2> DEFINE a == Len(s) - n + 1
    <2>1. a \in 1 .. Len(s) + 1 /\ a - 1 + n = Len(s)
      BY <1>1, <1>2
    <2>2. LastOf(n, s) = SubSeq(s, a, Len(s))
      BY <1>2 DEF LastOf
    <2> HIDE DEF a
    <2>3. /\ SubSeq(s, a, Len(s)) \in Seq(Nat)
          /\ Len(SubSeq(s, a, Len(s))) = n
          /\ \A k \in 1 .. n : SubSeq(s, a, Len(s))[k] = s[a + k - 1]
      BY <1>1, <2>1, Parts
    <2>4. \A k \in 1 .. n : a + k - 1 = k + Len(s) - n
      BY <1>1 DEF a
    <2> QED
      BY <1>2, <2>2, <2>3, <2>4
  <1>3. CASE ~(Len(s) > n)
    <2>1. LastOf(n, s) = s
      BY <1>3 DEF LastOf
    <2>2. \A k \in 1 .. Len(s) : k = k + Len(s) - Len(s)
      BY <1>1
    <2> QED
      BY <1>3, <2>1, <2>2
  <1> QED
    BY <1>2, <1>3

LEMMA LastOfMore ==
  ASSUME NEW n \in Nat, NEW s \in Seq(Nat), Len(s) > n
  PROVE  /\ LastOf(n, s) \in Seq(Nat) /\ Len(LastOf(n, s)) = n
         /\ \A k \in 1 .. n : LastOf(n, s)[k] = s[k + Len(s) - n]
  BY LastOnes

LEMMA LeastIsBoth ==
  ASSUME NEW a \in Nat, NEW b \in Nat
  PROVE  Least(a, b) <= a /\ Least(a, b) <= b
  BY DEF Least

\* The members of the window that is left, if it has any memory.
LEMMA Filled ==
  ASSUME NEW w, IsWindow(w), aPretextLen > 0, NEW data \in Seq(Nat), Len(data) <= aPretextLen,
         NEW fitting \in Nat, fitting = Least(Len(data), aPretextLen - GetSize(w)),
         NEW moved \in Nat, moved = Len(data) - fitting,
         NEW tail \in Nat, tail = Behind(w.mHead, GetSize(w)),
         NEW next \in Nat, next = Behind(tail, fitting)
  PROVE  \E first, last \in [0 .. aPretextLen - 1 -> Nat] :
            /\ FillAndMove(w, data) =
                  [mBuf |-> last, bufSize |-> aPretextLen,
                   mBeginCounter |-> w.mBeginCounter + moved,
                   mEndCounter |-> w.mEndCounter + fitting + moved,
                   mHead |-> Behind(w.mHead, moved)]
            /\ \A k \in 0 .. aPretextLen - 1 :
                  /\ first[k] = IF OffsetFrom(tail, k) < fitting THEN data[OffsetFrom(tail, k) + 1]
                                 ELSE w.mBuf[k]
                  /\ last[k] = IF OffsetFrom(next, k) < moved
                                 THEN data[fitting + (OffsetFrom(next, k) + 1)] ELSE first[k]
  <1> DEFINE d1 == SubSeq(data, 1, fitting)
             d2 == SubSeq(data, fitting + 1, Len(data))
             filled == CopyCirc(w.mBuf, aPretextLen, tail, d1)
             memory == CopyCirc(filled, aPretextLen, next, d2)
  <1>1. /\ GetSize(w) \in Nat /\ GetSize(w) <= aPretextLen /\ w.mHead \in Nat /\ w.mHead < aPretextLen
        /\ w.bufSize = aPretextLen /\ w.mBuf \in [0 .. aPretextLen - 1 -> Nat]
    BY Contents, Lengths DEF IsWindow
  <1>2. fitting <= Len(data) /\ fitting <= aPretextLen /\ moved <= aPretextLen /\ Len(data) \in Nat
    <2>1. Len(data) \in Nat /\ aPretextLen - GetSize(w) \in Nat /\ aPretextLen - GetSize(w) <= aPretextLen
      BY <1>1, Lengths
    <2>2. fitting <= Len(data) /\ fitting <= aPretextLen - GetSize(w)
      BY <2>1, LeastIsBoth, Zenon
    <2>3. fitting <= aPretextLen
      BY <1>1, <2>2, Lengths
    <2> QED
      BY <2>1, <2>2, <2>3, Lengths
  <1>3. /\ IncrementIndex(w, w.mHead, GetSize(w)) = tail /\ tail < aPretextLen
        /\ IncrementIndex(w, w.mHead, moved) = Behind(w.mHead, moved)
    <2> DEFINE h == w.mHead
    <2>1. h \in Nat /\ h < aPretextLen
      BY <1>1
    <2> HIDE DEF h
    <2>2. /\ IncrementIndex(w, h, GetSize(w)) = Behind(h, GetSize(w))
          /\ Behind(h, GetSize(w)) < aPretextLen
      BY <1>1, <2>1, Increments
    <2>3. IncrementIndex(w, h, moved) = Behind(h, moved)
      <3>1. ASSUME NEW n \in Nat, n <= aPretextLen PROVE IncrementIndex(w, h, n) = Behind(h, n)
        BY <3>1, <1>1, <2>1, Increments
      <3>2. moved \in Nat /\ moved <= aPretextLen
        BY <1>2
      <3> QED
        BY <3>1, <3>2, Zenon
    <2> QED
      BY <2>2, <2>3 DEF h
  <1>4. IncrementIndex(w, tail, fitting) = next /\ next < aPretextLen
    BY <1>1, <1>2, <1>3, Increments
  <1>5. /\ d1 \in Seq(Nat) /\ Len(d1) = fitting /\ \A k \in 1 .. fitting : d1[k] = data[k]
        /\ d2 \in Seq(Nat) /\ Len(d2) = moved /\ \A k \in 1 .. moved : d2[k] = data[fitting + k]
    BY <1>2, Beginning, Rest
  <1>6. Least(Len(data), w.bufSize - GetSize(w)) = fitting
    BY <1>1
  <1>7. FillAndMove(w, data) =
            [mBuf |-> memory, bufSize |-> aPretextLen,
             mBeginCounter |-> w.mBeginCounter + moved,
             mEndCounter |-> w.mEndCounter + fitting + moved, mHead |-> Behind(w.mHead, moved)]
    BY <1>1, <1>3, <1>4, <1>6, Zenon DEF FillAndMove
  <1> HIDE DEF d1, d2
  <1>8. /\ filled \in [0 .. aPretextLen - 1 -> Nat]
        /\ \A k \in 0 .. aPretextLen - 1 :
              filled[k] = IF OffsetFrom(tail, k) < Len(d1) THEN d1[OffsetFrom(tail, k) + 1]
                          ELSE w.mBuf[k]
    <2>1. /\ w.mBuf \in [0 .. aPretextLen - 1 -> Nat] /\ tail \in Nat /\ tail < aPretextLen
          /\ d1 \in Seq(Nat)
      BY <1>1, <1>3, <1>5, Zenon
    <2> QED
      BY <2>1, Copies
  <1> HIDE DEF filled
  <1>9. /\ memory \in [0 .. aPretextLen - 1 -> Nat]
        /\ \A k \in 0 .. aPretextLen - 1 :
              memory[k] = IF OffsetFrom(next, k) < Len(d2) THEN d2[OffsetFrom(next, k) + 1]
                          ELSE filled[k]
    BY <1>4, <1>5, <1>8, Copies
  <1> HIDE DEF memory
  <1>10. ASSUME NEW k \in 0 .. aPretextLen - 1, NEW p \in Nat, p < aPretextLen
         PROVE  OffsetFrom(p, k) \in Nat
    BY <1>10, Lengths DEF OffsetFrom
  <1>11. ASSUME NEW k \in 0 .. aPretextLen - 1
         PROVE  filled[k] = IF OffsetFrom(tail, k) < fitting THEN data[OffsetFrom(tail, k) + 1]
                            ELSE w.mBuf[k]
    <2> DEFINE o == OffsetFrom(tail, k)
    <2>1. o \in Nat
      BY <1>3, <1>10
    <2> HIDE DEF o
    <2>2. o < fitting => d1[o + 1] = data[o + 1]
      BY <1>5, <2>1
    <2> QED
      BY <1>5, <1>8, <2>2 DEF o
  <1>12. ASSUME NEW k \in 0 .. aPretextLen - 1
         PROVE  memory[k] = IF OffsetFrom(next, k) < moved
                            THEN data[fitting + (OffsetFrom(next, k) + 1)] ELSE filled[k]
    <2> DEFINE o == OffsetFrom(next, k)
    <2>1. o \in Nat
      BY <1>4, <1>10
    <2> HIDE DEF o
    <2>2. o < moved => o + 1 \in 1 .. moved
      BY <2>1
    <2>3. o < moved => d2[o + 1] = data[fitting + (o + 1)]
      BY <1>5, <2>2, Zenon
    <2> QED
      BY <1>5, <1>9, <2>3 DEF o
  <1> QED
    <2> USE <1>8, <1>9
    <2> WITNESS filled \in [0 .. aPretextLen - 1 -> Nat], memory \in [0 .. aPretextLen - 1 -> Nat]
    <2>1. ASSUME NEW k \in 0 .. aPretextLen - 1
          PROVE  /\ filled[k] = IF OffsetFrom(tail, k) < fitting THEN data[OffsetFrom(tail, k) + 1]
                                ELSE w.mBuf[k]
                 /\ memory[k] = IF OffsetFrom(next, k) < moved
                                THEN data[fitting + (OffsetFrom(next, k) + 1)] ELSE filled[k]
      BY <1>11, <1>12, Zenon
    <2> QED
      BY <1>7, <2>1, Zenon

LEMMA Joined ==
  ASSUME NEW s \in Seq(Nat), NEW t \in Seq(Nat)
  PROVE  /\ s \o t \in Seq(Nat) /\ Len(s \o t) = Len(s) + Len(t)
         /\ \A k \in 1 .. Len(s) + Len(t) :
                (s \o t)[k] = IF k <= Len(s) THEN s[k] ELSE t[k - Len(s)]
  OBVIOUS

\* Places are behind each other as numbers are, but for the size of the memory.
LEMMA Distances ==
  ASSUME NEW h \in Nat, h < aPretextLen, NEW a \in Nat, a < aPretextLen,
         NEW c \in Nat, c <= aPretextLen
  PROVE  /\ Behind(h, a) \in 0 .. aPretextLen - 1
         /\ Behind(h, c) \in Nat /\ Behind(h, c) < aPretextLen
         /\ OffsetFrom(Behind(h, c), Behind(h, a)) = IF a >= c THEN a - c ELSE a - c + aPretextLen
         /\ Behind(Behind(h, c), a) =
                Behind(h, IF c + a < aPretextLen THEN c + a ELSE c + a - aPretextLen)
  BY Lengths DEF Behind, OffsetFrom

\* Filling and moving keeps the last of the bytes, if there are no more than the memory holds.
LEMMA FillsInOrder ==
  ASSUME NEW w, IsWindow(w), aPretextLen > 0, NEW data \in Seq(Nat), Len(data) <= aPretextLen
  PROVE  /\ IsWindow(FillAndMove(w, data))
         /\ ContentOf(FillAndMove(w, data)) = LastOf(aPretextLen, ContentOf(w) \o data)
         /\ FillAndMove(w, data).mEndCounter = w.mEndCounter + Len(data)
  <1> DEFINE v == FillAndMove(w, data)
             both == ContentOf(w) \o data
  <1>0. PICK c \in Nat, h \in Nat, begin \in Nat, end \in Nat, n \in Nat :
            /\ c = GetSize(w) /\ h = w.mHead /\ begin = w.mBeginCounter /\ end = w.mEndCounter
            /\ n = Len(data)
    <2>1. /\ GetSize(w) \in Nat /\ w.mHead \in Nat /\ w.mBeginCounter \in Nat
          /\ w.mEndCounter \in Nat /\ Len(data) \in Nat
      BY Contents DEF IsWindow
    <2> QED
      BY <2>1
  <1>1. /\ aPretextLen \in Nat /\ aPretextLen > 0 /\ c <= aPretextLen /\ n <= aPretextLen
        /\ h < aPretextLen /\ end - begin = c
    BY <1>0, Contents, Lengths DEF IsWindow, GetSize
  <1> DEFINE f == Least(n, aPretextLen - c)
  <1>2. /\ f \in Nat /\ n - f \in Nat /\ f + (n - f) = n
        /\ n - f > 0 => c + f = aPretextLen
        /\ c + f = IF c + n > aPretextLen THEN aPretextLen ELSE c + n
    BY <1>1 DEF Least
  <1> HIDE DEF f
  <1>3. PICK fitting \in Nat, moved \in Nat : fitting = f /\ moved = n - f
    BY <1>2
  <1>15. /\ fitting + moved = n
         /\ moved > 0 => c + fitting = aPretextLen
         /\ c + fitting = IF c + n > aPretextLen THEN aPretextLen ELSE c + n
    BY <1>2, <1>3, Zenon
  <1>16. Behind(h, c) \in Nat /\ Behind(h, c) < aPretextLen
    BY <1>1, Distances
  <1>17. PICK tail \in Nat : tail = Behind(h, c)
    BY <1>16
  <1>18. Behind(tail, fitting) \in Nat /\ Behind(tail, fitting) < aPretextLen
    <2>1. ASSUME NEW m \in Nat, m < aPretextLen
          PROVE  Behind(m, fitting) \in Nat /\ Behind(m, fitting) < aPretextLen
      <3>1. fitting <= aPretextLen
        BY <1>1, <1>15
      <3> QED
        BY <1>1, <2>1, <3>1, Distances
    <2> QED
      BY <1>16, <1>17, <2>1, Zenon
  <1>19. PICK next \in Nat : next = Behind(tail, fitting)
    BY <1>18
  <1>20. /\ tail < aPretextLen /\ next < aPretextLen
         /\ moved > 0 => next = h
    <2>1. moved > 0 => Behind(Behind(h, c), fitting) = h
      BY <1>1, <1>15 DEF Behind
    <2> QED
      BY <1>16, <1>17, <1>18, <1>19, <2>1, Zenon
  <1>4. PICK first \in [0 .. aPretextLen - 1 -> Nat], last \in [0 .. aPretextLen - 1 -> Nat] :
            /\ v = [mBuf |-> last, bufSize |-> aPretextLen, mBeginCounter |-> begin + moved,
                    mEndCounter |-> end + fitting + moved, mHead |-> Behind(h, moved)]
            /\ \A k \in 0 .. aPretextLen - 1 :
                  /\ first[k] = IF OffsetFrom(tail, k) < fitting THEN data[OffsetFrom(tail, k) + 1]
                                ELSE w.mBuf[k]
                  /\ last[k] = IF OffsetFrom(next, k) < moved
                               THEN data[fitting + (OffsetFrom(next, k) + 1)] ELSE first[k]
    <2>1. /\ fitting = Least(Len(data), aPretextLen - GetSize(w)) /\ moved = Len(data) - fitting
          /\ tail = Behind(w.mHead, GetSize(w)) /\ next = Behind(tail, fitting)
      BY <1>0, <1>3, <1>17, <1>19, Zenon DEF f
    <2>2. \E first \in [0 .. aPretextLen - 1 -> Nat], last \in [0 .. aPretextLen - 1 -> Nat] :
            /\ v = [mBuf |-> last, bufSize |-> aPretextLen,
                    mBeginCounter |-> w.mBeginCounter + moved,
                    mEndCounter |-> w.mEndCounter + fitting + moved,
                    mHead |-> Behind(w.mHead, moved)]
            /\ \A k \in 0 .. aPretextLen - 1 :
                  /\ first[k] = IF OffsetFrom(tail, k) < fitting THEN data[OffsetFrom(tail, k) + 1]
                                ELSE w.mBuf[k]
                  /\ last[k] = IF OffsetFrom(next, k) < moved
                               THEN data[fitting + (OffsetFrom(next, k) + 1)] ELSE first[k]
      BY <2>1, Filled
    <2> QED
      BY <1>0, <2>2, Zenon
  <1> HIDE DEF v
  <1>5. PICK begin1 \in Nat, end1 \in Nat, h1 \in Nat :
            /\ begin1 = begin + moved /\ end1 = end + fitting + moved
            /\ h1 = Behind(h, moved) /\ h1 < aPretextLen
            /\ v = [mBuf |-> last, bufSize |-> aPretextLen, mBeginCounter |-> begin1,
                    mEndCounter |-> end1, mHead |-> h1]
    <2>1. moved <= aPretextLen
      BY <1>1, <1>15
    <2>2. Behind(h, moved) \in Nat /\ Behind(h, moved) < aPretextLen
      BY <1>1, <2>1, Distances
    <2>3. begin + moved \in Nat /\ end + fitting + moved \in Nat
      OBVIOUS
    <2> QED
      BY <1>4, <2>2, <2>3, Zenon
  <1>21. begin1 = begin + moved /\ end1 = end + fitting + moved /\ h1 < aPretextLen
    BY <1>5
  <1>22. h1 = Behind(h, moved)
    BY <1>5
  <1>6. /\ v.mBuf = last /\ v.bufSize = aPretextLen /\ v.mHead = h1
        /\ v.mBeginCounter = begin1 /\ v.mEndCounter = end1
    BY <1>5
  <1>7. GetSize(v) = c + fitting /\ v.mEndCounter = w.mEndCounter + Len(data)
    <2>1. end1 - begin1 = c + fitting /\ end1 = end + n
      BY <1>1, <1>15, <1>21
    <2> QED
      BY <1>0, <1>6, <2>1 DEF GetSize
  <1>9. IsWindow(v)
    <2>1. v = [mBuf |-> v.mBuf, bufSize |-> aPretextLen, mBeginCounter |-> v.mBeginCounter,
               mEndCounter |-> v.mEndCounter, mHead |-> v.mHead]
      BY <1>5, <1>6, Zenon
    <2>2. begin1 <= end1 /\ end1 - begin1 <= aPretextLen
      BY <1>1, <1>15, <1>21
    <2> QED
      BY <1>21, <1>6, <2>1, <2>2 DEF IsWindow
  <1>10. /\ ContentOf(w) \in Seq(Nat) /\ Len(ContentOf(w)) = c
         /\ both \in Seq(Nat) /\ Len(both) = c + n
         /\ \A j \in 1 .. c + n : both[j] = IF j <= c THEN ContentOf(w)[j] ELSE data[j - c]
    <2>1. ContentOf(w) \in Seq(Nat) /\ Len(ContentOf(w)) = c /\ Len(data) = n
      BY <1>0, Contents
    <2> QED
      BY <2>1, Joined, Zenon
  <1> HIDE DEF both
  <1>11. /\ ContentOf(v) \in Seq(Nat) /\ Len(ContentOf(v)) = c + fitting
         /\ \A k \in 1 .. c + fitting : ContentOf(v)[k] = last[Behind(h1, k - 1)]
    BY <1>6, <1>7, <1>9, Contents
  <1>12. /\ LastOf(aPretextLen, both) \in Seq(Nat) /\ Len(LastOf(aPretextLen, both)) = c + fitting
         /\ \A k \in 1 .. c + fitting : LastOf(aPretextLen, both)[k] = both[k + moved]
    <2>1. /\ LastOf(aPretextLen, both) \in Seq(Nat)
          /\ Len(LastOf(aPretextLen, both)) = IF Len(both) > aPretextLen THEN aPretextLen ELSE Len(both)
          /\ \A k \in 1 .. Len(LastOf(aPretextLen, both)) :
                LastOf(aPretextLen, both)[k] = both[k + Len(both) - Len(LastOf(aPretextLen, both))]
      BY <1>1, <1>10, LastOnes
    <2>2. (IF Len(both) > aPretextLen THEN aPretextLen ELSE Len(both)) = c + fitting
      BY <1>1, <1>15, <1>10
    <2>3. \A k \in 1 .. c + fitting : k + Len(both) - (c + fitting) = k + moved
      BY <1>1, <1>15, <1>10
    <2> QED
      BY <2>1, <2>2, <2>3
  <1>13. ASSUME NEW k \in 1 .. c + fitting
         PROVE  last[Behind(h1, k - 1)] = both[k + moved]
    <2>1. PICK j \in Nat, d \in Nat :
              /\ j = k + moved /\ d = k - 1 /\ d < aPretextLen /\ moved <= aPretextLen
              /\ j >= 1 /\ j <= c + n /\ moved + d = j - 1
      <3>1. k + moved \in Nat /\ k - 1 \in Nat
        OBVIOUS
      <3> QED
        BY <1>1, <1>15, <3>1
    <2>8. PICK a \in Nat :
              /\ a < aPretextLen
              /\ j - 1 < aPretextLen => a = j - 1
              /\ ~(j - 1 < aPretextLen) => a = j - 1 - aPretextLen
      <3>1. CASE j - 1 < aPretextLen
        <4>1. j - 1 \in Nat
          BY <2>1
        <4> QED
          BY <3>1, <4>1
      <3>2. CASE ~(j - 1 < aPretextLen)
        <4>1. j - 1 - aPretextLen \in Nat /\ j - 1 - aPretextLen < aPretextLen
          BY <1>1, <2>1, <3>2
        <4> QED
          BY <3>2, <4>1
      <3> QED
        BY <3>1, <3>2
    <2>9. /\ Behind(h, a) \in 0 .. aPretextLen - 1
          /\ OffsetFrom(Behind(h, c), Behind(h, a)) = IF a >= c THEN a - c ELSE a - c + aPretextLen
      <3>1. ASSUME NEW x \in Nat, x < aPretextLen
            PROVE  /\ Behind(h, x) \in 0 .. aPretextLen - 1
                   /\ OffsetFrom(Behind(h, c), Behind(h, x)) =
                          IF x >= c THEN x - c ELSE x - c + aPretextLen
        <4>1. h < aPretextLen /\ c <= aPretextLen
          BY <1>1
        <4> QED
          BY <3>1, <4>1, Distances
      <3> QED
        BY <2>8, <3>1, Zenon
    <2>10. PICK p \in 0 .. aPretextLen - 1 : p = Behind(h, a)
      BY <2>9
    <2>2. Behind(h1, k - 1) = p
      <3>1. Behind(Behind(h, moved), d) =
                Behind(h, IF moved + d < aPretextLen THEN moved + d ELSE moved + d - aPretextLen)
        BY <1>1, <2>1, Distances
      <3>2. (IF moved + d < aPretextLen THEN moved + d ELSE moved + d - aPretextLen) = a
        BY <1>1, <2>1, <2>8
      <3>3. k - 1 = d
        BY <2>1
      <3> QED
        BY <1>22, <2>10, <3>1, <3>2, <3>3, Zenon
    <2>3. OffsetFrom(tail, p) = IF a >= c THEN a - c ELSE a - c + aPretextLen
      BY <1>17, <2>9, <2>10, Zenon
    <2>4. OffsetFrom(h, p) = a
      <3>1. Behind(h, 0) = h
        BY <1>1 DEF Behind
      <3>2. OffsetFrom(Behind(h, 0), Behind(h, a)) = IF a >= 0 THEN a - 0 ELSE a - 0 + aPretextLen
        BY <1>1, <2>8, Distances
      <3>3. (IF a >= 0 THEN a - 0 ELSE a - 0 + aPretextLen) = a
        OBVIOUS
      <3> QED
        BY <2>10, <3>1, <3>2, <3>3, Zenon
    <2>5. OffsetFrom(next, p) \in Nat
      BY <1>1, <1>20 DEF OffsetFrom
    <2>6. CASE j > c + fitting
      <3>1. moved > 0 /\ c + fitting = aPretextLen /\ ~(j - 1 < aPretextLen)
        BY <1>1, <1>15, <2>1, <2>6
      <3>2. a < moved /\ fitting + (a + 1) = j - c /\ j > c
        BY <1>1, <1>15, <2>1, <2>6, <2>8, <3>1
      <3>3. OffsetFrom(next, p) = a
        BY <1>20, <2>4, <3>1, Zenon
      <3>4. last[p] = data[fitting + (a + 1)]
        <4>1. last[p] = IF OffsetFrom(next, p) < moved
                        THEN data[fitting + (OffsetFrom(next, p) + 1)] ELSE first[p]
          BY <1>4, Zenon
        <4> QED
          BY <3>2, <3>3, <4>1, Zenon
      <3>5. both[j] = data[j - c]
        <4>1. j \in 1 .. c + n /\ ~(j <= c)
          BY <2>1, <3>2
        <4> QED
          BY <1>10, <4>1, Zenon
      <3> QED
        BY <2>1, <2>2, <3>2, <3>4, <3>5, Zenon
    <2>7. CASE ~(j > c + fitting)
      <3>1. a = j - 1 /\ j - 1 < aPretextLen
        BY <1>1, <1>15, <2>1, <2>7, <2>8
      <3>5. ~(OffsetFrom(next, p) < moved)
        <4>1. CASE moved = 0
          BY <2>5, <4>1
        <4>2. CASE moved > 0
          <5>1. ~(a < moved)
            BY <1>15, <2>1, <2>7, <3>1, <4>2
          <5> QED
            BY <1>20, <2>4, <4>2, <5>1, Zenon
        <4> QED
          BY <4>1, <4>2
      <3>2. last[p] = IF OffsetFrom(tail, p) < fitting THEN data[OffsetFrom(tail, p) + 1] ELSE w.mBuf[p]
        BY <1>4, <3>5
      <3>3. CASE j > c
        <4>1. a >= c /\ a - c < fitting /\ (a - c) + 1 = j - c
          BY <2>7, <3>1, <3>3
        <4>2. both[j] = data[j - c]
          <5>1. j \in 1 .. c + n /\ ~(j <= c)
            BY <2>1, <3>3
          <5> QED
            BY <1>10, <5>1, Zenon
        <4>3. OffsetFrom(tail, p) = a - c
          BY <2>3, <4>1, Zenon
        <4> QED
          BY <2>1, <2>2, <3>2, <4>1, <4>2, <4>3, Zenon
      <3>4. CASE ~(j > c)
        <4>1. ~(a >= c) /\ ~(a - c + aPretextLen < fitting)
          BY <1>1, <1>15, <2>1, <2>7, <3>1, <3>4
        <4>2. both[j] = ContentOf(w)[j] /\ j \in 1 .. c
          BY <1>10, <2>1, <3>4
        <4>3. ContentOf(w)[j] = w.mBuf[Behind(w.mHead, j - 1)]
          BY <1>0, <4>2, Contents
        <4>4. OffsetFrom(tail, p) = a - c + aPretextLen
          BY <2>3, <4>1, Zenon
        <4>5. Behind(w.mHead, j - 1) = p
          BY <1>0, <2>10, <3>1, Zenon
        <4> QED
          BY <2>1, <2>2, <3>2, <4>1, <4>2, <4>3, <4>4, <4>5, Zenon
      <3> QED
        BY <3>3, <3>4
    <2> QED
      BY <2>6, <2>7
  <1>14. ContentOf(v) = LastOf(aPretextLen, both)
    <2>1. \A k \in 1 .. c + fitting : ContentOf(v)[k] = LastOf(aPretextLen, both)[k]
      BY <1>11, <1>12, <1>13, Zenon
    <2> DEFINE A == ContentOf(v)
               B == LastOf(aPretextLen, both)
    <2>2. A \in Seq(Nat) /\ B \in Seq(Nat) /\ Len(A) = Len(B) /\ \A k \in 1 .. Len(A) : A[k] = B[k]
      BY <1>11, <1>12, <2>1, Zenon
    <2> HIDE DEF A, B
    <2>3. A = B
      BY <2>2, SeqEqual
    <2> QED
      BY <2>3 DEF A, B
  <1> QED
    BY <1>7, <1>9, <1>14 DEF v, both

LEMMA SameBytes ==
  ASSUME NEW s \in Seq(Nat), NEW t \in Seq(Nat), Len(s) = Len(t), \A k \in 1 .. Len(s) : s[k] = t[k]
  PROVE  s = t
  BY SeqEqual

\* A window with no memory at all stays as it is.
LEMMA NothingFits ==
  ASSUME NEW w, IsWindow(w), aPretextLen = 0, NEW data \in Seq(Nat), Len(data) = 0
  PROVE  FillAndMove(w, data) = w
  <1>1. /\ w.bufSize = 0 /\ w.mHead = 0 /\ w.mBeginCounter \in Nat /\ w.mEndCounter \in Nat
        /\ GetSize(w) = 0
    BY Contents DEF IsWindow
  <1>2. Least(0, 0 - 0) = 0
    BY DEF Least
  <1>3. \A k \in {0} : IncrementIndex(w, k, 0) = k
    BY DEF IncrementIndex
  <1>4. \A d : CopyCirc(w.mBuf, 0, 0, d) = w.mBuf
    BY DEF CopyCirc
  <1>5. FillAndMove(w, data) =
            [mBuf |-> w.mBuf, bufSize |-> 0, mBeginCounter |-> w.mBeginCounter + 0,
             mEndCounter |-> w.mEndCounter + 0 + 0, mHead |-> 0]
    <2>1. 0 - 0 = 0
      OBVIOUS
    <2> QED
      BY <1>1, <1>2, <1>3, <1>4, <2>1, Zenon DEF FillAndMove
  <1>6. w.mBeginCounter + 0 = w.mBeginCounter /\ w.mEndCounter + 0 + 0 = w.mEndCounter
    BY <1>1
  <1>7. w = [mBuf |-> w.mBuf, bufSize |-> aPretextLen, mBeginCounter |-> w.mBeginCounter,
             mEndCounter |-> w.mEndCounter, mHead |-> w.mHead]
    BY DEF IsWindow
  <1> QED
    BY <1>1, <1>5, <1>6, <1>7, Zenon

LEMMA Fills ==
  ASSUME NEW w, IsWindow(w), NEW data \in Seq(Nat), Len(data) <= aPretextLen
  PROVE  /\ IsWindow(FillAndMove(w, data))
         /\ ContentOf(FillAndMove(w, data)) = LastOf(aPretextLen, ContentOf(w) \o data)
         /\ FillAndMove(w, data).mEndCounter = w.mEndCounter + Len(data)
  <1>1. CASE aPretextLen > 0
    BY <1>1, FillsInOrder
  <1>2. CASE ~(aPretextLen > 0)
    <2>1. aPretextLen = 0 /\ Len(data) = 0 /\ GetSize(w) = 0 /\ w.mEndCounter \in Nat
      BY <1>2, Contents, Lengths DEF IsWindow
    <2>2. FillAndMove(w, data) = w
      BY <2>1, NothingFits
    <2>3. w.mEndCounter = w.mEndCounter + Len(data)
      BY <2>1
    <2>4. ContentOf(w) = LastOf(aPretextLen, ContentOf(w) \o data)
      <3> DEFINE s == ContentOf(w)
                 t == LastOf(aPretextLen, ContentOf(w) \o data)
      <3>1. s \in Seq(Nat) /\ Len(s) = 0
        BY <2>1, Contents
      <3>2. s \o data \in Seq(Nat) /\ Len(s \o data) = 0
        BY <2>1, <3>1, Joined
      <3>3. t \in Seq(Nat) /\ Len(t) = 0
        BY <2>1, <3>2, LastOnes
      <3> HIDE DEF s, t
      <3>4. s = t
        BY <3>1, <3>3, SameBytes
      <3> QED
        BY <3>4 DEF s, t
    <2> QED
      BY <2>2, <2>3, <2>4, Zenon
  <1> QED
    BY <1>1, <1>2

\* Of more bytes than fit, what was there before does not matter.
LEMMA LastOfMany ==
  ASSUME NEW n \in Nat, NEW s \in Seq(Nat), NEW t \in Seq(Nat), Len(t) > n
  PROVE  \E kept \in Seq(Nat) :
            /\ kept = SubSeq(t, Len(t) - n + 1, Len(t)) /\ Len(kept) = n
            /\ LastOf(n, s \o t) = kept /\ LastOf(n, <<>> \o kept) = kept
  <1> DEFINE kept == SubSeq(t, Len(t) - n + 1, Len(t))
  <1>1. PICK skipped \in Nat :
            /\ skipped = Len(t) - n /\ skipped <= Len(t) /\ Len(t) - skipped = n
            /\ Len(s) \in Nat /\ Len(t) \in Nat
    <2>1. /\ Len(t) - n \in Nat /\ Len(t) - n <= Len(t) /\ Len(t) - (Len(t) - n) = n
          /\ Len(s) \in Nat /\ Len(t) \in Nat
      OBVIOUS
    <2> QED
      BY <2>1, Zenon
  <1>2. /\ kept \in Seq(Nat) /\ Len(kept) = n
        /\ \A k \in 1 .. n : kept[k] = t[skipped + k]
    <2>1. /\ SubSeq(t, skipped + 1, Len(t)) \in Seq(Nat)
          /\ Len(SubSeq(t, skipped + 1, Len(t))) = Len(t) - skipped
          /\ \A k \in 1 .. Len(t) - skipped : SubSeq(t, skipped + 1, Len(t))[k] = t[skipped + k]
      BY <1>1, Rest
    <2>2. kept = SubSeq(t, skipped + 1, Len(t))
      BY <1>1, Zenon
    <2> HIDE DEF kept
    <2> QED
      BY <1>1, <2>1, <2>2, Zenon
  <1> HIDE DEF kept
  <1>3. /\ s \o t \in Seq(Nat) /\ Len(s \o t) = Len(s) + Len(t)
        /\ \A k \in 1 .. Len(s) + Len(t) :
               (s \o t)[k] = IF k <= Len(s) THEN s[k] ELSE t[k - Len(s)]
    BY Joined
  <1> DEFINE j == s \o t
             l == LastOf(n, j)
  <1>4. l = kept
    <2>1. Len(j) > n /\ j \in Seq(Nat) /\ Len(j) = Len(s) + Len(t)
      BY <1>1, <1>3
    <2> HIDE DEF j
    <2>2. l \in Seq(Nat) /\ Len(l) = n /\ \A k \in 1 .. n : l[k] = j[k + Len(j) - n]
      BY <2>1, LastOfMore, Zenon
    <2> HIDE DEF l
    <2>3. ASSUME NEW k \in 1 .. n PROVE l[k] = kept[k]
      <3>1. /\ k + Len(j) - n \in 1 .. Len(s) + Len(t) /\ ~(k + Len(j) - n <= Len(s))
            /\ (k + Len(j) - n) - Len(s) = skipped + k
        BY <1>1, <2>1
      <3>2. j[k + Len(j) - n] = t[(k + Len(j) - n) - Len(s)]
        BY <1>3, <3>1, Zenon DEF j
      <3> QED
        BY <1>2, <2>2, <3>1, <3>2, Zenon
    <2> QED
      BY <1>2, <2>2, <2>3, SameBytes
  <1>5. LastOf(n, <<>> \o kept) = kept
    <2>1. <<>> \o kept = kept
      BY <1>2
    <2>2. ~(Len(kept) > n)
      BY <1>2
    <2> QED
      BY <2>1, <2>2, Zenon DEF LastOf
  <1> QED
    BY <1>2, <1>4, <1>5, Zenon DEF l, j, kept

\* Whatever is pushed into a window, it shows the last bytes of it and of what it showed before.
LEMMA PushedInOrder ==
  ASSUME NEW w, IsWindow(w), NEW data \in Seq(Nat)
  PROVE  /\ IsWindow(PushData(w, data))
         /\ ContentOf(PushData(w, data)) = LastOf(aPretextLen, ContentOf(w) \o data)
         /\ PushData(w, data).mEndCounter = w.mEndCounter + Len(data)
  <1>0. w.bufSize = aPretextLen /\ aPretextLen \in Nat /\ Len(data) \in Nat
    BY Lengths DEF IsWindow
  <1>1. CASE Len(data) - aPretextLen > 0
    <2> DEFINE skipped == Len(data) - aPretextLen
               kept == SubSeq(data, Len(data) - aPretextLen + 1, Len(data))
               v == SkipToEnd(w, skipped)
               s == ContentOf(w)
    <2>1. s \in Seq(Nat)
      BY Contents
    <2> HIDE DEF s
    <2>2. /\ kept \in Seq(Nat) /\ Len(kept) = aPretextLen
          /\ LastOf(aPretextLen, s \o data) = kept /\ LastOf(aPretextLen, <<>> \o kept) = kept
      <3>1. Len(data) > aPretextLen
        BY <1>0, <1>1
      <3> QED
        <4>1. PICK last \in Seq(Nat) :
                  /\ last = SubSeq(data, Len(data) - aPretextLen + 1, Len(data))
                  /\ Len(last) = aPretextLen
                  /\ LastOf(aPretextLen, s \o data) = last
                  /\ LastOf(aPretextLen, <<>> \o last) = last
          BY <1>0, <2>1, <3>1, LastOfMany, Zenon
        <4>2. kept = last
          BY <4>1, Zenon
        <4> QED
          BY <4>1, <4>2, Zenon
    <2>3. PushData(w, data) = FillAndMove(v, kept)
      BY <1>0, <1>1, Zenon DEF PushData
    <2> HIDE DEF kept
    <2>4. /\ IsWindow(v) /\ GetSize(v) = 0 /\ v.mEndCounter + aPretextLen = w.mEndCounter + Len(data)
      <3>1. PICK end \in Nat : end = w.mEndCounter + skipped
        BY <1>0, <1>1 DEF IsWindow
      <3>2. v = [mBuf |-> w.mBuf, bufSize |-> aPretextLen, mBeginCounter |-> end,
                 mEndCounter |-> end, mHead |-> 0]
        BY <1>0, <3>1, Zenon DEF SkipToEnd
      <3>3. w.mBuf \in [0 .. aPretextLen - 1 -> Nat] /\ w.mEndCounter \in Nat
        BY DEF IsWindow
      <3> HIDE DEF v
      <3>4. /\ v.mBuf = w.mBuf /\ v.bufSize = aPretextLen /\ v.mBeginCounter = end
            /\ v.mEndCounter = end /\ v.mHead = 0
        BY <3>2
      <3>5. IsWindow(v)
        <4>1. v = [mBuf |-> v.mBuf, bufSize |-> aPretextLen, mBeginCounter |-> v.mBeginCounter,
                   mEndCounter |-> v.mEndCounter, mHead |-> v.mHead]
          BY <3>2, <3>4, Zenon
        <4>2. end <= end /\ end - end <= aPretextLen /\ 0 \in Nat
          BY <1>0
        <4> QED
          BY <3>3, <3>4, <4>1, <4>2, Zenon DEF IsWindow
      <3>6. GetSize(v) = 0
        BY <3>4 DEF GetSize
      <3>7. end + aPretextLen = w.mEndCounter + Len(data)
        BY <1>0, <3>1, <3>3
      <3> QED
        BY <3>4, <3>5, <3>6, <3>7, Zenon
    <2> HIDE DEF v
    <2>5. ContentOf(v) = <<>>
      <3>1. ContentOf(v) \in Seq(Nat) /\ Len(ContentOf(v)) = 0
        BY <2>4, Contents
      <3> QED
        BY <3>1
    <2>6. /\ IsWindow(FillAndMove(v, kept))
          /\ ContentOf(FillAndMove(v, kept)) = LastOf(aPretextLen, <<>> \o kept)
          /\ FillAndMove(v, kept).mEndCounter = v.mEndCounter + aPretextLen
      <3>1. Len(kept) <= aPretextLen
        BY <1>0, <2>2
      <3> QED
        BY <2>2, <2>4, <2>5, <3>1, Fills, Zenon
    <2>7. v.mEndCounter + aPretextLen = w.mEndCounter + Len(data)
      BY <2>4
    <2>8. ContentOf(FillAndMove(v, kept)) = LastOf(aPretextLen, s \o data)
      BY <2>2, <2>6, Zenon
    <2> QED
      BY <2>3, <2>6, <2>7, <2>8, Zenon DEF s
  <1>2. CASE ~(Len(data) - aPretextLen > 0)
    <2>1. PushData(w, data) = FillAndMove(w, data)
      BY <1>0, <1>2, Zenon DEF PushData
    <2>2. Len(data) <= aPretextLen
      BY <1>0, <1>2
    <2> QED
      BY <2>1, <2>2, Fills, Zenon
  <1> QED
    BY <1>1, <1>2

\* The last bytes of what is longer by one are those of the last bytes and this one.
LEMMA LastOfLonger ==
  ASSUME NEW n \in Nat, NEW s \in Seq(Nat), NEW b \in Nat
  PROVE  LastOf(n, LastOf(n, s) \o <<b>>) = LastOf(n, Append(s, b))
  <1> DEFINE last == LastOf(n, s)
             t == last \o <<b>>
             u == Append(s, b)
             x == LastOf(n, t)
             y == LastOf(n, u)
  <1>1. /\ last \in Seq(Nat) /\ Len(last) = IF Len(s) > n THEN n ELSE Len(s)
        /\ \A k \in 1 .. Len(last) : last[k] = s[k + Len(s) - Len(last)]
    BY LastOnes
  <1> HIDE DEF last
  <1>2. /\ t \in Seq(Nat) /\ Len(t) = Len(last) + 1
        /\ \A k \in 1 .. Len(last) + 1 : t[k] = IF k <= Len(last) THEN last[k] ELSE b
    BY <1>1
  <1>3. /\ u \in Seq(Nat) /\ Len(u) = Len(s) + 1
        /\ \A k \in 1 .. Len(s) + 1 : u[k] = IF k <= Len(s) THEN s[k] ELSE b
    OBVIOUS
  <1> HIDE DEF t, u
  <1>4. /\ x \in Seq(Nat) /\ Len(x) = IF Len(t) > n THEN n ELSE Len(t)
        /\ \A k \in 1 .. Len(x) : x[k] = t[k + Len(t) - Len(x)]
    BY <1>2, LastOnes
  <1>5. /\ y \in Seq(Nat) /\ Len(y) = IF Len(u) > n THEN n ELSE Len(u)
        /\ \A k \in 1 .. Len(y) : y[k] = u[k + Len(u) - Len(y)]
    BY <1>3, LastOnes
  <1> HIDE DEF x, y
  <1>6. PICK ls \in Nat, ll \in Nat, lx \in Nat : ls = Len(s) /\ ll = Len(last) /\ lx = Len(x)
    BY <1>1, <1>4
  <1>7. /\ ll = IF ls > n THEN n ELSE ls
        /\ lx = IF ll + 1 > n THEN n ELSE ll + 1
        /\ Len(t) = ll + 1 /\ Len(u) = ls + 1 /\ Len(y) = lx
    <2>1. /\ ll = IF ls > n THEN n ELSE ls
          /\ lx = IF ll + 1 > n THEN n ELSE ll + 1
          /\ Len(t) = ll + 1 /\ Len(u) = ls + 1
      BY <1>1, <1>2, <1>3, <1>4, <1>6, Zenon
    <2>2. Len(y) = IF ls + 1 > n THEN n ELSE ls + 1
      BY <1>5, <2>1, Zenon
    <2> QED
      BY <2>1, <2>2
  <1>8. ASSUME NEW k \in 1 .. lx PROVE x[k] = y[k]
    <2>1. /\ k + (ll + 1) - lx \in 1 .. ll + 1 /\ k + (ls + 1) - lx \in 1 .. ls + 1
          /\ k + (ll + 1) - lx <= ll <=> k + (ls + 1) - lx <= ls
          /\ k + (ll + 1) - lx <= ll => (k + (ll + 1) - lx) + ls - ll = k + (ls + 1) - lx
          /\ k + (ll + 1) - lx <= ll => k + (ll + 1) - lx \in 1 .. ll
      BY <1>7
    <2>2. x[k] = t[k + (ll + 1) - lx] /\ y[k] = u[k + (ls + 1) - lx]
      BY <1>4, <1>5, <1>6, <1>7, Zenon
    <2>3. PICK kt \in Int, ku \in Int : kt = k + (ll + 1) - lx /\ ku = k + (ls + 1) - lx
      OBVIOUS
    <2>4. /\ t[kt] = IF kt <= ll THEN last[kt] ELSE b
          /\ u[ku] = IF ku <= ls THEN s[ku] ELSE b
      BY <1>2, <1>3, <1>6, <2>1, <2>3, Zenon
    <2>5. kt <= ll => last[kt] = s[ku]
      BY <1>1, <1>6, <2>1, <2>3, Zenon
    <2> QED
      BY <2>1, <2>2, <2>3, <2>4, <2>5, Zenon
  <1>9. x = y
    BY <1>4, <1>5, <1>6, <1>7, <1>8, SameBytes
  <1> QED
    BY <1>9 DEF x, y, t, u, last

-----------------------------------------------------------------------------
(* The lines of what was parsed *)

\* The members of a sequence that is longer by one.
LEMMA Appended ==
  ASSUME NEW s \in Seq(Nat), NEW b \in Nat
  PROVE  /\ Append(s, b) \in Seq(Nat) /\ Len(Append(s, b)) = Len(s) + 1
         /\ \A k \in 1 .. Len(s) : Append(s, b)[k] = s[k]
         /\ Append(s, b)[Len(s) + 1] = b
         /\ DOMAIN s = 1 .. Len(s) /\ DOMAIN Append(s, b) = 1 .. Len(s) + 1
  OBVIOUS

NewlinesIn(bytes) == {k \in DOMAIN bytes : bytes[k] \in Newlines}

\* The newline of a sequence is its first.
LEMMA FirstNewline ==
  ASSUME NEW s \in Seq(Nat)
  PROVE  /\ NewlinesIn(s) = {} => NewlineOf(s) = Unset
         /\ \A m \in NewlinesIn(s) : (\A l \in NewlinesIn(s) : m <= l) => NewlineOf(s) = s[m]
         /\ NewlinesIn(s) # {} => \E m \in NewlinesIn(s) : \A l \in NewlinesIn(s) : m <= l
  <1>1. NewlinesIn(s) \subseteq Nat
    BY DEF NewlinesIn
  <1>2. NewlineOf(s) = IF NewlinesIn(s) = {} THEN Unset
                       ELSE s[CHOOSE k \in NewlinesIn(s) : \A l \in NewlinesIn(s) : k <= l]
    BY Zenon DEF NewlineOf, NewlinesIn
  <1>3. ASSUME NEW m \in NewlinesIn(s), \A l \in NewlinesIn(s) : m <= l PROVE NewlineOf(s) = s[m]
    <2>1. \A k \in NewlinesIn(s) : (\A l \in NewlinesIn(s) : k <= l) => k = m
      BY <1>1, <1>3
    <2>2. m = CHOOSE k \in NewlinesIn(s) : \A l \in NewlinesIn(s) : k <= l
      BY <1>3, <2>1, Zenon
    <2> QED
      BY <1>2, <2>2, Zenon
  <1>4. ASSUME NewlinesIn(s) # {}
        PROVE  \E m \in NewlinesIn(s) : \A l \in NewlinesIn(s) : m <= l
    <2>1. PICK m \in NewlinesIn(s) : \A l \in NewlinesIn(s) : ~(l < m)
      BY <1>1, <1>4, LeastNumber
    <2> QED
      BY <1>1, <2>1
  <1> QED
    BY <1>2, <1>3, <1>4, Zenon

\* One byte more changes it only if it is the first newline.
LEMMA NewlineOfLonger ==
  ASSUME NEW s \in Seq(Nat), NEW b \in Nat
  PROVE  /\ NewlineOf(s) \in {0, 10, 13}
         /\ NewlineOf(s) = Unset <=> NewlinesIn(s) = {}
         /\ NewlineOf(Append(s, b)) = IF NewlineOf(s) = Unset /\ b \in Newlines THEN b ELSE NewlineOf(s)
         /\ NewlinesIn(Append(s, b)) =
                NewlinesIn(s) \cup IF b \in Newlines THEN {Len(s) + 1} ELSE {}
  <1> DEFINE t == Append(s, b)
  <1>1. /\ t \in Seq(Nat) /\ Len(t) = Len(s) + 1 /\ \A k \in 1 .. Len(s) : t[k] = s[k]
        /\ t[Len(s) + 1] = b /\ DOMAIN s = 1 .. Len(s) /\ DOMAIN t = 1 .. Len(s) + 1
    BY Appended
  <1> HIDE DEF t
  <1>2. NewlinesIn(t) = NewlinesIn(s) \cup IF b \in Newlines THEN {Len(s) + 1} ELSE {}
    BY <1>1 DEF NewlinesIn
  <1>3. /\ NewlinesIn(s) \subseteq 1 .. Len(s) /\ \A k \in NewlinesIn(s) : s[k] \in Newlines
        /\ Len(s) \in Nat
    BY <1>1 DEF NewlinesIn
  <1>4. NewlinesIn(s) # {} => NewlineOf(s) \in Newlines
    BY <1>3, FirstNewline, Zenon
  <1>5. NewlinesIn(s) = {} => NewlineOf(s) = 0
    BY FirstNewline DEF Unset
  <1>6. NewlineOf(s) \in {0, 10, 13} /\ (NewlineOf(s) = Unset <=> NewlinesIn(s) = {})
    BY <1>4, <1>5 DEF Newlines, Unset
  <1>7. NewlineOf(t) = IF NewlineOf(s) = Unset /\ b \in Newlines THEN b ELSE NewlineOf(s)
    <2>1. CASE NewlinesIn(s) # {}
      <3>1. PICK m \in NewlinesIn(s) : \A l \in NewlinesIn(s) : m <= l
        BY <2>1, FirstNewline, Zenon
      <3>2. m \in NewlinesIn(t) /\ (\A l \in NewlinesIn(t) : m <= l) /\ t[m] = s[m]
        BY <1>1, <1>2, <1>3, <3>1
      <3>3. NewlineOf(t) = t[m] /\ NewlineOf(s) = s[m]
        BY <1>1, <3>1, <3>2, FirstNewline, Zenon
      <3> QED
        BY <1>6, <2>1, <3>2, <3>3, Zenon
    <2>2. CASE NewlinesIn(s) = {} /\ b \in Newlines
      <3>1. NewlinesIn(t) = {Len(s) + 1}
        BY <1>2, <2>2
      <3>2. Len(s) + 1 \in NewlinesIn(t) /\ \A l \in NewlinesIn(t) : Len(s) + 1 <= l
        BY <1>3, <3>1
      <3>3. NewlineOf(t) = t[Len(s) + 1]
        BY <1>1, <3>2, FirstNewline, Zenon
      <3> QED
        BY <1>1, <1>6, <2>2, <3>3, Zenon
    <2>3. CASE NewlinesIn(s) = {} /\ b \notin Newlines
      <3>1. NewlinesIn(t) = {}
        BY <1>2, <2>3
      <3>2. NewlineOf(t) = Unset
        BY <1>1, <3>1, FirstNewline, Zenon
      <3> QED
        BY <1>6, <2>3, <3>2, Zenon
    <2> QED
      BY <2>1, <2>2, <2>3
  <1> QED
    BY <1>2, <1>6, <1>7, Zenon DEF t

\* The lines end where they did, and at the new byte if it is the newline that counts.
LEMMA LineEndsOfLonger ==
  ASSUME NEW s \in Seq(Nat), NEW b \in Nat
  PROVE  /\ LineEnds(s) \subseteq 0 .. Len(s) /\ 0 \in LineEnds(s)
         /\ LineEnds(Append(s, b)) =
                LineEnds(s) \cup IF b \in Newlines /\ NewlineOf(s) \in {Unset, b} THEN {Len(s) + 1} ELSE {}
  <1> DEFINE t == Append(s, b)
  <1>1. /\ t \in Seq(Nat) /\ Len(t) = Len(s) + 1 /\ \A k \in 1 .. Len(s) : t[k] = s[k]
        /\ t[Len(s) + 1] = b /\ DOMAIN s = 1 .. Len(s) /\ DOMAIN t = 1 .. Len(s) + 1 /\ Len(s) \in Nat
    BY Appended
  <1>2. /\ NewlineOf(s) \in {0, 10, 13}
        /\ NewlineOf(s) = Unset <=> NewlinesIn(s) = {}
        /\ NewlineOf(t) = IF NewlineOf(s) = Unset /\ b \in Newlines THEN b ELSE NewlineOf(s)
        /\ NewlinesIn(t) = NewlinesIn(s) \cup IF b \in Newlines THEN {Len(s) + 1} ELSE {}
    BY NewlineOfLonger, Zenon
  <1> HIDE DEF t
  <1>3. /\ LineEnds(s) = {0} \cup {k \in NewlinesIn(s) : s[k] = NewlineOf(s)}
        /\ LineEnds(t) = {0} \cup {k \in NewlinesIn(t) : t[k] = NewlineOf(t)}
    BY <1>1 DEF LineEnds, NewlinesIn
  <1>4. NewlinesIn(s) \subseteq 1 .. Len(s)
    BY <1>1 DEF NewlinesIn
  <1>5. LineEnds(s) \subseteq 0 .. Len(s) /\ 0 \in LineEnds(s)
    BY <1>1, <1>3, <1>4
  <1>6. \A k \in NewlinesIn(s) : t[k] = s[k]
    BY <1>1, <1>4
  <1>7. {k \in NewlinesIn(s) : t[k] = NewlineOf(t)} = {k \in NewlinesIn(s) : s[k] = NewlineOf(s)}
    <2>1. CASE NewlinesIn(s) = {}
      BY <2>1
    <2>2. CASE NewlinesIn(s) # {}
      BY <1>2, <1>6, <2>2
    <2> QED
      BY <2>1, <2>2
  <1>8. b \in Newlines => (b = NewlineOf(t) <=> NewlineOf(s) \in {Unset, b})
    BY <1>2 DEF Unset, Newlines
  <1>9. LineEnds(t) =
            LineEnds(s) \cup IF b \in Newlines /\ NewlineOf(s) \in {Unset, b} THEN {Len(s) + 1} ELSE {}
    <2>1. CASE b \in Newlines
      <3>1. NewlinesIn(t) = NewlinesIn(s) \cup {Len(s) + 1}
        BY <1>2, <2>1
      <3>2. {k \in NewlinesIn(t) : t[k] = NewlineOf(t)} =
                {k \in NewlinesIn(s) : t[k] = NewlineOf(t)} \cup
                IF b = NewlineOf(t) THEN {Len(s) + 1} ELSE {}
        BY <1>1, <3>1
      <3> QED
        BY <1>3, <1>7, <1>8, <2>1, <3>2
    <2>2. CASE b \notin Newlines
      <3>1. NewlinesIn(t) = NewlinesIn(s)
        BY <1>2, <2>2
      <3> QED
        BY <1>3, <1>7, <2>2, <3>1
    <2> QED
      BY <2>1, <2>2
  <1> QED
    BY <1>5, <1>9 DEF t

\* What is shown of the first n bytes, for every n.
AreShown(f, bytes, n) ==
    f = [k \in 0 .. n |->
            IF k = 0 THEN <<>>
            ELSE IF bytes[k] \in Newlines THEN f[k - 1] ELSE Append(f[k - 1], bytes[k])]

LEMMA ShownExist ==
  ASSUME NEW s, NEW n \in Nat
  PROVE  \E f : AreShown(f, s, n)
  <1> DEFINE S == {m \in Nat : \E f : AreShown(f, s, m)}
  <1>1. 0 \in S
    <2> DEFINE f == [k \in 0 .. 0 |-> <<>>]
    <2>1. AreShown(f, s, 0)
      BY DEF AreShown
    <2> QED
      BY <2>1
  <1>2. ASSUME NEW m \in S PROVE m + 1 \in S
    <2>1. PICK f : AreShown(f, s, m)
      OBVIOUS
    <2> DEFINE next == IF s[m + 1] \in Newlines THEN f[m] ELSE Append(f[m], s[m + 1])
    <2> HIDE DEF next
    <2> DEFINE g == [k \in 0 .. m + 1 |-> IF k = m + 1 THEN next ELSE f[k]]
    <2>2. ASSUME NEW k \in 0 .. m + 1
          PROVE  g[k] = IF k = 0 THEN <<>>
                        ELSE IF s[k] \in Newlines THEN g[k - 1] ELSE Append(g[k - 1], s[k])
      <3>1. CASE k = m + 1
        <4>1. k # 0 /\ k - 1 = m /\ m \in 0 .. m + 1 /\ m # m + 1
          BY <3>1
        <4>2. g[k] = next /\ g[k - 1] = f[m]
          BY <3>1, <4>1
        <4> HIDE DEF g
        <4> QED
          BY <3>1, <4>1, <4>2, Zenon DEF next
      <3>2. CASE k \in 0 .. m
        <4>1. f[k] = IF k = 0 THEN <<>>
                     ELSE IF s[k] \in Newlines THEN f[k - 1] ELSE Append(f[k - 1], s[k])
          BY <2>1, <3>2, Zenon DEF AreShown
        <4>2. g[k] = f[k] /\ (k # 0 => g[k - 1] = f[k - 1])
          BY <3>2
        <4> HIDE DEF g
        <4> QED
          BY <4>1, <4>2, Zenon
      <3> QED
        BY <3>1, <3>2
    <2>3. g = [k \in 0 .. m + 1 |->
                  IF k = 0 THEN <<>>
                  ELSE IF s[k] \in Newlines THEN g[k - 1] ELSE Append(g[k - 1], s[k])]
      <3>1. g = [k \in 0 .. m + 1 |-> g[k]]
        OBVIOUS
      <3> HIDE DEF g
      <3> QED
        BY <2>2, <3>1, Zenon
    <2>4. AreShown(g, s, m + 1)
      BY <2>3 DEF AreShown
    <2> HIDE DEF g
    <2> QED
      BY <2>4
  <1>3. S = Nat
    <2> HIDE DEF S
    <2>1. S \in SUBSET Nat
      BY DEF S
    <2> QED
      BY <1>1, <1>2, <2>1, Induction
  <1> QED
    BY <1>3

LEMMA ShownAreUnique ==
  ASSUME NEW k \in Nat, NEW f, NEW s, AreShown(f, s, k),
         NEW m \in Nat, NEW g, NEW t, AreShown(g, t, m), k <= m, \A j \in 1 .. k : s[j] = t[j]
  PROVE  \A j \in 0 .. k : f[j] = g[j]
  <1> DEFINE S == {n \in Nat : n <= k => f[n] = g[n]}
  <1>1. 0 \in S
    BY DEF AreShown
  <1>2. ASSUME NEW n \in S PROVE n + 1 \in S
    <2>1. ASSUME n + 1 <= k PROVE f[n + 1] = g[n + 1]
      <3>1. n + 1 \in 0 .. k /\ n + 1 \in 0 .. m /\ n + 1 # 0 /\ (n + 1) - 1 = n /\ n + 1 \in 1 .. k
        BY <2>1
      <3>2. /\ f[n + 1] = IF s[n + 1] \in Newlines THEN f[n] ELSE Append(f[n], s[n + 1])
            /\ g[n + 1] = IF t[n + 1] \in Newlines THEN g[n] ELSE Append(g[n], t[n + 1])
        BY <3>1, Zenon DEF AreShown
      <3>3. f[n] = g[n]
        BY <2>1
      <3> QED
        BY <3>1, <3>2, <3>3, Zenon
    <2> QED
      BY <2>1
  <1>3. S = Nat
    <2> HIDE DEF S
    <2>1. S \in SUBSET Nat
      BY DEF S
    <2> QED
      BY <1>1, <1>2, <2>1, Induction
  <1> QED
    BY <1>3

LEMMA ShownAreBytes ==
  ASSUME NEW s \in Seq(Nat), NEW f, AreShown(f, s, Len(s))
  PROVE  /\ Shown(s) = f[Len(s)]
         /\ \A k \in 0 .. Len(s) : f[k] \in Seq(Nat)
  <1> DEFINE shown == CHOOSE h : AreShown(h, s, Len(s))
             S == {n \in Nat : n <= Len(s) => f[n] \in Seq(Nat)}
  <1>1. Len(s) \in Nat
    OBVIOUS
  <1>2. AreShown(shown, s, Len(s))
    BY <1>1, ShownExist
  <1>3. Shown(s) = shown[Len(s)]
    BY Zenon DEF Shown, AreShown
  <1> HIDE DEF shown
  <1>4. \A k \in 0 .. Len(s) : f[k] = shown[k]
    BY <1>1, <1>2, ShownAreUnique
  <1>5. 0 \in S
    <2>1. 0 \in 0 .. Len(s) /\ <<>> \in Seq(Nat) /\ 0 \in Nat
      BY <1>1
    <2>2. f[0] = <<>>
      BY <2>1, Zenon DEF AreShown
    <2> QED
      BY <2>1, <2>2, Zenon
  <1>6. ASSUME NEW n \in S PROVE n + 1 \in S
    <2>1. ASSUME n + 1 <= Len(s) PROVE f[n + 1] \in Seq(Nat)
      <3>1. n + 1 \in 0 .. Len(s) /\ n + 1 # 0 /\ (n + 1) - 1 = n /\ n + 1 \in 1 .. Len(s)
        BY <1>1, <2>1
      <3>2. f[n + 1] = IF s[n + 1] \in Newlines THEN f[n] ELSE Append(f[n], s[n + 1])
        BY <3>1, Zenon DEF AreShown
      <3>3. f[n] \in Seq(Nat) /\ s[n + 1] \in Nat
        BY <1>1, <2>1, <3>1
      <3>4. Append(f[n], s[n + 1]) \in Seq(Nat)
        BY <3>3
      <3> QED
        BY <3>2, <3>3, <3>4, Zenon
    <2> QED
      BY <2>1
  <1>7. S = Nat
    <2> HIDE DEF S
    <2>1. S \in SUBSET Nat
      BY DEF S
    <2> QED
      BY <1>5, <1>6, <2>1, Induction
  <1>8. \A k \in 0 .. Len(s) : f[k] \in Seq(Nat)
    BY <1>7
  <1>9. Len(s) \in 0 .. Len(s)
    BY <1>1
  <1> QED
    BY <1>3, <1>4, <1>8, <1>9, Zenon

\* One byte more is shown unless it is a newline.
LEMMA ShownOfLonger ==
  ASSUME NEW s \in Seq(Nat), NEW b \in Nat
  PROVE  /\ Shown(s) \in Seq(Nat)
         /\ Shown(Append(s, b)) = IF b \in Newlines THEN Shown(s) ELSE Append(Shown(s), b)
  <1> DEFINE t == Append(s, b)
  <1>1. /\ t \in Seq(Nat) /\ Len(t) = Len(s) + 1 /\ \A k \in 1 .. Len(s) : s[k] = t[k]
        /\ t[Len(s) + 1] = b /\ Len(s) \in Nat
    BY Appended
  <1> HIDE DEF t
  <1>2. PICK f : AreShown(f, s, Len(s))
    BY <1>1, ShownExist
  <1>0. Len(t) \in Nat
    BY <1>1
  <1>3. PICK g : AreShown(g, t, Len(t))
    BY <1>0, ShownExist
  <1>4. Shown(s) = f[Len(s)] /\ \A k \in 0 .. Len(s) : f[k] \in Seq(Nat)
    BY <1>2, ShownAreBytes
  <1>5. Shown(t) = g[Len(t)]
    BY <1>1, <1>3, ShownAreBytes
  <1>6. f[Len(s)] = g[Len(s)]
    <2>1. Len(t) \in Nat /\ Len(s) <= Len(t) /\ Len(s) \in 0 .. Len(s)
      BY <1>1
    <2>2. \A k \in 0 .. Len(s) : f[k] = g[k]
      <3>1. ASSUME NEW k \in Nat, NEW m \in Nat, k <= m, AreShown(f, s, k), AreShown(g, t, m),
                   \A j \in 1 .. k : s[j] = t[j]
            PROVE  \A j \in 0 .. k : f[j] = g[j]
        BY <3>1, ShownAreUnique
      <3> QED
        BY <1>1, <1>2, <1>3, <2>1, <3>1, Zenon
    <2> QED
      BY <2>1, <2>2
  <1>7. g[Len(t)] = IF b \in Newlines THEN g[Len(s)] ELSE Append(g[Len(s)], b)
    <2>1. Len(t) \in 0 .. Len(t) /\ Len(t) # 0 /\ Len(t) - 1 = Len(s) /\ t[Len(t)] = b
      BY <1>1
    <2> QED
      BY <1>3, <2>1, Zenon DEF AreShown
  <1>8. Len(s) \in 0 .. Len(s)
    BY <1>1
  <1> QED
    BY <1>4, <1>5, <1>6, <1>7, <1>8, Zenon DEF t

LEMMA ShownOfNone == Shown(<<>>) = <<>>
  <1>1. <<>> \in Seq(Nat) /\ Len(<<>>) = 0 /\ 0 \in Nat /\ 0 \in 0 .. 0
    OBVIOUS
  <1>2. PICK f : AreShown(f, <<>>, 0)
    BY <1>1, ShownExist
  <1>3. Shown(<<>>) = f[0]
    BY <1>1, <1>2, ShownAreBytes, Zenon
  <1>4. f[0] = <<>>
    BY <1>1, <1>2, Zenon DEF AreShown
  <1> QED
    BY <1>3, <1>4

\* The last line begins behind the last of the line ends.
LEMMA LastLineIs ==
  ASSUME NEW s \in Seq(Nat)
  PROVE  /\ \E e \in LineEnds(s) : \A l \in LineEnds(s) : l <= e
         /\ \A e \in LineEnds(s) :
                (\A l \in LineEnds(s) : l <= e) => LastLine(s) = Shown(SubSeq(s, e + 1, Len(s)))
  <1>1. LineEnds(s) \subseteq 0 .. Len(s) /\ 0 \in LineEnds(s) /\ Len(s) \in Nat
    BY LineEndsOfLonger
  <1> DEFINE bounds == {m \in Nat : \A l \in LineEnds(s) : l <= m}
  <1>2. bounds \in SUBSET Nat /\ Len(s) \in bounds
    BY <1>1
  <1>3. \E e \in LineEnds(s) : \A l \in LineEnds(s) : l <= e
    <2>1. PICK m \in bounds : \A y \in bounds : ~(y < m)
      <3> HIDE DEF bounds
      <3> QED
        BY <1>2, LeastNumber
    <2>2. m \in LineEnds(s)
      <3>1. SUFFICES ASSUME m \notin LineEnds(s) PROVE FALSE
        OBVIOUS
      <3>2. m # 0 /\ m \in Nat /\ \A l \in LineEnds(s) : l <= m /\ l # m /\ l \in Nat
        BY <1>1, <2>1, <3>1
      <3>3. m - 1 \in Nat /\ m - 1 < m /\ \A l \in LineEnds(s) : l <= m - 1
        BY <3>2
      <3> QED
        BY <2>1, <3>3
    <2> QED
      BY <2>1, <2>2
  <1>4. ASSUME NEW e \in LineEnds(s), \A l \in LineEnds(s) : l <= e
        PROVE  LastLine(s) = Shown(SubSeq(s, e + 1, Len(s)))
    <2>1. \A k \in LineEnds(s) : (\A l \in LineEnds(s) : l <= k) => k = e
      BY <1>1, <1>4
    <2>2. e = CHOOSE k \in LineEnds(s) : \A l \in LineEnds(s) : l <= k
      BY <1>4, <2>1, Zenon
    <2> QED
      BY <2>2, Zenon DEF LastLine
  <1> QED
    BY <1>3, <1>4

LEMMA RestOfLonger ==
  ASSUME NEW s \in Seq(Nat), NEW b \in Nat, NEW e \in Nat, e <= Len(s)
  PROVE  /\ SubSeq(s, e + 1, Len(s)) \in Seq(Nat)
         /\ SubSeq(Append(s, b), e + 1, Len(s) + 1) = Append(SubSeq(s, e + 1, Len(s)), b)
  <1> DEFINE t == Append(s, b)
             r == SubSeq(s, e + 1, Len(s))
             x == SubSeq(t, e + 1, Len(t))
             y == Append(r, b)
  <1>1. /\ t \in Seq(Nat) /\ Len(t) = Len(s) + 1 /\ \A k \in 1 .. Len(s) : t[k] = s[k]
        /\ t[Len(s) + 1] = b /\ Len(s) \in Nat
    BY Appended
  <1> HIDE DEF t
  <1>2. /\ r \in Seq(Nat) /\ Len(r) = Len(s) - e /\ \A k \in 1 .. Len(s) - e : r[k] = s[e + k]
    BY Rest
  <1> HIDE DEF r
  <1>3. /\ x \in Seq(Nat) /\ Len(x) = Len(t) - e /\ \A k \in 1 .. Len(t) - e : x[k] = t[e + k]
    BY <1>1, Rest
  <1>4. /\ y \in Seq(Nat) /\ Len(y) = Len(r) + 1 /\ \A k \in 1 .. Len(r) : y[k] = r[k]
        /\ y[Len(r) + 1] = b
    BY <1>2, Appended
  <1> HIDE DEF x, y
  <1>5. ASSUME NEW k \in 1 .. Len(x) PROVE x[k] = y[k]
    <2>1. CASE k <= Len(s) - e
      <3>1. k \in 1 .. Len(s) - e /\ e + k \in 1 .. Len(s) /\ k \in 1 .. Len(t) - e /\ k \in 1 .. Len(r)
        BY <1>1, <1>2, <1>3, <2>1
      <3> QED
        BY <1>1, <1>2, <1>3, <1>4, <3>1, Zenon
    <2>2. CASE ~(k <= Len(s) - e)
      <3>1. e + k = Len(s) + 1 /\ k \in 1 .. Len(t) - e /\ k = Len(r) + 1
        BY <1>1, <1>2, <1>3, <2>2
      <3> QED
        BY <1>1, <1>3, <1>4, <3>1, Zenon
    <2> QED
      BY <2>1, <2>2
  <1>6. x = y
    <2>1. Len(x) = Len(y)
      BY <1>1, <1>2, <1>3, <1>4
    <2> QED
      BY <1>3, <1>4, <1>5, <2>1, SameBytes
  <1> QED
    BY <1>1, <1>2, <1>6, Zenon DEF x, y, r, t

\* The last line begins anew at the newline that counts, and shows every other byte but newlines.
LEMMA LastLineOfLonger ==
  ASSUME NEW s \in Seq(Nat), NEW b \in Nat
  PROVE  /\ LastLine(s) \in Seq(Nat)
         /\ b \in Newlines /\ NewlineOf(s) \in {Unset, b} => LastLine(Append(s, b)) = <<>>
         /\ b \in Newlines /\ NewlineOf(s) \notin {Unset, b} => LastLine(Append(s, b)) = LastLine(s)
         /\ b \notin Newlines => LastLine(Append(s, b)) = Append(LastLine(s), b)
  <1> DEFINE t == Append(s, b)
  <1>1. /\ t \in Seq(Nat) /\ Len(t) = Len(s) + 1 /\ Len(s) \in Nat
    BY Appended
  <1>2. /\ LineEnds(s) \subseteq 0 .. Len(s) /\ 0 \in LineEnds(s)
        /\ LineEnds(t) =
                LineEnds(s) \cup IF b \in Newlines /\ NewlineOf(s) \in {Unset, b} THEN {Len(s) + 1} ELSE {}
    BY LineEndsOfLonger, Zenon
  <1>3. PICK e \in LineEnds(s) : \A l \in LineEnds(s) : l <= e
    BY LastLineIs
  <1>4. e \in Nat /\ e <= Len(s)
    BY <1>1, <1>2, <1>3
  <1> DEFINE r == SubSeq(s, e + 1, Len(s))
  <1>5. r \in Seq(Nat) /\ SubSeq(t, e + 1, Len(s) + 1) = Append(r, b)
    BY <1>4, RestOfLonger
  <1>6. LastLine(s) = Shown(r)
    BY <1>3, LastLineIs
  <1> HIDE DEF r, t
  <1>7. Shown(r) \in Seq(Nat) /\ Shown(Append(r, b)) = IF b \in Newlines THEN Shown(r) ELSE Append(Shown(r), b)
    BY <1>5, ShownOfLonger
  <1>8. CASE b \in Newlines /\ NewlineOf(s) \in {Unset, b}
    <2>1. Len(s) + 1 \in LineEnds(t) /\ \A l \in LineEnds(t) : l <= Len(s) + 1
      BY <1>1, <1>2, <1>8
    <2>2. LastLine(t) = Shown(SubSeq(t, Len(s) + 1 + 1, Len(t)))
      BY <1>1, <2>1, LastLineIs, Zenon
    <2>3. SubSeq(t, Len(s) + 1 + 1, Len(t)) = <<>>
      <3>1. PICK n \in Nat : n = Len(t)
        BY <1>1
      <3>2. SubSeq(t, n + 1, n) = <<>>
        BY <1>1, <3>1
      <3> QED
        BY <1>1, <3>1, <3>2, Zenon
    <2>4. LastLine(t) = <<>>
      BY <2>2, <2>3, ShownOfNone, Zenon
    <2> QED
      BY <1>6, <1>7, <1>8, <2>4, Zenon DEF t
  <1>9. CASE ~(b \in Newlines /\ NewlineOf(s) \in {Unset, b})
    <2>1. LineEnds(t) = LineEnds(s)
      BY <1>2, <1>9
    <2>2. LastLine(t) = Shown(SubSeq(t, e + 1, Len(t)))
      BY <1>1, <1>3, <2>1, LastLineIs, Zenon
    <2>3. LastLine(t) = Shown(Append(r, b))
      BY <1>1, <1>5, <2>2, Zenon
    <2> QED
      BY <1>6, <1>7, <1>9, <2>3, Zenon DEF t
  <1> QED
    BY <1>8, <1>9

-----------------------------------------------------------------------------
(* The position of what was parsed *)

Position == [window |-> window, line |-> mCurLineNumber, newline |-> mNewlineChar]

\* The position p is that behind these bytes.
IsBehind(p, bytes) ==
    /\ p = [window |-> p.window, line |-> p.line, newline |-> p.newline]
    /\ IsWindow(p.window) /\ p.newline = NewlineOf(bytes) /\ p.line = Cardinality(LineEnds(bytes))
    /\ p.window.mEndCounter = Len(LastLine(bytes))
    /\ ContentOf(p.window) = LastOf(aPretextLen, LastLine(bytes))

LEMMA EmptyWindow ==
  ASSUME NEW w, IsWindow(w), w.mBeginCounter = w.mEndCounter
  PROVE  ContentOf(w) = <<>>
  <1>1. GetSize(w) = 0
    BY DEF IsWindow, GetSize
  <1>2. ContentOf(w) \in Seq(Nat) /\ Len(ContentOf(w)) = 0
    BY <1>1, Contents
  <1> QED
    BY <1>2

LEMMA Resets ==
  ASSUME NEW w, IsWindow(w)
  PROVE  /\ IsWindow(ResetWindow(w)) /\ ContentOf(ResetWindow(w)) = <<>>
         /\ ResetWindow(w).mEndCounter = 0
  <1> DEFINE v == ResetWindow(w)
  <1>1. v = [mBuf |-> w.mBuf, bufSize |-> aPretextLen, mBeginCounter |-> 0, mEndCounter |-> 0,
             mHead |-> 0]
    <2>1. w.bufSize = aPretextLen
      BY Zenon DEF IsWindow
    <2> QED
      BY <2>1, Zenon DEF ResetWindow
  <1> HIDE DEF v
  <1>2. /\ v.mBuf = w.mBuf /\ v.bufSize = aPretextLen /\ v.mBeginCounter = 0 /\ v.mEndCounter = 0
        /\ v.mHead = 0
    BY <1>1
  <1>3. w.mBuf \in [0 .. aPretextLen - 1 -> Nat]
    BY DEF IsWindow
  <1>4. IsWindow(v)
    <2>1. v = [mBuf |-> v.mBuf, bufSize |-> aPretextLen, mBeginCounter |-> v.mBeginCounter,
               mEndCounter |-> v.mEndCounter, mHead |-> v.mHead]
      BY <1>1, <1>2, Zenon
    <2>2. 0 <= 0 /\ 0 - 0 <= aPretextLen /\ 0 \in Nat
      BY Lengths
    <2> QED
      BY <1>2, <1>3, <2>1, <2>2, Zenon DEF IsWindow
  <1>5. ContentOf(v) = <<>>
    BY <1>2, <1>4, EmptyWindow
  <1> QED
    BY <1>2, <1>4, <1>5 DEF v

LEMMA OneMoreEnd ==
  ASSUME NEW s \in Seq(Nat), NEW b \in Nat
  PROVE  /\ Cardinality(LineEnds(s)) \in Nat
         /\ Cardinality(LineEnds(s) \cup {Len(s) + 1}) = Cardinality(LineEnds(s)) + 1
  <1>1. LineEnds(s) \subseteq 0 .. Len(s) /\ Len(s) \in Nat
    BY LineEndsOfLonger
  <1>2. IsFiniteSet(0 .. Len(s))
    BY <1>1, FS_Interval
  <1>3. IsFiniteSet(LineEnds(s))
    BY <1>1, <1>2, FS_Subset
  <1>4. Len(s) + 1 \notin LineEnds(s)
    BY <1>1
  <1>5. Cardinality(LineEnds(s)) \in Nat
    BY <1>3, FS_CardinalityType
  <1>6. Cardinality(LineEnds(s) \cup {Len(s) + 1}) = Cardinality(LineEnds(s)) + 1
    BY <1>3, <1>4, FS_AddElement
  <1> QED
    BY <1>5, <1>6

\* ProcessByte keeps the position behind the bytes that were processed.
LEMMA ProcessesByte ==
  ASSUME NEW s \in Seq(Nat), NEW b \in Nat, NEW p, IsBehind(p, s)
  PROVE  IsBehind(ProcessByte(p, b), Append(s, b))
  <1> DEFINE q == ProcessByte(p, b)
             t == Append(s, b)
             newline == IF p.newline = Unset THEN b ELSE p.newline
  <1>1. /\ p = [window |-> p.window, line |-> p.line, newline |-> p.newline]
        /\ IsWindow(p.window) /\ p.newline = NewlineOf(s) /\ p.line = Cardinality(LineEnds(s))
        /\ p.window.mEndCounter = Len(LastLine(s))
        /\ ContentOf(p.window) = LastOf(aPretextLen, LastLine(s))
    BY Zenon DEF IsBehind
  <1>2. /\ NewlineOf(s) \in {0, 10, 13}
        /\ NewlineOf(t) = IF NewlineOf(s) = Unset /\ b \in Newlines THEN b ELSE NewlineOf(s)
    BY NewlineOfLonger, Zenon
  <1>3. LineEnds(t) =
            LineEnds(s) \cup IF b \in Newlines /\ NewlineOf(s) \in {Unset, b} THEN {Len(s) + 1} ELSE {}
    BY LineEndsOfLonger, Zenon
  <1>4. /\ LastLine(s) \in Seq(Nat)
        /\ b \in Newlines /\ NewlineOf(s) \in {Unset, b} => LastLine(t) = <<>>
        /\ b \in Newlines /\ NewlineOf(s) \notin {Unset, b} => LastLine(t) = LastLine(s)
        /\ b \notin Newlines => LastLine(t) = Append(LastLine(s), b)
    BY LastLineOfLonger, Zenon
  <1> HIDE DEF t
  <1>5. b \in Newlines => (b = newline <=> NewlineOf(s) \in {Unset, b})
    BY <1>1 DEF Unset, Newlines
  <1>6. CASE b \in Newlines /\ NewlineOf(s) \in {Unset, b}
    <2>1. q = [window |-> ResetWindow(p.window), line |-> p.line + 1, newline |-> newline]
      BY <1>5, <1>6, Zenon DEF ProcessByte
    <2> HIDE DEF q
    <2>2. q.window = ResetWindow(p.window) /\ q.line = p.line + 1 /\ q.newline = newline
      BY <2>1
    <2>3. newline = NewlineOf(t)
      BY <1>1, <1>2, <1>6
    <2>4. q.line = Cardinality(LineEnds(t))
      <3>1. LineEnds(t) = LineEnds(s) \cup {Len(s) + 1}
        BY <1>3, <1>6
      <3> QED
        BY <1>1, <2>2, <3>1, OneMoreEnd, Zenon
    <2>5. LastOf(aPretextLen, <<>>) = <<>> /\ Len(<<>>) = 0
      BY Lengths DEF LastOf
    <2>6. LastLine(t) = <<>>
      BY <1>4, <1>6
    <2>7. /\ IsWindow(q.window) /\ ContentOf(q.window) = <<>> /\ q.window.mEndCounter = 0
      BY <1>1, <2>2, Resets, Zenon
    <2>8. q = [window |-> q.window, line |-> q.line, newline |-> q.newline]
      BY <2>1, <2>2, Zenon
    <2> QED
      BY <2>2, <2>3, <2>4, <2>5, <2>6, <2>7, <2>8, Zenon DEF IsBehind, q, t
  <1>7. CASE b \in Newlines /\ NewlineOf(s) \notin {Unset, b}
    <2>1. b # newline
      BY <1>5, <1>7
    <2>2. q = p
      BY <1>7, <2>1, Zenon DEF ProcessByte
    <2>3. LineEnds(t) = LineEnds(s) /\ NewlineOf(t) = NewlineOf(s) /\ LastLine(t) = LastLine(s)
      BY <1>2, <1>3, <1>4, <1>7
    <2> QED
      BY <1>1, <2>2, <2>3, Zenon DEF IsBehind, t
  <1>8. CASE b \notin Newlines
    <2>1. q = [window |-> PushData(p.window, <<b>>), line |-> p.line, newline |-> p.newline]
      <3>1. q = [p EXCEPT !.window = PushData(p.window, <<b>>)]
        BY <1>8, Zenon DEF ProcessByte
      <3> DEFINE v == PushData(p.window, <<b>>)
      <3>2. q = [p EXCEPT !.window = v]
        BY <3>1
      <3> HIDE DEF q, v
      <3>3. [p EXCEPT !.window = v] = [window |-> v, line |-> p.line, newline |-> p.newline]
        BY <1>1
      <3> QED
        BY <3>2, <3>3, Zenon DEF v
    <2> HIDE DEF q
    <2>2. q.window = PushData(p.window, <<b>>) /\ q.line = p.line /\ q.newline = p.newline
      BY <2>1
    <2>3. LineEnds(t) = LineEnds(s) /\ NewlineOf(t) = NewlineOf(s) /\ LastLine(t) = Append(LastLine(s), b)
      BY <1>2, <1>3, <1>4, <1>8
    <2>4. <<b>> \in Seq(Nat) /\ Len(<<b>>) = 1
      OBVIOUS
    <2>5. /\ IsWindow(q.window)
          /\ ContentOf(q.window) = LastOf(aPretextLen, ContentOf(p.window) \o <<b>>)
          /\ q.window.mEndCounter = p.window.mEndCounter + 1
      BY <1>1, <2>2, <2>4, PushedInOrder, Zenon
    <2>6. LastOf(aPretextLen, LastOf(aPretextLen, LastLine(s)) \o <<b>>) = LastOf(aPretextLen, LastLine(t))
      <3>1. LastOf(aPretextLen, LastOf(aPretextLen, LastLine(s)) \o <<b>>) =
                LastOf(aPretextLen, Append(LastLine(s), b))
        <4>1. aPretextLen \in Nat /\ LastLine(s) \in Seq(Nat)
          BY <1>4, Lengths
        <4> QED
          BY <4>1, LastOfLonger
      <3> QED
        BY <2>3, <3>1, Zenon
    <2>7. Len(LastLine(t)) = Len(LastLine(s)) + 1
      BY <1>4, <2>3, Appended, Zenon
    <2>8. q = [window |-> q.window, line |-> q.line, newline |-> q.newline]
      BY <2>1, <2>2, Zenon
    <2> QED
      BY <1>1, <2>2, <2>3, <2>5, <2>6, <2>7, <2>8, Zenon DEF IsBehind, q, t
  <1> QED
    BY <1>6, <1>7, <1>8

\* ProcessNewData, one byte after the other.
AreAfter(f, begun, data) ==
    f = [k \in 0 .. Len(data) |-> IF k = 0 THEN begun ELSE ProcessByte(f[k - 1], data[k])]

\* The first of the positions: there is a function that satisfies the recursion.
LEMMA AfterExist ==
  ASSUME NEW begun, NEW data \in Seq(Nat)
  PROVE  \E f : AreAfter(f, begun, data)
  <1> DEFINE After(f, n) ==
                 f = [k \in 0 .. n |-> IF k = 0 THEN begun ELSE ProcessByte(f[k - 1], data[k])]
             S == {m \in Nat : \E f : After(f, m)}
  <1>1. 0 \in S
    <2> DEFINE f == [k \in 0 .. 0 |-> begun]
    <2>1. After(f, 0)
      OBVIOUS
    <2> QED
      BY <2>1
  <1>2. ASSUME NEW m \in S PROVE m + 1 \in S
    <2>1. PICK f : After(f, m)
      OBVIOUS
    <2> DEFINE next == ProcessByte(f[m], data[m + 1])
    <2> HIDE DEF next
    <2> DEFINE g == [k \in 0 .. m + 1 |-> IF k = m + 1 THEN next ELSE f[k]]
    <2>2. ASSUME NEW k \in 0 .. m + 1
          PROVE  g[k] = IF k = 0 THEN begun ELSE ProcessByte(g[k - 1], data[k])
      <3>1. CASE k = m + 1
        <4>1. k # 0 /\ k - 1 = m /\ m \in 0 .. m + 1 /\ m # m + 1
          BY <3>1
        <4>2. g[k] = next /\ g[k - 1] = f[m]
          BY <3>1, <4>1
        <4> HIDE DEF g
        <4> QED
          BY <3>1, <4>1, <4>2, Zenon DEF next
      <3>2. CASE k \in 0 .. m
        <4>1. f[k] = IF k = 0 THEN begun ELSE ProcessByte(f[k - 1], data[k])
          BY <2>1, <3>2, Zenon
        <4>2. g[k] = f[k] /\ (k # 0 => g[k - 1] = f[k - 1])
          BY <3>2
        <4> HIDE DEF g
        <4> QED
          BY <4>1, <4>2, Zenon
      <3> QED
        BY <3>1, <3>2
    <2>3. After(g, m + 1)
      <3>1. g = [k \in 0 .. m + 1 |-> g[k]]
        OBVIOUS
      <3> HIDE DEF g
      <3> QED
        BY <2>2, <3>1, Zenon
    <2> HIDE DEF g, After
    <2> QED
      BY <2>3
  <1>3. S = Nat
    <2> HIDE DEF S
    <2>1. S \in SUBSET Nat
      BY DEF S
    <2> QED
      BY <1>1, <1>2, <2>1, Induction
  <1>4. \E f : After(f, Len(data))
    <2>1. Len(data) \in S
      BY <1>3
    <2> QED
      BY <2>1
  <1> QED
    BY <1>4, Zenon DEF AreAfter

LEMMA AppendBehind ==
  ASSUME NEW s \in Seq(Nat), NEW a \in Seq(Nat), NEW x \in Nat
  PROVE  s \o Append(a, x) = Append(s \o a, x)
  OBVIOUS

LEMMA OneMoreRead ==
  ASSUME NEW s \in Seq(Nat), NEW data \in Seq(Nat), NEW k \in Nat, k + 1 <= Len(data)
  PROVE  /\ s \o SubSeq(data, 1, k) \in Seq(Nat)
         /\ s \o SubSeq(data, 1, k + 1) = Append(s \o SubSeq(data, 1, k), data[k + 1])
  <1> DEFINE a == SubSeq(data, 1, k)
             c == SubSeq(data, 1, k + 1)
  <1>1. Len(data) \in Nat /\ k <= Len(data) /\ k + 1 \in Nat
    OBVIOUS
  <1>2. a \in Seq(Nat) /\ Len(a) = k /\ \A j \in 1 .. k : a[j] = data[j]
    BY <1>1, Beginning
  <1>3. c \in Seq(Nat) /\ Len(c) = k + 1 /\ \A j \in 1 .. k + 1 : c[j] = data[j]
    BY <1>1, Beginning
  <1> HIDE DEF a, c
  <1>4. c = Append(a, data[k + 1])
    <2>1. data[k + 1] \in Nat
      BY <1>1
    <2> DEFINE x == Append(a, data[k + 1])
    <2>2. /\ x \in Seq(Nat) /\ Len(x) = k + 1 /\ \A j \in 1 .. k : x[j] = a[j]
          /\ x[k + 1] = data[k + 1]
      BY <1>2, <2>1, Appended
    <2> HIDE DEF x
    <2>3. ASSUME NEW j \in 1 .. k + 1 PROVE c[j] = x[j]
      <3>1. j \in 1 .. k \/ j = k + 1
        OBVIOUS
      <3> QED
        BY <1>2, <1>3, <2>2, <3>1
    <2> QED
      BY <1>3, <2>2, <2>3, SameBytes DEF x
  <1>5. s \o Append(a, data[k + 1]) = Append(s \o a, data[k + 1])
    <2>1. data[k + 1] \in Nat
      BY <1>1
    <2> QED
      BY <1>2, <2>1, AppendBehind, Zenon
  <1>6. s \o a \in Seq(Nat)
    BY <1>2
  <1> QED
    BY <1>4, <1>5, <1>6, Zenon DEF a, c

LEMMA ProcessesAll ==
  ASSUME NEW s \in Seq(Nat), NEW data \in Seq(Nat), NEW begun, IsBehind(begun, s),
         NEW f, AreAfter(f, begun, data)
  PROVE  IsBehind(f[Len(data)], s \o data)
  <1> DEFINE Read(k) == s \o SubSeq(data, 1, k)
             S == {k \in Nat : k <= Len(data) => IsBehind(f[k], Read(k))}
  <1>0. Len(data) \in Nat
    OBVIOUS
  <1>1. 0 \in S
    <2>1. f[0] = begun
      <3>1. 0 \in 0 .. Len(data)
        BY <1>0
      <3> QED
        BY <3>1, Zenon DEF AreAfter
    <2>2. Read(0) = s
      OBVIOUS
    <2> QED
      BY <2>1, <2>2, Zenon
  <1>2. ASSUME NEW k \in S PROVE k + 1 \in S
    <2>1. ASSUME k + 1 <= Len(data) PROVE IsBehind(f[k + 1], Read(k + 1))
      <3>1. /\ k + 1 \in 0 .. Len(data) /\ k + 1 # 0 /\ (k + 1) - 1 = k /\ data[k + 1] \in Nat
            /\ k \in Nat /\ k <= Len(data) /\ k + 1 \in Nat
        BY <1>0, <2>1
      <3>2. f[k + 1] = ProcessByte(f[k], data[k + 1])
        BY <3>1, Zenon DEF AreAfter
      <3>3. Read(k) \in Seq(Nat) /\ Read(k + 1) = Append(Read(k), data[k + 1])
        BY <2>1, <3>1, OneMoreRead
      <3>4. IsBehind(f[k], Read(k))
        BY <2>1, <3>1
      <3> HIDE DEF Read
      <3>5. IsBehind(ProcessByte(f[k], data[k + 1]), Append(Read(k), data[k + 1]))
        BY <3>1, <3>3, <3>4, ProcessesByte
      <3> QED
        BY <3>2, <3>3, <3>5, Zenon
    <2> HIDE DEF Read
    <2> QED
      BY <2>1
  <1>3. S = Nat
    <2> HIDE DEF S
    <2>1. S \in SUBSET Nat
      BY DEF S
    <2> QED
      BY <1>1, <1>2, <2>1, Induction
  <1>4. Read(Len(data)) = s \o data
    <2>1. SubSeq(data, 1, Len(data)) = data
      OBVIOUS
    <2> QED
      BY <2>1, Zenon
  <1>5. IsBehind(f[Len(data)], Read(Len(data)))
    <2> HIDE DEF Read
    <2> QED
      BY <1>0, <1>3
  <1> QED
    BY <1>4, <1>5, Zenon

-----------------------------------------------------------------------------
(* ParseStream: the position is where the parser is *)

PositionTypeOK ==
    /\ stream \in Seq(Nat) /\ consumed \in Nat /\ consumed <= Len(stream)
    /\ buf \in Seq(Nat) /\ Len(buf) = aChunkSize
    /\ dataStart \in Nat /\ dataStart <= aChunkSize
    /\ bytesRead \in Nat /\ bytesRead <= aChunkSize
    /\ i \in Nat /\ i <= bytesRead
    /\ stage \in {"Read", "Parse", "Failed", "Done"} /\ parsed \in Seq(Nat)

\* Nothing is left out and nothing is parsed twice, unless the Tokenizer waits.
NothingIsLost ==
    ~waited =>
        /\ dataStart = 0 /\ Len(parsed) <= Len(stream) /\ parsed = SubSeq(stream, 1, Len(parsed))
        /\ stage = "Read" => consumed = Len(parsed)
        /\ stage = "Parse" =>
              /\ consumed = Len(parsed) + (bytesRead - i) /\ bytesRead <= consumed
              /\ \A k \in 1 .. bytesRead : buf[k] = stream[consumed - bytesRead + k]
        /\ stage = "Failed" =>
              \E m \in 0 .. Least(aPosttextLen, Len(stream) - Len(parsed)) :
                  remainder = SubSeq(SubSeq(stream, Len(parsed) + 1, Len(stream)), 1, m)

PositionInv == PositionTypeOK /\ IsBehind(Position, parsed) /\ NothingIsLost

LEMMA NoLines ==
  /\ NewlineOf(<<>>) = Unset /\ LineEnds(<<>>) = {0} /\ LastLine(<<>>) = <<>>
  <1>1. NewlinesIn(<<>>) = {}
    BY DEF NewlinesIn
  <1>2. NewlineOf(<<>>) = Unset
    <2>1. <<>> \in Seq(Nat)
      OBVIOUS
    <2> QED
      BY <1>1, <2>1, FirstNewline
  <1>3. LineEnds(<<>>) = {0}
    BY DEF LineEnds
  <1>4. LastLine(<<>>) = <<>>
    <2>1. <<>> \in Seq(Nat) /\ Len(<<>>) = 0 /\ SubSeq(<<>>, 0 + 1, 0) = <<>>
      OBVIOUS
    <2>2. 0 \in LineEnds(<<>>) /\ \A l \in LineEnds(<<>>) : l <= 0
      BY <1>3
    <2>3. LastLine(<<>>) = Shown(SubSeq(<<>>, 0 + 1, 0))
      BY <2>1, <2>2, LastLineIs, Zenon
    <2> QED
      BY <2>1, <2>3, ShownOfNone, Zenon
  <1> QED
    BY <1>2, <1>3, <1>4

LEMMA PositionInitially == ParsePositionsInit => PositionInv
  <1> SUFFICES ASSUME ParsePositionsInit PROVE PositionInv
    OBVIOUS
  <1> USE DEF ParsePositionsInit
  <1>1. PositionTypeOK
    <2>1. stream \in Seq(Nat)
      BY ParsePositionsAssumption
    <2>2. buf \in Seq(Nat) /\ Len(buf) = aChunkSize
      BY Lengths
    <2> QED
      BY <2>1, <2>2, Lengths DEF PositionTypeOK
  <1>2. IsBehind(Position, <<>>)
    <2>1. /\ window = [mBuf |-> [k \in 0 .. aPretextLen - 1 |-> 0], bufSize |-> aPretextLen,
                       mBeginCounter |-> 0, mEndCounter |-> 0, mHead |-> 0]
          /\ mCurLineNumber = 1 /\ mNewlineChar = Unset
      BY DEF InitWindow, Unset
    <2>2. /\ window.mBuf = [k \in 0 .. aPretextLen - 1 |-> 0] /\ window.bufSize = aPretextLen
          /\ window.mBeginCounter = 0 /\ window.mEndCounter = 0 /\ window.mHead = 0
      BY <2>1
    <2>3. IsWindow(window)
      <3>1. window = [mBuf |-> window.mBuf, bufSize |-> aPretextLen,
                      mBeginCounter |-> window.mBeginCounter, mEndCounter |-> window.mEndCounter,
                      mHead |-> window.mHead]
        BY <2>1, <2>2, Zenon
      <3>2. [k \in 0 .. aPretextLen - 1 |-> 0] \in [0 .. aPretextLen - 1 -> Nat]
        OBVIOUS
      <3>3. 0 <= 0 /\ 0 - 0 <= aPretextLen /\ 0 \in Nat
        BY Lengths
      <3> QED
        BY <2>2, <3>1, <3>2, <3>3, Zenon DEF IsWindow
    <2>4. ContentOf(window) = <<>>
      BY <2>2, <2>3, EmptyWindow
    <2>5. Cardinality({0}) = 1
      BY FS_Singleton
    <2>6. LastOf(aPretextLen, <<>>) = <<>> /\ Len(<<>>) = 0
      BY Lengths DEF LastOf
    <2>7. Position.window = window /\ Position.line = 1 /\ Position.newline = Unset
      BY <2>1 DEF Position
    <2>8. Position = [window |-> Position.window, line |-> Position.line, newline |-> Position.newline]
      BY DEF Position
    <2> HIDE DEF ParsePositionsInit
    <2> QED
      BY <2>2, <2>3, <2>4, <2>5, <2>6, <2>7, <2>8, NoLines, Zenon DEF IsBehind
  <1>3. NothingIsLost
    <2>1. stream \in Seq(Nat) /\ SubSeq(stream, 1, 0) = <<>> /\ Len(<<>>) = 0 /\ 0 <= Len(stream)
      BY ParsePositionsAssumption
    <2> QED
      BY <2>1 DEF NothingIsLost
  <1> QED
    BY <1>1, <1>2, <1>3 DEF PositionInv

\* The position behind the data that was processed.
LEMMA ProcessesData ==
  ASSUME PositionInv, NEW data \in Seq(Nat), ProcessNewData(data), parsed' = parsed \o data
  PROVE  IsBehind(Position, parsed)'
  <1>1. PICK f : AreAfter(f, Position, data)
    BY AfterExist
  <1> DEFINE after == CHOOSE h : AreAfter(h, Position, data)
  <1>2. AreAfter(after, Position, data)
    BY <1>1, Zenon
  <1> DEFINE p == after[Len(data)]
  <1>3. window' = p.window /\ mCurLineNumber' = p.line /\ mNewlineChar' = p.newline
    BY Zenon DEF ProcessNewData, AreAfter, Position
  <1> HIDE DEF after
  <1>4. IsBehind(p, parsed \o data)
    <2>1. parsed \in Seq(Nat) /\ IsBehind(Position, parsed)
      BY DEF PositionInv, PositionTypeOK
    <2> QED
      BY <1>2, <2>1, ProcessesAll
  <1> HIDE DEF p
  <1>5. Position' = p
    <2>1. p = [window |-> p.window, line |-> p.line, newline |-> p.newline]
      BY <1>4, Zenon DEF IsBehind
    <2> QED
      BY <1>3, <2>1, Zenon DEF Position
  <1> QED
    BY <1>4, <1>5 DEF IsBehind

LEMMA PositionStays ==
  ASSUME IsBehind(Position, parsed), UNCHANGED <<window, mNewlineChar, mCurLineNumber, parsed>>
  PROVE  IsBehind(Position, parsed)'
  <1>1. Position' = Position /\ parsed' = parsed
    BY DEF Position
  <1> QED
    BY <1>1 DEF IsBehind

\* What is taken of the buffer are the bytes of the stream behind those that were parsed.
LEMMA TakenBytes ==
  ASSUME PositionInv, NEW n \in Nat, n <= BytesLeft
  PROVE  /\ i + n \in Nat /\ i + n <= bytesRead /\ i + n <= Len(buf)
         /\ Taken(n) \in Seq(Nat) /\ Len(Taken(n)) = n
         /\ \A k \in 1 .. n : Taken(n)[k] = buf[i + k]
  <1>1. /\ i \in Nat /\ bytesRead \in Nat /\ n <= bytesRead - i /\ bytesRead <= aChunkSize
        /\ buf \in Seq(Nat) /\ Len(buf) = aChunkSize
    BY DEF PositionInv, PositionTypeOK, BytesLeft
  <1>2. i + n \in Nat /\ i + n <= bytesRead /\ i + n <= Len(buf)
    BY <1>1, Lengths
  <1>3. PICK a \in Int, b \in Int : a = i + 1 /\ b = i + n
    BY <1>1
  <1>4. a > 0 /\ b <= Len(buf) /\ a <= b + 1 /\ b - a + 1 = n
    BY <1>1, <1>2, <1>3
  <1>5. /\ SubSeq(buf, a, b) \in Seq(Nat)
        /\ Len(SubSeq(buf, a, b)) = b - a + 1
        /\ \A k \in 1 .. b - a + 1 : SubSeq(buf, a, b)[k] = buf[a + k - 1]
    BY <1>1, <1>4, Parts
  <1>6. Taken(n) = SubSeq(buf, a, b)
    BY <1>3, Zenon DEF Taken
  <1>7. \A k \in 1 .. n : a + k - 1 = i + k
    BY <1>1, <1>3
  <1> QED
    BY <1>2, <1>4, <1>5, <1>6, <1>7, Zenon

LEMMA ParsesInOrder ==
  ASSUME PositionInv, NEW n \in Nat, n <= BytesLeft, stage = "Parse", ~waited
  PROVE  /\ parsed \o Taken(n) \in Seq(Nat) /\ Len(parsed \o Taken(n)) = Len(parsed) + n
         /\ Len(parsed) + n <= Len(stream)
         /\ parsed \o Taken(n) = SubSeq(stream, 1, Len(parsed) + n)
  <1>1. /\ stream \in Seq(Nat) /\ parsed \in Seq(Nat) /\ consumed \in Nat /\ consumed <= Len(stream)
        /\ i \in Nat /\ bytesRead \in Nat
    BY DEF PositionInv, PositionTypeOK
  <1>2. /\ Len(parsed) <= Len(stream) /\ parsed = SubSeq(stream, 1, Len(parsed))
        /\ consumed = Len(parsed) + (bytesRead - i)
        /\ \A k \in 1 .. bytesRead : buf[k] = stream[consumed - bytesRead + k]
    BY Zenon DEF PositionInv, NothingIsLost
  <1>3. /\ i + n \in Nat /\ i + n <= bytesRead
        /\ Taken(n) \in Seq(Nat) /\ Len(Taken(n)) = n
        /\ \A k \in 1 .. n : Taken(n)[k] = buf[i + k]
    BY TakenBytes
  <1> DEFINE x == parsed \o Taken(n)
             y == SubSeq(stream, 1, Len(parsed) + n)
  <1>4. PICK l \in Nat, total \in Nat : l = Len(parsed) /\ total = Len(stream)
    BY <1>1
  <1>5. l + n <= total /\ l + n \in Nat /\ l <= total
    BY <1>1, <1>2, <1>3, <1>4
  <1>6. /\ x \in Seq(Nat) /\ Len(x) = l + n
        /\ \A k \in 1 .. l + n : x[k] = IF k <= l THEN parsed[k] ELSE Taken(n)[k - l]
    <2>1. /\ x \in Seq(Nat) /\ Len(x) = Len(parsed) + Len(Taken(n))
          /\ \A k \in 1 .. Len(parsed) + Len(Taken(n)) :
                 x[k] = IF k <= Len(parsed) THEN parsed[k] ELSE Taken(n)[k - Len(parsed)]
      BY <1>1, <1>3, Joined
    <2>2. Len(Taken(n)) = n /\ Len(parsed) = l
      BY <1>3, <1>4, Zenon
    <2> HIDE DEF x
    <2> QED
      BY <2>1, <2>2
  <1>7. /\ y \in Seq(Nat) /\ Len(y) = l + n /\ \A k \in 1 .. l + n : y[k] = stream[k]
    <2>1. /\ SubSeq(stream, 1, l + n) \in Seq(Nat) /\ Len(SubSeq(stream, 1, l + n)) = l + n
          /\ \A k \in 1 .. l + n : SubSeq(stream, 1, l + n)[k] = stream[k]
      BY <1>1, <1>4, <1>5, Beginning, Zenon
    <2> QED
      BY <1>4, <2>1, Zenon
  <1>8. \A k \in 1 .. l : parsed[k] = stream[k]
    <2>1. \A k \in 1 .. l : SubSeq(stream, 1, l)[k] = stream[k]
      BY <1>1, <1>4, <1>5, Beginning, Zenon
    <2> QED
      BY <1>2, <1>4, <2>1, Zenon
  <1>9. ASSUME NEW k \in 1 .. l + n PROVE x[k] = y[k]
    <2>1. CASE k <= l
      <3>1. k \in 1 .. l
        BY <1>5, <2>1
      <3> QED
        BY <1>6, <1>7, <1>8, <2>1, <3>1, Zenon
    <2>2. CASE ~(k <= l)
      <3>1. /\ k - l \in 1 .. n /\ i + (k - l) \in 1 .. bytesRead
            /\ consumed - bytesRead + (i + (k - l)) = k
        <4>1. /\ i \in Nat /\ bytesRead \in Nat /\ consumed \in Nat /\ i + n <= bytesRead
              /\ consumed = l + (bytesRead - i)
          BY <1>1, <1>2, <1>3, <1>4, Zenon
        <4> QED
          BY <2>2, <4>1
      <3>2. Taken(n)[k - l] = buf[i + (k - l)]
        BY <1>3, <3>1, Zenon
      <3>3. buf[i + (k - l)] = stream[consumed - bytesRead + (i + (k - l))]
        BY <1>2, <3>1, Zenon
      <3> QED
        BY <1>6, <1>7, <2>2, <3>1, <3>2, <3>3, Zenon
    <2> QED
      BY <2>1, <2>2
  <1>10. x = y
    <2> HIDE DEF x, y
    <2> QED
      BY <1>6, <1>7, <1>9, SameBytes
  <1> QED
    BY <1>4, <1>5, <1>6, <1>10, Zenon

LEMMA ReadsPosition == PositionInv /\ Reads => PositionInv'
  <1> SUFFICES ASSUME PositionInv, Reads PROVE PositionInv'
    OBVIOUS
  <1>1. PositionTypeOK /\ IsBehind(Position, parsed) /\ NothingIsLost
    BY DEF PositionInv
  <1>2. PICK n \in Nat :
            /\ n = Least(aChunkSize - dataStart, Len(stream) - consumed)
            /\ n <= aChunkSize - dataStart /\ n <= Len(stream) - consumed
    <2>1. aChunkSize - dataStart \in Nat /\ Len(stream) - consumed \in Nat
      BY <1>1, Lengths DEF PositionTypeOK
    <2> QED
      BY <2>1 DEF Least
  <1>3. /\ stage = "Read" /\ bytesRead' = n /\ consumed' = consumed + n /\ i' = 0
        /\ buf' = [k \in 1 .. aChunkSize |->
                      IF k \in dataStart + 1 .. dataStart + n
                      THEN stream[consumed + k - dataStart] ELSE buf[k]]
        /\ stage' = IF n = 0 THEN "Done" ELSE "Parse"
        /\ UNCHANGED <<stream, dataStart, positionVars, parsed, waited>>
    BY <1>2, Zenon DEF Reads
  <1>4. buf' \in Seq(Nat) /\ Len(buf') = aChunkSize
    <2>1. ASSUME NEW k \in 1 .. aChunkSize
          PROVE  (IF k \in dataStart + 1 .. dataStart + n
                  THEN stream[consumed + k - dataStart] ELSE buf[k]) \in Nat
      <3>1. k \in dataStart + 1 .. dataStart + n => consumed + k - dataStart \in 1 .. Len(stream)
        BY <1>1, <1>2, Lengths DEF PositionTypeOK
      <3>2. CASE k \in dataStart + 1 .. dataStart + n
        BY <1>1, <3>1, <3>2 DEF PositionTypeOK
      <3>3. CASE k \notin dataStart + 1 .. dataStart + n
        BY <1>1, <3>3 DEF PositionTypeOK
      <3> QED
        BY <3>2, <3>3
    <2> DEFINE new(k) == IF k \in dataStart + 1 .. dataStart + n
                         THEN stream[consumed + k - dataStart] ELSE buf[k]
    <2>2. \A k \in 1 .. aChunkSize : new(k) \in Nat
      BY <2>1
    <2>3. buf' = [k \in 1 .. aChunkSize |-> new(k)]
      BY <1>3, Zenon
    <2> HIDE DEF new
    <2> QED
      BY <2>2, <2>3, Lengths
  <1>5. PositionTypeOK'
    <2>1. consumed + n \in Nat /\ consumed + n <= Len(stream) /\ n <= aChunkSize /\ 0 \in Nat /\ 0 <= n
      BY <1>1, <1>2, Lengths DEF PositionTypeOK
    <2>2. stage' \in {"Read", "Parse", "Failed", "Done"}
      BY <1>3
    <2> QED
      BY <1>1, <1>3, <1>4, <2>1, <2>2, Zenon DEF PositionTypeOK
  <1>6. IsBehind(Position, parsed)'
    BY <1>1, <1>3, PositionStays DEF positionVars
  <1>7. NothingIsLost'
    <2> SUFFICES ASSUME ~waited' PROVE NothingIsLost'
      BY DEF NothingIsLost
    <2>1. /\ ~waited /\ dataStart = 0 /\ Len(parsed) <= Len(stream)
          /\ parsed = SubSeq(stream, 1, Len(parsed)) /\ consumed = Len(parsed)
      BY <1>1, <1>3, Zenon DEF NothingIsLost
    <2>2. /\ consumed + n = Len(parsed) + (n - 0) /\ n <= consumed + n /\ n <= aChunkSize
          /\ consumed + n - n = consumed
      BY <1>1, <1>2, <2>1, Lengths DEF PositionTypeOK
    <2>3. ASSUME NEW k \in 1 .. n PROVE buf'[k] = stream[consumed + n - n + k]
      <3>1. /\ k \in dataStart + 1 .. dataStart + n /\ k \in 1 .. aChunkSize
            /\ consumed + k - dataStart = consumed + n - n + k
        <4>1. dataStart = 0 /\ consumed \in Nat /\ n <= aChunkSize /\ aChunkSize \in Nat
          BY <1>1, <2>1, <2>2, Lengths DEF PositionTypeOK
        <4> QED
          BY <4>1
      <3> QED
        BY <1>3, <3>1, Zenon
    <2>4. stage' # "Read" /\ stage' # "Failed"
      BY <1>3
    <2>5. /\ dataStart' = 0 /\ Len(parsed') <= Len(stream')
          /\ parsed' = SubSeq(stream', 1, Len(parsed'))
      BY <1>3, <2>1, Zenon
    <2>6. /\ consumed' = Len(parsed') + (bytesRead' - i') /\ bytesRead' <= consumed'
          /\ \A k \in 1 .. bytesRead' : buf'[k] = stream'[consumed' - bytesRead' + k]
      <3>1. parsed' = parsed /\ stream' = stream
        BY <1>3
      <3>2. consumed' = consumed + n /\ bytesRead' = n /\ i' = 0
        BY <1>3
      <3>3. \A k \in 1 .. bytesRead' : buf'[k] = stream'[consumed' - bytesRead' + k]
        <4>1. \A k \in 1 .. n : buf'[k] = stream'[consumed + n - n + k]
          BY <2>3, <3>1, Zenon
        <4>2. ASSUME NEW k \in 1 .. bytesRead'
              PROVE  buf'[k] = stream'[consumed' - bytesRead' + k]
          <5>1. 1 .. bytesRead' = 1 .. n /\ consumed' - bytesRead' + k = consumed + n - n + k
            <6>1. consumed \in Nat
              BY <1>1 DEF PositionTypeOK
            <6>2. consumed' \in Nat /\ bytesRead' \in Nat
              BY <3>2, <6>1
            <6> QED
              BY <3>2, <6>1, <6>2
          <5>2. k \in 1 .. n
            BY <5>1
          <5> QED
            BY <4>1, <5>1, <5>2, Zenon
        <4> QED
          BY <4>2
      <3>4. consumed' = Len(parsed') + (bytesRead' - i') /\ bytesRead' <= consumed'
        BY <2>2, <3>1, <3>2, Zenon
      <3> QED
        BY <3>3, <3>4
    <2> QED
      BY <2>4, <2>5, <2>6, Zenon DEF NothingIsLost
  <1> QED
    BY <1>5, <1>6, <1>7 DEF PositionInv

LEMMA ParsesSomePosition == PositionInv /\ (\E n \in 1 .. BytesLeft : ParsesSome(n)) => PositionInv'
  <1> SUFFICES ASSUME PositionInv, NEW n \in 1 .. BytesLeft, ParsesSome(n) PROVE PositionInv'
    OBVIOUS
  <1>1. PositionTypeOK /\ NothingIsLost
    BY DEF PositionInv
  <1>2. n \in Nat /\ n <= BytesLeft
    BY <1>1 DEF PositionTypeOK, BytesLeft
  <1>3. /\ stage = "Parse" /\ ProcessNewData(Taken(n)) /\ remainder' = <<>> /\ i' = i + n
        /\ stage' = (IF i + n = bytesRead THEN "Read" ELSE "Parse")
        /\ parsed' = parsed \o Taken(n)
        /\ UNCHANGED <<stream, consumed, buf, dataStart, bytesRead, waited>>
    BY DEF ParsesSome
  <1>4. /\ i + n \in Nat /\ i + n <= bytesRead
        /\ Taken(n) \in Seq(Nat) /\ Len(Taken(n)) = n
    BY <1>2, TakenBytes
  <1>5. IsBehind(Position, parsed)'
    BY <1>3, <1>4, ProcessesData
  <1>6. PositionTypeOK'
    <2>1. parsed' \in Seq(Nat)
      BY <1>1, <1>3, <1>4, Joined, Zenon DEF PositionTypeOK
    <2>2. stage' \in {"Read", "Parse", "Failed", "Done"}
      BY <1>3
    <2> QED
      BY <1>1, <1>3, <1>4, <2>1, <2>2, Zenon DEF PositionTypeOK
  <1>7. NothingIsLost'
    <2> SUFFICES ASSUME ~waited' PROVE NothingIsLost'
      BY DEF NothingIsLost
    <2>1. ~waited
      BY <1>3
    <2>2. /\ parsed' \in Seq(Nat) /\ Len(parsed') = Len(parsed) + n /\ Len(parsed') <= Len(stream)
          /\ parsed' = SubSeq(stream, 1, Len(parsed'))
      BY <1>2, <1>3, <2>1, ParsesInOrder, Zenon
    <2>3. /\ dataStart = 0 /\ consumed = Len(parsed) + (bytesRead - i) /\ bytesRead <= consumed
          /\ \A k \in 1 .. bytesRead : buf[k] = stream[consumed - bytesRead + k]
      BY <1>1, <1>3, <2>1, Zenon DEF NothingIsLost
    <2>4. consumed = Len(parsed') + (bytesRead - (i + n))
      BY <1>1, <1>2, <2>2, <2>3 DEF PositionTypeOK
    <2>5. ASSUME i + n = bytesRead PROVE consumed = Len(parsed')
      <3>1. bytesRead \in Nat /\ Len(parsed') \in Nat
        BY <1>1, <2>2 DEF PositionTypeOK
      <3>2. bytesRead - bytesRead = 0 /\ Len(parsed') + 0 = Len(parsed')
        BY <3>1
      <3> QED
        BY <2>4, <2>5, <3>2, Zenon
    <2>6. stage' = "Read" => i + n = bytesRead
      BY <1>3
    <2>7. stage' # "Failed"
      BY <1>3
    <2> QED
      BY <1>3, <2>2, <2>3, <2>4, <2>5, <2>6, <2>7, Zenon DEF NothingIsLost
  <1> QED
    BY <1>5, <1>6, <1>7 DEF PositionInv

LEMMA FailsPosition == PositionInv /\ (\E n \in 0 .. BytesLeft : FailsBehind(n)) => PositionInv'
  <1> SUFFICES ASSUME PositionInv, NEW n \in 0 .. BytesLeft, FailsBehind(n) PROVE PositionInv'
    OBVIOUS
  <1>1. PositionTypeOK /\ NothingIsLost
    BY DEF PositionInv
  <1>2. n \in Nat /\ n <= BytesLeft
    BY <1>1 DEF PositionTypeOK, BytesLeft
  <1>3. /\ stage = "Parse" /\ ProcessNewData(Taken(n))
        /\ remainder' = Remainder(SubSeq(buf, i + n + 1, bytesRead)) /\ stage' = "Failed"
        /\ parsed' = parsed \o Taken(n)
        /\ UNCHANGED <<stream, consumed, buf, dataStart, bytesRead, i, waited>>
    BY DEF FailsBehind
  <1>4. /\ i + n \in Nat /\ i + n <= bytesRead
        /\ Taken(n) \in Seq(Nat) /\ Len(Taken(n)) = n
    BY <1>2, TakenBytes
  <1>5. IsBehind(Position, parsed)'
    BY <1>3, <1>4, ProcessesData
  <1>6. PositionTypeOK'
    <2>1. parsed' \in Seq(Nat)
      BY <1>1, <1>3, <1>4, Joined, Zenon DEF PositionTypeOK
    <2>2. stage' \in {"Read", "Parse", "Failed", "Done"}
      BY <1>3
    <2> QED
      BY <1>1, <1>3, <2>1, <2>2, Zenon DEF PositionTypeOK
  <1>7. NothingIsLost'
    <2> SUFFICES ASSUME ~waited' PROVE NothingIsLost'
      BY DEF NothingIsLost
    <2>1. ~waited
      BY <1>3
    <2>2. /\ parsed' \in Seq(Nat) /\ Len(parsed') = Len(parsed) + n /\ Len(parsed') <= Len(stream)
          /\ parsed' = SubSeq(stream, 1, Len(parsed'))
      BY <1>2, <1>3, <2>1, ParsesInOrder, Zenon
    <2>3. /\ dataStart = 0 /\ consumed = Len(parsed) + (bytesRead - i) /\ bytesRead <= consumed
          /\ \A k \in 1 .. bytesRead : buf[k] = stream[consumed - bytesRead + k]
      BY <1>1, <1>3, <2>1, Zenon DEF NothingIsLost
    <2>4. \E m \in 0 .. Least(aPosttextLen, Len(stream) - Len(parsed')) :
              remainder' = SubSeq(SubSeq(stream, Len(parsed') + 1, Len(stream)), 1, m)
      <3>1. PICK l \in Nat, total \in Nat, e \in Nat, left \in Nat :
                /\ l = Len(parsed') /\ total = Len(stream) /\ e = i + n /\ left = bytesRead - e
                /\ l <= total
        <4>1. Len(parsed') \in Nat /\ Len(stream) \in Nat
          BY <1>1, <2>2 DEF PositionTypeOK
        <4>2. bytesRead - (i + n) \in Nat
          BY <1>1, <1>4 DEF PositionTypeOK
        <4> QED
          BY <1>4, <2>2, <4>1, <4>2
      <3>2. left <= total - l /\ e + left = bytesRead /\ consumed - bytesRead + e = l
        <4>1. PICK p \in Nat, c \in Nat, r \in Nat, j \in Nat :
                  p = Len(parsed) /\ c = consumed /\ r = bytesRead /\ j = i
          BY <1>1 DEF PositionTypeOK
        <4>2. /\ l = p + n /\ c = p + (r - j) /\ e = j + n /\ left = r - e /\ c <= total
          BY <1>1, <2>2, <2>3, <3>1, <4>1, Zenon DEF PositionTypeOK
        <4>3. left <= total - l /\ e + left = r /\ c - r + e = l
          BY <1>2, <4>2
        <4> QED
          BY <4>1, <4>3, Zenon
      <3> DEFINE rest == SubSeq(buf, e + 1, bytesRead)
                 behind == SubSeq(stream, l + 1, total)
                 m == Least(left, aPosttextLen)
      <3>3. /\ rest \in Seq(Nat) /\ Len(rest) = left
            /\ \A k \in 1 .. left : rest[k] = buf[e + k]
        <4>1. e + left = bytesRead /\ buf \in Seq(Nat) /\ bytesRead <= Len(buf)
          BY <1>1, <3>2, Lengths DEF PositionTypeOK
        <4> QED
          BY <4>1, PartsBehind, Zenon
      <3>4. /\ behind \in Seq(Nat) /\ Len(behind) = total - l
            /\ \A k \in 1 .. total - l : behind[k] = stream[l + k]
        BY <1>1, <3>1, Rest, Zenon DEF PositionTypeOK
      <3> HIDE DEF rest, behind
      <3>5. m \in Nat /\ m <= left /\ m <= aPosttextLen /\ m <= total - l
        BY <3>2, Lengths DEF Least
      <3>6. m \in 0 .. Least(aPosttextLen, total - l)
        BY <3>1, <3>5, Lengths DEF Least
      <3>7. Remainder(rest) = SubSeq(rest, 1, m)
        BY <3>3, Zenon DEF Remainder
      <3> HIDE DEF m
      <3>8. SubSeq(rest, 1, m) = SubSeq(behind, 1, m)
        <4>1. /\ SubSeq(rest, 1, m) \in Seq(Nat) /\ Len(SubSeq(rest, 1, m)) = m
              /\ \A k \in 1 .. m : SubSeq(rest, 1, m)[k] = rest[k]
          BY <3>3, <3>5, Beginning
        <4>2. /\ SubSeq(behind, 1, m) \in Seq(Nat) /\ Len(SubSeq(behind, 1, m)) = m
              /\ \A k \in 1 .. m : SubSeq(behind, 1, m)[k] = behind[k]
          <5>1. m <= Len(behind)
            BY <3>4, <3>5
          <5> QED
            BY <3>4, <3>5, <5>1, Beginning
        <4>3. ASSUME NEW k \in 1 .. m PROVE rest[k] = behind[k]
          <5>1. /\ k \in 1 .. left /\ k \in 1 .. total - l /\ e + k \in 1 .. bytesRead
                /\ consumed - bytesRead + (e + k) = l + k
            <6>1. consumed \in Nat /\ bytesRead \in Nat
              BY <1>1 DEF PositionTypeOK
            <6> QED
              BY <3>2, <3>5, <6>1
          <5>2. buf[e + k] = stream[consumed - bytesRead + (e + k)]
            BY <2>3, <5>1, Zenon
          <5> QED
            BY <3>3, <3>4, <5>1, <5>2, Zenon
        <4> DEFINE x == SubSeq(rest, 1, m)
                   y == SubSeq(behind, 1, m)
        <4>4. /\ x \in Seq(Nat) /\ y \in Seq(Nat) /\ Len(x) = m /\ Len(y) = m
              /\ \A k \in 1 .. m : x[k] = y[k]
          BY <4>1, <4>2, <4>3, Zenon
        <4> HIDE DEF x, y
        <4>5. x = y
          BY <4>4, SameBytes
        <4> QED
          BY <4>5 DEF x, y
      <3> QED
        BY <1>3, <3>1, <3>6, <3>7, <3>8, Zenon DEF rest, behind
    <2> QED
      BY <1>3, <2>2, <2>3, <2>4 DEF NothingIsLost
  <1> QED
    BY <1>5, <1>6, <1>7 DEF PositionInv

LEMMA WaitsPosition == PositionInv /\ WaitsForMore => PositionInv'
  <1> SUFFICES ASSUME PositionInv, WaitsForMore PROVE PositionInv'
    OBVIOUS
  <1> USE DEF WaitsForMore
  <1>1. PositionTypeOK /\ IsBehind(Position, parsed)
    BY DEF PositionInv
  <1>2. buf' \in Seq(Nat) /\ Len(buf') = aChunkSize
    <2> DEFINE new(k) == IF k <= BytesLeft THEN buf[i + k] ELSE buf[k]
    <2>1. ASSUME NEW k \in 1 .. aChunkSize PROVE new(k) \in Nat
      <3>1. k <= BytesLeft => i + k \in 1 .. Len(buf)
        BY <1>1, Lengths DEF PositionTypeOK, BytesLeft
      <3> QED
        BY <1>1, <3>1 DEF PositionTypeOK
    <2>2. buf' = [k \in 1 .. aChunkSize |-> new(k)]
      BY Zenon
    <2> HIDE DEF new
    <2> QED
      BY <2>1, <2>2, Lengths
  <1>3. BytesLeft \in Nat /\ BytesLeft <= aChunkSize
    BY <1>1, Lengths DEF PositionTypeOK, BytesLeft
  <1>4. PositionTypeOK'
    BY <1>1, <1>2, <1>3 DEF PositionTypeOK
  <1>5. IsBehind(Position, parsed)'
    BY <1>1, PositionStays
  <1>6. NothingIsLost'
    BY DEF NothingIsLost
  <1> QED
    BY <1>4, <1>5, <1>6 DEF PositionInv

LEMMA PositionStepwise == PositionInv /\ [ParsePositionsNext]_posVars => PositionInv'
  <1> SUFFICES ASSUME PositionInv, [ParsePositionsNext]_posVars PROVE PositionInv'
    OBVIOUS
  <1>1. CASE UNCHANGED posVars
    <2>1. IsBehind(Position, parsed)'
      BY <1>1, PositionStays DEF posVars, positionVars, PositionInv
    <2>2. PositionTypeOK'
      BY <1>1 DEF posVars, positionVars, PositionInv, PositionTypeOK
    <2>3. NothingIsLost'
      BY <1>1 DEF posVars, positionVars, PositionInv, NothingIsLost
    <2> QED
      BY <2>1, <2>2, <2>3 DEF PositionInv
  <1>2. CASE Ends
    BY <1>1, <1>2 DEF Ends
  <1> QED
    BY <1>1, <1>2, ReadsPosition, ParsesSomePosition, FailsPosition, WaitsPosition
    DEF ParsePositionsNext

LEMMA PositionInvariant == ParsePositionsSpec => []PositionInv
  BY PositionInitially, PositionStepwise, PTL DEF ParsePositionsSpec

\* Where an error is said to be is where it is.
THEOREM ErrorsAreFound == ParsePositionsSpec => []ErrorsAreWhereTheyAre
  <1>1. PositionInv => ErrorsAreWhereTheyAre
    <2> SUFFICES ASSUME PositionInv, stage = "Failed", ~waited
                 PROVE  LET line == LastLine(parsed)
                            behind == SubSeq(stream, Len(parsed) + 1, Len(stream))
                        IN  /\ parsed = SubSeq(stream, 1, Len(parsed))
                            /\ mCurLineNumber = Cardinality(LineEnds(parsed))
                            /\ GetCurColNumber = Len(line) + 1
                            /\ \E m \in 0 .. Least(aPosttextLen, Len(behind)) :
                                  GetPrintableContext =
                                      LastOf(aPretextLen, line) \o FirstLine(SubSeq(behind, 1, m))
      BY DEF ErrorsAreWhereTheyAre
    <2> DEFINE behind == SubSeq(stream, Len(parsed) + 1, Len(stream))
    <2>1. /\ parsed = SubSeq(stream, 1, Len(parsed)) /\ Len(parsed) <= Len(stream)
          /\ \E m \in 0 .. Least(aPosttextLen, Len(stream) - Len(parsed)) :
                 remainder = SubSeq(behind, 1, m)
      BY DEF PositionInv, NothingIsLost
    <2>2. /\ window.mEndCounter = Len(LastLine(parsed))
          /\ ContentOf(window) = LastOf(aPretextLen, LastLine(parsed))
          /\ mCurLineNumber = Cardinality(LineEnds(parsed))
      <3>1. Position.window = window /\ Position.line = mCurLineNumber
        BY DEF Position
      <3> QED
        BY <3>1, Zenon DEF PositionInv, IsBehind
    <2>3. Len(behind) = Len(stream) - Len(parsed)
      <3>1. stream \in Seq(Nat) /\ Len(parsed) \in Nat
        BY DEF PositionInv, PositionTypeOK
      <3> QED
        BY <2>1, <3>1, Rest, Zenon
    <2>4. PICK m \in 0 .. Least(aPosttextLen, Len(behind)) : remainder = SubSeq(behind, 1, m)
      BY <2>1, <2>3, Zenon
    <2>5. GetPrintableContext =
              LastOf(aPretextLen, LastLine(parsed)) \o FirstLine(SubSeq(behind, 1, m))
      BY <2>2, <2>4, Zenon DEF GetPrintableContext
    <2>6. GetCurColNumber = Len(LastLine(parsed)) + 1
      BY <2>2, Zenon DEF GetCurColNumber
    <2> HIDE DEF behind
    <2>7. \E k \in 0 .. Least(aPosttextLen, Len(behind)) :
              GetPrintableContext =
                  LastOf(aPretextLen, LastLine(parsed)) \o FirstLine(SubSeq(behind, 1, k))
      BY <2>5, Zenon
    <2> QED
      BY <2>1, <2>2, <2>6, <2>7, Zenon DEF behind
  <1> QED
    BY <1>1, PositionInvariant, PTL

\* However much is pushed into the window, it shows the last of it and of what it showed before.
THEOREM WindowsSlide == ParsePositionsSpec => []WindowSlides
  <1>1. PositionInv => WindowSlides
    <2> SUFFICES ASSUME PositionInv, NEW data \in Pushes
                 PROVE  LET w == PushData(window, data)
                        IN  /\ ContentOf(w) = LastOf(aPretextLen, ContentOf(window) \o data)
                            /\ GetSize(w) = Len(ContentOf(w))
                            /\ w.mEndCounter = window.mEndCounter + Len(data)
      BY DEF WindowSlides
    <2>1. IsWindow(window)
      <3>1. Position.window = window
        BY DEF Position
      <3> QED
        BY <3>1, Zenon DEF PositionInv, IsBehind
    <2>2. data \in Seq(Nat)
      BY ParsePositionsAssumption
    <2> DEFINE w == PushData(window, data)
    <2>3. /\ IsWindow(w) /\ ContentOf(w) = LastOf(aPretextLen, ContentOf(window) \o data)
          /\ w.mEndCounter = window.mEndCounter + Len(data)
      BY <2>1, <2>2, PushedInOrder
    <2> HIDE DEF w
    <2>4. GetSize(w) = Len(ContentOf(w))
      BY <2>3, Contents
    <2> QED
      BY <2>3, <2>4 DEF w
  <1> QED
    BY <1>1, PositionInvariant, PTL
===============================================================================
