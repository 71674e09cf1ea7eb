------------------------------- MODULE Tokenizer -------------------------------
(***************************************************************************)
(* BfsdlParser::Token::Tokenizer: assembles the runs of symbols that the   *)
(* Symbolizer reports into tokens, and skips comments and white space.     *)
(*                                                                         *)
(* The Tokenizer is driven by reports (OnMappedSymbols).  A report         *)
(* evaluates the current state of a state machine, performs the transition *)
(* the state asked for, and repeats both with the same symbols as long as  *)
(* the state says so: a run that ends a word is evaluated again as the     *)
(* beginning of what follows the word.  A report is therefore a sequence   *)
(* of Evaluate and DoTransition steps, during which the observer of the    *)
(* tokens is told of words, control characters and literals and answers    *)
(* whether parsing should continue.                                        *)
(*                                                                         *)
(* The text of a run is abstracted to its category: what it says matters   *)
(* to the literal parsers and the observer only.  That the Symbolizer      *)
(* reports the maximal runs of the stream is the subject of Symbolizer.tla;*)
(* of a literal parser only the verdicts it can give on a run are used     *)
(* here.                                                                   *)
(***************************************************************************)
EXTENDS Integers, Sequences, LiteralVerdicts

CONSTANTS
    Inputs,      \* the categories that occur in the stream
    Consistent,  \* whether an observer that once refused goes on refusing
    MaxWord      \* bound: runs in a word

WordCategories == {"Letters", "DecimalDigits", "Underscore"}
NGraphCategories == {"Asterisk", "ForwardSlash"}
ControlCategories == {"Control", "Period"}
\* The categories added with concatenation.  Unmapped symbols are concatenated, too, but a run of
\* them ends with the chunk or the buffer, and another one can follow.
Concatenating == WordCategories \cup {"EndOfLine", "Whitespace"}
Categories == Concatenating \cup NGraphCategories \cup ControlCategories \cup
              {"Backslash", "DoubleQuotes", "Hash", "Operators", "Unknown"}

ASSUME TokenizerAssumption ==
    /\ Inputs \subseteq Categories
    /\ Consistent \in BOOLEAN
    /\ MaxWord \in Nat \ {0}

ParseStates ==
    {"CommentML", "CommentSL", "NGraph", "MainSequence", "NumericLiteral", "StringLiteral", "Word"}
None == "None"

VARIABLES
    mCurState, mNextState,       \* the state machine: its state, and the request or None
    symbols, keepParsing, reEvaluate, ngraphBuilder, ngraph, word,   \* mState
    mParseError,
    phase,     \* "Idle": between reports; "Evaluate", "DoTransition": in one;
               \* "Stopped": Parse returned false; "Ended": EndParsing returned
    ending,    \* EndParsing is flushing the Symbolizer
    told,      \* history: what the observer was last told, with a parity to tell repeats apart
    refused,   \* history: the observer answered false
    late,      \* history: how often the observer was told something after it had refused, up to 2
    block,     \* history: the word runs since the last run of another kind
    comment    \* history: the last two runs after the opening of a multi-line comment, or None

machineVars == <<mCurState, mNextState>>
ngraphVars == <<ngraphBuilder, ngraph>>
observerVars == <<told, refused, late>>
vars == <<machineVars, symbols, keepParsing, reEvaluate, ngraphVars, word, mParseError, phase,
          ending, observerVars, block, comment>>

Texts == Seq(Categories)

TypeOK ==
    /\ mCurState \in ParseStates /\ mNextState \in ParseStates \cup {None}
    /\ symbols \in Categories \cup {None}
    /\ keepParsing \in BOOLEAN /\ reEvaluate \in BOOLEAN /\ mParseError \in BOOLEAN
    /\ ngraphBuilder \in Seq(NGraphCategories) /\ Len(ngraphBuilder) <= 1
    /\ ngraph \in Seq(NGraphCategories) /\ Len(ngraph) <= 2
    /\ word \in Seq(WordCategories)
    /\ phase \in {"Idle", "Evaluate", "DoTransition", "Stopped", "Ended"}
    /\ ending \in BOOLEAN
    /\ told \in [text : Texts, parity : BOOLEAN]
    /\ refused \in BOOLEAN /\ late \in 0 .. 2
    /\ block \in Seq(WordCategories)
    /\ comment \in (Categories \cup {None}) \X (Categories \cup {None})

\* The constructor transitions to the main sequence.
Init ==
    /\ mCurState = "MainSequence" /\ mNextState = None
    /\ symbols = None
    /\ keepParsing = TRUE /\ reEvaluate = FALSE /\ mParseError = FALSE
    /\ ngraphBuilder = <<>> /\ ngraph = <<>> /\ word = <<>>
    /\ phase = "Idle" /\ ending = FALSE
    /\ told = [text |-> <<>>, parity |-> FALSE] /\ refused = FALSE /\ late = 0
    /\ block = <<>> /\ comment = <<None, None>>

-----------------------------------------------------------------------------
(* The observer, and the ways a handler ends *)

\* The observer is told text and answers whether parsing should continue.
Tell(text, answer) ==
    /\ Consistent /\ refused => ~answer
    /\ told' = [text |-> text, parity |-> ~told.parity]
    /\ refused' = (refused \/ ~answer)
    /\ late' = IF refused /\ late < 2 THEN late + 1 ELSE late
    /\ keepParsing' = answer

Transition(state) == mNextState' = state
Stay == UNCHANGED mNextState

Fail == mParseError' = TRUE /\ keepParsing' = FALSE

\* The current state is evaluated while one of the categories is at hand.
Evaluating(state, categories) ==
    /\ phase = "Evaluate" /\ mCurState = state /\ symbols \in categories
    /\ phase' = "DoTransition"
    /\ UNCHANGED <<mCurState, symbols, ending>>

-----------------------------------------------------------------------------
(* Digraphs *)

Digraph(builder) ==
    CASE builder \in {<<"ForwardSlash", "ForwardSlash">>, <<"ForwardSlash", "Asterisk">>,
                      <<"Asterisk", "ForwardSlash">>} -> "Complete"
      [] Len(builder) = 1 -> "NotComplete"
      [] OTHER -> "Error"

\* Mutant: the builder is not cleared.
ParseNGraphKeeping(builder) ==
    IF Digraph(builder) = "NotComplete"
    THEN ngraphBuilder' = builder /\ UNCHANGED ngraph
    ELSE ngraph' = builder /\ ngraphBuilder' = builder

\* ParseNGraph(false) on the builder's text; whatever is decided is moved out of the builder.
ParseNGraph(builder) ==
    IF Digraph(builder) = "NotComplete"
    THEN ngraphBuilder' = builder /\ UNCHANGED ngraph
    ELSE ngraph' = builder /\ ngraphBuilder' = <<>>

\* HandleNGraphEntryFromMainSequence for the digraph found.
HandleNGraph(found) ==
    \/ /\ found = <<"ForwardSlash", "ForwardSlash">>
       /\ Transition("CommentSL") /\ UNCHANGED <<keepParsing, mParseError>>
    \/ /\ found = <<"ForwardSlash", "Asterisk">>
       /\ Transition("CommentML") /\ UNCHANGED <<keepParsing, mParseError>>
    \/ /\ found \notin {<<"ForwardSlash", "ForwardSlash">>, <<"ForwardSlash", "Asterisk">>}
       /\ Fail /\ Stay

-----------------------------------------------------------------------------
(* The states' Evaluate handlers *)

\* Mutant: another symbol between the asterisk and the slash is overlooked.
CommentMLEvaluateForgetful ==
    /\ Evaluating("CommentML", Categories)
    /\ comment' = <<comment[2], symbols>>
    /\ IF symbols \in NGraphCategories
       THEN LET builder == Append(ngraphBuilder, symbols)
            IN /\ ParseNGraph(builder)
               /\ IF builder = <<"Asterisk", "ForwardSlash">> THEN Transition("MainSequence")
                  ELSE Stay
       ELSE UNCHANGED <<ngraphVars, mNextState>>
    /\ UNCHANGED <<keepParsing, reEvaluate, word, mParseError, observerVars, block>>

CommentMLEvaluate ==
    /\ Evaluating("CommentML", Categories)
    /\ comment' = <<comment[2], symbols>>
    /\ IF symbols \in NGraphCategories
       THEN LET builder == Append(ngraphBuilder, symbols)
            IN /\ ParseNGraph(builder)
               /\ IF builder = <<"Asterisk", "ForwardSlash">> THEN Transition("MainSequence")
                  ELSE Stay
       ELSE ngraphBuilder' = <<>> /\ UNCHANGED <<ngraph, mNextState>>
    /\ UNCHANGED <<keepParsing, reEvaluate, word, mParseError, observerVars, block>>

CommentSLEvaluate ==
    /\ Evaluating("CommentSL", Categories)
    /\ IF symbols = "EndOfLine" THEN Transition("MainSequence") ELSE Stay
    /\ UNCHANGED <<keepParsing, reEvaluate, ngraphVars, word, mParseError, observerVars, block,
                   comment>>

MainControl(answer) ==
    /\ Evaluating("MainSequence", ControlCategories)
    /\ Tell(<<symbols>>, answer)
    /\ Stay
    /\ UNCHANGED <<reEvaluate, ngraphVars, word, mParseError, block, comment>>

\* The state that the main sequence leaves to for the categories that begin something.
Begins(category) ==
    CASE category = "DoubleQuotes" -> "StringLiteral"
      [] category \in NGraphCategories -> "NGraph"
      [] category = "Hash" -> "NumericLiteral"
      [] category \in WordCategories -> "Word"

MainBegins ==
    /\ Evaluating("MainSequence", WordCategories \cup NGraphCategories \cup {"DoubleQuotes", "Hash"})
    /\ Transition(Begins(symbols))
    /\ UNCHANGED <<keepParsing, reEvaluate, ngraphVars, word, mParseError, observerVars, block,
                   comment>>

MainSkips ==
    /\ Evaluating("MainSequence", {"EndOfLine", "Whitespace"})
    /\ UNCHANGED <<mNextState, keepParsing, reEvaluate, ngraphVars, word, mParseError, observerVars,
                   block, comment>>

MainUnexpected ==
    /\ Evaluating("MainSequence", {"Backslash", "Operators", "Unknown"})
    /\ Fail
    /\ UNCHANGED <<mNextState, reEvaluate, ngraphVars, word, observerVars, block, comment>>

NGraphEvaluate ==
    /\ Evaluating("NGraph", NGraphCategories)
    /\ LET builder == Append(ngraphBuilder, symbols)
       IN HandleNGraph(builder)
    /\ ngraphBuilder' = <<>> /\ ngraph' = <<>>
    /\ UNCHANGED <<reEvaluate, word, observerVars, block, comment>>

\* One character is no digraph: what ParseNGraph(true) makes of it is an unexpected operator.
NGraphAlone ==
    /\ Evaluating("NGraph", Categories \ NGraphCategories)
    /\ HandleNGraph(ngraphBuilder)
    /\ ngraphBuilder' = <<>> /\ ngraph' = <<>>
    /\ reEvaluate' = keepParsing'
    /\ UNCHANGED <<word, observerVars, block, comment>>

LiteralContinues(state) ==
    /\ Evaluating(state, Categories)
    /\ "NotComplete" \in Verdicts(state, symbols)
    /\ UNCHANGED <<mNextState, keepParsing, reEvaluate, ngraphVars, word, mParseError, observerVars,
                   block, comment>>

LiteralIsMalformed(state) ==
    /\ Evaluating(state, Categories)
    /\ "Error" \in Verdicts(state, symbols)
    /\ Fail
    /\ UNCHANGED <<mNextState, reEvaluate, ngraphVars, word, observerVars, block, comment>>

LiteralIsComplete(state, answer) ==
    /\ Evaluating(state, Categories)
    /\ "Complete" \in Verdicts(state, symbols)
    /\ Tell(<<symbols>>, answer)
    /\ Transition("MainSequence")
    /\ UNCHANGED <<reEvaluate, ngraphVars, word, mParseError, block, comment>>

WordContinues ==
    /\ Evaluating("Word", WordCategories)
    /\ word' = Append(word, symbols)
    /\ UNCHANGED <<mNextState, keepParsing, reEvaluate, ngraphVars, mParseError, observerVars,
                   block, comment>>

\* Mutant: the state machine is not asked to leave the word.
WordEndsStaying(answer) ==
    /\ Evaluating("Word", Categories \ WordCategories)
    /\ Tell(word, answer)
    /\ block' = <<>>
    /\ reEvaluate' = TRUE
    /\ UNCHANGED <<mNextState, ngraphVars, word, mParseError, comment>>

WordEnds(answer) ==
    /\ Evaluating("Word", Categories \ WordCategories)
    /\ Tell(word, answer)
    /\ block' = <<>>
    /\ reEvaluate' = TRUE
    /\ Transition("MainSequence")
    /\ UNCHANGED <<ngraphVars, word, mParseError, comment>>

Evaluate ==
    \/ CommentMLEvaluate \/ CommentSLEvaluate
    \/ MainBegins \/ MainSkips \/ MainUnexpected
    \/ NGraphEvaluate \/ NGraphAlone
    \/ WordContinues
    \/ \E answer \in BOOLEAN : MainControl(answer) \/ WordEnds(answer)
    \/ \E state \in {"NumericLiteral", "StringLiteral"} :
          LiteralContinues(state) \/ LiteralIsMalformed(state)
    \/ \E state \in {"NumericLiteral", "StringLiteral"}, answer \in BOOLEAN :
          LiteralIsComplete(state, answer)

-----------------------------------------------------------------------------
(* The state machine *)

\* Mutant: the word before is still in mState.word.
EnterAppending ==
    /\ phase = "DoTransition" /\ mNextState # None
    /\ mCurState' = mNextState /\ mNextState' = None
    /\ word' = IF mNextState = "Word" THEN Append(word, symbols) ELSE word
    /\ IF mNextState = "NGraph" THEN ngraphBuilder' = <<symbols>> /\ ngraph' = <<>>
       ELSE UNCHANGED ngraphVars
    /\ comment' = IF mNextState = "CommentML" THEN <<None, None>> ELSE comment
    /\ UNCHANGED <<symbols, keepParsing, reEvaluate, mParseError, phase, ending, observerVars, block>>

\* The transition requested, with the Entry handler of the new state: the symbols at hand begin
\* a word or a digraph, and are not part of a literal or a comment.
Enter ==
    /\ phase = "DoTransition" /\ mNextState # None
    /\ mCurState' = mNextState /\ mNextState' = None
    /\ word' = IF mNextState = "Word" THEN <<symbols>> ELSE word
    /\ IF mNextState = "NGraph" THEN ngraphBuilder' = <<symbols>> /\ ngraph' = <<>>
       ELSE UNCHANGED ngraphVars
    /\ comment' = IF mNextState = "CommentML" THEN <<None, None>> ELSE comment
    /\ UNCHANGED <<symbols, keepParsing, reEvaluate, mParseError, phase, ending, observerVars, block>>

ReEvaluate ==
    /\ phase = "DoTransition" /\ mNextState = None
    /\ reEvaluate /\ ~mParseError
    /\ phase' = "Evaluate" /\ reEvaluate' = FALSE
    /\ UNCHANGED <<machineVars, symbols, keepParsing, ngraphVars, word, mParseError, ending,
                   observerVars, block, comment>>

Evaluated == phase = "DoTransition" /\ mNextState = None /\ (reEvaluate => mParseError)

-----------------------------------------------------------------------------
(* Parse and EndParsing *)

\* A run of a category that concatenates is maximal.
Follows(category) ==
    /\ category \in Inputs
    /\ category \in Concatenating => category # symbols

\* OnMappedSymbols and OnUnmappedSymbols are called with a run.
Receive(category) ==
    /\ Follows(category)
    /\ category \in WordCategories => Len(block) < MaxWord
    /\ symbols' = category
    /\ phase' = "Evaluate" /\ reEvaluate' = FALSE
    /\ block' = IF category \in WordCategories /\ mCurState \in {"MainSequence", "Word"}
                THEN Append(block, category) ELSE block
    /\ UNCHANGED <<machineVars, keepParsing, ngraphVars, word, mParseError, observerVars, comment>>

Report(category) ==
    /\ phase = "Idle"
    /\ Receive(category)
    /\ UNCHANGED ending

\* The Symbolizer goes on, unless keepParsing was returned as false; then so does Parse.
ReportReturns ==
    /\ Evaluated /\ ~ending
    /\ phase' = IF keepParsing THEN "Idle" ELSE "Stopped"
    /\ UNCHANGED <<machineVars, symbols, keepParsing, reEvaluate, ngraphVars, word, mParseError,
                   ending, observerVars, block, comment>>

\* Symbolizer::Parse returns false: the stream is not ASCII, or a run is too long.
SymbolizerFails ==
    /\ phase = "Idle"
    /\ mParseError' = TRUE /\ phase' = "Stopped"
    /\ UNCHANGED <<machineVars, symbols, keepParsing, reEvaluate, ngraphVars, word, ending,
                   observerVars, block, comment>>

\* "Do nothing else if an error was encountered".
EndParsingAfterError ==
    /\ phase = "Stopped" /\ mParseError
    /\ phase' = "Ended"
    /\ UNCHANGED <<machineVars, symbols, keepParsing, reEvaluate, ngraphVars, word, mParseError,
                   ending, observerVars, block, comment>>

\* EndParsing has the Symbolizer report the run it still holds.
EndParsingFlushes(category) ==
    /\ phase = "Idle" /\ category \in Concatenating
    /\ Receive(category)
    /\ ending' = TRUE

\* The Symbolizer holds no run: the last one was reported, or answered with false.
EndParsingFlushesNothing ==
    /\ phase \in {"Idle", "Stopped"} /\ ~mParseError
    /\ phase' = "DoTransition" /\ ending' = TRUE /\ reEvaluate' = FALSE
    /\ UNCHANGED <<machineVars, symbols, keepParsing, ngraphVars, word, mParseError,
                   observerVars, block, comment>>

Finish(states) ==
    /\ Evaluated /\ ending
    /\ mCurState \in states
    /\ phase' = "Ended"
    /\ UNCHANGED <<mCurState, symbols, reEvaluate, ending, comment>>

\* The last report failed, or the stream ends where it may.  An unterminated comment is logged.
EndsQuietly ==
    /\ Finish(ParseStates)
    /\ mParseError \/ mCurState \in {"CommentSL", "CommentML", "MainSequence"}
    /\ UNCHANGED <<mNextState, keepParsing, ngraphVars, word, mParseError, observerVars, block>>

EndsInNGraph ==
    /\ Finish({"NGraph"}) /\ ~mParseError
    /\ HandleNGraph(ngraphBuilder)
    /\ ngraphBuilder' = <<>> /\ ngraph' = <<>>
    /\ UNCHANGED <<word, observerVars, block>>

EndsInLiteral ==
    /\ Finish({"NumericLiteral", "StringLiteral"}) /\ ~mParseError
    /\ mParseError' = TRUE
    /\ UNCHANGED <<mNextState, keepParsing, ngraphVars, word, observerVars, block>>

\* Mutant: the pending word is forgotten.
EndsInWordSilently(answer) ==
    /\ Finish({"Word"}) /\ ~mParseError /\ answer = TRUE
    /\ UNCHANGED <<mNextState, keepParsing, ngraphVars, word, mParseError, observerVars, block>>

EndsInWord(answer) ==
    /\ Finish({"Word"}) /\ ~mParseError
    /\ Tell(word, answer)
    /\ block' = <<>>
    /\ UNCHANGED <<mNextState, ngraphVars, word, mParseError>>

EndOfStream ==
    \/ EndsQuietly \/ EndsInNGraph \/ EndsInLiteral
    \/ \E answer \in BOOLEAN : EndsInWord(answer)

\* The steps of a call that is under way.
Progress == Evaluate \/ Enter \/ ReEvaluate \/ ReportReturns \/ EndOfStream

\* The Tokenizer serves one stream.
Terminated == phase = "Ended" /\ UNCHANGED vars

Next ==
    \/ \E category \in Categories : Report(category) \/ EndParsingFlushes(category)
    \/ SymbolizerFails \/ EndParsingAfterError \/ EndParsingFlushesNothing
    \/ Progress
    \/ Terminated

Safety == Init /\ [][Next]_vars

\* The code of a call that was made runs on; nothing obliges the owner to make one.
Spec == Safety /\ WF_vars(Progress)

-----------------------------------------------------------------------------
(* Properties *)

\* A word is told exactly as it stands in the stream, with all the runs it is made of and no
\* other.
WordsAreWhole ==
    [][told' # told /\ mCurState = "Word" => told'.text = block]_vars

\* Between reports the runs of a word are all waiting in mState.word, and a stream that was
\* parsed without error or refusal has been told with its last word.
NoWordLost ==
    /\ phase = "Idle" => block = IF mCurState = "Word" THEN word ELSE <<>>
    /\ phase = "Ended" /\ ~mParseError /\ ~refused => block = <<>>

\* A multi-line comment is ended by an asterisk and a slash of its own: the asterisk that opened
\* it does not count.
CommentEndsItself ==
    [][mCurState = "CommentML" /\ mCurState' # "CommentML" =>
          comment = <<"Asterisk", "ForwardSlash">>]_vars

\* Parsing has failed, or Parse has returned false; so it has, too, when EndParsing finds a refusal.
HasStopped == mParseError \/ phase = "Stopped" \/ (ending /\ ~keepParsing)

\* When parsing has failed, or Parse has returned false, it stays so, and the observer is told nothing
\* more: not by the rest of the report, not by the flush with which EndParsing begins, and not by the
\* state in which EndParsing finds the tokenizer.
SilentAfterStop == [][HasStopped => HasStopped' /\ told' = told]_vars

\* ITokenObserver: the observer's answer is whether parsing should continue.
RefusalStops == phase = "Idle" => ~refused

\* The symbol that ended the word an observer refused can still be told, and nothing else.
AtMostOneAfterRefusal == late <= 1

\* A report, and EndParsing, return: no run is evaluated again for ever.
EveryCallReturns == phase \in {"Evaluate", "DoTransition"} ~> phase \in {"Idle", "Stopped", "Ended"}
=============================================================================
