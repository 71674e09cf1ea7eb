----------------------------- MODULE StreamParser -----------------------------
(***************************************************************************)
(* BfsdlParser::ParseStream: reads a stream in chunks and hands them to a  *)
(* Tokenizer, whose observer is an Interpreter.  Where a chunk ends makes  *)
(* no difference to the runs the Tokenizer is given (see Symbolizer.tla),  *)
(* so the chunks are left out.  ParseStream does not call EndParsing.      *)
(*                                                                         *)
(* The text of a token is chosen when the token is told: the Tokenizer's   *)
(* model knows the categories of its runs only.                            *)
(***************************************************************************)
EXTENDS Integers, Sequences

CONSTANTS
    Inputs, MaxWord,                                                  \* of the Tokenizer
    Words, Formats, Numerals, NumericLiterals, StringLiterals, Codings, Controls,
    UlongMax, MaxFields                                               \* of the Interpreter

VARIABLES
    \* the Tokenizer's
    tokenizerState, mNextState, symbols, keepParsing, reEvaluate, ngraphBuilder, ngraph, word,
    tokenizerError, phase, ending, told, refused, toldLate, block, comment,
    \* the Interpreter's
    interpreterState, mHeaderStreamProgress, mIdentifier, mCurBitBase, interpreterError, mBitBase,
    mIdentParsed, mComplete, mProps, properties, fields, observedLate, statements,
    result     \* of ParseStream, or "None" while it runs

T == INSTANCE Tokenizer WITH
    Consistent <- TRUE,
    mCurState <- tokenizerState, mParseError <- tokenizerError, late <- toldLate

I == INSTANCE Interpreter WITH
    mCurState <- interpreterState, mParseError <- interpreterError, late <- observedLate

\* The Tokenizer's alphabet, and the period among the characters it can tell the Interpreter of.
ASSUME StreamParserAssumption ==
    /\ Inputs \subseteq T!Categories /\ MaxWord \in Nat \ {0}
    /\ "." \in Controls

tokenizerVars == <<tokenizerState, mNextState, symbols, keepParsing, reEvaluate, ngraphBuilder,
                   ngraph, word, tokenizerError, phase, ending, told, refused, toldLate, block,
                   comment>>
interpreterVars == <<interpreterState, mHeaderStreamProgress, mIdentifier, mCurBitBase,
                     interpreterError, mBitBase, mIdentParsed, mComplete, mProps, properties,
                     fields, observedLate, statements>>
vars == <<tokenizerVars, interpreterVars, result>>

Init == T!Init /\ I!Init /\ result = "None"

\* What the Tokenizer does in Parse, not in EndParsing.
TokenizerSteps ==
    \/ \E category \in T!Categories : T!Report(category)
    \/ T!SymbolizerFails
    \/ T!Evaluate \/ T!Enter \/ T!ReEvaluate \/ T!ReportReturns

\* The Interpreter's method for the token that was told.
Observes ==
    \/ told'.text = <<"Control">> /\ \E value \in Controls \ {"."} : I!Evaluate("Control", value)
    \/ told'.text = <<"Period">> /\ I!Evaluate("Control", ".")
    \/ told'.text = <<"Hash">> /\ \E value \in NumericLiterals : I!Evaluate("NumericLiteral", value)
    \/ /\ told'.text = <<"DoubleQuotes">>
       /\ \E value \in StringLiterals : I!Evaluate("StringLiteral", value)
    \/ told'.text[1] \in T!WordCategories /\ \E value \in Words : I!Evaluate("Word", value)

\* Mutant: the Interpreter answers as if it had not failed.
ParsesUnheeded ==
    /\ result = "None"
    /\ TokenizerSteps
    /\ IF told' = told THEN UNCHANGED interpreterVars ELSE Observes /\ keepParsing' = TRUE
    /\ UNCHANGED result

Parses ==
    /\ result = "None"
    /\ TokenizerSteps
    /\ IF told' = told THEN UNCHANGED interpreterVars ELSE Observes /\ keepParsing' = ~interpreterError'
    /\ UNCHANGED result

\* Mutant: the loop goes on to the next chunk after a chunk that failed.
ReturnsIgnoring ==
    /\ result = "None" /\ phase \in {"Idle", "Stopped"}
    /\ result' = "Success"
    /\ UNCHANGED <<tokenizerVars, interpreterVars>>

\* Nothing more can be read, for the stream has ended, or failed.
ReturnsAtEnd ==
    /\ result = "None" /\ phase = "Idle"
    /\ result' \in {"Success", "Failure"}
    /\ UNCHANGED <<tokenizerVars, interpreterVars>>

ReturnsOnError ==
    /\ result = "None" /\ phase = "Stopped"
    /\ result' = "Failure"
    /\ UNCHANGED <<tokenizerVars, interpreterVars>>

Next == Parses \/ ReturnsAtEnd \/ ReturnsOnError

Spec == Init /\ [][Next]_vars

-----------------------------------------------------------------------------
(* Properties *)

\* ParseStream does not succeed when the Interpreter or the Tokenizer has found an error, not
\* even when the error is found in a word that only a later run brought to an end.
ErrorsAreReported == result = "Success" => ~interpreterError /\ ~tokenizerError

\* With this Tokenizer the Interpreter is used as Interpreter.tla expects: after an error it is
\* told one more token at the most, and that one a control character.
UsesInterpreter == I!Spec

=============================================================================
