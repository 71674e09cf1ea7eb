# Verification of bfdm

bfdm reads a specification of a binary data format (written in BFSDL, the Binary Format
Specification and Description Language), builds a tree of settings and fields from it, and
parses binary data with that tree.  This directory holds TLA+ models of its parts, configurations
with which TLC checks them on small instances, and proofs about them that TLAPS checks for every
instance.

All paths below are relative to `src/pkg` unless they say otherwise.  "Draft" is the language's
description, `src/documentation/BFSDL_spec_draft.md`.

## 1. The system

```
  command line --> BFDP_app_main --ArgParser--> CmdParse / CmdValidateSpec
                                                    |
  std::istream --chunks--> ParseStream  <-----------+   (ParsePosition counts lines for messages)
                               | Parse(bytes)       |
                               v                    |
                           Tokenizer  --Parse--> Symbolizer --AddCategory/GetSymbol--> converters
                               |   ^                |     |
                               |   +-- OnMappedSymbols / OnUnmappedSymbols (runs of symbols)
                               |  (state machine: Engine)  (NumericLiteralParser, StringLiteralParser)
                               v                    |
                           OnControlCharacter / OnNumericLiteral / OnStringLiteral / OnWord
                               v                    |
                           Interpreter (state machine: Engine) --> NumericFieldBuilder
                               | Add(property), Add(field)
                               v                    |
                             Tree  --fields--> StreamDataObserver <--chunks of bits-- RawStream
                                                    |
                                          NumericValueBuilder --> printed values
```

Everything runs on one thread.  What makes it hard is that almost every call is answered by a
callback before it returns, and that the callback's answer (`false`: stop; a request for a
transition) is state that the caller uses later, possibly after another callback has changed it.
Streams come in chunks, so every parser is also a machine that has to survive being left in the
middle of a word, of a comment, of an escape or of a field.  Parsers and builders are reused, so
each has to be rid of what it did before.  Nothing is persisted and nothing is sent: there are no
crashes to recover from and no messages to lose.  Errors are sticky flags; the hard part is that
nothing happens after them.

| Component | State | Operations | Correct when |
|---|---|---|---|
| State machine engine, `Bfdp/source/StateMachine/{Engine,State}.cpp` | current state, next state and a pending flag, an action list per state and trigger | `InitStates`, `AddAction`, `Transition`, `EvaluateState`, `DoTransition`; actions call `Transition` back | Exit and Entry of states are paired; a request made during a transition waits; calls return with no request pending and a truthful result |
| Symbolizer, `Bfdp/source/Lexer/Symbolizer.cpp` and the categories | category map with a cached entry, a buffer of symbols of one category | `AddCategory`, `Parse`, `EndParsing`, `Reset`; the observer may veto | the observer is told the maximal runs of the stream, once each, in order, however the stream is cut into chunks |
| Tokenizer, `BfsdlParser/source/Token/Tokenizer.cpp` | an engine with six states, a word, a digraph and its builder, `keepParsing`, `reEvaluate`, `mParseError` | `Parse`, `EndParsing`, reports of runs | words whole, nothing skipped, comments end where they should, silence after an error or a refusal, every call returns |
| Literal parsers, `Token/{Numeric,String}LiteralParser.cpp`, `Bfdp/source/Data/StringMachine.cpp`, `Objects/NumericLiteral.cpp` | an engine each, the literal being built | `ParseSymbols`, `GetParseResult`, `Reset` | the value is the one the text denotes; nothing of an earlier literal is left; well-formed text is accepted |
| Interpreter, `Token/Interpreter.cpp` | an engine with eight states, progress of the header, last identifier, bit base, `mParseError`, the builder | the four callbacks of `ITokenObserver` | settings once each and before fields; fields as declared; nothing after an error |
| Numeric fields, `Objects/Numeric*.cpp` | builder: bit base, flags, widths | `ParseIdentifier`, `ParseSuffix`, `Reset`, `GetField` | no width over 64 bits, no field made of another's parts |
| Tree, `Objects/{Tree,Database,Property,Field}.cpp` | properties by name, fields in order | `Add`, `Find`, iteration | one property per name, order kept |
| Stream parser, `StreamParser.cpp`, `ParsePosition.cpp` | read buffer, position for messages and a window on the text before it | `ParseStream` | an error of any part is the result, and its line, column and context are the stream's |
| Bit streams, `Bfdp/source/Stream/*.cpp` | buffer, position in bits, done flags | `Start`, `Continue`, `End`, `ReadStream` | every bit is offered once, in order; progress or an error |
| Data parser, `BfdpApp/source/App/CmdParse.cpp`, `Objects/NumericValueBuilder.cpp` | frame of fields, the field being read, the value so far | `OnStreamData`, `ParseBits` | no field takes another's bits, each value is its field's bits |
| String fields, `Objects/{StringFieldBuilder,StringField,PStringField,FStringField}.cpp` | identifier, attributes, defaults | `ParseIdentifier`, `ParseStringAttribute`, `Finalize`, `GetField`, `Reset` | a field is what its own attributes and the defaults describe |
| Unicode, `Bfdp/source/Unicode/*.cpp` | none, and an iterator's position | conversion of a code point to and from bytes, iteration | round trip; malformed bytes are an error and nothing is skipped |
| Bit manipulation, `Bfdp/source/BitManip/*.cpp` | a buffer and a position | reads and writes of bits and digits | equal to a sequence of bits; no silent overflow |
| Data utilities, `Bfdp/source/Data/*.cpp` | a window on the last bytes, blocks of memory | `PushData`, `GetByte`, ... | the window is the last bytes |
| Console, `Bfdp/source/Console/*.cpp` | remaining parameters, index, flags | `Parse`, `AddParam`, callbacks of parameters | a value belongs to the parameter it stands behind |
| Application, `BfdpApp/source/App/*.cpp` | stage, exit code | `BFDP_app_main`, the commands | success means that the data was read to its end |
| Error reporter and algorithms | see `PROJECT.json` | | |

`PROJECT.json` lists all components with what is modelled of each, and under `hazards` every place
where the code can go wrong in a way that a unit test would hardly reach, with the properties that
cover it.

## 2. The modules

| Module | Models | Uses |
|---|---|---|
| `TransitionSlots` | abstract: one active state, one transition under way, one request waiting | |
| `Engine`, `MCEngine`, `EngineProofs` | `StateMachine::Engine` | implements `TransitionSlots` |
| `Symbolizer`, `MCSymbolizer`, `SymbolizerProofs` | `Lexer::Symbolizer` | |
| `Tokenizer`, `MCTokenizer`, `TokenizerProofs` | `Token::Tokenizer` | `LiteralVerdicts` for the literal parsers |
| `LiteralVerdicts` | what a literal parser can answer | |
| `Symbols`, `Digits` | symbols, categories and runs; radices, digits, integers of a width | |
| `NumericLiteralParser`, `StringLiteralParser` | the two parsers, with `NumericLiteral` and `StringMachine` | `Symbols`, `Digits`, `Codecs` |
| `Literals`, `MCLiterals`, `TextsProofs` | the parsers in the hands of the Tokenizer, literal after literal | both parsers; checked against `LiteralVerdicts` |
| `SpecificationTree` | abstract: settings, then a seal, then fields, until an error | |
| `Interpreter`, `MCInterpreter`, `InterpreterProofs` | `Token::Interpreter`, `NumericFieldBuilder`, `Tree::Add` | implements `SpecificationTree` |
| `StreamParser`, `MCStreamParser`, `StreamParserProofs` | `ParseStream` on runs | composes `Tokenizer` and `Interpreter`, and checks what `Interpreter` assumes of its caller |
| `ParsePositions`, `MCParsePositions`, `StreamParserProofs` | `ParseStream` on bytes, with `ParsePosition` and `ByteWindow` | an arbitrary tokenizer |
| `BitStream`, `MCBitStream`, `ApplicationProofs` | `Stream::StreamBase`, `RawStream`, the position of `GenericBitStream` | an arbitrary observer |
| `DataParser`, `MCDataParser`, `ApplicationProofs` | `StreamDataObserver`, `NumericValueBuilder`, reading of `GenericBitStream` | implements the observer of `BitStream` |
| `ArgParser` | `Console::ArgParser` and `Param`, as operators | |
| `Application`, `MCApplication`, `ApplicationProofs` | `BFDP_app_main`, `CmdParse`, `CmdValidateSpec` | composes `ArgParser` and `DataParser` |
| `Codecs` | the converters of `Unicode` | |
| `StringFields` | `StringFieldBuilder`, `CodingMap` | `Codecs` |
| `FieldTexts`, `MCFieldTexts`, `TextsProofs` | `Unicode::IteratorBase`, texts in every coding | `StringFields`, `Codecs` |
| `SetInduction` | nothing: induction over numbers, and sums, for the proofs | |

Operators whose names begin with another operator's and whose comment begins with "Mutant" are
variants with one plausible bug.  They belong to no specification; they are there to show, one
per property, that the property notices the bug (`mutants` in `PROJECT.json`).

### Engine
`mCurState`, `mNextState`, `mNextStatePending` and `mNumStates` are the members of those names;
`mStates` counts the actions of each list, since the actions are the application's.  A call of
`EvaluateState` or `DoTransition` is a sequence of steps: `phase` is the place in the loop of
`DoTransition` (Engine.cpp:92-111) or the list that is running, `nextAction` the iterator,
`targetState` and `transitionOccurred` the locals.  While a list runs, `RequestByAction` may call
`Transition` between any two actions; between calls `RequestBetweenCalls` and `AddAction` may
happen.  Not modelled: failing allocations, and an action that re-enters the engine (no state map
of the repository does).

### Symbolizer
One step is one symbol stored or one report: `Boundary`, `FlushUnknown`, `Store`, `StoreAlone`,
`SymbolTooBig`, `ConversionFails` and `ChunkEnd` are the branches of the loop of `Parse`
(Symbolizer.cpp:112-243).  The conversion can fail for bytes that are malformed, anywhere in a chunk, and
for a symbol that the chunk cuts off.  The stream is revealed symbol by symbol; `ahead` is the symbol at the
position the owner resumes from, so that a parse that was vetoed sees the same symbol again.
Symbols have widths in bytes, so that chunks can cut them.  The histories `read`, `reports` and
`delivered` say what the stream was and what the observer was told.  `NextOperation` is the owner
starting over, with `Reset` where the header asks for it.

### Tokenizer
A report of a run evaluates the current state and performs the transition, as often as the state
asks for the run to be evaluated again (Tokenizer.cpp:273-294): `Evaluate`, `Enter`, `ReEvaluate`
and `ReportReturns` are the steps in between.  One action per handler and outcome.  A run is
abstracted to its category.  `told` is the last token told and a parity that changes with each;
`refused` and `late` say what the observer answered; `block` collects the runs of the word that
stands at the stream's position independently of the code's `word`; `comment` the last two runs of
a comment.  The literal parsers appear as the verdicts they can return for a run of a category
(`Verdicts`).  With `Consistent` the observer goes on refusing once it has, as the Interpreter
does; without, it answers each token by itself, as `ITokenObserver` allows.

The engine's part in this is abstracted to `mCurState` and `mNextState`: a handler requests at most
one transition and no Entry or Exit handler requests one, so that the general loop of `Engine`
comes down to one step `Enter`.

### Interpreter
One action per handler and outcome; a token is observed in one step, with the Exit and Entry
handlers of the transition it causes.  Words are model values: `Formats` and `Numerals` say what
the code reads in them.  `statements` is a history of the formats as they were written, against
which the fields are compared.  Misplaced header keywords are logged and dropped, as
`BFDP_RETURNIF_E` does (`HeaderKeywordMisplaced`).  `CalcBits` saturates as `strtoul` does and wraps
as the multiplication does, at `UlongMax`.

### StreamParser
The variables of `Tokenizer` and `Interpreter` side by side.  A step of the Tokenizer that tells a
token is at the same time the Interpreter's evaluation of a token of that kind, and the answer that
the Tokenizer goes on with is the Interpreter's (`Parses`).  The text of the token is chosen then.
Chunks are left out: `Symbolizer`'s `ReportsAreTheRuns` says that they leave no trace in the runs,
but for pieces of uncategorized text, of which the first piece is an error already.
`result` is what `ParseStream` returns.

### BitStream
`phase` is the place in `ReadStream`: before a call of `ReadSequenceContinue`, at the head of its loop,
in the callback, behind the loop.  `ReadSequenceContinue`, `OnStreamData`, `NothingToOffer` and
`Returns` are the loop (StreamBase.cpp:97-143); `Interrupted`, `Exhausted`, `Overflows` and `Refills`
are the ways on from behind it (145-226), each with the update of the totals and the move of the
unread bytes that the code does first.  The observer may read any number of bits (`Reads`), seek
back (`SeeksBack`) and return any control.  Bytes are the numbers of the input's bytes, `taken` is
the history of the bits that were read.  The totals are kept as the code does, in whole bytes and the bits
beyond them (`Count`).  The input may fail at any read.

### Literals
A literal is a text that follows the opening symbol, cut into the runs that the Symbolizer would report
(`RunAt`).  `StateNumericLiteralEntry` and `StateStringLiteralEntry` are the Entry handlers with the parser's
`Reset`; `StateNumericLiteralEvaluate` and `StateStringLiteralEvaluate` are one run each.  The parsers are operators
from a record of their members to the next (`NumericParseSymbols`, `StringParseSymbols`), one operator per
handler of their state machines.  When a string is complete the observer reads it (`StringIsRead`) or does not
(`StringIsIgnored`): `StringMachine::Reset` does not empty the buffer, so text nobody read stays in it, and `ahead`
is the history of that text.  Numbers have `UintBits` bits.  The references are definitions of what the draft
says a number and a string are (`IsReading`, `PlaceValue`, `StringOf`), written without looking at runs or states.

### ParsePositions
The other side of `ParseStream`: `Reads`, and the answers of `Tokenizer::Parse` to what is in the buffer
(`ParsesSome`, `FailsBehind`, `WaitsForMore`), each with `ParsePosition::ProcessNewData` or
`ProcessRemainderData` as the code calls them.  The tokenizer is arbitrary: it takes any number of bytes and may
fail anywhere.  The window is `ByteWindow` with its head and its two counters; `WindowSlides` pushes data
that is longer and shorter than the window into every window that occurs.

### DataParser
The arbitrary observer of `BitStream` is replaced by `StreamDataObserver`.  The branches of its loop are
`NoFieldsToParse`, `CyclesToFirstField`, `FieldFails`, `Parse` and `ReturnsForMore`.  What a bit's value is
does not matter, only which bit of the input ends up where: a bit of `mValue` is the number of a bit of the
input, or `Zero`.  `ReadBits` copies as `CopyBits` does, run by run; `ParseBits` extends the sign from the first
piece and puts each piece below those before it.  `printed` is the history of the values.

### Application
`stage` is the command that has control, `argv` its arguments.  `ParsesArguments` is one round of the argument loop
(the operators are `ArgParser`'s, one per method); the ends of the loop are `RefusesArguments`, `RunsCommand`, `HelpsOrTests`,
`RefusesCommand`, `CmdValidateSpec`, `CmdParseFails`, `RefusesSpecification` and `ReadsSpecification`; `ReadStream` is a step of
`DataParser`, and `DataIsRead` is what the command makes of the result.  An argument is a form and a name, since nothing
else of its text counts.  What a specification file says is chosen when it is read: refused, or the fields of
one of `Roots`.  The value of a parameter with nothing behind it is made of the null pointer that ends `argv`
(`ArgParser.cpp:164` counts it): the stage is then `Crashed`.

### StringFields and FieldTexts
The methods of the builder are called in any order (`BuilderNext`), between a text's iterations none.
`declared` is the history of what was accepted since the last `Reset`, against which the field is compared
(`Described`), and `lengthLeft` says whether a pstring was refused that had set its length already, which is
the one thing that a refused call leaves.  A terminator can be any code point, `InvalidCodePoint` (0xFFFF)
included, which the builder takes for "none".  Names of codings are a family, a dash and a page, which is all that the map compares.  In `FieldTexts` a
text is opened in a coding, either made of code points with that coding's converter or of arbitrary bytes;
`Dereference`, `PreIncrement`, `PostIncrement` and `IsValid` come in any order, with the conversion done when the code does it.
`unseen` is set when a code point was passed that nobody converted: the size to advance by is then zero.

## 3. What is checked

| Run | Shows | Bounds, and why they are enough |
|---|---|---|
| `engine` | types, paired Entry and Exit (`ToldOnlyOfCurrentState`), calls return, and the refinement of `TransitionSlots` | 3 states: a request can name the state left, the one entered and a third; 3 actions in the lists; 2 requests per call: an Exit and an Entry action can both ask |
| `symbolizer` | every symbol reported once and in order (`DeliveredOnce`), the reports are the stream's maximal runs (`ReportsAreTheRuns`) | streams of 6 bytes in chunks of up to 3, a buffer of 2 symbols (overflow, flush), a category in two parts, a symbol of two bytes (cut by a chunk), a non-concatenating category, a symbol of none |
| `tokenizer` | words whole and none lost, comments end with their own end, at most one token after a refusal by a consistent observer, every call returns | all kinds of category that are handled differently; words of up to 3 runs (a first, a middle and a last) |
| `literals` | numbers and strings mean what their text says, well-formed ones are accepted, and the verdicts are those that `Tokenizer` assumes | all texts of up to 4 symbols of the classes the parsers tell apart, longer ones for every escape and for the limits of an 8-bit integer; two literals in a row where they have up to 6 symbols, one left unread |
| `interpreter` | fields have their statement's sign and widths in units of the bit base in force, no statement is lost, and the refinement of `SpecificationTree` | formats at, below and over both limits (0, 1, 8, 64, 65), saturating and non-numeric ones, suffixes 1, 7 and 64; 2 fields, so that one statement can leave something for the next |
| `stream_parser` | no success after an error of either part, and the Tokenizer uses the Interpreter as `Interpreter` assumes | words of up to 2 runs, one setting, one field |
| `parse_positions` | an error's line, column and context are those of the byte behind which the Tokenizer failed (`ErrorsAreWhereTheyAre`), and a window shows the last bytes (`WindowSlides`) | all streams of up to 5 bytes with both newlines and two letters, and all of 7 with one newline and one letter: two chunks of 3 and one more; a context of 2 bytes before and behind, which lines are shorter and longer than |
| `bit_stream` | the buffer is never overrun, the totals are the bits that were taken, every read ends | bytes of 2 bits (a position within a byte), chunks of 2 bytes, inputs of up to 3 chunks: shorter than a chunk, whole chunks, and one more than the buffer holds |
| `bit_stream_order` | violation: bits are skipped when unread data is moved | as above |
| `data_parser_bits` | violation: a field that crosses a byte and does not begin with one loses bits | bytes of 3 bits, inputs of up to 8 bytes, values of up to 6 bits, up to 2 fields of every width |
| `application` | no value has a bit that was read for another one and each field gets as many bits as it has (`ValuesAreOfTheirBits`), fields that begin with a byte or fit in one have their value, the values of arguments are the ones written, success means all data was read, the parse command is an observer as `BitStream` assumes, and every run of the program ends | as above with inputs of up to 7 bytes; for each command the lines of up to 4 options in every form, with and without their values |
| `field_texts` | texts are read as they were written, nothing is skipped, a field is what its attributes describe, a finished field stays | code points on both sides of every limit of the codings, up to 3 in a text; byte strings that begin, continue and break UTF-8 sequences; 4 advances; builder calls in any order without bound |

`MaxRequests`, `MaxStream`, `MaxChunk`, `MaxWord`, `MaxFields`, `MaxUnread`, `MaxPair` and `MaxIndex` are the
models' bounds; each is a guard of the action that would pass it and is named in its module.  `Roots`,
`ArgVs`, `Readable`, `Streams`, `Pushes`, `Texts`, `Bytes`, `CodingNames`, `TermChars`, `NumericTexts` and `StringTexts`
are the inputs that a run chooses from.  In `Symbolizer` `MaxLength` is the code's own limit, in `BitStream` the
bound on the input.  `UintBits`, `MaxValueBits`, `UlongMax` and `BitsPerByte` are widths, reduced so that their limits are reached.
No symmetry is used: the constants differ in meaning.

Deadlock is checked in `engine`, `symbolizer`, `tokenizer`, `bit_stream`, `parse_positions`, `application` and
`field_texts`, some of which have a step for having ended.  The Interpreter, `ParseStream` and the literals may
stop: after an error nothing more is observed, with `MaxFields` fields the model takes no more, `ParseStream` returns
once, and there is no third literal.

### Fairness
`Engine` and `Tokenizer` assume weak fairness of `Progress`, the steps of a call that is under
way: a single thread runs on through code that does not block.  Nothing is assumed about the
owner: it need not make a call, deliver a chunk or end the parse.  `EveryCallReturns` is therefore a
statement about the loops of `DoTransition` and of the repeated evaluation.  In `Engine` it depends
on the actions making finitely many requests (`MaxRequests`): actions that keep asking do keep the
engine going, in the code as well.  `BitStream` assumes that `ReadStream` runs on and that
the observer returns (`WF_vars(ObserverReturns)`), not that it reads: `EveryReadEnds` says that even an
observer that takes nothing and asks to continue comes to an end.  `DataParser` assumes that the observer's code runs on;
that it returns is then shown (`ImplementsObserver` includes `BitStream`'s fairness).  `Application` assumes that
the program runs on: its only input has a length.  `TransitionSlots` assumes that a transition under way is
completed, which `Engine` is shown to implement, liveness included, by TLC.

### Where code and documents differ
The two runs that end in a violation each check one sentence of a comment that
the code does not live up to; `findings` in `PROJECT.json` quotes them.
1. When an observer leaves data unread, or has read a whole chunk, the buffer's unread bytes move to its
   beginning but `mBufferPositionBits` stays (StreamBase.cpp:176-180; StreamBase.hpp:148 says that it is
   the position of the unprocessed data from the beginning).  Bits are skipped, or the next call fails
   with "seek position out of sync".  Inputs below one chunk, 4096 bytes, are not affected; longer ones never are
   parsed to their end by the parse command, which reports an error (`SuccessReadsAllData`).
2. `GenericBitStream::ReadBits` limits a step of copying by what is left of the input's byte and not by what
   is left of the output's: a field that begins within a byte and is wider than one loses bits
   (GenericBitStream.cpp:153).  `WholeOrNarrowFieldsAreRead` says which fields are not affected.

The models contain more places where a comment or the draft says something else than the code.  Properties
are stated so that they hold of the code, and say what they except:
* `Symbolizer.cpp:221`: a symbol that does not concatenate and whose report is answered with `false` is
  reported twice to an owner that follows Symbolizer.hpp:80-81.  `VetoesOnlyRuns` excludes it; the Tokenizer gives up
  after `false`.
* `Tokenizer.cpp:252`: `false` from `OnWord` does not stop the parse if the character that ends the word is
  answered with `true` (ITokenObserver.hpp:81).  With `Consistent = FALSE` TLC shows it; the Interpreter goes on refusing.
* `Tokenizer.cpp:369`: `/* ... **/` does not end the comment (draft, 290): `CommentEndsItself` is about the last two
  runs as the digraph pairs them.
* `NumericFieldBuilder.cpp:186`: the product of a type's number and the bit base can wrap to a small number (the
  comment says that it stays huge).  A format of 8193 bytes, with `UlongMax = 65535`, refutes `FieldsAsDeclared`; the
  formats of the run do not wrap, which is `NumbersFit` in the proof.
* `StreamParser.cpp:161`: the end of the stream does not end a statement (draft, 614): what has been begun is dropped
  and the stream accepted.  `ErrorsAreReported` is about errors that were found.
* The Tokenizer has no category for the tilde, so that a number with an exponent (draft, 3.1) is refused:
  `LiteralsAreAccepted` is about numbers without.
* `NumericLiteralParser.cpp:89`: a malformed number can be accepted; `NumbersMeanTheirText` is about well-formed ones.
* `StringLiteralParser.cpp:161`: an escape that runs into letters is refused: `EscapesStandApart`.
* `StringFieldBuilder.cpp:93`: a default terminator of 0xFFFF is taken for none: a finished field gets another one
  when it is finished again with another default.  `FinishedFieldStays` excepts it, and a coding that is not known.
* `StringFieldBuilder.cpp:182`: a pstring that is refused because of unterm leaves its length: `lengthLeft`.
* `StringMachine.cpp:234`: text that nobody read leads the next string: `ahead`.
* `Iterator.cpp:115`: an advance from a code point nobody looked at moves the index only: `unseen`.
* `NumericValueBuilder` puts each piece below those before it, where its header says that bit 0 comes first; the
  pieces of a field are whole as long as no chunk cuts one, which needs an input that item 1 stops.
* `ArgParser.cpp`: `--name=value` never matches, `-abc` can have no value, "-" alone is ignored, and a value that is
  missing at the end of the line is read from a null pointer.
* `StreamParser.cpp:144`: bytes kept for a tokenizer that waits are forgotten in the next chunk; the Tokenizer
  reads ASCII and never waits, and `waited` excepts it.

## 4. What is proved

All theorems hold for every value of the constants under the assumptions in the modules
(`BoundsAssumption`, `SymbolizerAssumption` and `CategoriesDisjoint`, `InterpreterAssumption`,
`BitStreamAssumption`, `DataParserAssumption`, `ApplicationAssumption`, `CodecsAssumption`,
`TokenizerAssumption`, `DigitsAssumption`, `LiteralsAssumption`, `StringFieldsAssumption`, `FieldTextsAssumption`, `StreamParserAssumption`, `ParsePositionsAssumption`), which TLC
evaluates on the instances.  The bounds on the inputs are among the constants: nothing is assumed of them but
their types, that the largest code point is none below ASCII's (`CodecsAssumption`), and that `2^UintBits` is positive
(`DigitsAssumption`), which is no restriction, but the provers know no induction over exponents.

* `EngineProofs`: `TypeCorrect`, `NotificationsPaired`, `AlwaysInSomeState`, `CallResults`,
  `SlotsRefined`.  The inductive invariant adds to the types what each phase knows: that the target of
  a transition under way is registered, that a pending request is, that `told` is empty exactly
  between Exit and Entry, and that `moves` agrees with `transitionOccurred` as soon as the loop has
  decided.  Without the first two, the type of `mCurState` is not inductive: the target is read in
  one step and written in a later one.
* `SymbolizerProofs`: `TypeCorrect`, and `ReportedExactlyOnce` under the hypothesis that only reports of
  runs are vetoed.  It is needed: see the
  list above.  Under it also `RunsAreReported`: what was reported, what is buffered and what was read
  last are together the maximal runs of what was read, symbol after symbol.  The invariants add
  that a chunk ends within the stream, that the category map is a prefix of the registrations (a
  category's kind is looked up in the map, but assumed of the registrations), and that nothing is
  buffered after the end.
* `TokenizerProofs`: `TypeCorrect`, `NothingToldAfterStop`, `NoWordIsLost`, `WordsToldWhole`,
  `RefusalIsHeeded` (for consistent observers), `CommentEndsWithItsOwn`.  Each has an invariant of its
  own over the types: an error forbids continuing (`ErrorInv`); the code's word and the stream's word
  agree as long as the Tokenizer is in a word, with the cases of the run just received spelled out
  (`BlockInv`); that what has stopped stays stopped (`HasStopped`: an error, `false` from `Parse`, or a refusal that
  `EndParsing` meets) and the observer hears nothing more, neither by the flush nor by the last word; where a refused word can still be followed by one token; what the digraph builder says
  about the last two runs of a comment.
* `InterpreterProofs`: `TypeCorrect`, `EveryStatementCounts`, `FieldsAreDeclared`, `TreeIsFilledInOrder`.  The
  invariant `IInv` consists of the types, `HeaderInv` (which states go with which progress, and that
  all settings exist once the header has ended, with the bit base of the property), `BuilderInv` (what
  the builder holds belongs to the last statement, as far as the state says it was parsed),
  `FieldsInv` (each field is what `CalcBits` made of its own statement) and `StatementsInv` (outside a
  statement there are as many statements as fields).  None is inductive alone: a field is made of
  what the builder was left with two or three tokens before.  `FieldsAreDeclared` has the hypothesis `NumbersFit`, that
  no number in the stream wraps.  `TreeIsFilledInOrder` maps each action to a step of
  `SpecificationTree` or a stutter.
* `ApplicationProofs`: from the bit stream upwards.  Of `BitStream`, `TypeCorrect`, which says that the buffer is
  never overrun, and `TotalsAreTrue`, for every observer: the invariant adds to the types where the two
  positions can be in each phase (`PositionInv`: without it the number of a bit that is read need not exist) and
  what has been taken but not yet counted (`CountInv`).  Then `DataParserIsAnObserver`: each step of the parser of data is
  one of that observer or a stutter, so what was proved of the stream holds with it.  `ValuesHaveNoOthersBits`
  and `FieldsAreRead` rest on an invariant that knows where in the input each field begins: the sum of the widths of
  the fields before it, which are those of whole cycles and of a part of one.  The first says which bits can be in a value,
  of any field; that all of them are, and where, only the second says, of the fields that the second item of section 3 leaves whole.  `SuccessIsComplete` and
  `ApplicationObserves` lift both to the program.  Of the arguments, for every list of them, `ApplicationIsTyped` and `ValuesWereWritten`:
  the invariant `ArgsInv` says that between two rounds of the loop the parser stands before an argument that is not a
  value, and that every parameter with a value is either still among those to be found, and named by no argument
  so far, or was erased, and its value is what stands behind the only argument that names it.  It needs that no
  argument names two parameters of a command, which `AreSwitches` says and `CommandsHaveSwitches` shows.
* `StreamParserProofs`: of `ParseStream` with its parts, `NoErrorUnreported` and `InterpreterIsUsedRight`, and that what was
  proved of the Interpreter carries over (`StreamsFillTheTreeInOrder`, `StreamsDeclareTheirFields`).  The invariant says that the
  Interpreter is the consistent observer of `TokenizerProofs`, which has refused exactly when it has met an error.
  Of `ParseStream` with its chunks, `WindowsSlide` and `ErrorsAreFound`, for every size of chunk and context.  A window's
  places are numbers modulo its size (`Behind`, `OffsetFrom`, and `Distances` between them); what `CopyCirc` and `FillAndMove` leave
  is then said byte by byte (`FillsInOrder`).  What `NewlineOf`, `LineEnds` and `LastLine` are of one more byte
  is what `ProcessByte` does to the position (`ProcessesByte`), so a chunk keeps `IsBehind`; `NothingIsLost` says that the
  parsed bytes and the rest of the buffer are what was read.
* `TextsProofs`: of the builder, `FieldsAreAsDescribed` and `FinishedFieldsStay`; of texts, `TextsAreRead` and `NothingIsPassed`.
  The conversions are shown inverse to each other by their tables (ASCII, MS-1252) and by the arithmetic of six bits
  (UTF-8: `Utf8RoundTrip`), the iterator to stand at the beginning of a code point whenever it was looked at.
  Of literals, `LiteralsAreTyped`, `VerdictsAreAsAssumed`, `NumbersAreAsWritten`, `StringsAreAsWritten` and `LiteralsAreTaken`.  `LiteralsInv` adds to the types that
  a parser that is not in error is one that reads on, with what its state needs: an escape that has its radix and converter, a radix
  that is one of the markers'.  `NumbersInv` says, for every place of the text where a `#` stands and every way to read what is in front
  of it as a number, what the parser holds behind the run it has read (`NumericAt`: the marker, the sign, the digits in front of the period,
  those behind it), so it also says that none of the runs in front of that place is refused (`NumbersAreAccepted`).
  `StringsAreFollowed` says the same of every place where a `"` stands behind a string: the parser is in the text with all of the items
  read so far in its buffer, behind a backslash, or among the digits of a code point (`StringAt`); a run leads from one such state to
  another, or to an error if an escape runs into what is around it (`StringGoesOn`).  What is the difficulty: runs do not end where items
  do. A run of letters may hold the last digits of an escape and the text behind it (`DigitsGo`), and one run of digits may be how
  many digits there are, or digits.  The induction over the items is one over the places of the text (`NothingBegins`, `PlainSymbols`).
  That the digits one by one (`Horner`) make the sum by place (`PlaceValue`) is `HornerIsPlaceValue`; an integer either has that value or
  was refused by the division that looks for the overflow (`AddDigitAdds`, `AddDigitFails`).
* `SetInduction`: `Induction`, which says of sets of numbers what the library's theorems say of formulas, and with
  it the facts about sums that recursive functions compute.

Proved of the engine and of the Tokenizer and not checked by a run of their own, since the theorems say more: `StaysInSomeState`,
`ReturnsDrained`, `ResultTellsMoves`, `RefusalStops`, `SilentAfterStop`.

Induction over data is done on sets of numbers: that a recursive function exists, what its values are and
how they go on is an induction of its own each time (`ShownExist`, `AfterExist`, `TextsExist`, `SumsExist`, `ShortsExist`, `UnvisitedExist`, `ValuesExist`).  The proof of
`ErrorsAreFound` found a mistake that TLC had not: bytes that are zero, as `mNewlineChar` is before the first newline,
were counted as ends of lines by the definition that the code is compared with; streams with such bytes are
part of the run since.

Only model-checked: liveness (`EveryCallReturns` twice, `EveryReadEnds`, `EveryRunEnds`, and the fairness of
`TransitionSlots` and of the observer), which this prover does not do.

## 5. What is not modelled

* Wording, logging and the formatting of messages and values (`Console/Printer.cpp`, `Console/Msg.cpp`, the
  help of `ArgParser`, `ErrorReporter`): nothing is decided by them.
* Allocation failures, and misuse that the code guards against with an assertion.
* Writing to a bit stream, and `BitBuffer`'s copies: the program reads only.  `BitBuffer::operator =` leaves
  its target as it was when it is assigned an empty buffer (BitBuffer.cpp:257).
* `ByteBuffer`, `Tristate`, `Sign`, `HashedString` and the algorithms: values without a protocol.
* `Tree`'s iterators: the tree does not change any more when they are in use.
* Names of fields: the tree does not look for duplicates (Tree.cpp:84), which the draft forbids, and
  nothing looks a field up by its name.
* The category objects of the Symbolizer are their sets of symbols; the converter of the Symbolizer is ASCII's,
  or gives symbols of several bytes that may be cut.
* The tests, which are used as evidence of what is meant.

Over a third of the lines of `src` are tests and examples, and a fifth licence headers and includes; what is left out
of the library and the program besides is mostly declarations.

## 6. Plan

Done, in this order, so that the most important behaviour came first: `Engine` (everything else is
driven by it), `Symbolizer`, `Tokenizer`, `Interpreter`, `StreamParser`, `BitStream`; then `Literals`, `DataParser`,
`Application`, `StringFields` and `FieldTexts`, `ParsePositions`.

Proofs, in this order: `EngineProofs`, `SymbolizerProofs`, `TokenizerProofs`, `InterpreterProofs`, `ApplicationProofs`, `StreamParserProofs`,
`TextsProofs`.

With that, every safety property that a run checks and finds to hold is also a theorem.  Next: shorter proofs where two
lemmas say nearly the same (the steps of `NumericAt` and `StringAt`), and the parts that are modelled only partly.
