------------------------------ MODULE Application ------------------------------
(***************************************************************************)
(* The command line program: BFDP_app_main dispatches a command, CmdParse  *)
(* reads a data file as a specification file describes it, and             *)
(* CmdValidateSpec only reads the specification file.                      *)
(*                                                                         *)
(* What a specification file says is chosen when it was read: ParseStream  *)
(* refuses it, or it declares the fields of one of Roots (see              *)
(* StreamParser.tla).  The log level, the format of the output and a       *)
(* failure to create the database or a stream in memory are left out.      *)
(***************************************************************************)
EXTENDS DataParser, ArgParser

CONSTANTS
    ArgVs,             \* the argument lists the program is called with
    Readable           \* arguments that are the names of files that can be opened

ASSUME ApplicationAssumption == <<>> \in Roots /\ ArgVs \subseteq Seq(Arguments)

VARIABLES
    argv,              \* of the program, and then of its command
    parser,            \* the ArgParser in use
    stage,             \* what is being executed, "Exited" or "Crashed"
    ret                \* the program's exit code

appOnlyVars == <<argv, parser, stage, ret>>
appVars == <<dataVars, appOnlyVars>>

Stages == {"Main", "parse", "validate-spec", "Reading", "Exited", "Crashed"}

MainParams == <<HelpParam, SetCounter(CreateLong("verbose", "v")), CreateCommand>>

ParseParams ==
    <<HelpParam,
      Saving(SetValueName(CreateLong("spec", "s"))),
      Saving(SetDefault(CreateLong("data", "d"), Plain(""))),
      Saving(SetDefault(CreateLong("format", "f"), Plain("raw")))>>

ValidateSpecParams ==
    <<HelpParam,
      Saving(SetValueName(CreateLong("file", "f"))),
      SetOptional(CreateLong("testing", "t"))>>

ParamsOf(command) == IF command = "parse" THEN ParseParams ELSE ValidateSpecParams

ApplicationInit ==
    /\ DataInit /\ mFields = <<>>
    /\ argv \in ArgVs /\ parser = StartedParser(MainParams)
    /\ stage = "Main" /\ ret = 0

-----------------------------------------------------------------------------

\* The program or the command returns.
Exits(code) ==
    /\ stage' = "Exited" /\ ret' = code
    /\ UNCHANGED <<dataVars, argv, parser>>

ParsesArguments ==
    /\ stage \in {"Main", "parse", "validate-spec"}
    /\ HasNextArg(parser, argv)
    /\ parser' = ParseArg(parser, argv)
    /\ stage' = IF parser'.crashed THEN "Crashed" ELSE stage
    /\ UNCHANGED <<dataVars, argv, ret>>

ArgumentsEnd == ~HasNextArg(parser, argv)

\* The command line is refused, and the help is printed.
RefusesArguments ==
    /\ stage \in {"Main", "parse", "validate-spec"} /\ ArgumentsEnd
    /\ FinishParse(parser).mResult # 0
    /\ Exits(FinishParse(parser).mResult)

ArgumentsAreRead(s) ==
    stage = s /\ ArgumentsEnd /\ FinishParse(parser).mResult = 0

Command == argv[parser.mParseIndex + 1]
Commands == {Plain("help"), Plain("tests"), Plain("parse"), Plain("validate-spec")}

RunsCommand ==
    /\ ArgumentsAreRead("Main")
    /\ parser.mParseIndex < Len(argv)
    /\ Command \in {Plain("parse"), Plain("validate-spec")}
    /\ stage' = Command.name
    /\ argv' = SubSeq(argv, parser.mParseIndex + 1, Len(argv))
    /\ parser' = StartedParser(ParamsOf(Command.name))
    /\ UNCHANGED <<dataVars, ret>>

HelpsOrTests ==
    /\ ArgumentsAreRead("Main")
    /\ parser.mParseIndex < Len(argv)
    /\ Command \in {Plain("help"), Plain("tests")}
    /\ Exits(0)

RefusesCommand ==
    /\ ArgumentsAreRead("Main")
    /\ parser.mParseIndex >= Len(argv) \/ Command \notin Commands
    /\ Exits(1)

\* The value of a parameter: of one that was not saved, the empty text the map makes up.
Arg(name) ==
    LET saved == FinishParse(parser).saved IN IF name \in DOMAIN saved THEN saved[name] ELSE Plain("")

-----------------------------------------------------------------------------
(* CmdValidateSpec *)

CmdValidateSpec ==
    /\ ArgumentsAreRead("validate-spec")
    /\ \E code \in IF Arg("file") \in Readable THEN {0, 1} ELSE {1} : Exits(code)

-----------------------------------------------------------------------------
(* CmdParse *)

\* Without a name, the data is read from the standard input.
DataIsOpen == Arg("data") = Plain("") \/ Arg("data") \in Readable

CmdParseFails ==
    /\ ArgumentsAreRead("parse")
    /\ ~DataIsOpen \/ Arg("format") # Plain("raw") \/ Arg("spec") \notin Readable
    /\ Exits(1)

OpensFiles ==
    /\ ArgumentsAreRead("parse")
    /\ DataIsOpen /\ Arg("format") = Plain("raw") /\ Arg("spec") \in Readable

\* ParseStream fails, or the specification asks for big-endian data.
RefusesSpecification == OpensFiles /\ Exits(1)

SetRoot(root) ==
    /\ mFields' = root /\ mCurFieldIter' = Len(root) + 1
    /\ UNCHANGED <<vars, mNumericValueBuilder, printed>>

ReadsSpecification ==
    /\ OpensFiles
    /\ \E root \in Roots : SetRoot(root)
    /\ stage' = "Reading"
    /\ UNCHANGED <<argv, parser, ret>>

ReadStream ==
    /\ stage = "Reading" /\ phase # "Done"
    /\ DataNext
    /\ UNCHANGED appOnlyVars

\* Mutant: the error of the stream is not asked for.
DataIsReadIgnoringError ==
    /\ stage = "Reading" /\ phase = "Done"
    /\ Exits(0)

DataIsRead ==
    /\ stage = "Reading" /\ phase = "Done"
    /\ Exits(IF mHasError THEN 1 ELSE 0)

-----------------------------------------------------------------------------

Executes ==
    \/ ParsesArguments \/ RefusesArguments
    \/ RunsCommand \/ HelpsOrTests \/ RefusesCommand
    \/ CmdValidateSpec
    \/ CmdParseFails \/ RefusesSpecification \/ ReadsSpecification
    \/ ReadStream
    \/ DataIsRead

Ended == stage \in {"Exited", "Crashed"} /\ UNCHANGED appVars

ApplicationNext == Executes \/ Ended

\* The program waits for nothing but its input, which has a length.
ApplicationSpec ==
    /\ ApplicationInit /\ [][ApplicationNext]_appVars
    /\ WF_appVars(Executes)

-----------------------------------------------------------------------------
(* Properties *)

\* The parser of arguments and the progress of the commands keep their types.
ApplicationTypeOK ==
    /\ DataTypeOK
    /\ stage \in Stages /\ ret \in {0, 1}
    /\ parser.mParseIndex \in 1 .. Len(argv) + 1 /\ parser.mResult \in {0, 1}
    /\ parser.crashed <=> stage = "Crashed"

\* A command line that a command accepts says what the command was told: each value stands behind the
\* name of its parameter, which is there only once.
ValuesAreWhatWasWritten ==
    stage \in {"parse", "validate-spec"} /\ ArgumentsEnd /\ FinishParse(parser).mResult = 0
        /\ (\A i \in DOMAIN argv : argv[i].form # "Stop")
    => IsReadFrom(FinishParse(parser).saved, argv, ParamsOf(stage))

\* If the parse command succeeds, the parser of fields has read the data to its last bit and in order;
\* so that with ValuesAreOfTheirBits every value but one that the end has cut off was printed.
SuccessReadsAllData ==
    stage = "Exited" /\ phase = "Done" /\ ret = 0 =>
        taken = [i \in 1 .. length * BitsPerByte |-> i - 1]

\* The program ends, whatever its arguments, specification and data.
EveryRunEnds == <>(stage \in {"Exited", "Crashed"})
=============================================================================
