------------------------------- MODULE ArgParser -------------------------------
(***************************************************************************)
(* Bfdp::Console::ArgParser with its Params: the assignment of command     *)
(* line arguments to parameters, as operators from the state of the parser *)
(* to its next state.                                                      *)
(*                                                                         *)
(* An argument is a form and a name (or, of "-abc", the sequence of its    *)
(* letters); it has no other text.  A parameter's callback either prints   *)
(* the help, or counts, or saves the value; all of them return zero.       *)
(* std::string's answer to a null pointer, of which the value is made when *)
(* the last argument asks for one, is undefined: the parser crashes.       *)
(***************************************************************************)
EXTENDS Integers, Sequences

Seqs == INSTANCE SequencesExt

\* "/name", "--name", "--name=value", "-abc", "--", and any other text.
Arguments == [form : {"Slash", "Long", "LongWithValue", "Shorts", "Stop", "Plain"}, name : STRING,
              letters : Seq(STRING)]

Argument(form, name, letters) == [form |-> form, name |-> name, letters |-> letters]
Slash(name) == Argument("Slash", name, <<>>)
Long(name) == Argument("Long", name, <<>>)
LongWithValue(name) == Argument("LongWithValue", name, <<>>)
Shorts(letters) == Argument("Shorts", "", letters)
Stop == Argument("Stop", "", <<>>)
Plain(text) == Argument("Plain", text, <<>>)

-----------------------------------------------------------------------------
(* Param *)

CreateLong(long, short) ==
    [mLongName |-> long, mShortName |-> short, mHasValue |-> FALSE, mDefaultValue |-> Plain(""),
     mIsOptional |-> FALSE, mIsCounter |-> FALSE, mIsPositional |-> FALSE, mIsTerminator |-> FALSE,
     saves |-> FALSE]

CreateCommand ==
    [CreateLong("command", "") EXCEPT !.mIsPositional = TRUE, !.mIsTerminator = TRUE]

SetValueName(param) == [param EXCEPT !.mHasValue = TRUE]
SetDefault(param, value) ==
    [param EXCEPT !.mDefaultValue = value, !.mIsOptional = TRUE, !.mHasValue = TRUE]
SetOptional(param) == [param EXCEPT !.mIsOptional = TRUE]
SetCounter(param) == [param EXCEPT !.mIsCounter = TRUE, !.mIsOptional = TRUE]
Saving(param) == [param EXCEPT !.saves = TRUE]

HelpParam == SetOptional(CreateLong("help", "h"))

MatchLongName(param, name) == ~param.mIsPositional /\ param.mLongName = name
MatchShortName(param, name) ==
    ~param.mIsPositional /\ param.mShortName # "" /\ param.mShortName = name

-----------------------------------------------------------------------------
(* ArgParser; saved is the map that the callbacks save values in *)

StartedParser(params) ==
    [mCurParams |-> params, mParseIndex |-> 1, mKeepParsing |-> TRUE, mResult |-> 0,
     mSkipNextArg |-> FALSE, saved |-> [p \in {} |-> Plain("")], crashed |-> FALSE]

Fails(p) == [p EXCEPT !.mResult = 1, !.mKeepParsing = FALSE]

Save(saved, name, value) ==
    [n \in DOMAIN saved \cup {name} |-> IF n = name THEN value ELSE saved[n]]

\* What there is behind the argument: an argument, or nothing that the count tells of, or the null
\* pointer at the end of the list, which is counted.
NotCounted == Argument("None", "not counted", <<>>)
Null == Argument("None", "null", <<>>)

\* The callback, which returns zero.
CallBack(p, param, value) ==
    [p EXCEPT !.saved = IF param.saves THEN Save(@, param.mLongName, value) ELSE @,
              !.mSkipNextArg = @ \/ param.mHasValue,
              !.mKeepParsing = ~param.mIsTerminator]

Dispatch(p, param, behind) ==
    CASE param.mHasValue /\ behind = NotCounted -> Fails(p)
      [] param.mHasValue /\ behind = Null -> [p EXCEPT !.crashed = TRUE]
      [] OTHER -> CallBack(p, param, IF param.mHasValue THEN behind ELSE Plain(""))

\* Mutant: no optional parameter is erased, whether it counts or not.
DiscoverKeeping(p, i) ==
    IF p.mCurParams[i].mIsOptional THEN p ELSE [p EXCEPT !.mCurParams = Seqs!RemoveAt(@, i)]

\* Parameters are erased as they are discovered, except for counters.
Discover(p, i) ==
    IF p.mCurParams[i].mIsCounter THEN p ELSE [p EXCEPT !.mCurParams = Seqs!RemoveAt(@, i)]

\* Dispatch the first of the parameters at the indices, or fail.
DispatchNext(p, indices, behind) ==
    LET i == CHOOSE k \in indices : \A l \in indices : k <= l
    IN  IF indices = {} THEN Fails(p) ELSE Dispatch(Discover(p, i), p.mCurParams[i], behind)

\* GetNextMatchingArg looks for one of these, in either of its forms, or GetNextPositional does.
MatchingArgs(p, arg) ==
    {i \in DOMAIN p.mCurParams :
        \/ MatchLongName(p.mCurParams[i], arg.name)
        \/ arg.form = "Slash" /\ MatchShortName(p.mCurParams[i], arg.name)}
ShortArgs(p, name) == {i \in DOMAIN p.mCurParams : MatchShortName(p.mCurParams[i], name)}
PositionalArgs(p) == {i \in DOMAIN p.mCurParams : p.mCurParams[i].mIsPositional}

\* Any but the last of several short names has no value, and neither has the last.
ProcShort(p, name) ==
    IF p.mKeepParsing THEN DispatchNext(p, ShortArgs(p, name), NotCounted) ELSE p

ProcShorts(p, letters) ==
    LET after[k \in 0 .. Len(letters)] == IF k = 0 THEN p ELSE ProcShort(after[k - 1], letters[k])
    IN  after[Len(letters)]

ProcArgs(p, arg, behind) ==
    CASE arg.form \in {"Slash", "Long"} -> DispatchNext(p, MatchingArgs(p, arg), behind)
      [] arg.form = "LongWithValue" -> Fails(p)   \* the equals sign is searched for in the name
      [] arg.form = "Shorts" -> ProcShorts(p, arg.letters)
      [] arg.form = "Stop" -> [p EXCEPT !.mKeepParsing = FALSE]
      [] OTHER -> DispatchNext(p, PositionalArgs(p), arg)

HasNextArg(p, argv) == p.mKeepParsing /\ ~p.crashed /\ p.mParseIndex < Len(argv)

\* One round of the loop over the arguments; the index is that of a C array, argv[0] the program.
ParseArg(p, argv) ==
    LET arg == argv[p.mParseIndex + 1]
        behind == IF p.mParseIndex + 1 < Len(argv) THEN argv[p.mParseIndex + 2] ELSE Null
        parsed == ProcArgs(p, arg, behind)
    IN  [parsed EXCEPT
            !.mParseIndex = @ + (IF parsed.mSkipNextArg THEN 1 ELSE 0)
                              + (IF parsed.mKeepParsing THEN 1 ELSE 0),
            !.mSkipNextArg = FALSE]

\* A parameter that was not visited.
Unvisited(p, param) ==
    CASE ~param.mIsOptional -> [p EXCEPT !.mResult = 1]
      [] param.mIsOptional /\ param.mHasValue -> CallBack(p, param, param.mDefaultValue)
      [] OTHER -> p

\* The loop over the parameters that were not visited, if nothing has stopped the parsing.
FinishParse(p) ==
    LET params == p.mCurParams
        after[k \in 0 .. Len(params)] == IF k = 0 THEN p ELSE Unvisited(after[k - 1], params[k])
    IN  IF p.mKeepParsing THEN [after[Len(params)] EXCEPT !.mCurParams = <<>>] ELSE p

-----------------------------------------------------------------------------
(* A definition of what a command line says, for one that is all switched arguments *)

Names(arg, param) ==
    \/ arg.form \in {"Slash", "Long"} /\ MatchLongName(param, arg.name)
    \/ arg.form = "Slash" /\ MatchShortName(param, arg.name)

\* Whether each argument is the value of the one before it.
IsValueIn(argv, params) ==
    LET isValue[i \in 1 .. Len(argv)] ==
            i > 2 /\ ~isValue[i - 1] /\ \E j \in DOMAIN params :
                                            params[j].mHasValue /\ Names(argv[i - 1], params[j])
    IN  isValue

\* Where the parameter is named.
NamedAt(argv, params, param) ==
    {i \in 2 .. Len(argv) : ~IsValueIn(argv, params)[i] /\ Names(argv[i], param)}

\* Every value that is saved stands behind the name of its parameter, which is there once, or the name is
\* nowhere and the value is the default.
IsReadFrom(saved, argv, params) ==
    \A j \in DOMAIN params : params[j].saves =>
        LET named == NamedAt(argv, params, params[j])
            name == params[j].mLongName
        IN  /\ name \in DOMAIN saved
            /\ \/ named = {} /\ params[j].mIsOptional /\ saved[name] = params[j].mDefaultValue
               \/ \E i \in named : named = {i} /\ i < Len(argv) /\ saved[name] = argv[i + 1]
=============================================================================
