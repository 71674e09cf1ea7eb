----------------------------- MODULE MCApplication -----------------------------
(* Command lines of one or two options in every form, with and without the values they want, and   *)
(* for the parse command a line for each way to go on; data and specifications as in MCDataParser, *)
(* but fewer specifications. *)
EXTENDS Application

Numeric(signed, integral, fractional) ==
    [mFieldType |-> "Numeric", mSigned |-> signed, mIntegralBits |-> integral,
     mFractionalBits |-> fractional]

Fields ==
    {[Numeric(FALSE, 0, 0) EXCEPT !.mFieldType = "String"], Numeric(FALSE, 0, 0),
     Numeric(TRUE, 1, 0), Numeric(FALSE, 6, 1), Numeric(FALSE, 1, 0), Numeric(FALSE, 3, 0),
     Numeric(TRUE, 2, 2), Numeric(TRUE, 6, 0), Numeric(TRUE, 0, 2)}

MCRoots == UNION {[1 .. n -> Fields] : n \in 0 .. 2}

Spec1 == Plain("spec file")
Data1 == Plain("data file")
MCReadable == {Spec1, Data1}

Program == Plain("bfdp")
Strings(args, n) == UNION {[1 .. k -> args] : k \in 0 .. n}

MainLines ==
    Strings({Shorts(<<"v">>), Shorts(<<"v", "v">>), Shorts(<<"v", "x">>), Shorts(<<>>), Slash("h"),
             Long("help"), Stop, Plain("help"), Plain("tests"), Plain("other"), Plain("parse"),
             Plain("validate-spec")}, 2)

ValidateLines ==
    {<<Plain("validate-spec")>> \o s :
        s \in Strings({Long("file"), Slash("f"), Shorts(<<"f">>), Shorts(<<"t">>), Long("testing"),
                       LongWithValue("file"), Spec1, Plain("absent"), Stop}, 3)}

ParseLines ==
    {<<Long("verbose"), Plain("parse")>> \o s :
        s \in Strings({Slash("s"), Spec1, Long("data"), Data1}, 4)
              \cup {<<Long("spec"), Spec1, Long("data"), a, Slash("f"), f>> :
                        a \in {Data1, Plain("absent"), Shorts(<<>>)}, f \in {Plain("raw"), Plain("other")}}}

MCArgVs == {<<Program>> \o s : s \in MainLines \cup ValidateLines \cup ParseLines}
=============================================================================
