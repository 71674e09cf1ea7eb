----------------------------- MODULE MCDataParser ------------------------------
(* Specifications of up to two fields, of every kind that the builder tells apart, and inputs of  *)
(* up to almost three chunks of nine bits: the fields begin and end anywhere in the bytes. *)
EXTENDS DataParser

Numeric(signed, integral, fractional) ==
    [mFieldType |-> "Numeric", mSigned |-> signed, mIntegralBits |-> integral,
     mFractionalBits |-> fractional]

String == [Numeric(FALSE, 0, 0) EXCEPT !.mFieldType = "String"]

Fields ==
    {String, Numeric(FALSE, 0, 0), Numeric(TRUE, 1, 0), Numeric(TRUE, 0, 2), Numeric(FALSE, 6, 1)}
        \cup {Numeric(FALSE, n, 0) : n \in {1, 3, 4}}
        \cup {Numeric(FALSE, 0, 2), Numeric(TRUE, 2, 0), Numeric(TRUE, 1, 3), Numeric(TRUE, 6, 0)}

MCRoots == UNION {[1 .. n -> Fields] : n \in 0 .. 2}
=============================================================================
