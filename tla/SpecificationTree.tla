-------------------------- MODULE SpecificationTree ---------------------------
(***************************************************************************)
(* What the Interpreter promises about the tree it fills, whatever tokens  *)
(* it is given: first properties are defined, each once, then the header   *)
(* is sealed with a default for every setting that was not, then fields    *)
(* are appended, and from the first error on the tree stays as it is.      *)
(***************************************************************************)
EXTENDS Integers, Sequences

CONSTANTS
    Settings,          \* the names of the properties
    IsValue(_, _),     \* whether a setting can have a value
    MaxBits            \* the widest field

VARIABLES
    properties,        \* a function from the settings defined so far
    fields,            \* the fields, in the order of their statements
    sealed,            \* the header has ended
    closed             \* parsing has failed

vars == <<properties, fields, sealed, closed>>

WellFormed(field) ==
    /\ field.integral + field.fractional \in 1 .. MaxBits
    /\ field.signed => field.integral > 0

TypeOK ==
    /\ DOMAIN properties \subseteq Settings
    /\ \A name \in DOMAIN properties : IsValue(name, properties[name])
    /\ sealed \in BOOLEAN /\ closed \in BOOLEAN

Init == DOMAIN properties = {} /\ fields = <<>> /\ sealed = FALSE /\ closed = FALSE

\* Nothing that is defined is defined again.
Keeps == \A name \in DOMAIN properties :
            name \in DOMAIN properties' /\ properties'[name] = properties[name]

Define(name) ==
    /\ ~closed /\ ~sealed
    /\ name \notin DOMAIN properties
    /\ Keeps
    /\ DOMAIN properties' = DOMAIN properties \cup {name}
    /\ IsValue(name, properties'[name])
    /\ UNCHANGED <<fields, sealed, closed>>

Seal ==
    /\ ~closed /\ ~sealed
    /\ Keeps
    /\ DOMAIN properties' = Settings
    /\ \A name \in Settings : IsValue(name, properties'[name])
    /\ sealed' = TRUE
    /\ UNCHANGED <<fields, closed>>

AppendField ==
    /\ ~closed /\ sealed
    /\ \E i \in DOMAIN fields' :
          WellFormed(fields'[i]) /\ fields' = Append(fields, fields'[i])
    /\ UNCHANGED <<properties, sealed, closed>>

Close ==
    /\ ~closed
    /\ closed' = TRUE
    /\ UNCHANGED <<properties, fields, sealed>>

Next == Seal \/ AppendField \/ Close \/ \E name \in Settings : Define(name)

Spec == Init /\ [][Next]_vars
=============================================================================
