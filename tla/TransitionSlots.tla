--------------------------- MODULE TransitionSlots ---------------------------
(***************************************************************************)
(* What Bfdp::StateMachine::Engine promises about transition requests,     *)
(* without its call structure: there is at most one active state, at most  *)
(* one transition under way, and at most one request waiting behind it.    *)
(* A newer request replaces a waiting one, and nothing replaces a          *)
(* transition under way.  Each slot is a set with at most one element.     *)
(***************************************************************************)
CONSTANT States

VARIABLES active,     \* the state whose Entry actions were last started
          committed,  \* the target of the transition under way
          wanted      \* the target of the last request not yet taken up

vars == <<active, committed, wanted>>

AtMostOne == {{}} \cup {{s} : s \in States}

TypeOK == active \in AtMostOne /\ committed \in AtMostOne /\ wanted \in AtMostOne

Init == active = {} /\ committed = {} /\ wanted = {}

Ask(s) == wanted' = {s} /\ UNCHANGED <<active, committed>>

Commit ==
    /\ wanted # {} /\ committed = {}
    /\ committed' = wanted
    /\ wanted' = {}
    /\ UNCHANGED active

Move ==
    /\ committed # {}
    /\ active' = committed
    /\ committed' = {}
    /\ UNCHANGED wanted

Next == Commit \/ Move \/ \E s \in States : Ask(s)

Safety == Init /\ [][Next]_vars

\* A transition that is under way is always completed.
Spec == Safety /\ WF_vars(Move)
=============================================================================
