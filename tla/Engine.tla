-------------------------------- MODULE Engine --------------------------------
(***************************************************************************)
(* The state machine engine of Bfdp (StateMachine/Engine.cpp, State.cpp):  *)
(* states 0 .. mNumStates-1, a list of actions per state and trigger, and  *)
(* one pending transition request.                                         *)
(*                                                                         *)
(* The engine is single threaded, but each registered action is a call     *)
(* back into the application, which may call Transition() any number of    *)
(* times before it returns.  A call of EvaluateState or DoTransition is    *)
(* therefore a sequence of steps: "phase" is the point that has been       *)
(* reached in it, and an action that runs may interleave requests.  What   *)
(* an action does besides is the application's business.  The application  *)
(* calls InitStates once (as every state map in the repository does) and   *)
(* does not re-enter EvaluateState or DoTransition from an action.         *)
(***************************************************************************)
EXTENDS Integers, FiniteSets

CONSTANTS
    MaxStates,         \* the most states an application registers
    MaxActions,        \* the most actions in the lists of the engine, all together
    MaxRequests        \* the most requests the actions make during one call

ASSUME BoundsAssumption ==
    /\ MaxStates \in Nat \ {0}
    /\ MaxActions \in Nat
    /\ MaxRequests \in Nat

VARIABLES
    mCurState, mNextState, mNextStatePending, mNumStates,
    mStates,           \* the number of actions per state and trigger
    phase,             \* "Idle" between calls, "Loop" at the head of DoTransition's while,
                       \* or the trigger whose action list is running
    nextAction,        \* iterator into that list
    targetState,       \* DoTransition's local
    transitionOccurred,\* DoTransition's local, its result once it has returned
    requestsLeft,      \* bound: requests the actions may still make in this call
    told,              \* history: states told of their Entry and not yet of their Exit
    moves              \* history: "some" if a state was entered during this call, else "none"

engineVars == <<mCurState, mNextState, mNextStatePending, mNumStates, mStates>>
callVars == <<phase, nextAction, targetState, transitionOccurred, requestsLeft>>
vars == <<engineVars, callVars, told, moves>>

StateIds == 0 .. MaxStates - 1
Triggers == {"Entry", "Evaluate", "Exit"}

TypeOK ==
    /\ mNumStates \in 0 .. MaxStates
    /\ mCurState \in 0 .. mNumStates
    /\ mNextState \in StateIds
    /\ mNextStatePending \in BOOLEAN
    /\ mStates \in [StateIds -> [Triggers -> Nat]]
    /\ phase \in {"Idle", "Loop"} \cup Triggers
    /\ nextAction \in Nat
    /\ targetState \in StateIds
    /\ transitionOccurred \in BOOLEAN
    /\ requestsLeft \in 0 .. MaxRequests
    /\ told \in SUBSET StateIds
    /\ moves \in {"none", "some"}

Init ==
    /\ mCurState = 0 /\ mNextState = 0 /\ mNextStatePending = FALSE
    /\ mNumStates = 0
    /\ mStates = [s \in StateIds |-> [t \in Triggers |-> 0]]
    /\ phase = "Idle" /\ nextAction = 0 /\ targetState = 0
    /\ transitionOccurred = FALSE /\ requestsLeft = 0
    /\ told = {} /\ moves = "none"

InState == mCurState < mNumStates

-----------------------------------------------------------------------------
(* Set-up, by the application between calls *)

InitStates(n) ==
    /\ phase = "Idle" /\ mNumStates = 0 /\ n > 0
    /\ mNumStates' = n
    /\ mCurState' = n
    /\ UNCHANGED <<mNextState, mNextStatePending, mStates, callVars, told, moves>>

\* The sum over all lists is what MaxActions bounds.
Registered == {r \in StateIds \X Triggers \X (1 .. MaxActions) : r[3] <= mStates[r[1]][r[2]]}

AddAction(s, t) ==
    /\ phase = "Idle" /\ s < mNumStates
    /\ Cardinality(Registered) < MaxActions
    /\ mStates' = [mStates EXCEPT ![s][t] = @ + 1]
    /\ UNCHANGED <<mCurState, mNextState, mNextStatePending, mNumStates, callVars, told, moves>>

-----------------------------------------------------------------------------
(* Requests: by the application between calls, or by an action during one *)

\* Mutant: the range check admits mNumStates.
TransitionOffByOne(s) ==
    /\ s <= mNumStates
    /\ mNextState' = s
    /\ mNextStatePending' = TRUE
    /\ UNCHANGED <<mCurState, mNumStates, mStates>>

\* A request outside the registered states is refused and changes nothing.
Transition(s) ==
    /\ s < mNumStates
    /\ mNextState' = s
    /\ mNextStatePending' = TRUE
    /\ UNCHANGED <<mCurState, mNumStates, mStates>>

RequestBetweenCalls(s) ==
    /\ phase = "Idle"
    /\ Transition(s)
    /\ UNCHANGED <<callVars, told, moves>>

\* The list being run: "if( mCurState < mNumStates )" guards the Exit actions.
ListLength == IF InState THEN mStates[mCurState][phase] ELSE 0

RequestByAction(s) ==
    /\ phase \in Triggers /\ nextAction < ListLength
    /\ requestsLeft > 0
    /\ Transition(s)
    /\ requestsLeft' = requestsLeft - 1
    /\ UNCHANGED <<phase, nextAction, targetState, transitionOccurred, told, moves>>

-----------------------------------------------------------------------------
(* Calls *)

BeginEvaluateState ==
    /\ phase = "Idle" /\ InState
    /\ phase' = "Evaluate" /\ nextAction' = 0
    /\ requestsLeft' = MaxRequests
    /\ moves' = "none"
    /\ UNCHANGED <<engineVars, targetState, transitionOccurred, told>>

\* DoTransition up to its loop, whether the application or EvaluateState calls it.
EnterLoop ==
    /\ phase' = "Loop"
    /\ transitionOccurred' = mNextStatePending
    /\ UNCHANGED <<nextAction, targetState>>

BeginDoTransition ==
    /\ phase = "Idle" /\ mNumStates > 0
    /\ EnterLoop
    /\ requestsLeft' = MaxRequests
    /\ moves' = "none"
    /\ UNCHANGED <<engineVars, told>>

ActionReturns ==
    /\ phase \in Triggers /\ nextAction < ListLength
    /\ nextAction' = nextAction + 1
    /\ UNCHANGED <<engineVars, phase, targetState, transitionOccurred, requestsLeft, told, moves>>

EvaluateDone ==
    /\ phase = "Evaluate" /\ nextAction = ListLength
    /\ EnterLoop
    /\ UNCHANGED <<engineVars, requestsLeft, told, moves>>

\* Mutant: the flag is cleared only after the Exit actions have run.
TakeRequestKeepingFlag ==
    /\ phase = "Loop" /\ mNextStatePending
    /\ targetState' = mNextState
    /\ phase' = "Exit" /\ nextAction' = 0
    /\ UNCHANGED <<engineVars, transitionOccurred, requestsLeft, told, moves>>

\* Mutant: the Exit actions are not run.
TakeRequestWithoutExit ==
    /\ phase = "Loop" /\ mNextStatePending
    /\ mNextStatePending' = FALSE
    /\ targetState' = mNextState
    /\ mCurState' = mNextState
    /\ phase' = "Entry" /\ nextAction' = 0
    /\ told' = told \cup {mNextState}
    /\ moves' = "some"
    /\ UNCHANGED <<mNextState, mNumStates, mStates, transitionOccurred, requestsLeft>>

TakeRequest ==
    /\ phase = "Loop" /\ mNextStatePending
    /\ mNextStatePending' = FALSE
    /\ targetState' = mNextState
    /\ phase' = "Exit" /\ nextAction' = 0
    /\ UNCHANGED <<mCurState, mNextState, mNumStates, mStates, transitionOccurred,
                   requestsLeft, told, moves>>

\* Mutant: the target is read again after the Exit actions.
ExitDoneRereading ==
    /\ phase = "Exit" /\ nextAction = ListLength
    /\ mCurState' = mNextState
    /\ phase' = "Entry" /\ nextAction' = 0
    /\ told' = (told \ {mCurState}) \cup {mNextState}
    /\ moves' = "some"
    /\ UNCHANGED <<mNextState, mNextStatePending, mNumStates, mStates, targetState,
                   transitionOccurred, requestsLeft>>

ExitDone ==
    /\ phase = "Exit" /\ nextAction = ListLength
    /\ mCurState' = targetState
    /\ phase' = "Entry" /\ nextAction' = 0
    /\ told' = (told \ {mCurState}) \cup {targetState}
    /\ moves' = "some"
    /\ UNCHANGED <<mNextState, mNextStatePending, mNumStates, mStates, targetState,
                   transitionOccurred, requestsLeft>>

EntryDone ==
    /\ phase = "Entry" /\ nextAction = ListLength
    /\ phase' = "Loop"
    /\ UNCHANGED <<engineVars, nextAction, targetState, transitionOccurred, requestsLeft,
                   told, moves>>

Return ==
    /\ phase = "Loop" /\ ~mNextStatePending
    /\ phase' = "Idle"
    /\ UNCHANGED <<engineVars, nextAction, targetState, transitionOccurred, requestsLeft,
                   told, moves>>

\* The steps of a call that is under way, apart from what its actions ask for.
Progress == ActionReturns \/ EvaluateDone \/ TakeRequest \/ ExitDone \/ EntryDone \/ Return

Next ==
    \/ \E n \in 0 .. MaxStates : InitStates(n)
    \/ \E s \in StateIds, t \in Triggers : AddAction(s, t)
    \/ \E s \in 0 .. MaxStates : RequestBetweenCalls(s) \/ RequestByAction(s)
    \/ BeginEvaluateState
    \/ BeginDoTransition
    \/ Progress

Safety == Init /\ [][Next]_vars

\* The code of a call that has begun runs on, and its actions return.  Nothing obliges the
\* application to make a call.
Spec == Safety /\ WF_vars(Progress)

-----------------------------------------------------------------------------
(* Properties *)

\* The application is told of the Exit of every state it was told of the Entry of before it is
\* told of another Entry, and the engine's current state is the one state it was told of:
\* actions never run on behalf of a state that was left, or was not entered yet.
ToldOnlyOfCurrentState == told = IF InState THEN {mCurState} ELSE {}

\* Engine.hpp on GetCurState: the number of registered states is returned exactly as long as no
\* transition has occurred; afterwards the engine is always in some registered state.
StaysInSomeState == [][InState => InState']_vars

\* EvaluateState and DoTransition come back only when every request has been fulfilled, also
\* the ones their own Exit and Entry actions made.
ReturnsDrained == [][phase # "Idle" /\ phase' = "Idle" => ~mNextStatePending']_vars

\* DoTransition's result says whether a state was entered during the call, although it is
\* computed before the loop runs any action.
ResultTellsMoves ==
    [][phase # "Idle" /\ phase' = "Idle" => (transitionOccurred' <=> moves' = "some")]_vars

\* A call whose actions make finitely many requests comes back: chained transitions end.
EveryCallReturns == phase # "Idle" ~> phase = "Idle"

\* The engine implements the slots: the last request wins, and a request made while a
\* transition is under way waits for it instead of redirecting it.
Slots == INSTANCE TransitionSlots WITH
    States <- StateIds,
    active <- IF InState THEN {mCurState} ELSE {},
    committed <- IF phase = "Exit" THEN {targetState} ELSE {},
    wanted <- IF mNextStatePending THEN {mNextState} ELSE {}

ImplementsSlots == Slots!Spec
=============================================================================
