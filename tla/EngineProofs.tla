----------------------------- MODULE EngineProofs -----------------------------
(***************************************************************************)
(* Theorems about the engine, for every number of states, actions and      *)
(* requests.  They rest on one inductive invariant, IInv: the type         *)
(* invariant is not inductive by itself, since a request or a target out   *)
(* of the registered range would become mCurState at the next step, and    *)
(* DoTransition's result is tied to the moves of the call only through     *)
(* the phase the call has reached.                                         *)
(***************************************************************************)
EXTENDS Engine, TLAPS

TargetsInRange ==
    /\ mNextStatePending => mNextState < mNumStates
    /\ phase = "Exit" => targetState < mNumStates

ResultSoFar ==
    /\ phase = "Evaluate" => moves = "none"
    /\ phase = "Loop" => (transitionOccurred <=> moves = "some" \/ mNextStatePending)
    /\ phase \in {"Exit", "Entry"} => transitionOccurred
    /\ phase = "Entry" => moves = "some"

IInv == TypeOK /\ TargetsInRange /\ ToldOnlyOfCurrentState /\ ResultSoFar

LEMMA ActionListsTyped ==
    ASSUME mStates \in [StateIds -> [Triggers -> Nat]],
           NEW s \in StateIds, NEW t \in Triggers, AddAction(s, t)
    PROVE  mStates' \in [StateIds -> [Triggers -> Nat]]
  <1>1. mStates' = [mStates EXCEPT ![s] = [mStates[s] EXCEPT ![t] = mStates[s][t] + 1]]
    BY DEF AddAction
  <1>2. [mStates[s] EXCEPT ![t] = mStates[s][t] + 1] \in [Triggers -> Nat]
    OBVIOUS
  <1> QED
    BY <1>1, <1>2

LEMMA InitIInv == Init => IInv
  <1> SUFFICES ASSUME Init PROVE IInv
    OBVIOUS
  <1>1. TypeOK
    <2>1. 0 \in StateIds
      BY BoundsAssumption DEF StateIds
    <2>2. mStates \in [StateIds -> [Triggers -> Nat]]
      BY DEF Init
    <2>3. /\ mCurState = 0 /\ mNextState = 0 /\ mNextStatePending = FALSE
          /\ mNumStates = 0 /\ phase = "Idle" /\ nextAction = 0 /\ targetState = 0
          /\ transitionOccurred = FALSE /\ requestsLeft = 0 /\ told = {} /\ moves = "none"
      BY DEF Init
    <2>4. 0 \in 0 .. MaxStates /\ 0 \in 0 .. 0 /\ 0 \in 0 .. MaxRequests /\ 0 \in Nat
      BY BoundsAssumption
    <2> QED
      BY <2>1, <2>2, <2>3, <2>4 DEF TypeOK, Triggers
  <1>2. TargetsInRange /\ ToldOnlyOfCurrentState /\ ResultSoFar
    BY DEF Init, TargetsInRange, ToldOnlyOfCurrentState, ResultSoFar, InState
  <1> QED
    BY <1>1, <1>2 DEF IInv

LEMMA NextIInv == IInv /\ [Next]_vars => IInv'
  <1> SUFFICES ASSUME IInv, [Next]_vars PROVE IInv'
    OBVIOUS
  <1> USE BoundsAssumption DEF IInv, TypeOK, TargetsInRange, ToldOnlyOfCurrentState,
          ResultSoFar, InState, StateIds, Triggers, engineVars, callVars
  <1>1. ASSUME NEW n \in 0 .. MaxStates, InitStates(n) PROVE IInv'
    BY <1>1 DEF InitStates
  <1>2. ASSUME NEW s \in StateIds, NEW t \in Triggers, AddAction(s, t) PROVE IInv'
    <2>1. mStates' \in [StateIds -> [Triggers -> Nat]]
      BY <1>2, ActionListsTyped
    <2>2. UNCHANGED <<mCurState, mNextState, mNextStatePending, mNumStates, callVars, told, moves>>
      BY <1>2 DEF AddAction
    <2> QED
      BY <2>1, <2>2
  <1>3. ASSUME NEW s \in 0 .. MaxStates, RequestBetweenCalls(s) PROVE IInv'
    BY <1>3 DEF RequestBetweenCalls, Transition
  <1>4. ASSUME NEW s \in 0 .. MaxStates, RequestByAction(s) PROVE IInv'
    BY <1>4 DEF RequestByAction, Transition
  <1>5. CASE BeginEvaluateState
    BY <1>5 DEF BeginEvaluateState
  <1>6. CASE BeginDoTransition
    BY <1>6 DEF BeginDoTransition, EnterLoop
  <1>7. CASE ActionReturns
    BY <1>7 DEF ActionReturns
  <1>8. CASE EvaluateDone
    BY <1>8 DEF EvaluateDone, EnterLoop
  <1>9. CASE TakeRequest
    BY <1>9 DEF TakeRequest
  <1>10. CASE ExitDone
    BY <1>10 DEF ExitDone
  <1>11. CASE EntryDone
    BY <1>11 DEF EntryDone
  <1>12. CASE Return
    BY <1>12 DEF Return
  <1>13. CASE UNCHANGED vars
    BY <1>13 DEF vars
  <1> QED
    BY <1>1, <1>2, <1>3, <1>4, <1>5, <1>6, <1>7, <1>8, <1>9, <1>10, <1>11, <1>12, <1>13
       DEF Next, Progress

LEMMA Invariance == Safety => []IInv
  BY InitIInv, NextIInv, PTL DEF Safety

-----------------------------------------------------------------------------

\* Engine.cpp never indexes mStates outside the registered states: mCurState, and the targets
\* that become mCurState, stay in range whatever the actions request and whenever they do.
THEOREM TypeCorrect == Safety => []TypeOK
  BY Invariance, PTL DEF IInv

\* Exit and Entry notifications are paired, for any number of states and chained requests.
THEOREM NotificationsPaired == Safety => []ToldOnlyOfCurrentState
  BY Invariance, PTL DEF IInv

\* Once in a state the engine is always in some registered state (GetCurState, Engine.hpp).
THEOREM AlwaysInSomeState == Safety => StaysInSomeState
  <1>1. IInv /\ [Next]_vars => [InState => InState']_vars
    <2> SUFFICES ASSUME IInv, Next, InState PROVE InState'
      BY DEF vars
    <2> USE DEF IInv, TypeOK, TargetsInRange, InState, engineVars, callVars
    <2>1. CASE \E n \in 0 .. MaxStates : InitStates(n)
      BY <2>1 DEF InitStates
    <2>2. CASE \E s \in StateIds, t \in Triggers : AddAction(s, t)
      BY <2>2 DEF AddAction
    <2>3. CASE \E s \in 0 .. MaxStates : RequestBetweenCalls(s) \/ RequestByAction(s)
      BY <2>3 DEF RequestBetweenCalls, RequestByAction, Transition
    <2>4. CASE BeginEvaluateState \/ BeginDoTransition
      BY <2>4 DEF BeginEvaluateState, BeginDoTransition
    <2>5. CASE Progress
      BY <2>5 DEF Progress, ActionReturns, EvaluateDone, TakeRequest, ExitDone, EntryDone, Return
    <2> QED
      BY <2>1, <2>2, <2>3, <2>4, <2>5 DEF Next
  <1> QED
    BY <1>1, Invariance, PTL DEF Safety, StaysInSomeState

\* A call comes back only with no request left, and its result says whether a state was entered.
THEOREM CallResults == Safety => ReturnsDrained /\ ResultTellsMoves
  <1> DEFINE Returning == phase # "Idle" /\ phase' = "Idle"
  <1>1. IInv /\ [Next]_vars =>
          [Returning => ~mNextStatePending' /\ (transitionOccurred' <=> moves' = "some")]_vars
    <2> SUFFICES ASSUME IInv, Next, Returning
                 PROVE  ~mNextStatePending' /\ (transitionOccurred' <=> moves' = "some")
      BY DEF vars
    <2>1. Return
      BY DEF Next, Progress, InitStates, AddAction, RequestBetweenCalls, RequestByAction,
             BeginEvaluateState, BeginDoTransition, EnterLoop, ActionReturns, EvaluateDone,
             TakeRequest, ExitDone, EntryDone, callVars, Triggers
    <2> QED
      BY <2>1 DEF Return, IInv, ResultSoFar, engineVars
  <1>2. IInv /\ [Next]_vars => [Returning => ~mNextStatePending']_vars
    BY <1>1
  <1>3. IInv /\ [Next]_vars => [Returning => (transitionOccurred' <=> moves' = "some")]_vars
    BY <1>1
  <1>4. Safety => ReturnsDrained
    BY <1>2, Invariance, PTL DEF Safety, ReturnsDrained
  <1>5. Safety => ResultTellsMoves
    BY <1>3, Invariance, PTL DEF Safety, ResultTellsMoves
  <1> QED
    BY <1>4, <1>5

-----------------------------------------------------------------------------

\* The engine implements the abstract slots step by step: setting up, running actions and
\* returning are stutters, accepting a request is Ask, taking it up is Commit, and starting the
\* Entry actions of the target is Move.
THEOREM SlotsRefined == Safety => Slots!Safety
  <1>1. Init => Slots!Init
    BY DEF Init, Slots!Init, InState
  <1>2. IInv /\ [Next]_vars => [Slots!Next]_(Slots!vars)
    <2> SUFFICES ASSUME IInv, [Next]_vars
                 PROVE  Slots!Next \/ UNCHANGED Slots!vars
      OBVIOUS
    <2> USE DEF IInv, TypeOK, TargetsInRange, InState, engineVars, callVars, Slots!vars
    <2>1. ASSUME NEW n \in 0 .. MaxStates, InitStates(n) PROVE UNCHANGED Slots!vars
      BY <2>1 DEF InitStates, Triggers
    <2>2. ASSUME NEW s \in StateIds, NEW t \in Triggers, AddAction(s, t)
          PROVE  UNCHANGED Slots!vars
      BY <2>2 DEF AddAction
    <2>3. ASSUME NEW s \in 0 .. MaxStates, RequestBetweenCalls(s) \/ RequestByAction(s)
          PROVE  Slots!Next
      <3>1. Transition(s) /\ UNCHANGED <<phase, targetState>>
        BY <2>3 DEF RequestBetweenCalls, RequestByAction
      <3>2. s \in StateIds
        BY <3>1, BoundsAssumption DEF Transition, StateIds
      <3>3. Slots!Ask(s)
        BY <3>1 DEF Transition, Slots!Ask
      <3> QED
        BY <3>2, <3>3 DEF Slots!Next
    <2>4. CASE BeginEvaluateState \/ BeginDoTransition
      <3>1. UNCHANGED <<engineVars, targetState>> /\ phase # "Exit" /\ phase' # "Exit"
        BY <2>4 DEF BeginEvaluateState, BeginDoTransition, EnterLoop
      <3> QED
        BY <3>1
    <2>5. CASE ActionReturns \/ EvaluateDone \/ EntryDone \/ Return
      <3>1. UNCHANGED <<engineVars, targetState>> /\ (phase' = "Exit" <=> phase = "Exit")
        BY <2>5 DEF ActionReturns, EvaluateDone, EnterLoop, EntryDone, Return
      <3> QED
        BY <3>1
    <2>6. CASE TakeRequest
      BY <2>6 DEF TakeRequest, Slots!Next, Slots!Commit
    <2>7. CASE ExitDone
      BY <2>7 DEF ExitDone, Slots!Next, Slots!Move
    <2>8. CASE UNCHANGED vars
      BY <2>8 DEF vars
    <2> QED
      BY <2>1, <2>2, <2>3, <2>4, <2>5, <2>6, <2>7, <2>8 DEF Next, Progress
  <1> QED
    BY <1>1, <1>2, Invariance, PTL DEF Safety, Slots!Safety
=============================================================================
