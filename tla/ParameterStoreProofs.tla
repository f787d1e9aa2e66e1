------------------------- MODULE ParameterStoreProofs -------------------------
(***************************************************************************)
(* Theorems about ParameterStore, for any finite set of parameters, any    *)
(* values, any room in updated_parameters and any number of failures.      *)
(***************************************************************************)
EXTENDS ParameterStore, FiniteSetTheorems, TLAPS

(* The types without the room in updated_parameters. *)
Types ==
    /\ live \in [Params -> Values]
    /\ flash \in [Params -> Values \union {NoValue}]
    /\ pending \in [Params -> Values \union {NoValue}]
    /\ timer \in {"off", "on", "firing"}
    /\ starts \in 0 .. MaxStarts
    /\ throttled \in BOOLEAN
    /\ mpc \in {"handle", "load", "check", "save"}
    /\ todo \subseteq Params
    /\ faults \in 0 .. MaxFaults
    /\ lost \subseteq Params

Room == Cardinality(Changed(pending)) <= MaxPending

(* While the changes are being saved, those that have had their turn are   *)
(* in flash.                                                               *)
SavedSoFar ==
    mpc = "save" =>
        /\ todo \subseteq Changed(pending)
        /\ \A p \in Changed(pending) \ (todo \union lost) : flash[p] = pending[p]

IInv == Types /\ Room /\ NothingForgotten /\ SavedSoFar

-----------------------------------------------------------------------------
(* A start of the timer, or its failure, changes only these counters. *)
LEMMA StartTimerTypes ==
    ASSUME Types, StartTimer
    PROVE  starts' \in 0 .. MaxStarts /\ faults' \in 0 .. MaxFaults
  <1>1. MaxStarts \in Nat /\ MaxFaults \in Nat
    BY StoreAssumption
  <1> QED
    BY <1>1 DEF Types, StartTimer, Fault

(* One more change leaves the map within its room. *)
LEMMA RoomForOne ==
    ASSUME Types, Room, NEW p \in Params, NEW v \in Values,
           Cardinality(Changed(pending)) # MaxPending,
           pending' = [pending EXCEPT ![p] = v]
    PROVE  Room'
  <1>1. IsFiniteSet(Params) /\ MaxPending \in Nat /\ NoValue \notin Values
    BY StoreAssumption DEF Values
  <1>2. Changed(pending) \subseteq Params
    BY DEF Changed
  <1>3. IsFiniteSet(Changed(pending))
    BY <1>1, <1>2, FS_Subset
  <1>4. Changed(pending)' = Changed(pending) \union {p}
    BY <1>1 DEF Changed, Types
  <1>5. Cardinality(Changed(pending)) \in Nat
    BY <1>3, FS_CardinalityType
  <1>6. Cardinality(Changed(pending) \union {p}) <= Cardinality(Changed(pending)) + 1
    BY <1>3, <1>5, FS_AddElement
  <1>7. Cardinality(Changed(pending) \union {p}) \in Nat
    BY <1>3, FS_AddElement, FS_CardinalityType
  <1>8. Cardinality(Changed(pending)) <= MaxPending
    BY DEF Room
  <1>9. Cardinality(Changed(pending) \union {p}) <= MaxPending
    <2> DEFINE n == Cardinality(Changed(pending))
               m == Cardinality(Changed(pending) \union {p})
    <2>1. n \in Nat /\ m \in Nat /\ MaxPending \in Nat
      BY <1>1, <1>5, <1>7
    <2>2. n <= MaxPending /\ n # MaxPending /\ m <= n + 1
      BY <1>6, <1>8
    <2> HIDE DEF n, m
    <2>3. m <= MaxPending
      BY <2>1, <2>2
    <2> QED
      BY <2>3 DEF m
  <1> QED
    BY <1>4, <1>9 DEF Room

(* Without changes the map has room. *)
LEMMA RoomForNone ==
    ASSUME pending' = Nothing
    PROVE  Room'
  <1>1. Changed(pending)' = {}
    BY DEF Changed, Nothing
  <1>2. Cardinality({}) = 0 /\ MaxPending \in Nat
    BY FS_EmptySet, StoreAssumption
  <1> QED
    BY <1>1, <1>2 DEF Room

(* An update of a parameter, outside of a save, keeps the invariant. *)
LEMMA UpdateKeeps ==
    ASSUME IInv, NEW p \in Params, NEW v \in Values, Update(p, v),
           todo' \subseteq Params, mpc' \in {"handle", "load", "check"}
    PROVE  IInv'
  <1>0. /\ NoValue \notin Values /\ Valid \subseteq Values
        /\ MaxStarts \in Nat /\ MaxFaults \in Nat
    BY StoreAssumption DEF Values
  <1>1. CASE Cardinality(Changed(pending)) = MaxPending
    <2>1. /\ pending' = pending /\ lost' = lost \union {p}
          /\ starts' = starts /\ faults' = faults
          /\ flash' = flash /\ timer' = timer /\ throttled' = throttled
          /\ live' = IF v \in Valid THEN [live EXCEPT ![p] = v] ELSE live
      BY <1>1 DEF Update, Notification
    <2>2. Types'
      BY <1>0, <2>1 DEF IInv, Types
    <2>3. Room'
      BY <2>1 DEF IInv, Room, Changed
    <2>4. NothingForgotten'
      BY <2>1 DEF IInv, Types, NothingForgotten, Loaded
    <2> QED
      BY <2>2, <2>3, <2>4 DEF IInv, SavedSoFar
  <1>2. CASE Cardinality(Changed(pending)) # MaxPending
    <2>1. /\ pending' = [pending EXCEPT ![p] = v]
          /\ lost' = IF v \in Valid THEN lost \ {p} ELSE lost \union {p}
          /\ StartTimer
          /\ flash' = flash /\ timer' = timer /\ throttled' = throttled
          /\ live' = IF v \in Valid THEN [live EXCEPT ![p] = v] ELSE live
      BY <1>2 DEF Update, Notification
    <2>2. starts' \in 0 .. MaxStarts /\ faults' \in 0 .. MaxFaults
      BY <2>1, StartTimerTypes DEF IInv
    <2>3. Types'
      BY <1>0, <2>1, <2>2 DEF IInv, Types
    <2>4. Room'
      BY <1>2, <2>1, RoomForOne DEF IInv
    <2>5. NothingForgotten'
      BY <1>0, <2>1 DEF IInv, Types, NothingForgotten, Loaded
    <2> QED
      BY <2>3, <2>4, <2>5 DEF IInv, SavedSoFar
  <1> QED
    BY <1>1, <1>2

(* Steps that touch neither values, changes nor records. *)
LEMMA ElsewhereKeeps ==
    ASSUME IInv, UNCHANGED <<live, flash, pending, lost>>, Types',
           mpc' = "save" => mpc = "save" /\ todo' = todo
    PROVE  IInv'
  BY DEF IInv, Room, Changed, NothingForgotten, Loaded, SavedSoFar

-----------------------------------------------------------------------------
(* The invariant holds of the parameters at the first start. *)
LEMMA InitIInv == Init => IInv
  <1> SUFFICES ASSUME Init PROVE IInv
    OBVIOUS
  <1>1. /\ Default \in Valid /\ Valid \subseteq Values
        /\ MaxStarts \in Nat /\ MaxFaults \in Nat /\ MaxPending \in Nat
    BY StoreAssumption DEF Values
  <1>2. Types
    BY <1>1 DEF Init, Types, Nothing
  <1>3. Room
    <2>1. Changed(pending) = {}
      BY DEF Init, Changed, Nothing
    <2> QED
      BY <1>1, <2>1, FS_EmptySet DEF Room
  <1>4. NothingForgotten
    BY DEF Init, NothingForgotten, Nothing, Loaded
  <1> QED
    BY <1>2, <1>3, <1>4 DEF IInv, SavedSoFar, Init

(* Every step of the main task and of the timer, and a loss of power,      *)
(* preserves the invariant.                                                *)
LEMMA StepIInv == IInv /\ [Next]_vars => IInv'
  <1> SUFFICES ASSUME IInv, [Next]_vars PROVE IInv'
    OBVIOUS
  <1> USE DEF timerVars
  <1>0. /\ NoValue \notin Values /\ Default \in Values
        /\ MaxStarts \in Nat /\ MaxFaults \in Nat
    BY StoreAssumption DEF Values
  <1>1. CASE ChangeParameter
    <2>1. PICK p \in Params, v \in Values : Update(p, v)
      BY <1>1 DEF ChangeParameter
    <2>2. todo' \subseteq Params /\ mpc' = "handle"
      BY <1>1 DEF ChangeParameter, IInv, Types
    <2> QED
      BY <2>1, <2>2, UpdateKeeps
  <1>2. CASE LoadNext
    <2>1. PICK p \in todo, v \in Values : Update(p, v) /\ todo' = todo \ {p}
      BY <1>2 DEF LoadNext
    <2>2. p \in Params /\ todo' \subseteq Params /\ mpc' \in {"handle", "load"}
      BY <1>2, <2>1 DEF LoadNext, IInv, Types
    <2> QED
      BY <2>1, <2>2, UpdateKeeps
  <1>3. CASE LoadPreset \/ HandleDone
    <2>1. Types'
      BY <1>3 DEF LoadPreset, HandleDone, IInv, Types
    <2> QED
      BY <1>3, <2>1, ElsewhereKeeps DEF LoadPreset, HandleDone
  <1>4. CASE Check
    <2>1. UNCHANGED <<live, flash, pending, lost>>
      BY <1>4 DEF Check
    <2>2. Types'
      BY <1>4 DEF Check, IInv, Types, Changed
    <2>3. Room' /\ NothingForgotten'
      BY <2>1 DEF IInv, Room, Changed, NothingForgotten, Loaded
    <2>4. SavedSoFar'
      BY <1>4, <2>1 DEF Check, SavedSoFar, Changed
    <2> QED
      BY <2>2, <2>3, <2>4 DEF IInv
  <1>5. CASE SaveNext
    <2>1. PICK p \in todo :
             /\ todo' = todo \ {p}
             /\ \/ /\ flash' = [flash EXCEPT ![p] = pending[p]]
                   /\ UNCHANGED <<faults, lost>>
                \/ /\ Fault
                   /\ lost' = lost \union {p}
                   /\ UNCHANGED flash
      BY <1>5 DEF SaveNext
    <2>2. mpc = "save" /\ mpc' = mpc /\ UNCHANGED <<live, pending, timer, starts, throttled>>
      BY <1>5 DEF SaveNext
    <2>3. p \in Params /\ pending[p] # NoValue
      BY <2>2 DEF IInv, SavedSoFar, Changed
    <2>4. Types'
      BY <1>0, <2>1, <2>2, <2>3 DEF IInv, Types, Fault
    <2>5. Room'
      BY <2>2 DEF IInv, Room, Changed
    <2>6. NothingForgotten'
      BY <2>1, <2>2, <2>3 DEF IInv, Types, NothingForgotten, Loaded
    <2>7. SavedSoFar'
      BY <2>1, <2>2, <2>3 DEF IInv, Types, SavedSoFar, Changed
    <2> QED
      BY <2>4, <2>5, <2>6, <2>7 DEF IInv
  <1>6. CASE SaveDone
    <2>1. /\ mpc = "save" /\ todo = {} /\ pending' = Nothing /\ mpc' = "handle"
          /\ UNCHANGED <<live, flash, timer, starts, throttled, todo, faults, lost>>
      BY <1>6 DEF SaveDone
    <2>2. Types'
      BY <2>1 DEF IInv, Types, Nothing
    <2>3. Room'
      BY <2>1, RoomForNone
    <2>4. \A p \in Params \ lost : live[p] = Loaded(p)
      BY <2>1 DEF IInv, NothingForgotten, SavedSoFar, Changed, Loaded
    <2>5. NothingForgotten'
      BY <2>1, <2>4 DEF NothingForgotten, Loaded, Nothing
    <2> QED
      BY <2>1, <2>2, <2>3, <2>5 DEF IInv, SavedSoFar
  <1>7. CASE TimerStep
    <2>1. UNCHANGED <<live, flash, pending, mpc, todo, faults, lost>>
      BY <1>7 DEF TimerStep, TimerStarts, TimerExpires, TimerCallback
    <2>2. timer' \in {"off", "on", "firing"} /\ throttled' \in BOOLEAN
      BY <1>7 DEF TimerStep, TimerStarts, TimerExpires, TimerCallback, IInv, Types
    <2>3. starts' \in 0 .. MaxStarts
      <3>1. starts \in 0 .. MaxStarts
        BY DEF IInv, Types
      <3>2. starts' = starts \/ (starts > 0 /\ starts' = starts - 1)
        BY <1>7 DEF TimerStep, TimerStarts, TimerExpires, TimerCallback
      <3> QED
        BY <1>0, <3>1, <3>2
    <2>4. Types'
      BY <2>1, <2>2, <2>3 DEF IInv, Types
    <2> QED
      BY <2>1, <2>4, ElsewhereKeeps
  <1>8. CASE Restart
    <2>1. PICK unread \in SUBSET Changed(flash) :
             /\ IF unread = {} THEN UNCHANGED faults ELSE Fault
             /\ live' = [p \in Params |-> IF p \in unread THEN Default ELSE Loaded(p)]
             /\ lost' = unread
      BY <1>8 DEF Restart
    <2>2. /\ pending' = Nothing /\ timer' = "off" /\ starts' = 0 /\ throttled' = TRUE
          /\ mpc' = "handle" /\ todo' = {} /\ flash' = flash
      BY <1>8 DEF Restart
    <2>3. \A p \in Params : Loaded(p) \in Values
      BY <1>0 DEF IInv, Types, Loaded
    <2>4. faults' \in 0 .. MaxFaults
      BY <1>0, <2>1 DEF IInv, Types, Fault
    <2>5. Types'
      BY <1>0, <2>1, <2>2, <2>3, <2>4 DEF IInv, Types, Nothing, Changed
    <2>6. Room'
      BY <2>2, RoomForNone
    <2>7. NothingForgotten'
      BY <2>1, <2>2 DEF NothingForgotten, Loaded, Nothing
    <2> QED
      BY <2>2, <2>5, <2>6, <2>7 DEF IInv, SavedSoFar
  <1>9. CASE UNCHANGED vars
    <2>1. Types'
      BY <1>9 DEF vars, IInv, Types
    <2> QED
      BY <1>9, <2>1, ElsewhereKeeps DEF vars
  <1> QED
    BY <1>1, <1>2, <1>3, <1>4, <1>5, <1>6, <1>7, <1>8, <1>9 DEF Next, MainStep

(* The invariant that the theorems below follow from. *)
THEOREM Invariance == Spec => []IInv
  BY InitIInv, StepIInv, PTL DEF Spec

(* The map of changes keeps to its room and everything keeps its type,     *)
(* through every preset that is loaded and every failure.                  *)
THEOREM TypeCorrect == Spec => []TypeOK
  <1>1. IInv => TypeOK
    BY DEF IInv, Types, Room, TypeOK
  <1> QED
    BY <1>1, Invariance, PTL

(* Every change of a parameter that was accepted is in flash or on its way *)
(* there, except those known to be lost.                                   *)
THEOREM ChangesAreKept == Spec => []NothingForgotten
  <1>1. IInv => NothingForgotten
    BY DEF IInv
  <1> QED
    BY <1>1, Invariance, PTL
=============================================================================
