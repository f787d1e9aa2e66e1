--------------------------- MODULE ParameterStore ---------------------------
(***************************************************************************)
(* The values of the audio parameters and how they are kept over a loss of *)
(* power (main/include/main_thread.h, components/audio_param).             *)
(*                                                                         *)
(*   - Clients, MIDI and presets change parameters, all in the main task.  *)
(*     ParameterObserver collects the changes in a map of fixed size and   *)
(*     starts a timer of 10 s.                                             *)
(*   - The timer daemon runs the timer's callback, which clears the flag   *)
(*     is_save_throttled.                                                  *)
(*   - ParameterObserver::loop, in each iteration of the main loop, saves  *)
(*     the changes and forgets them when it finds the flag cleared.        *)
(*                                                                         *)
(* Values are normalised.  Some of those a client may send are outside of  *)
(* the range of a parameter.                                               *)
(***************************************************************************)
EXTENDS Naturals, FiniteSets

CONSTANTS
    Params,     \* the parameters
    Valid,      \* values between 0 and 1
    Invalid,    \* other values
    NoValue,    \* no record, or no change
    Default,    \* value of a parameter that has no record
    MaxPending, \* MAX_PARAMETERS, room in updated_parameters
    MaxStarts,  \* room for start commands in the queue of the timer daemon
    MaxFaults   \* bound: failures of the timer queue and of the flash

ASSUME StoreAssumption ==
    /\ IsFiniteSet(Params)
    /\ Default \in Valid
    /\ NoValue \notin Valid \union Invalid
    /\ Valid \intersect Invalid = {}
    /\ MaxPending \in Nat /\ MaxStarts \in Nat /\ MaxFaults \in Nat

Values == Valid \union Invalid

VARIABLES
    live,       \* AudioParameterFloat::value
    flash,      \* the records
    pending,    \* updated_parameters
    timer,      \* "off", "on", or "firing" until its callback has run
    starts,     \* start commands that the daemon has not seen
    throttled,  \* is_save_throttled
    mpc,        \* main task: "handle" messages, "load" a preset, "check" the
                \* flag, "save" the changes
    todo,       \* parameters that are left to load, or to save
    faults,     \* failures up to now
    lost        \* history: parameters whose last change was dropped or
                \* rejected, or whose record was not written or not read

timerVars == <<timer, starts>>
vars == <<live, flash, pending, timerVars, throttled, mpc, todo, faults, lost>>

Nothing == [p \in Params |-> NoValue]

Changed(changes) == {p \in Params : changes[p] # NoValue}

TypeOK ==
    /\ live \in [Params -> Values]
    /\ flash \in [Params -> Values \union {NoValue}]
    /\ pending \in [Params -> Values \union {NoValue}]
    /\ Cardinality(Changed(pending)) <= MaxPending
    /\ timer \in {"off", "on", "firing"}
    /\ starts \in 0 .. MaxStarts
    /\ throttled \in BOOLEAN
    /\ mpc \in {"handle", "load", "check", "save"}
    /\ todo \subseteq Params
    /\ faults \in 0 .. MaxFaults
    /\ lost \subseteq Params

-----------------------------------------------------------------------------
(* Variants of some definitions, each with a plausible mistake.  They are  *)
(* not part of the specification; the properties tell them apart.          *)

(* A record that is missing is used as if it were there. *)
LoadedUnchecked(p) == flash[p]

(* The timer is started only if it is active. *)
StartTimerInverted ==
    IF timer # "on"
    THEN UNCHANGED <<starts, faults>>
    ELSE starts < MaxStarts /\ starts' = starts + 1 /\ UNCHANGED faults

(* The flag is read and not set again. *)
CheckOnlyTests ==
    /\ mpc = "check"
    /\ mpc' = IF throttled THEN "handle" ELSE "save"
    /\ todo' = IF throttled THEN {} ELSE Changed(pending)
    /\ UNCHANGED <<live, flash, pending, timerVars, throttled, faults, lost>>

-----------------------------------------------------------------------------
(* The value that a start of the firmware gives a parameter. *)
Loaded(p) == IF flash[p] = NoValue THEN Default ELSE flash[p]

Init ==
    /\ flash = Nothing
    /\ live = [p \in Params |-> Default]
    /\ pending = Nothing
    /\ timer = "off" /\ starts = 0
    /\ throttled = TRUE
    /\ mpc = "handle" /\ todo = {}
    /\ faults = 0 /\ lost = {}

Fault == faults < MaxFaults /\ faults' = faults + 1

(* timer.start, unless the timer is active.  The command may find no room. *)
StartTimer ==
    IF timer = "on"
    THEN UNCHANGED <<starts, faults>>
    ELSE \/ starts < MaxStarts /\ starts' = starts + 1 /\ UNCHANGED faults
         \/ starts = MaxStarts /\ UNCHANGED <<starts, faults>>
         \/ Fault /\ UNCHANGED starts

-----------------------------------------------------------------------------
(* The main task *)

(* The change is inserted, which keeps the value of an earlier change. *)
NotificationInserts(p, v) ==
    IF Cardinality(Changed(pending)) = MaxPending
    THEN lost' = lost \union {p} /\ UNCHANGED <<pending, starts, faults>>
    ELSE /\ pending' = [pending EXCEPT ![p] = IF @ = NoValue THEN v ELSE @]
         /\ lost' = IF v \in Valid THEN lost \ {p} ELSE lost \union {p}
         /\ StartTimer

(* ParameterObserver::notification *)
Notification(p, v) ==
    IF Cardinality(Changed(pending)) = MaxPending
    THEN lost' = lost \union {p} /\ UNCHANGED <<pending, starts, faults>>
    ELSE /\ pending' = [pending EXCEPT ![p] = v]
         /\ lost' = IF v \in Valid THEN lost \ {p} ELSE lost \union {p}
         /\ StartTimer

(* AudioParameters::update: the parameter ignores a value outside of its   *)
(* range, the observer is notified of it.                                  *)
Update(p, v) ==
    /\ live' = IF v \in Valid THEN [live EXCEPT ![p] = v] ELSE live
    /\ Notification(p, v)
    /\ UNCHANGED <<flash, timer, throttled>>

(* A message of a client, or MIDI that a mapping turns into a change. *)
ChangeParameter ==
    /\ mpc = "handle"
    /\ \E p \in Params, v \in Values : Update(p, v)
    /\ UNCHANGED <<mpc, todo>>

(* PresetLoader::load_preset changes every parameter, one after the other, *)
(* to the values of the preset.  No property depends on their order.       *)
LoadPreset ==
    /\ mpc = "handle"
    /\ mpc' = "load"
    /\ todo' = Params
    /\ UNCHANGED <<live, flash, pending, timerVars, throttled, faults, lost>>

LoadNext ==
    /\ mpc = "load"
    /\ \E p \in todo, v \in Values : Update(p, v) /\ todo' = todo \ {p}
    /\ mpc' = IF todo' = {} THEN "handle" ELSE "load"

HandleDone ==
    /\ mpc = "handle"
    /\ mpc' = "check"
    /\ UNCHANGED <<live, flash, pending, timerVars, throttled, todo, faults, lost>>

(* ParameterObserver::loop: test_and_set *)
Check ==
    /\ mpc = "check"
    /\ throttled' = TRUE
    /\ mpc' = IF throttled THEN "handle" ELSE "save"
    /\ todo' = IF throttled THEN {} ELSE Changed(pending)
    /\ UNCHANGED <<live, flash, pending, timerVars, faults, lost>>

(* One parameter is saved.  Nobody looks at the result. *)
SaveNext ==
    /\ mpc = "save"
    /\ \E p \in todo :
          /\ todo' = todo \ {p}
          /\ \/ /\ flash' = [flash EXCEPT ![p] = pending[p]]
                /\ UNCHANGED <<faults, lost>>
             \/ /\ Fault
                /\ lost' = lost \union {p}
                /\ UNCHANGED flash
    /\ UNCHANGED <<live, pending, timerVars, throttled, mpc>>

SaveDone ==
    /\ mpc = "save"
    /\ todo = {}
    /\ pending' = Nothing
    /\ mpc' = "handle"
    /\ UNCHANGED <<live, flash, timerVars, throttled, todo, faults, lost>>

-----------------------------------------------------------------------------
(* The timer daemon *)

(* A start command restarts the timer if it is active. *)
TimerStarts ==
    /\ starts > 0 /\ timer # "firing"
    /\ starts' = starts - 1
    /\ timer' = "on"
    /\ UNCHANGED <<live, flash, pending, throttled, mpc, todo, faults, lost>>

TimerExpires ==
    /\ timer = "on"
    /\ timer' = "firing"
    /\ UNCHANGED <<live, flash, pending, starts, throttled, mpc, todo, faults, lost>>

TimerCallback ==
    /\ timer = "firing"
    /\ timer' = "off"
    /\ throttled' = FALSE
    /\ UNCHANGED <<live, flash, pending, starts, mpc, todo, faults, lost>>

-----------------------------------------------------------------------------
(* The power is lost, and the firmware starts again.  A record that cannot *)
(* be read counts as none.                                                 *)
Restart ==
    /\ \E unread \in SUBSET Changed(flash) :
          /\ IF unread = {} THEN UNCHANGED faults ELSE Fault
          /\ live' = [p \in Params |-> IF p \in unread THEN Default ELSE Loaded(p)]
          /\ lost' = unread
    /\ pending' = Nothing
    /\ timer' = "off" /\ starts' = 0
    /\ throttled' = TRUE
    /\ mpc' = "handle" /\ todo' = {}
    /\ UNCHANGED flash

-----------------------------------------------------------------------------
MainStep ==
    \/ ChangeParameter \/ LoadPreset \/ LoadNext
    \/ HandleDone \/ Check \/ SaveNext \/ SaveDone

TimerStep == TimerStarts \/ TimerExpires \/ TimerCallback

Next == MainStep \/ TimerStep \/ Restart

Spec == Init /\ [][Next]_vars

(* Both tasks run when they can, the handling of messages ends in each     *)
(* iteration of the main loop, and time passes.  The power is not lost for *)
(* ever again.                                                             *)
Fairness ==
    /\ WF_vars(LoadNext \/ Check \/ SaveNext \/ SaveDone)
    /\ SF_vars(HandleDone)
    /\ WF_vars(TimerStarts) /\ WF_vars(TimerExpires) /\ WF_vars(TimerCallback)

FairSpec == Spec /\ Fairness

-----------------------------------------------------------------------------
(* Properties *)

(* A change is in flash or on its way there: only a full map, a failure or *)
(* a value out of range can make the value after the next start differ     *)
(* from the one the player hears, once the changes are saved.              *)
NothingForgotten ==
    \A p \in Params \ lost :
        IF pending[p] = NoValue THEN live[p] = Loaded(p) ELSE live[p] = pending[p]

(* A change does not wait for ever, whatever changes follow it: the timer, *)
(* the flag and the loop hand over to each other without a gap.            *)
PendingIsWritten ==
    \A p \in Params :
        faults = 0 /\ pending[p] # NoValue ~> faults > 0 \/ pending[p] = NoValue

(* When no parameter changes any more the main loop stops saving.          *)
FlashRests == <>[](pending = Nothing) => <>[](mpc # "save")

(* test_audio_param.cpp, UpdateTooHighIsNoop and UpdateTooLowIsNoop: an    *)
(* update out of range leaves the parameter as it was.                     *)
LiveInRange == \A p \in Params : live[p] \in Valid
=============================================================================
