-------------------------- MODULE WifiStateMachine --------------------------
(***************************************************************************)
(* How the firmware keeps up with WiFi (components/wifi, and the event     *)
(* handlers in main/main.cpp).                                             *)
(*                                                                         *)
(*   - The event task runs the handlers of the WiFi driver's and of the    *)
(*     provisioning manager's events.  They put an InternalEvent on        *)
(*     wifi_queue and do not wait: an event that finds no room is dropped. *)
(*   - The main loop takes the events from the queue and gives them to the *)
(*     state chart, whose transitions call the driver and the manager.     *)
(*                                                                         *)
(* The driver and the manager are external.  The state chart (ETL) runs a  *)
(* transition's action, then, if the state changes, the old state's on_exit*)
(* and the new state's on_entry; an event without a transition is ignored. *)
(* A transition is one step: it looks neither at the queue nor at what the *)
(* event task does in the meantime.                                        *)
(***************************************************************************)
EXTENDS Naturals, Sequences

CONSTANT QueueLen   \* capacity of wifi_queue

ASSUME QueueLenAssumption == QueueLen \in Nat \ {0}

State == {"INIT", "STARTING", "CONNECTING", "CONNECTED", "PROVISIONING",
          "PROVISIONING_STOPPING", "PROVISIONING_FINISHING",
          "PROVISIONING_BYPASSED"}

InternalEvent ==
    {"IS_PROVISIONED", "IS_NOT_PROVISIONED", "STARTED", "CONNECT_SUCCESS",
     "DISCONNECT", "PROVISIONING_SUCCESS", "PROVISIONING_FAILURE",
     "PROVISIONING_BYPASS", "PROVISIONING_END"}

VARIABLES
    state,      \* of the state chart
    queue,      \* wifi_queue
    late,       \* CONNECT_TIMEOUT_MS have passed since connect_start_tick_count
    sta,        \* the driver: "off", "starting", "idle", "connecting",
                \* "associated" with an access point, or "up" with an address
    prov,       \* the manager: "absent" (not initialised), "idle", "started",
                \* "trying" credentials, "done", "stopping", or "abort" after
                \* a call it refuses, which ESP_ERROR_CHECK turns into a reboot
    note,       \* the manager's event on its way to provisioning_event_handler
    dropped,    \* history: an event was dropped
    refused,    \* history: the last esp_wifi_connect led to no attempt
    unheard     \* history: since the driver last came up a DISCONNECT was
                \* dropped, or taken while provisioning

vars == <<state, queue, late, sta, prov, note, dropped, refused, unheard>>

TypeOK ==
    /\ state \in State
    /\ queue \in Seq(InternalEvent) /\ Len(queue) <= QueueLen
    /\ late \in BOOLEAN
    /\ sta \in {"off", "starting", "idle", "connecting", "associated", "up"}
    /\ prov \in {"absent", "idle", "started", "trying", "done", "stopping", "abort"}
    /\ note \in {"none", "PROVISIONING_SUCCESS", "PROVISIONING_FAILURE"}
    /\ dropped \in BOOLEAN /\ refused \in BOOLEAN /\ unheard \in BOOLEAN

(* The chart starts in INIT and sends itself the result of is_provisioned. *)
Init ==
    /\ state = "INIT"
    /\ queue \in {<<"IS_PROVISIONED">>, <<"IS_NOT_PROVISIONED">>}
    /\ late = FALSE
    /\ sta = "off" /\ prov = "absent" /\ note = "none"
    /\ dropped = FALSE /\ refused = FALSE /\ unheard = FALSE

-----------------------------------------------------------------------------
(* The tables *)

Row(from, on, to, action) == [from |-> from, on |-> on, to |-> to, action |-> action]

(* Rows of the table with a guard of their own, see Target. *)
Retry == Row("CONNECTING", "DISCONNECT", "CONNECTING", "connect_to_ap")
GiveUp == Row("CONNECTING", "DISCONNECT", "PROVISIONING", "provisioning_init")

(* Rows of the table that need an event that nobody sends are left out.    *)
OtherRows ==
    {Row("INIT", "IS_PROVISIONED", "STARTING", "none"),
     Row("INIT", "IS_NOT_PROVISIONED", "PROVISIONING", "provisioning_init"),
     Row("STARTING", "STARTED", "CONNECTING", "none"),
     Row("CONNECTING", "CONNECT_SUCCESS", "CONNECTED", "none"),
     Row("CONNECTED", "DISCONNECT", "CONNECTING", "none"),
     Row("PROVISIONING", "PROVISIONING_SUCCESS", "PROVISIONING_FINISHING", "none"),
     Row("PROVISIONING", "PROVISIONING_FAILURE", "PROVISIONING_STOPPING", "none"),
     Row("PROVISIONING", "PROVISIONING_BYPASS", "PROVISIONING_BYPASSED", "none"),
     Row("PROVISIONING_FINISHING", "PROVISIONING_END", "CONNECTED", "provisioning_deinit"),
     Row("PROVISIONING_BYPASSED", "PROVISIONING_END", "CONNECTING", "provisioning_deinit"),
     Row("PROVISIONING_STOPPING", "PROVISIONING_END", "PROVISIONING", "none")}

-----------------------------------------------------------------------------
(* Variants of some definitions, each with a plausible mistake.  They are  *)
(* not part of the specification; the properties tell them apart.          *)

(* The manager is initialised again after a failure. *)
TableInitsAgain ==
    (OtherRows \ {Row("PROVISIONING_STOPPING", "PROVISIONING_END", "PROVISIONING", "none")})
    \union {Row("PROVISIONING_STOPPING", "PROVISIONING_END", "PROVISIONING", "provisioning_init"),
            Retry, GiveUp}

(* The loss of a connection is not a transition. *)
TableStaysConnected ==
    (OtherRows \ {Row("CONNECTED", "DISCONNECT", "CONNECTING", "none")})
    \union {Retry, GiveUp}

(* A handler does not look at the room in the queue. *)
PostUnbounded(event) ==
    /\ queue' = Append(queue, event)
    /\ dropped' = dropped

-----------------------------------------------------------------------------
(* transition_table *)
Table == OtherRows \union {Retry, GiveUp}

(* A variant: is_reconnecting is always true, as with a start of connecting*)
(* that is never behind.                                                   *)
TargetRetriesAlways(event) ==
    {row \in Table : row.from = state /\ row.on = event /\ row # GiveUp}

(* The transition taken on an event: a set of one row or none.  Of the two *)
(* for DISCONNECT in CONNECTING the first is taken if is_reconnecting.     *)
Target(event) ==
    {row \in Table : /\ row.from = state /\ row.on = event
                     /\ row = Retry => ~late
                     /\ row = GiveUp => late}

(* connect_with_timeout, the on_entry of CONNECTING. *)
ConnectStart(row) == row.to = "CONNECTING" /\ row.from # "CONNECTING"

(* Calls of the manager: what provisioning_init, provisioning_start,       *)
(* provisioning_stop and provisioning_deinit make of its state.            *)
Running == {"started", "trying", "done"}
MgrInit(p) == IF p = "absent" THEN "idle" ELSE "abort"
MgrStart(p) == IF p = "idle" THEN "started" ELSE "abort"
MgrStop(p) == IF p \in Running THEN "stopping" ELSE p

(* state_table and the actions: first the action, then on_exit, then       *)
(* on_entry.                                                               *)
AfterAction(row, p) ==
    CASE row.action = "provisioning_init" -> MgrInit(p)
      [] row.action = "provisioning_deinit" -> "absent"
      [] OTHER -> p
AfterExit(row, p) == IF row.from = "PROVISIONING" THEN MgrStop(p) ELSE p
AfterEntry(row, p) == IF row.to = "PROVISIONING" THEN MgrStart(p) ELSE p

(* esp_wifi_connect.  It starts an attempt, unless the driver has a        *)
(* connection or refuses; connect_to_ap only logs that.                    *)
EspWifiConnect ==
    \/ /\ sta \in {"idle", "connecting"}
       /\ sta' = "connecting" /\ refused' = FALSE
    \/ /\ refused' = TRUE
       /\ UNCHANGED sta

(* What a transition has the driver do. *)
DriverCalls(row) ==
    IF row.to = "STARTING" THEN sta' = "starting" /\ UNCHANGED refused
    ELSE IF row.to = "CONNECTING" THEN EspWifiConnect
    ELSE UNCHANGED <<sta, refused>>

-----------------------------------------------------------------------------
(* The main loop takes an event that has a transition. *)
Take(event) ==
    /\ queue # <<>> /\ Head(queue) = event /\ prov # "abort"
    /\ queue' = Tail(queue)

ProcessEvent ==
    \E event \in InternalEvent :
        /\ Take(event)
        /\ \E row \in Target(event) :
              /\ state' = row.to
              /\ prov' = AfterEntry(row, AfterExit(row, AfterAction(row, prov)))
              /\ late' = (late /\ ~ConnectStart(row))
              /\ DriverCalls(row)
        /\ UNCHANGED <<note, dropped, unheard>>

IgnoreEvent ==
    \E event \in InternalEvent :
        /\ Take(event)
        /\ Target(event) = {}
        /\ unheard' = (unheard \/ (event = "DISCONNECT" /\ state # "CONNECTED"))
        /\ UNCHANGED <<state, late, sta, prov, note, dropped, refused>>

(* wifi_queue.send(event, 0) *)
Post(event) ==
    IF Len(queue) < QueueLen
    THEN queue' = Append(queue, event) /\ UNCHANGED dropped
    ELSE dropped' = TRUE /\ UNCHANGED queue

(* The wifi command of the console, run by the main task as well. *)
SetupWifi ==
    /\ prov # "abort"
    /\ Post("PROVISIONING_BYPASS")
    /\ UNCHANGED <<state, late, sta, prov, note, refused, unheard>>

TimePasses ==
    /\ state = "CONNECTING" /\ ~late
    /\ late' = TRUE
    /\ UNCHANGED <<state, queue, sta, prov, note, dropped, refused, unheard>>

-----------------------------------------------------------------------------
(* The event task: an event of the driver or of the manager, and the       *)
(* handler that puts it on wifi_queue.                                     *)

(* WIFI_EVENT_STA_START, for the chart or for the manager, which starts    *)
(* the driver for itself if it has to.                                     *)
StaStart ==
    /\ sta = "starting" \/ (sta = "off" /\ prov \in Running)
    /\ sta' = "idle"
    /\ Post("STARTED")
    /\ UNCHANGED <<state, late, prov, note, refused, unheard>>

Associate ==
    /\ sta = "connecting"
    /\ sta' = "associated"
    /\ UNCHANGED <<state, queue, late, prov, note, dropped, refused, unheard>>

(* IP_EVENT_STA_GOT_IP *)
GotIp ==
    /\ sta = "associated"
    /\ sta' = "up"
    /\ Post("CONNECT_SUCCESS")
    /\ IF prov = "trying"
       THEN prov' = "done" /\ note' = "PROVISIONING_SUCCESS"
       ELSE UNCHANGED <<prov, note>>
    /\ unheard' = FALSE
    /\ UNCHANGED <<state, late, refused>>

(* WIFI_EVENT_STA_DISCONNECTED, after a failed attempt or the loss of a    *)
(* connection.  A manager that tries credentials takes it for a failure or *)
(* connects again, depending on the reason.                                *)
StaDisconnected ==
    /\ sta \in {"connecting", "associated", "up"}
    /\ Post("DISCONNECT")
    /\ unheard' = (unheard \/ Len(queue) = QueueLen)
    /\ \/ /\ prov = "trying"
          /\ prov' = "done" /\ note' = "PROVISIONING_FAILURE"
          /\ sta' = "idle"
       \/ /\ prov = "trying"
          /\ sta' = "connecting"
          /\ UNCHANGED <<prov, note>>
       \/ /\ prov # "trying"
          /\ sta' = "idle"
          /\ UNCHANGED <<prov, note>>
    /\ UNCHANGED <<state, late, refused>>

(* A client gives the manager credentials. *)
Credentials ==
    /\ prov = "started" /\ sta \notin {"off", "starting"}
    /\ prov' = "trying"
    /\ sta' = "connecting"
    /\ UNCHANGED <<state, queue, late, note, dropped, refused, unheard>>

(* WIFI_PROV_CRED_SUCCESS, WIFI_PROV_CRED_FAIL *)
ProvNote ==
    /\ note # "none"
    /\ Post(note)
    /\ note' = "none"
    /\ UNCHANGED <<state, late, sta, prov, refused, unheard>>

(* WIFI_PROV_END, after the events that were on their way. *)
ProvEnd ==
    /\ prov = "stopping" /\ note = "none"
    /\ prov' = "idle"
    /\ Post("PROVISIONING_END")
    /\ UNCHANGED <<state, late, sta, note, refused, unheard>>

-----------------------------------------------------------------------------
MainStep == ProcessEvent \/ IgnoreEvent

EventStep == StaStart \/ GotIp \/ StaDisconnected \/ ProvNote \/ ProvEnd

Next == MainStep \/ EventStep \/ Associate \/ Credentials \/ SetupWifi \/ TimePasses

Spec == Init /\ [][Next]_vars

(* The main loop runs, time passes, and the driver ends what it starts: it *)
(* associates or fails, and reports both.  Nothing obliges an access point *)
(* to give an address, a client to send credentials, or a connection to    *)
(* last.                                                                   *)
Fairness ==
    /\ WF_vars(MainStep) /\ WF_vars(TimePasses)
    /\ WF_vars(StaStart) /\ WF_vars(ProvNote) /\ WF_vars(ProvEnd)
    /\ WF_vars(sta = "connecting" /\ (Associate \/ StaDisconnected))

FairSpec == Spec /\ Fairness

-----------------------------------------------------------------------------
(* Properties *)

InQueue(event) == \E i \in DOMAIN queue : queue[i] = event

(* The chart and the manager stay in step although they hear of each other *)
(* through the queue: no call is refused, which would reboot the firmware, *)
(* and while the chart waits for the manager's end it is still to come.    *)
ManagerInStep ==
    CASE state = "PROVISIONING" -> prov \in Running
      [] state \in {"PROVISIONING_STOPPING", "PROVISIONING_FINISHING",
                    "PROVISIONING_BYPASSED"} ->
            prov = "stopping" \/ (prov = "idle" /\ (InQueue("PROVISIONING_END") \/ dropped))
      [] OTHER -> prov = "absent"

(* The web server runs only on a connection, or the news of its loss is on *)
(* its way: of all orders of events only a full queue and a loss while the *)
(* manager finishes can hide it.                                           *)
ConnectedIsTrue ==
    state = "CONNECTED" => sta = "up" \/ InQueue("DISCONNECT") \/ unheard

(* The chart does not stay in a state where the device is neither on the   *)
(* network nor an access point, unless an event was dropped or the driver  *)
(* has nothing more to say.                                                *)
TransitEnds ==
    \/ []<>(state \in {"CONNECTED", "PROVISIONING"})
    \/ <>[](dropped \/ refused \/ sta = "associated")
=============================================================================
