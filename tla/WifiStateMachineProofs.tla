----------------------- MODULE WifiStateMachineProofs -----------------------
(***************************************************************************)
(* Proofs about WifiStateMachine for every capacity of wifi_queue: the     *)
(* chart and the provisioning manager stay in step, and a chart that is    *)
(* connected has a connection or is about to hear of its loss.             *)
(***************************************************************************)
EXTENDS WifiStateMachine, SequenceTheorems, TLAPS

USE QueueLenAssumption

Index == 1 .. Len(queue)

Waiting == {"PROVISIONING_STOPPING", "PROVISIONING_FINISHING", "PROVISIONING_BYPASSED"}
Outcome == {"PROVISIONING_SUCCESS", "PROVISIONING_FAILURE"}

-----------------------------------------------------------------------------
(* The invariants *)

(* The manager is where the chart takes it to be; its end is on the queue  *)
(* at most once, after the outcomes of its run, and only if it has ended.  *)
InStep ==
    /\ state = "PROVISIONING" => prov \in Running
    /\ state \in Waiting =>
          prov = "stopping"
          \/ (prov = "idle" /\ (dropped \/ \E i \in Index : queue[i] = "PROVISIONING_END"))
    /\ state \notin Waiting \union {"PROVISIONING"} => prov = "absent"
    /\ \A i \in Index : queue[i] = "PROVISIONING_END" => prov = "idle"
    /\ \A i, j \in Index : queue[i] = "PROVISIONING_END" /\ queue[j] = "PROVISIONING_END" => i = j
    /\ \A i \in Index : queue[i] \in Outcome => prov \in {"done", "stopping", "idle"}
    /\ \A i, j \in Index : queue[i] \in Outcome /\ queue[j] = "PROVISIONING_END" => i < j
    /\ note # "none" => prov \in {"done", "stopping"}

(* A loss of the connection is known, or the news of it is behind place i. *)
LinkFrom(i) ==
    \/ sta = "up" \/ unheard
    \/ \E j \in Index : j > i /\ queue[j] = "DISCONNECT"

(* News of a connection that the chart will act on is true, or followed by *)
(* news of the loss.  Of a connection it only acts on once the manager is  *)
(* absent; what is before the end of the manager it ignores.               *)
InTruth ==
    /\ state = "INIT" => sta = "off"
    /\ state \in {"CONNECTED", "PROVISIONING_FINISHING"} => LinkFrom(0)
    /\ note = "PROVISIONING_SUCCESS" => LinkFrom(0)
    /\ \A i \in Index : queue[i] = "PROVISIONING_SUCCESS" => LinkFrom(0)
    /\ \A i \in Index :
          /\ queue[i] = "CONNECT_SUCCESS"
          /\ prov = "absent" \/ \E j \in Index : j < i /\ queue[j] = "PROVISIONING_END"
          => LinkFrom(i)

IInv == TypeOK /\ InStep /\ InTruth
-----------------------------------------------------------------------------
(* The queue *)

LEMMA IndexNat == TypeOK => Len(queue) \in Nat /\ \A i \in Index : i \in Nat /\ i > 0
  BY DEF TypeOK, Index

(* What a handler's send makes of the queue. *)
LEMMA PostFacts ==
    ASSUME TypeOK, NEW event \in InternalEvent, Post(event)
    PROVE  /\ queue' \in Seq(InternalEvent) /\ Len(queue') <= QueueLen
           /\ dropped' \in BOOLEAN /\ (dropped => dropped')
           /\ \A i \in Index : i \in Index' /\ queue'[i] = queue[i]
           /\ \A i \in Index' : i \in Nat /\ i > 0
           /\ \A i \in Index' : i \in Index \/ (queue'[i] = event /\ \A j \in Index : j < i)
           /\ \A i, j \in Index' : i \notin Index /\ j \notin Index => i = j
           /\ \/ dropped' /\ Len(queue) = QueueLen
              \/ \E i \in Index' : queue'[i] = event /\ \A j \in Index : j < i
<1> USE DEF Index
<1>1. CASE Len(queue) < QueueLen
  <2>1. queue' = Append(queue, event) /\ dropped' = dropped
    BY <1>1 DEF Post
  <2>2. /\ queue' \in Seq(InternalEvent) /\ Len(queue) \in Nat /\ Len(queue') = Len(queue) + 1
        /\ \A i \in 1 .. Len(queue) : queue'[i] = queue[i]
        /\ queue'[Len(queue) + 1] = event
    BY <2>1, AppendProperties DEF TypeOK
  <2> QED
    BY <1>1, <2>1, <2>2 DEF TypeOK
<1>2. CASE ~(Len(queue) < QueueLen)
  <2>1. queue' = queue /\ dropped' = TRUE /\ Len(queue) = QueueLen
    BY <1>2 DEF Post, TypeOK
  <2> QED
    BY <2>1 DEF TypeOK
<1> QED
  BY <1>1, <1>2

(* What the main loop's receive makes of the queue. *)
LEMMA TakeFacts ==
    ASSUME TypeOK, NEW event \in InternalEvent, Take(event)
    PROVE  /\ queue' \in Seq(InternalEvent) /\ Len(queue') <= QueueLen
           /\ 1 \in Index /\ queue[1] = event
           /\ \A i \in Index' : i + 1 \in Index /\ queue'[i] = queue[i + 1] /\ i \in Nat /\ i > 0
           /\ \A i \in Index : i = 1 \/ (i - 1 \in Index' /\ queue'[i - 1] = queue[i])
<1>1. queue \in Seq(InternalEvent) /\ queue # <<>> /\ queue' = Tail(queue) /\ Head(queue) = event
  BY DEF Take, TypeOK
<1>2. /\ queue' \in Seq(InternalEvent) /\ Len(queue) \in Nat \ {0} /\ Len(queue') = Len(queue) - 1
      /\ \A i \in 1 .. Len(queue') : queue'[i] = queue[i + 1]
      /\ queue[1] = event
  BY <1>1, HeadTailProperties, LenProperties, EmptySeq
<1> QED
  BY <1>2 DEF Index, TypeOK

(* The rows of the table, each with what it does to the manager. *)
LEMMA TargetRows ==
    ASSUME NEW event \in InternalEvent, NEW row \in Target(event)
    PROVE  LET p == AfterEntry(row, AfterExit(row, AfterAction(row, prov)))
               Is(from, on, to) == state = from /\ event = on /\ row.to = to
           IN /\ row.from = state
              /\ \/ Is("INIT", "IS_PROVISIONED", "STARTING") /\ p = prov
                 \/ Is("INIT", "IS_NOT_PROVISIONED", "PROVISIONING") /\ p = MgrStart(MgrInit(prov))
                 \/ Is("STARTING", "STARTED", "CONNECTING") /\ p = prov
                 \/ Is("CONNECTING", "CONNECT_SUCCESS", "CONNECTED") /\ p = prov
                 \/ Is("CONNECTED", "DISCONNECT", "CONNECTING") /\ p = prov
                 \/ Is("PROVISIONING", "PROVISIONING_SUCCESS", "PROVISIONING_FINISHING")
                    /\ p = MgrStop(prov)
                 \/ Is("PROVISIONING", "PROVISIONING_FAILURE", "PROVISIONING_STOPPING")
                    /\ p = MgrStop(prov)
                 \/ Is("PROVISIONING", "PROVISIONING_BYPASS", "PROVISIONING_BYPASSED")
                    /\ p = MgrStop(prov)
                 \/ Is("PROVISIONING_FINISHING", "PROVISIONING_END", "CONNECTED") /\ p = "absent"
                 \/ Is("PROVISIONING_BYPASSED", "PROVISIONING_END", "CONNECTING") /\ p = "absent"
                 \/ Is("PROVISIONING_STOPPING", "PROVISIONING_END", "PROVISIONING")
                    /\ p = MgrStart(prov)
                 \/ Is("CONNECTING", "DISCONNECT", "CONNECTING") /\ p = prov
                 \/ Is("CONNECTING", "DISCONNECT", "PROVISIONING") /\ p = MgrStart(MgrInit(prov))
  BY SMTT(60) DEF Target, Table, OtherRows, Retry, GiveUp, Row, AfterEntry,
     AfterExit, AfterAction

(* A chart that waits for the end of the manager takes it. *)
LEMMA EndIsTaken == state \in Waiting => Target("PROVISIONING_END") # {}
<1> DEFINE End(from, to, action) == Row(from, "PROVISIONING_END", to, action)
<1>1. ASSUME NEW from, NEW to, NEW action, state = from, End(from, to, action) \in OtherRows
      PROVE  End(from, to, action) \in Target("PROVISIONING_END")
  <2>1. End(from, to, action).on # "DISCONNECT"
    BY DEF Row
  <2> QED
    BY <1>1, <2>1 DEF Target, Table, Row, Retry, GiveUp
<1>2. /\ End("PROVISIONING_STOPPING", "PROVISIONING", "none") \in OtherRows
      /\ End("PROVISIONING_FINISHING", "CONNECTED", "provisioning_deinit") \in OtherRows
      /\ End("PROVISIONING_BYPASSED", "CONNECTING", "provisioning_deinit") \in OtherRows
  BY DEF OtherRows
<1> QED
  BY <1>1, <1>2 DEF Waiting

(* A chart that is connected takes the loss of the connection. *)
LEMMA LossIsTaken == state = "CONNECTED" => Target("DISCONNECT") # {}
<1> DEFINE loss == Row("CONNECTED", "DISCONNECT", "CONNECTING", "none")
<1>1. loss \in OtherRows /\ loss.from = "CONNECTED" /\ loss.on = "DISCONNECT"
  BY DEF OtherRows, Row
<1>2. loss # Retry /\ loss # GiveUp
  BY <1>1 DEF Row, Retry, GiveUp
<1> QED
  BY <1>1, <1>2 DEF Target, Table

(* A transition, but for the queue. *)
Moves(row) ==
    /\ state' = row.to
    /\ prov' = AfterEntry(row, AfterExit(row, AfterAction(row, prov)))
    /\ late' = (late /\ ~ConnectStart(row))
    /\ DriverCalls(row)
    /\ UNCHANGED <<note, dropped, unheard>>

-----------------------------------------------------------------------------
(* Types *)

LEMMA StepTypeOK == TypeOK /\ [Next]_vars => TypeOK'
<1> SUFFICES ASSUME TypeOK, [Next]_vars
             PROVE  TypeOK'
  OBVIOUS
<1>1. CASE ProcessEvent
  <2>0. PICK event \in InternalEvent : Take(event) /\ \E row \in Target(event) : Moves(row)
    BY <1>1 DEF ProcessEvent, Moves
  <2>1. PICK row \in Target(event) : Take(event) /\ Moves(row)
    BY <2>0
  <2>2. state' \in State
    BY <2>1, TargetRows DEF State, Moves
  <2>3. prov' \in {"absent", "idle", "started", "trying", "done", "stopping", "abort"}
    BY <2>1, TargetRows DEF TypeOK, Moves, MgrInit, MgrStart, MgrStop
  <2>4. late' \in BOOLEAN
    BY <2>1 DEF Moves
  <2>5. /\ sta' \in {"off", "starting", "idle", "connecting", "associated", "up"}
        /\ refused' \in BOOLEAN
    BY <2>1 DEF Moves, DriverCalls, EspWifiConnect, TypeOK
  <2>6. queue' \in Seq(InternalEvent) /\ Len(queue') <= QueueLen
    BY <2>1, TakeFacts
  <2> QED
    BY <2>1, <2>2, <2>3, <2>4, <2>5, <2>6 DEF Moves, TypeOK
<1>2. CASE IgnoreEvent
  <2>1. PICK event \in InternalEvent :
          /\ Take(event)
          /\ unheard' = (unheard \/ (event = "DISCONNECT" /\ state # "CONNECTED"))
          /\ UNCHANGED <<state, late, sta, prov, note, dropped, refused>>
    BY <1>2 DEF IgnoreEvent
  <2>2. queue' \in Seq(InternalEvent) /\ Len(queue') <= QueueLen
    BY <2>1, TakeFacts
  <2>3. unheard' \in BOOLEAN
    BY <2>1
  <2> QED
    BY <2>1, <2>2, <2>3 DEF TypeOK
<1>3. ASSUME NEW event \in InternalEvent, Post(event)
      PROVE  queue' \in Seq(InternalEvent) /\ Len(queue') <= QueueLen /\ dropped' \in BOOLEAN
  BY <1>3, PostFacts
<1>4. CASE StaStart
  BY <1>3, <1>4 DEF StaStart, TypeOK, InternalEvent
<1>5. CASE GotIp
  BY <1>3, <1>5 DEF GotIp, TypeOK, InternalEvent
<1>6. CASE StaDisconnected
  <2>1. unheard' \in BOOLEAN
    BY <1>6 DEF StaDisconnected
  <2>2. /\ prov' \in {prov, "done"} /\ note' \in {note, "PROVISIONING_FAILURE"}
        /\ sta' \in {"idle", "connecting"} /\ UNCHANGED <<state, late, refused>>
    BY <1>6 DEF StaDisconnected
  <2> QED
    BY <1>3, <1>6, <2>1, <2>2 DEF StaDisconnected, TypeOK, InternalEvent
<1>7. CASE ProvNote
  BY <1>3, <1>7 DEF ProvNote, TypeOK, InternalEvent
<1>8. CASE ProvEnd
  BY <1>3, <1>8 DEF ProvEnd, TypeOK, InternalEvent
<1>9. CASE SetupWifi
  BY <1>3, <1>9 DEF SetupWifi, TypeOK, InternalEvent
<1>10. CASE Associate \/ Credentials \/ TimePasses
  BY <1>10 DEF Associate, Credentials, TimePasses, TypeOK
<1>11. CASE UNCHANGED vars
  BY <1>11 DEF vars, TypeOK
<1> QED
  BY <1>1, <1>2, <1>4, <1>5, <1>6, <1>7, <1>8, <1>9, <1>10, <1>11 DEF Next,
     MainStep, EventStep

-----------------------------------------------------------------------------
(* The chart and the manager *)

LEMMA StepInStep == TypeOK /\ InStep /\ [Next]_vars => InStep'
<1> SUFFICES ASSUME TypeOK, InStep, [Next]_vars
             PROVE  InStep'
  OBVIOUS
<1> USE DEF Waiting, Outcome, Running
<1>1. CASE ProcessEvent
  <2>0. PICK event \in InternalEvent : Take(event) /\ \E row \in Target(event) : Moves(row)
    BY <1>1 DEF ProcessEvent, Moves
  <2>1. PICK row \in Target(event) : Take(event) /\ Moves(row)
    BY <2>0
  <2>2. /\ 1 \in Index /\ queue[1] = event
        /\ \A i \in Index' : i + 1 \in Index /\ queue'[i] = queue[i + 1] /\ i \in Nat /\ i > 0
        /\ \A i \in Index : i = 1 \/ (i - 1 \in Index' /\ queue'[i - 1] = queue[i])
    BY <2>1, TakeFacts
  <2> QED
    BY <2>1, <2>2, TargetRows DEF InStep, Moves, MgrInit, MgrStart, MgrStop
<1>2. CASE IgnoreEvent
  <2>1. PICK event \in InternalEvent : Take(event) /\ Target(event) = {}
    BY <1>2 DEF IgnoreEvent
  <2>2. /\ 1 \in Index /\ queue[1] = event
        /\ \A i \in Index' : i + 1 \in Index /\ queue'[i] = queue[i + 1] /\ i \in Nat /\ i > 0
        /\ \A i \in Index : i = 1 \/ (i - 1 \in Index' /\ queue'[i - 1] = queue[i])
    BY <2>1, TakeFacts
  <2>3. UNCHANGED <<state, prov, note, dropped>>
    BY <1>2 DEF IgnoreEvent
  <2>4. state \in Waiting => event # "PROVISIONING_END"
    BY <2>1, EndIsTaken
  <2>5. \A i \in Index' : \E j \in Index : j = i + 1 /\ queue'[i] = queue[j]
    BY <2>2
  <2>6. \A i, j \in Index' : /\ i + 1 = j + 1 => i = j
                             /\ i + 1 < j + 1 => i < j
    BY <2>2
  <2>7. ASSUME state \in Waiting, NEW i \in Index, queue[i] = "PROVISIONING_END"
        PROVE  \E j \in Index' : queue'[j] = "PROVISIONING_END"
    BY <2>2, <2>4, <2>7
  <2> QED
    BY <2>2, <2>3, <2>4, <2>5, <2>6, <2>7 DEF InStep
<1>4. CASE StaStart
  BY <1>4, PostFacts DEF StaStart, InStep, InternalEvent
<1>5. CASE GotIp
  BY <1>5, PostFacts DEF GotIp, InStep, InternalEvent
<1>6. CASE StaDisconnected
  BY <1>6, PostFacts DEF StaDisconnected, InStep, InternalEvent
<1>7. CASE ProvNote
  BY <1>7, PostFacts DEF ProvNote, InStep, InternalEvent, TypeOK
<1>8. CASE ProvEnd
  BY <1>8, PostFacts DEF ProvEnd, InStep, InternalEvent
<1>9. CASE SetupWifi
  BY <1>9, PostFacts DEF SetupWifi, InStep, InternalEvent
<1>10. CASE Associate \/ Credentials \/ TimePasses
  BY <1>10 DEF Associate, Credentials, TimePasses, InStep, Index
<1>11. CASE UNCHANGED vars
  BY <1>11 DEF vars, InStep, Index
<1> QED
  BY <1>1, <1>2, <1>4, <1>5, <1>6, <1>7, <1>8, <1>9, <1>10, <1>11 DEF Next,
     MainStep, EventStep

-----------------------------------------------------------------------------
(* The chart and the connection *)

LEMMA StepInTruth == TypeOK /\ InStep /\ InTruth /\ [Next]_vars => InTruth'
<1> SUFFICES ASSUME TypeOK, InStep, InTruth, [Next]_vars
             PROVE  InTruth'
  OBVIOUS
<1> USE DEF Waiting, Outcome, Running, LinkFrom
<1>1. CASE ProcessEvent
  <2>0. PICK event \in InternalEvent : Take(event) /\ \E row \in Target(event) : Moves(row)
    BY <1>1 DEF ProcessEvent, Moves
  <2>1. PICK row \in Target(event) : Take(event) /\ Moves(row)
    BY <2>0
  <2>2. /\ 1 \in Index /\ queue[1] = event
        /\ \A i \in Index' : i + 1 \in Index /\ queue'[i] = queue[i + 1] /\ i \in Nat /\ i > 0
        /\ \A i \in Index : i = 1 \/ (i - 1 \in Index' /\ queue'[i - 1] = queue[i])
    BY <2>1, TakeFacts
  <2>3. sta' = sta \/ sta \in {"idle", "connecting"} \/ state = "INIT"
    BY <2>1, TargetRows DEF Moves, DriverCalls, EspWifiConnect
  <2>4. ASSUME NEW i \in Index, LinkFrom(i)
        PROVE  LinkFrom(i - 1)'
    <3>1. CASE \E j \in Index : j > i /\ queue[j] = "DISCONNECT"
      <4>1. PICK j \in Index : j > i /\ queue[j] = "DISCONNECT"
        BY <3>1
      <4>2. i \in Nat /\ j \in Nat /\ i > 0
        BY IndexNat
      <4>3. j # 1 /\ j - 1 > i - 1
        BY <4>1, <4>2
      <4>4. j - 1 \in Index' /\ queue'[j - 1] = "DISCONNECT"
        BY <2>2, <4>1, <4>3
      <4> QED
        BY <4>3, <4>4
    <3>2. CASE unheard \/ sta = "up"
      BY <2>1, <2>3, <3>2 DEF Moves, InTruth
    <3> QED
      BY <2>4, <3>1, <3>2
  <2>5. ASSUME LinkFrom(0), event # "DISCONNECT", state # "INIT"
        PROVE  LinkFrom(0)'
    BY <2>1, <2>2, <2>3, <2>5 DEF Moves
  <2>6. state' # "INIT"
    BY <2>1, TargetRows DEF Moves
  <2>7. ASSUME state' \in {"CONNECTED", "PROVISIONING_FINISHING"}
        PROVE  LinkFrom(0)'
    <3>1. CASE state = "CONNECTING" /\ event = "CONNECT_SUCCESS"
      <4>1. LinkFrom(1)
        BY <2>2, <3>1 DEF InStep, InTruth
      <4> QED
        BY <2>2, <2>4, <4>1
    <3>2. CASE state = "PROVISIONING" /\ event = "PROVISIONING_SUCCESS"
      BY <2>2, <2>5, <3>2 DEF InTruth
    <3>3. CASE state = "PROVISIONING_FINISHING" /\ event = "PROVISIONING_END"
      BY <2>5, <3>3 DEF InTruth
    <3> QED
      BY <2>1, <2>7, <3>1, <3>2, <3>3, TargetRows DEF Moves
  <2>8. prov # "absent" => state # "INIT" /\ event # "DISCONNECT"
    BY <2>1, TargetRows DEF InStep
  <2>9. (note = "PROVISIONING_SUCCESS")' => LinkFrom(0)'
    BY <2>1, <2>5, <2>8 DEF InStep, InTruth, Moves
  <2>10. ASSUME NEW i \in Index', queue'[i] = "PROVISIONING_SUCCESS"
         PROVE  LinkFrom(0)'
    <3>1. i + 1 \in Index /\ queue[i + 1] = "PROVISIONING_SUCCESS"
      BY <2>2, <2>10
    <3> QED
      BY <2>5, <2>8, <3>1 DEF InStep, InTruth
  <2>11. ASSUME NEW i \in Index', queue'[i] = "CONNECT_SUCCESS",
                prov' = "absent" \/ \E j \in Index' : j < i /\ queue'[j] = "PROVISIONING_END"
         PROVE  LinkFrom(i)'
    <3>1. i + 1 \in Index /\ queue[i + 1] = "CONNECT_SUCCESS" /\ i \in Nat /\ i > 0
      BY <2>2, <2>11
    <3>2. prov' = "absent" => prov = "absent" \/ event = "PROVISIONING_END"
      BY <2>1, TargetRows DEF Moves, MgrInit, MgrStart, MgrStop
    <3>3. prov = "absent" \/ \E j \in Index : j < i + 1 /\ queue[j] = "PROVISIONING_END"
      BY <2>2, <2>11, <3>1, <3>2
    <3>4. LinkFrom(i + 1)
      BY <3>1, <3>3 DEF InTruth
    <3> QED
      BY <2>4, <3>1, <3>4
  <2> QED
    BY <2>6, <2>7, <2>9, <2>10, <2>11 DEF InTruth
<1>2. CASE IgnoreEvent
  <2>1. PICK event \in InternalEvent :
          /\ Take(event)
          /\ unheard' = (unheard \/ (event = "DISCONNECT" /\ state # "CONNECTED"))
          /\ Target(event) = {}
    BY <1>2 DEF IgnoreEvent
  <2>2. /\ 1 \in Index /\ queue[1] = event
        /\ \A i \in Index' : i + 1 \in Index /\ queue'[i] = queue[i + 1] /\ i \in Nat /\ i > 0
        /\ \A i \in Index : i = 1 \/ (i - 1 \in Index' /\ queue'[i - 1] = queue[i])
    BY <2>1, TakeFacts
  <2>3. UNCHANGED <<state, sta, prov, note>>
    BY <1>2 DEF IgnoreEvent
  <2>4. ASSUME NEW i \in Index, LinkFrom(i)
        PROVE  LinkFrom(i - 1)'
    <3>1. CASE \E j \in Index : j > i /\ queue[j] = "DISCONNECT"
      <4>1. PICK j \in Index : j > i /\ queue[j] = "DISCONNECT"
        BY <3>1
      <4>2. i \in Nat /\ j \in Nat /\ i > 0
        BY IndexNat
      <4>3. j # 1 /\ j - 1 > i - 1
        BY <4>1, <4>2
      <4>4. j - 1 \in Index' /\ queue'[j - 1] = "DISCONNECT"
        BY <2>2, <4>1, <4>3
      <4> QED
        BY <4>3, <4>4
    <3>2. CASE unheard \/ sta = "up"
      BY <2>1, <2>3, <3>2
    <3> QED
      BY <2>4, <3>1, <3>2
  <2>5. event = "DISCONNECT" => state # "CONNECTED"
    BY <2>1, LossIsTaken
  <2>6. LinkFrom(0) => LinkFrom(0)'
    BY <2>1, <2>2, <2>3, <2>5
  <2>7. ASSUME NEW i \in Index', queue'[i] = "CONNECT_SUCCESS",
               prov' = "absent" \/ \E j \in Index' : j < i /\ queue'[j] = "PROVISIONING_END"
        PROVE  LinkFrom(i)'
    <3>1. i + 1 \in Index /\ queue[i + 1] = "CONNECT_SUCCESS" /\ i \in Nat /\ i > 0
      BY <2>2, <2>7
    <3>2. prov = "absent" \/ \E j \in Index : j < i + 1 /\ queue[j] = "PROVISIONING_END"
      BY <2>2, <2>3, <2>7
    <3>3. LinkFrom(i + 1)
      BY <3>1, <3>2 DEF InTruth
    <3> QED
      BY <2>4, <3>1, <3>3
  <2> HIDE DEF LinkFrom
  <2> QED
    BY <2>2, <2>3, <2>6, <2>7 DEF InTruth
<1>4. CASE StaStart
  BY <1>4, PostFacts DEF StaStart, InStep, InTruth, InternalEvent
<1>5. CASE GotIp
  BY <1>5, PostFacts, IndexNat DEF GotIp, InStep, InTruth, InternalEvent
<1>6. CASE StaDisconnected
  <2>1. /\ \A i \in Index : i \in Index' /\ queue'[i] = queue[i]
        /\ \A i \in Index' : i \in Nat /\ i > 0
        /\ \A i \in Index' : i \in Index \/ (queue'[i] = "DISCONNECT" /\ \A j \in Index : j < i)
        /\ \/ dropped' /\ Len(queue) = QueueLen
           \/ \E i \in Index' : queue'[i] = "DISCONNECT" /\ \A j \in Index : j < i
    BY <1>6, PostFacts DEF StaDisconnected, InternalEvent
  <2>2. /\ state' = state /\ sta # "off" /\ note' \in {note, "PROVISIONING_FAILURE"}
        /\ prov' \in {prov, "done"} /\ (prov' = "absent" => prov = "absent")
        /\ (unheard' \/ Len(queue) # QueueLen)
    BY <1>6 DEF StaDisconnected
  <2>3. LinkFrom(0)' /\ \A i \in Index : LinkFrom(i)'
    BY <2>1, <2>2, IndexNat
  <2> HIDE DEF LinkFrom
  <2> QED
    BY <2>1, <2>2, <2>3 DEF InTruth
<1>7. CASE ProvNote
  BY <1>7, PostFacts DEF ProvNote, InTruth, InternalEvent, TypeOK
<1>8. CASE ProvEnd
  <2>1. /\ \A i \in Index : i \in Index' /\ queue'[i] = queue[i]
        /\ \A i \in Index' : i \in Nat /\ i > 0
        /\ \A i \in Index' : i \in Index \/ (queue'[i] = "PROVISIONING_END" /\ \A j \in Index : j < i)
        /\ \/ dropped' /\ Len(queue) = QueueLen
           \/ \E i \in Index' : queue'[i] = "PROVISIONING_END" /\ \A j \in Index : j < i
    BY <1>8, PostFacts DEF ProvEnd, InternalEvent
  <2>2. UNCHANGED <<state, sta, note, unheard>> /\ prov = "stopping" /\ prov' = "idle"
    BY <1>8 DEF ProvEnd
  <2>3. (LinkFrom(0) => LinkFrom(0)') /\ \A i \in Index : LinkFrom(i) => LinkFrom(i)'
    BY <2>1, <2>2
  <2>4. \A i, j \in Index' : queue'[j] = "PROVISIONING_END" /\ j < i => i \notin Index
    BY <2>1, <2>2, IndexNat DEF InStep
  <2> HIDE DEF LinkFrom
  <2> QED
    BY <2>1, <2>2, <2>3, <2>4 DEF InTruth
<1>9. CASE SetupWifi
  BY <1>9, PostFacts DEF SetupWifi, InTruth, InternalEvent
<1>10. CASE Associate \/ TimePasses
  BY <1>10 DEF Associate, TimePasses, InStep, InTruth, Index
<1>11. CASE Credentials
  BY <1>11 DEF Credentials, InStep, InTruth, Index
<1>12. CASE UNCHANGED vars
  BY <1>12 DEF vars, InTruth, Index
<1> QED
  BY <1>1, <1>2, <1>4, <1>5, <1>6, <1>7, <1>8, <1>9, <1>10, <1>11, <1>12
  DEF Next, MainStep, EventStep

-----------------------------------------------------------------------------
(* The theorems *)

LEMMA InitIInv == Init => IInv
<1> SUFFICES ASSUME Init
             PROVE  IInv
  OBVIOUS
<1>1. PICK event \in {"IS_PROVISIONED", "IS_NOT_PROVISIONED"} : queue = <<event>>
  BY DEF Init
<1>2. /\ queue \in Seq(InternalEvent) /\ Len(queue) = 1 /\ queue[1] = event
      /\ Index = {1}
  BY <1>1 DEF InternalEvent, Index
<1>3. TypeOK
  <2>1. Len(queue) <= QueueLen
    BY <1>2
  <2>2. /\ state \in State /\ late \in BOOLEAN /\ dropped \in BOOLEAN
        /\ refused \in BOOLEAN /\ unheard \in BOOLEAN
    BY DEF Init, State
  <2>3. sta = "off" /\ prov = "absent" /\ note = "none"
    BY DEF Init
  <2> QED
    BY <1>2, <2>1, <2>2, <2>3 DEF TypeOK
<1>4. InStep
  BY <1>2 DEF Init, InStep, Waiting, Outcome
<1>5. InTruth
  BY <1>2 DEF Init, InTruth
<1> QED
  BY <1>3, <1>4, <1>5 DEF IInv

THEOREM Invariance == Spec => []IInv
<1>1. IInv /\ [Next]_vars => IInv'
  BY StepTypeOK, StepInStep, StepInTruth DEF IInv
<1> QED
  BY <1>1, InitIInv, PTL DEF Spec

(* What the chart, the queue and the WiFi driver can be at all; wifi_queue *)
(* never holds more than its capacity.                                     *)
THEOREM TypeCorrect == Spec => []TypeOK
<1>1. IInv => TypeOK
  BY DEF IInv
<1> QED
  BY <1>1, Invariance, PTL

(* The manager refuses no call of the chart, so the firmware does not      *)
(* reboot for one, and its end reaches a chart that waits for it.          *)
THEOREM ChartAndManager == Spec => []ManagerInStep
<1>1. IInv => ManagerInStep
  <2> SUFFICES ASSUME TypeOK, InStep
               PROVE  ManagerInStep
    BY DEF IInv
  <2>1. DOMAIN queue = Index
    BY LenProperties DEF TypeOK, Index
  <2>2. InQueue("PROVISIONING_END") <=> \E i \in Index : queue[i] = "PROVISIONING_END"
    BY <2>1 DEF InQueue
  <2>3. CASE state = "PROVISIONING"
    BY <2>3 DEF InStep, ManagerInStep
  <2>4. CASE state \in Waiting
    BY <2>2, <2>4 DEF InStep, ManagerInStep, Waiting
  <2>5. CASE state \notin Waiting \union {"PROVISIONING"}
    BY <2>5 DEF InStep, ManagerInStep, Waiting
  <2> QED
    BY <2>3, <2>4, <2>5
<1> QED
  BY <1>1, Invariance, PTL

(* A chart that is connected has a connection, or hears of its loss, or    *)
(* the news was dropped or came while it did not listen.                   *)
THEOREM ConnectionIsReal == Spec => []ConnectedIsTrue
<1>1. IInv => ConnectedIsTrue
  <2> SUFFICES ASSUME TypeOK, InTruth, state = "CONNECTED"
               PROVE  sta = "up" \/ InQueue("DISCONNECT") \/ unheard
    BY DEF IInv, ConnectedIsTrue
  <2>1. DOMAIN queue = Index
    BY LenProperties DEF TypeOK, Index
  <2> QED
    BY <2>1 DEF InTruth, LinkFrom, InQueue
<1> QED
  BY <1>1, Invariance, PTL
=============================================================================
