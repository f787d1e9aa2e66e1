-------------------------- MODULE ServerLinkProofs --------------------------
(***************************************************************************)
(* Proofs about ServerLink, for every number of clients, queue length,     *)
(* number of messages and environment.                                     *)
(***************************************************************************)
EXTENDS ServerLink, SequenceTheorems, TLAPS

USE LinkAssumption

-----------------------------------------------------------------------------
(* Types *)

(* The ids left are enough for the messages the handler has yet to send,   *)
(* and a message in hand is a real one.                                    *)
InHand ==
    /\ nextId + Len(todo) <= MaxMsgs + 1
    /\ cur.id < nextId
    /\ mpc = "push" => cur \in Message
    /\ IF hpc = "deliver" THEN hmsg \in Message ELSE hmsg = NoMessage

(* Where send_message leaves the main task. *)
LEMMA SendReturnsTypes ==
    ASSUME TypeOK, InHand, SendReturns
    PROVE  /\ mpc' \in Phases \union {"push"}
           /\ after' = after
           /\ todo' \in Seq(Sources)
           /\ cur' \in Message \union {NoMessage}
           /\ nextId' \in 1 .. MaxMsgs + 1
           /\ nextId' + Len(todo') <= MaxMsgs + 1
           /\ cur'.id < nextId'
           /\ mpc' = "push" => cur' \in Message /\ cur'.id = nextId
           /\ nextId' >= nextId
<1> USE DEF TypeOK, InHand, SendReturns
<1>1. CASE todo = <<>>
  BY <1>1 DEF Phases
<1>2. CASE todo # <<>>
  <2>1. /\ Head(todo) \in Sources
        /\ Tail(todo) \in Seq(Sources)
        /\ Len(Tail(todo)) = Len(todo) - 1
        /\ Len(todo) \in Nat \ {0}
    BY <1>2, HeadTailProperties, EmptySeq, LenProperties
  <2>2. nextId \in 1 .. MaxMsgs
    BY <2>1
  <2>3. cur' \in Message /\ cur'.id = nextId
    BY <1>2, <2>1, <2>2 DEF Message
  <2>4. /\ nextId' = nextId + 1 /\ todo' = Tail(todo) /\ after' = after
        /\ mpc' = "push"
    BY <1>2
  <2>5. /\ nextId' \in 1 .. MaxMsgs + 1 /\ nextId' + Len(todo') <= MaxMsgs + 1
        /\ nextId' >= nextId
    <3> HIDE DEF SendReturns
    <3> QED
      BY <2>1, <2>2, <2>4
  <2>6. cur'.id < nextId'
    BY <2>2, <2>3, <2>4
  <2> HIDE DEF TypeOK, InHand, SendReturns
  <2> QED
    BY <2>1, <2>3, <2>4, <2>5, <2>6
<1> QED
  BY <1>1, <1>2

(* The same for a handler that starts to send its messages. *)
LEMMA SendAllTypes ==
    ASSUME TypeOK, InHand, mpc # "push",
           NEW srcs \in Seq(Sources), NEW phase \in Phases, SendAll(srcs, phase)
    PROVE  /\ mpc' \in Phases \union {"push"}
           /\ after' \in Phases
           /\ todo' \in Seq(Sources)
           /\ cur' \in Message \union {NoMessage}
           /\ nextId' \in 1 .. MaxMsgs + 1
           /\ nextId' + Len(todo') <= MaxMsgs + 1
           /\ cur'.id < nextId'
           /\ mpc' = "push" => cur' \in Message /\ cur'.id = nextId
           /\ nextId' >= nextId
<1> USE DEF TypeOK, InHand, SendAll
<1>1. CASE srcs = <<>>
  <2>1. Len(todo') = 0 /\ todo' \in Seq(Sources)
    BY <1>1
  <2> QED
    BY <1>1, <2>1 DEF Phases
<1>2. CASE srcs # <<>>
  <2>1. /\ Head(srcs) \in Sources
        /\ Tail(srcs) \in Seq(Sources)
        /\ Len(Tail(srcs)) = Len(srcs) - 1
        /\ Len(srcs) \in Nat \ {0}
    BY <1>2, HeadTailProperties, EmptySeq, LenProperties
  <2>2. nextId \in 1 .. MaxMsgs
    BY <1>2, <2>1
  <2>3. cur' \in Message /\ cur'.id = nextId
    BY <1>2, <2>1, <2>2 DEF Message
  <2>4. /\ nextId' = nextId + 1 /\ todo' = Tail(srcs) /\ after' = phase
        /\ mpc' = "push"
        /\ nextId + Len(srcs) <= MaxMsgs + 1
    BY <1>2
  <2>5. /\ nextId' \in 1 .. MaxMsgs + 1 /\ nextId' + Len(todo') <= MaxMsgs + 1
        /\ nextId' >= nextId
    <3> HIDE DEF SendAll
    <3> QED
      BY <2>1, <2>2, <2>4
  <2>6. cur'.id < nextId'
    BY <2>2, <2>3, <2>4
  <2> HIDE DEF TypeOK, InHand, SendAll
  <2> QED
    BY <2>1, <2>3, <2>4, <2>5, <2>6
<1> QED
  BY <1>1, <1>2

(* What a handler sends is a sequence of sources. *)
LEMMA RepliesTypes ==
    ASSUME NEW src \in Sources, NEW srcs \in Replies(src)
    PROVE  srcs \in Seq(Sources)
<1>1. CASE srcs = <<src>>
  BY <1>1
<1>2. ASSUME NEW n \in 0 .. MaxReplies, srcs = [i \in 1 .. n |-> NoFd]
      PROVE  srcs \in Seq(Sources)
  BY <1>2 DEF Sources
<1> QED
  BY <1>1, <1>2 DEF Replies

(* The httpd task exists exactly while the handle is good, and the server  *)
(* is started only after it was stopped.                                   *)
ServerState ==
    /\ server = "up" <=> hpc # "down"
    /\ mpc = "stopping" => ~linked
    /\ ~linked /\ mpc # "stopping" => server # "up"

TypeInv == TypeOK /\ InHand /\ ServerState

(* Steps that leave send_message behind. *)
LEMMA StepSendReturns ==
    ASSUME TypeInv, SendReturns,
           mpc # "stopping",
           UNCHANGED <<env, inq, outq, server, linked, netVars, httpdVars>>,
           sem' \in {0, 1}, works' \in Nat
    PROVE  TypeInv'
<1>1. TypeOK /\ InHand
  BY DEF TypeInv
<1>2. TypeOK'
  BY <1>1, SendReturnsTypes DEF TypeOK, netVars, httpdVars
<1>3. InHand'
  BY <1>1, SendReturnsTypes DEF InHand, httpdVars
<1>4. ServerState'
  BY <1>1, SendReturnsTypes DEF TypeInv, ServerState, httpdVars, Phases
<1> QED
  BY <1>2, <1>3, <1>4 DEF TypeInv

(* Steps that send messages or finish a phase. *)
LEMMA StepSendAll ==
    ASSUME TypeInv, mpc \notin {"push", "stopping"},
           NEW srcs \in Seq(Sources), NEW phase \in Phases, SendAll(srcs, phase),
           inq' \in Seq(Sources), Len(inq') <= QueueLen,
           UNCHANGED <<env, outq, sem, works, server, linked, netVars, httpdVars>>
    PROVE  TypeInv'
<1>1. TypeOK /\ InHand
  BY DEF TypeInv
<1>2. TypeOK'
  BY <1>1, SendAllTypes DEF TypeOK, netVars, httpdVars
<1>3. InHand'
  BY <1>1, SendAllTypes DEF InHand, httpdVars
<1>4. ServerState'
  BY <1>1, SendAllTypes DEF TypeInv, ServerState, httpdVars, Phases
<1> QED
  BY <1>2, <1>3, <1>4 DEF TypeInv

(* Every step keeps the types, the ids and the state of the server. *)
LEMMA StepTypes ==
    ASSUME TypeInv, [Next]_vars
    PROVE  TypeInv'
<1> USE DEF netVars, mainVars, httpdVars
<1>1. CASE PushOk
  <2>1. /\ Append(outq, cur) \in Seq(Message)
        /\ Len(Append(outq, cur)) = Len(outq) + 1
    BY <1>1 DEF PushOk, TypeInv, TypeOK, InHand, ServerState
  <2> QED
    BY <1>1, <2>1 DEF PushOk, TypeInv, TypeOK, InHand, ServerState
<1>2. CASE PushTimeout \/ TakeTimeout \/ QueueWork \/ QueueWorkFails
  <2>1. sem' \in {0, 1} /\ works' \in Nat
    BY <1>2 DEF PushTimeout, TakeTimeout, QueueWork, QueueWorkFails, TypeInv, TypeOK
  <2> QED
    BY <1>2, <2>1, StepSendReturns
       DEF PushTimeout, TakeTimeout, QueueWork, QueueWorkFails
<1>3. CASE TakeOk
  BY <1>3 DEF TakeOk, TypeInv, TypeOK, InHand, ServerState
<1>4. CASE PhaseDone
  BY <1>4 DEF PhaseDone, NextPhase, Phases, TypeInv, TypeOK, InHand, ServerState
<1>5. CASE Emit
  <2>1. <<NoFd>> \in Seq(Sources) /\ mpc \in Phases
        /\ mpc \notin {"push", "stopping"}
    BY <1>5 DEF Emit, Phases, Sources
  <2>2. inq' \in Seq(Sources) /\ Len(inq') <= QueueLen
    BY <1>5 DEF Emit, TypeInv, TypeOK
  <2> QED
    BY <1>5, <2>1, <2>2, StepSendAll DEF Emit
<1>6. CASE ReceiveNothing
  BY <1>6 DEF ReceiveNothing, Phases, TypeInv, TypeOK, InHand, ServerState
<1>7. CASE HandleMessage
  <2>1. inq \in Seq(Sources) /\ Len(inq) <= QueueLen /\ inq # <<>>
    BY <1>7 DEF HandleMessage, TypeInv, TypeOK
  <2>2. Head(inq) \in Sources /\ inq' \in Seq(Sources) /\ Len(inq') <= QueueLen
    BY <1>7, <2>1 DEF HandleMessage
  <2>3. PICK srcs \in Replies(Head(inq)) : SendAll(srcs, "notify")
    BY <1>7 DEF HandleMessage
  <2>4. srcs \in Seq(Sources)
    BY <2>2, <2>3, RepliesTypes
  <2> QED
    BY <1>7, <2>2, <2>3, <2>4, StepSendAll DEF HandleMessage, Phases
<1>8. CASE ServerStart \/ ServerStop \/ ConsoleCommand
  <2>1. CASE ServerStart
    BY <2>1 DEF ServerStart, TypeInv, TypeOK, InHand, ServerState
  <2>2. CASE ServerStop
    BY <2>2 DEF ServerStop, Phases, TypeInv, TypeOK, InHand, ServerState
  <2>3. CASE ConsoleCommand
    BY <2>3 DEF ConsoleCommand, TypeInv, TypeOK, InHand, ServerState
  <2> QED
    BY <1>8, <2>1, <2>2, <2>3
<1>9. CASE ConsoleEnqueue
  <2>1. inq' \in Seq(Sources) /\ Len(inq') <= QueueLen
    BY <1>9 DEF ConsoleEnqueue, TypeInv, TypeOK, Sources
  <2> QED
    BY <1>9, <2>1 DEF ConsoleEnqueue, Phases, TypeInv, TypeOK, InHand, ServerState
<1>10. CASE FramePut
  <2>1. inq' \in Seq(Sources) /\ Len(inq') <= QueueLen
    BY <1>10 DEF FramePut, TypeInv, TypeOK
  <2> QED
    BY <1>10, <2>1 DEF FramePut, Sources, TypeInv, TypeOK, InHand, ServerState
<1>11. CASE FrameDropped
  BY <1>11 DEF FrameDropped, Sources, TypeInv, TypeOK, InHand, ServerState
<1>12. CASE RunWork
  <2>1. CASE outq = <<>>
    BY <1>12, <2>1 DEF RunWork, TypeInv, TypeOK, InHand, ServerState
  <2>2. CASE outq # <<>>
    <3>1. /\ Head(outq) \in Message /\ Tail(outq) \in Seq(Message)
          /\ Len(Tail(outq)) <= QueueLen
      BY <2>2 DEF TypeInv, TypeOK
    <3>2. /\ outq' = Tail(outq) /\ hmsg' = Head(outq) /\ hpc' = "deliver"
          /\ works' = works - 1 /\ works > 0 /\ hpc = "idle"
      BY <1>12, <2>2 DEF RunWork
    <3>3. UNCHANGED <<env, inq, sem, server, linked, netVars, mainVars, hfd>>
      BY <1>12 DEF RunWork
    <3> QED
      BY <3>1, <3>2, <3>3 DEF TypeInv, TypeOK, InHand, ServerState
  <2> QED
    BY <2>1, <2>2
<1>13. CASE Delivered
  <2>1. hmsg.id \in 0 .. MaxMsgs
    BY <1>13 DEF Delivered, TypeInv, TypeOK, InHand, ServerState, Message
  <2>2. last' \in [Fds -> 0 .. MaxMsgs]
    BY <1>13, <2>1 DEF Delivered, TypeInv, TypeOK
  <2> QED
    BY <1>13, <2>2 DEF Delivered, TypeInv, TypeOK, InHand, ServerState
<1>14. CASE HttpdExit
  BY <1>14 DEF HttpdExit, Phases, TypeInv, TypeOK, InHand, ServerState
<1>15. ASSUME NEW fd \in Fds, Connect(fd) \/ Disconnect(fd) \/ ClientFrame(fd)
       PROVE  TypeInv'
  <2>1. /\ hpc = "idle" /\ hpc' \in {"idle", "put"} /\ hfd' \in Sources
        /\ clients' \subseteq Fds
        /\ last' \in [Fds -> 0 .. MaxMsgs]
    BY <1>15 DEF Connect, Disconnect, ClientFrame, Sources, TypeInv, TypeOK
  <2>2. UNCHANGED <<env, inq, outq, sem, works, server, linked, mainVars, hmsg>>
    BY <1>15 DEF Connect, Disconnect, ClientFrame
  <2> QED
    BY <2>1, <2>2 DEF TypeInv, TypeOK, InHand, ServerState
<1>16. CASE UNCHANGED vars
  BY <1>16 DEF vars, TypeInv, TypeOK, InHand, ServerState
<1> QED
  BY <1>1, <1>2, <1>3, <1>4, <1>5, <1>6, <1>7, <1>8, <1>9, <1>10, <1>11, <1>12,
     <1>13, <1>14, <1>15, <1>16
     DEF Next, MainStep, SendMessage, HttpdStep, ClientStep

(* They hold when the firmware starts. *)
LEMMA InitTypes == Init => TypeInv
<1> SUFFICES ASSUME Init PROVE TypeInv
  OBVIOUS
<1>1. TypeOK
  BY DEF Init, TypeOK, Sources, Phases, NoMessage
<1>2. InHand
  BY DEF Init, InHand, NoMessage
<1>3. ServerState
  BY DEF Init, ServerState
<1> QED
  BY <1>1, <1>2, <1>3 DEF TypeInv

-----------------------------------------------------------------------------
(* work_semaphore *)

(* Steps in which nothing that the two counts depend on changes. *)
LEMMA StepElsewhere ==
    ASSUME TypeInv, OneCallAtATime, UNCHANGED <<outq, sem, works>>,
           mpc \notin {"take", "work"}, mpc' \notin {"take", "work"},
           hpc' = "deliver" <=> hpc = "deliver"
    PROVE  OneCallAtATime' /\ Lag' >= Lag
  BY DEF OneCallAtATime, Turns, Lag, One, TypeInv, TypeOK

(* Every step keeps the promise of work_semaphore, and none takes a        *)
(* message from out_queue without using up a call.                         *)
LEMMA StepCalls ==
    ASSUME TypeInv, OneCallAtATime, EveryCallHasAMessage, [Next]_vars
    PROVE  OneCallAtATime' /\ Lag' >= Lag
<1> USE DEF netVars, mainVars, httpdVars
<1>0. /\ works \in Nat /\ sem \in {0, 1} /\ Len(outq) \in Nat
      /\ outq \in Seq(Message)
  BY DEF TypeInv, TypeOK
<1>1. CASE PushOk
  <2>1. Len(outq') = Len(outq) + 1
    BY <1>0, <1>1 DEF PushOk, TypeInv, TypeOK, InHand
  <2> QED
    BY <1>0, <1>1, <2>1 DEF PushOk, OneCallAtATime, Turns, Lag, One
<1>2. CASE PushTimeout \/ TakeTimeout \/ QueueWork \/ QueueWorkFails
  <2>1. mpc' \notin {"take", "work"}
    BY <1>2, SendReturnsTypes
       DEF PushTimeout, TakeTimeout, QueueWork, QueueWorkFails, Phases, TypeInv
  <2> QED
    BY <1>0, <1>2, <2>1 DEF PushTimeout, TakeTimeout, QueueWork, QueueWorkFails,
                            OneCallAtATime, Turns, Lag, One
<1>3. CASE TakeOk
  BY <1>0, <1>3 DEF TakeOk, OneCallAtATime, Turns, Lag, One
<1>4. CASE PhaseDone \/ ReceiveNothing \/ ServerStop \/ ConsoleCommand \/ ConsoleEnqueue
  BY <1>4, StepElsewhere
     DEF PhaseDone, NextPhase, ReceiveNothing, ServerStop, ConsoleCommand, ConsoleEnqueue
<1>5. CASE Emit
  <2>1. /\ <<NoFd>> \in Seq(Sources) /\ mpc \in Phases
        /\ mpc \notin {"push", "take", "work"}
    BY <1>5 DEF Emit, Phases, Sources
  <2>2. mpc' \notin {"take", "work"}
    BY <1>5, <2>1, SendAllTypes DEF Emit, Phases, TypeInv
  <2> QED
    BY <1>5, <2>1, <2>2, StepElsewhere DEF Emit
<1>6. CASE HandleMessage
  <2>1. Head(inq) \in Sources
    BY <1>6 DEF HandleMessage, TypeInv, TypeOK
  <2>2. PICK srcs \in Replies(Head(inq)) : SendAll(srcs, "notify")
    BY <1>6 DEF HandleMessage
  <2>3. srcs \in Seq(Sources) /\ "notify" \in Phases /\ mpc = "receive"
    BY <1>6, <2>1, RepliesTypes DEF HandleMessage, Phases
  <2>4. mpc' \notin {"take", "work"}
    BY <2>2, <2>3, SendAllTypes DEF Phases, TypeInv
  <2> QED
    BY <1>6, <2>3, <2>4, StepElsewhere DEF HandleMessage
<1>7. CASE ServerStart
  <2>1. hpc = "down" /\ hpc' \in {"down", "idle"}
    BY <1>7 DEF ServerStart, TypeInv, TypeOK, ServerState
  <2> QED
    BY <1>7, <2>1, StepElsewhere DEF ServerStart
<1>8. CASE FramePut \/ FrameDropped
  BY <1>0, <1>8 DEF FramePut, FrameDropped, OneCallAtATime, Turns, Lag, One
<1>9. CASE RunWork
  <2>1. outq # <<>>
    BY <1>0, <1>9 DEF RunWork, EveryCallHasAMessage, Lag, One
  <2>2. Len(outq') = Len(outq) - 1
    BY <1>0, <1>9, <2>1 DEF RunWork
  <2>3. works' = works - 1 /\ hpc' = "deliver" /\ hpc = "idle"
        /\ UNCHANGED <<sem, mpc>>
    BY <1>9, <2>1 DEF RunWork
  <2> QED
    BY <1>0, <2>2, <2>3 DEF OneCallAtATime, Turns, Lag, One
<1>10. CASE Delivered
  BY <1>0, <1>10 DEF Delivered, OneCallAtATime, Turns, Lag, One
<1>11. CASE HttpdExit
  BY <1>11, StepElsewhere DEF HttpdExit
<1>12. ASSUME NEW fd \in Fds, Connect(fd) \/ Disconnect(fd) \/ ClientFrame(fd)
       PROVE  OneCallAtATime' /\ Lag' >= Lag
  BY <1>0, <1>12 DEF Connect, Disconnect, ClientFrame, OneCallAtATime, Turns, Lag, One
<1>13. CASE UNCHANGED vars
  BY <1>0, <1>13 DEF vars, OneCallAtATime, Turns, Lag, One
<1> QED
  BY <1>1, <1>2, <1>3, <1>4, <1>5, <1>6, <1>7, <1>8, <1>9, <1>10, <1>11, <1>12, <1>13
     DEF Next, MainStep, SendMessage, HttpdStep, ClientStep

-----------------------------------------------------------------------------
(* The order of the messages *)

(* The ids grow from what the clients were sent over the message being     *)
(* delivered and those on out_queue to the one that send_message pushes    *)
(* and the next one.                                                       *)
Below(bound) ==
    /\ hmsg.id < bound
    /\ \A fd \in Fds : last[fd] < bound
    /\ \A i \in 1 .. Len(outq) : outq[i].id < bound

Order ==
    /\ \A i, j \in 1 .. Len(outq) : i < j => outq[i].id < outq[j].id
    /\ \A i \in 1 .. Len(outq) : hmsg.id < outq[i].id
    /\ \A fd \in Fds, i \in 1 .. Len(outq) : last[fd] < outq[i].id
    /\ hpc = "deliver" => \A fd \in Fds : last[fd] < hmsg.id
    /\ Below(nextId)
    /\ mpc = "push" => Below(cur.id)

(* Ids of messages are numbers; that of a message in hand was given out. *)
LEMMA IdTypes ==
    ASSUME TypeInv
    PROVE  /\ outq \in Seq(Message) /\ Len(outq) \in Nat
           /\ \A i \in 1 .. Len(outq) : outq[i].id \in 1 .. MaxMsgs
           /\ hmsg.id \in 0 .. MaxMsgs /\ cur.id \in 0 .. MaxMsgs
           /\ \A fd \in Fds : last[fd] \in 0 .. MaxMsgs
           /\ nextId \in 1 .. MaxMsgs + 1 /\ cur.id < nextId
<1>1. /\ outq \in Seq(Message) /\ Len(outq) \in Nat
      /\ \A fd \in Fds : last[fd] \in 0 .. MaxMsgs
      /\ nextId \in 1 .. MaxMsgs + 1
      /\ hmsg \in Message \union {NoMessage} /\ cur \in Message \union {NoMessage}
  BY DEF TypeInv, TypeOK
<1>2. \A i \in 1 .. Len(outq) : outq[i] \in Message
  BY <1>1, ElementOfSeq
<1>3. \A m \in Message : m.id \in 1 .. MaxMsgs
  BY DEF Message
<1>4. \A m \in Message \union {NoMessage} : m.id \in 0 .. MaxMsgs
  BY DEF Message, NoMessage
<1>5. cur.id < nextId
  BY DEF TypeInv, InHand
<1> QED
  BY <1>1, <1>2, <1>3, <1>4, <1>5

(* With no message sent there is nothing to be out of order. *)
LEMMA InitOrder == Init => Order
  BY DEF Init, Order, Below, NoMessage

(* Steps of the main task that leave out_queue alone. *)
LEMMA OrderMain ==
    ASSUME TypeInv, Order, UNCHANGED <<outq, netVars, httpdVars>>,
           nextId' \in Nat, nextId' >= nextId,
           mpc' = "push" => cur'.id = nextId
    PROVE  Order'
<1>1. UNCHANGED <<outq, last, hmsg, hpc>>
  BY DEF netVars, httpdVars
<1>2. ASSUME NEW b \in Int, b >= nextId
      PROVE  /\ hmsg.id < b
             /\ \A fd \in Fds : last[fd] < b
             /\ \A i \in 1 .. Len(outq) : outq[i].id < b
  <2>1. Below(nextId)
    BY DEF Order
  <2>2. hmsg.id < b
    BY <1>2, <2>1, IdTypes DEF Below
  <2>3. \A fd \in Fds : last[fd] < b
    BY <1>2, <2>1, IdTypes DEF Below
  <2>4. \A i \in 1 .. Len(outq) : outq[i].id < b
    BY <1>2, <2>1, IdTypes DEF Below
  <2> QED
    BY <2>2, <2>3, <2>4
<1>3. Below(nextId)'
  BY <1>1, <1>2 DEF Below
<1>4. mpc' = "push" => Below(cur.id)'
  BY <1>1, <1>2, IdTypes DEF Below
<1> QED
  BY <1>1, <1>3, <1>4 DEF Order

(* Every step keeps the messages in order. *)
LEMMA StepOrder ==
    ASSUME TypeInv, Order, [Next]_vars
    PROVE  Order'
<1> USE DEF netVars, mainVars, httpdVars
<1>0. /\ outq \in Seq(Message) /\ Len(outq) \in Nat
      /\ hmsg.id \in 0 .. MaxMsgs /\ nextId \in 1 .. MaxMsgs + 1
      /\ \A fd \in Fds : last[fd] \in 0 .. MaxMsgs
      /\ \A i \in 1 .. Len(outq) : outq[i].id \in 1 .. MaxMsgs
      /\ cur.id \in 0 .. MaxMsgs /\ cur.id < nextId
  BY IdTypes
<1>1. CASE PushOk
  <2>1. /\ cur \in Message /\ outq' = Append(outq, cur) /\ Below(cur.id)
        /\ mpc' = "take" /\ UNCHANGED <<hmsg, last, hpc, nextId>>
    BY <1>1 DEF PushOk, TypeInv, InHand, Order
  <2>2. /\ Len(outq') = Len(outq) + 1
        /\ \A i \in 1 .. Len(outq) : outq'[i] = outq[i]
        /\ outq'[Len(outq) + 1] = cur
    BY <1>0, <2>1
  <2>3. \A i \in 1 .. Len(outq') : i \in 1 .. Len(outq) \/ i = Len(outq) + 1
    BY <1>0, <2>2
  <2>4. \A i \in 1 .. Len(outq') : outq'[i].id <= cur.id /\ hmsg.id < outq'[i].id
    BY <1>0, <2>1, <2>2, <2>3 DEF Order, Below
  <2>5. Below(nextId)'
    BY <1>0, <2>1, <2>4 DEF Order, Below
  <2>6. \A fd \in Fds, i \in 1 .. Len(outq') : last[fd] < outq'[i].id
    BY <1>0, <2>1, <2>2, <2>3 DEF Order, Below
  <2>7. \A i, j \in 1 .. Len(outq') : i < j => outq'[i].id < outq'[j].id
    BY <1>0, <2>1, <2>2, <2>3 DEF Order, Below
  <2> QED
    BY <2>1, <2>4, <2>5, <2>6, <2>7 DEF Order
<1>2. CASE PushTimeout \/ TakeTimeout \/ QueueWork \/ QueueWorkFails
  BY <1>2, SendReturnsTypes, OrderMain
     DEF PushTimeout, TakeTimeout, QueueWork, QueueWorkFails, TypeInv
<1>3. CASE TakeOk \/ PhaseDone \/ ReceiveNothing \/ ServerStop \/ ConsoleCommand
           \/ ConsoleEnqueue
  BY <1>0, <1>3, OrderMain
     DEF TakeOk, PhaseDone, NextPhase, ReceiveNothing, ServerStop, ConsoleCommand,
         ConsoleEnqueue
<1>4. CASE Emit
  <2>1. <<NoFd>> \in Seq(Sources) /\ mpc \in Phases /\ mpc # "push"
    BY <1>4 DEF Emit, Phases, Sources
  <2>2. SendAll(<<NoFd>>, mpc) /\ UNCHANGED <<outq, netVars, httpdVars>>
    BY <1>4 DEF Emit
  <2>3. /\ nextId' \in 1 .. MaxMsgs + 1 /\ nextId' >= nextId
        /\ mpc' = "push" => cur'.id = nextId
    BY <2>1, <2>2, SendAllTypes DEF TypeInv
  <2> QED
    BY <2>2, <2>3, OrderMain
<1>5. CASE HandleMessage
  <2>1. Head(inq) \in Sources
    BY <1>5 DEF HandleMessage, TypeInv, TypeOK
  <2>2. PICK srcs \in Replies(Head(inq)) : SendAll(srcs, "notify")
    BY <1>5 DEF HandleMessage
  <2>3. srcs \in Seq(Sources) /\ "notify" \in Phases /\ mpc # "push"
    BY <1>5, <2>1, RepliesTypes DEF HandleMessage, Phases
  <2> QED
    BY <1>5, <2>2, <2>3, SendAllTypes, OrderMain DEF HandleMessage, TypeInv
<1>6. CASE ServerStart
  <2>1. hpc = "down" /\ hpc' \in {"down", "idle"}
    BY <1>6 DEF ServerStart, TypeInv, TypeOK, ServerState
  <2> QED
    BY <1>6, <2>1 DEF ServerStart, Order, Below
<1>7. CASE FramePut \/ FrameDropped
  BY <1>7 DEF FramePut, FrameDropped, Order, Below
<1>8. CASE RunWork
  <2>1. CASE outq = <<>>
    BY <1>8, <2>1 DEF RunWork, Order, Below
  <2>2. CASE outq # <<>>
    <3>1. /\ hmsg' = Head(outq) /\ outq' = Tail(outq)
          /\ UNCHANGED <<last, mpc, nextId, cur>>
      BY <1>8, <2>2 DEF RunWork
    <3>2. /\ hmsg' = outq[1] /\ Len(outq) >= 1 /\ Len(outq') = Len(outq) - 1
          /\ \A i \in 1 .. Len(outq') : outq'[i] = outq[i + 1]
      BY <1>0, <2>2, <3>1, HeadTailProperties
    <3>3. \A i \in 1 .. Len(outq') : i + 1 \in 1 .. Len(outq) /\ 1 < i + 1
      BY <1>0, <3>2
    <3>4. ASSUME NEW i \in 1 .. Len(outq')
          PROVE  /\ hmsg'.id < outq'[i].id
                 /\ \A fd \in Fds : last[fd] < outq'[i].id
      <4>1. 1 \in 1 .. Len(outq) /\ i + 1 \in 1 .. Len(outq) /\ 1 < i + 1
        BY <1>0, <3>2, <3>3
      <4>2. outq[1].id < outq[i + 1].id
        BY <4>1 DEF Order
      <4>3. \A fd \in Fds : last[fd] < outq[i + 1].id
        BY <4>1 DEF Order
      <4> QED
        BY <3>2, <4>2, <4>3
    <3>5. ASSUME NEW i \in 1 .. Len(outq'), NEW j \in 1 .. Len(outq'), i < j
          PROVE  outq'[i].id < outq'[j].id
      <4>1. i + 1 \in 1 .. Len(outq) /\ j + 1 \in 1 .. Len(outq) /\ i + 1 < j + 1
        BY <1>0, <3>2, <3>3, <3>5
      <4>2. outq[i + 1].id < outq[j + 1].id
        BY <4>1 DEF Order
      <4> QED
        BY <3>2, <4>2
    <3>6. \A fd \in Fds : last[fd] < hmsg'.id
      <4>1. 1 \in 1 .. Len(outq)
        BY <1>0, <3>2
      <4> QED
        BY <3>2, <4>1 DEF Order
    <3>7. /\ Below(nextId)'
          /\ mpc' = "push" => Below(cur.id)'
      <4>1. ASSUME NEW b, Below(b)
            PROVE  /\ hmsg'.id < b
                   /\ \A fd \in Fds : last[fd] < b
                   /\ \A i \in 1 .. Len(outq') : outq'[i].id < b
        BY <1>0, <3>2, <3>3, <4>1 DEF Below
      <4> QED
        BY <3>1, <4>1 DEF Order, Below
    <3> QED
      BY <3>1, <3>4, <3>5, <3>6, <3>7 DEF Order
  <2> QED
    BY <2>1, <2>2
<1>9. CASE Delivered
  <2>1. /\ hpc = "deliver" /\ hmsg'.id = 0 /\ hpc' = "idle"
        /\ UNCHANGED <<outq, mpc, nextId, cur>>
        /\ \A fd \in Fds : last'[fd] \in {last[fd], hmsg.id}
    BY <1>9 DEF Delivered, NoMessage
  <2>2. mpc = "push" => cur.id >= 1
    BY DEF TypeInv, InHand, Message
  <2>3. \A i \in 1 .. Len(outq) : /\ hmsg'.id < outq[i].id
                                  /\ \A fd \in Fds : last'[fd] < outq[i].id
    <3>1. /\ \A i \in 1 .. Len(outq) : hmsg.id < outq[i].id
          /\ \A fd \in Fds, i \in 1 .. Len(outq) : last[fd] < outq[i].id
      BY DEF Order
    <3>2. \A i \in 1 .. Len(outq) : hmsg'.id < outq[i].id
      BY <1>0, <2>1
    <3>3. \A i \in 1 .. Len(outq), fd \in Fds : last'[fd] < outq[i].id
      BY <2>1, <3>1
    <3> QED
      BY <3>2, <3>3
  <2>4. Below(nextId)'
    BY <1>0, <2>1 DEF Order, Below
  <2>5. mpc = "push" => Below(cur.id)'
    <3>1. mpc = "push" => Below(cur.id)
      BY DEF Order
    <3> QED
      BY <1>0, <2>1, <2>2, <3>1 DEF Below
  <2> QED
    BY <2>1, <2>3, <2>4, <2>5 DEF Order
<1>10. CASE HttpdExit
  <2>1. /\ hpc' = "down" /\ mpc' = "wifi"
        /\ UNCHANGED <<outq, nextId, cur, hmsg>>
        /\ \A fd \in Fds : last'[fd] = 0
    BY <1>10 DEF HttpdExit
  <2> QED
    BY <1>0, <2>1 DEF Order, Below
<1>11. ASSUME NEW f \in Fds, Connect(f) \/ Disconnect(f) \/ ClientFrame(f)
       PROVE  Order'
  <2>1. /\ hpc = "idle" /\ hpc' # "deliver" /\ UNCHANGED <<outq, hmsg, mpc, nextId, cur>>
        /\ \A fd \in Fds : last'[fd] \in {last[fd], 0}
    BY <1>11 DEF Connect, Disconnect, ClientFrame, TypeInv, TypeOK
  <2>2. mpc = "push" => cur.id >= 1
    BY DEF TypeInv, InHand, Message
  <2>3. \A fd \in Fds, i \in 1 .. Len(outq) : last'[fd] < outq[i].id
    BY <1>0, <2>1 DEF Order
  <2>4. Below(nextId)'
    BY <1>0, <2>1 DEF Order, Below
  <2>5. mpc = "push" => Below(cur.id)'
    <3>1. mpc = "push" => Below(cur.id)
      BY DEF Order
    <3> QED
      BY <1>0, <2>1, <2>2, <3>1 DEF Below
  <2> QED
    BY <2>1, <2>3, <2>4, <2>5 DEF Order
<1>12. CASE UNCHANGED vars
  BY <1>12 DEF vars, Order, Below
<1> QED
  BY <1>1, <1>2, <1>3, <1>4, <1>5, <1>6, <1>7, <1>8, <1>9, <1>10, <1>11, <1>12
     DEF Next, MainStep, SendMessage, HttpdStep, ClientStep

-----------------------------------------------------------------------------
(* A calm environment *)

(* WiFi and the server stay up, and every turn and message is accounted   *)
(* for: CalmKeepsEveryTurn made inductive.                                 *)
Calm == env = "calm" => linked /\ server = "up" /\ sem + Turns = 1 /\ Lag = 0

(* A calm behaviour starts with work_semaphore free and nothing sent. *)
LEMMA InitCalm == Init => Calm
<1> SUFFICES ASSUME Init, env = "calm"
             PROVE  linked /\ server = "up" /\ sem + Turns = 1 /\ Lag = 0
  BY DEF Calm
<1>1. linked /\ server = "up"
  BY DEF Init
<1>2. /\ mpc = "midi" /\ hpc # "deliver" /\ works = 0 /\ sem = 1
      /\ Len(outq) = 0
  BY <1>1 DEF Init
<1>3. Turns = 0
  BY <1>2 DEF Turns, One
<1>4. Lag = 0
  <2>1. One(mpc \in {"take", "work"}) = 0
    BY <1>2 DEF One
  <2> HIDE DEF One
  <2> QED
    BY <1>2, <2>1 DEF Lag
<1> QED
  BY <1>1, <1>2, <1>3, <1>4

(* Steps in which nothing that Calm depends on changes. *)
LEMMA CalmElsewhere ==
    ASSUME TypeInv, Calm, UNCHANGED <<env, linked, server, outq, sem, works>>,
           mpc \notin {"take", "work"}, mpc' \notin {"take", "work"},
           hpc' = "deliver" <=> hpc = "deliver"
    PROVE  Calm'
  BY DEF Calm, Turns, Lag, One, TypeInv, TypeOK

(* No step loses a turn or a message in a calm environment. *)
LEMMA StepCalm ==
    ASSUME TypeInv, Calm, [Next]_vars
    PROVE  Calm'
<1> USE DEF netVars, mainVars, httpdVars
<1>0. /\ works \in Nat /\ sem \in {0, 1} /\ Len(outq) \in Nat
      /\ outq \in Seq(Message)
  BY DEF TypeInv, TypeOK
<1>1. CASE PushOk
  <2>1. Len(outq') = Len(outq) + 1
    BY <1>0, <1>1 DEF PushOk, TypeInv, TypeOK, InHand
  <2> QED
    BY <1>0, <1>1, <2>1 DEF PushOk, Calm, Turns, Lag, One
<1>2. CASE PushTimeout
  <2>1. mpc' \notin {"take", "work"}
    BY <1>2, SendReturnsTypes DEF PushTimeout, Phases, TypeInv
  <2> QED
    BY <1>0, <1>2, <2>1, CalmElsewhere DEF PushTimeout
<1>3. CASE TakeOk
  BY <1>0, <1>3 DEF TakeOk, Calm, Turns, Lag, One
<1>4. CASE TakeTimeout
  <2>1. env # "calm"
    BY <1>0, <1>4 DEF TakeTimeout, Calm, Turns, One
  <2>2. env' = env
    BY <1>4 DEF TakeTimeout
  <2> QED
    BY <2>1, <2>2 DEF Calm
<1>5. CASE QueueWork
  <2>1. mpc' \notin {"take", "work"}
    BY <1>5, SendReturnsTypes DEF QueueWork, Phases, TypeInv
  <2> QED
    BY <1>0, <1>5, <2>1 DEF QueueWork, Calm, Turns, Lag, One
<1>6. CASE QueueWorkFails
  BY <1>6 DEF QueueWorkFails, Calm
<1>7. CASE PhaseDone \/ ReceiveNothing \/ ConsoleCommand \/ ConsoleEnqueue
  BY <1>7, CalmElsewhere
     DEF PhaseDone, NextPhase, ReceiveNothing, ConsoleCommand, ConsoleEnqueue
<1>8. CASE ServerStart \/ ServerStop
  BY <1>8 DEF ServerStart, ServerStop, Calm
<1>9. CASE Emit
  <2>1. /\ <<NoFd>> \in Seq(Sources) /\ mpc \in Phases
        /\ mpc \notin {"push", "take", "work"}
    BY <1>9 DEF Emit, Phases, Sources
  <2>2. mpc' \notin {"take", "work"}
    BY <1>9, <2>1, SendAllTypes DEF Emit, Phases, TypeInv
  <2> QED
    BY <1>9, <2>1, <2>2, CalmElsewhere DEF Emit
<1>10. CASE HandleMessage
  <2>1. Head(inq) \in Sources
    BY <1>10 DEF HandleMessage, TypeInv, TypeOK
  <2>2. PICK srcs \in Replies(Head(inq)) : SendAll(srcs, "notify")
    BY <1>10 DEF HandleMessage
  <2>3. srcs \in Seq(Sources) /\ "notify" \in Phases /\ mpc = "receive"
    BY <1>10, <2>1, RepliesTypes DEF HandleMessage, Phases
  <2>4. mpc' \notin {"take", "work"}
    BY <2>2, <2>3, SendAllTypes DEF Phases, TypeInv
  <2> QED
    BY <1>10, <2>3, <2>4, CalmElsewhere DEF HandleMessage
<1>11. CASE FramePut \/ FrameDropped
  BY <1>0, <1>11 DEF FramePut, FrameDropped, Calm, Turns, Lag, One
<1>12. CASE RunWork
  <2>1. env = "calm" => outq # <<>>
    BY <1>0, <1>12 DEF RunWork, Calm, Lag, One
  <2>2. outq # <<>> => Len(outq') = Len(outq) - 1
    BY <1>0, <1>12 DEF RunWork
  <2>3. /\ works' = works - 1 /\ hpc = "idle" /\ (outq # <<>> => hpc' = "deliver")
        /\ UNCHANGED <<env, linked, server, sem, mpc>>
    BY <1>12 DEF RunWork
  <2> QED
    BY <1>0, <2>1, <2>2, <2>3 DEF Calm, Turns, Lag, One
<1>13. CASE Delivered
  BY <1>0, <1>13 DEF Delivered, Calm, Turns, Lag, One
<1>14. CASE HttpdExit
  BY <1>14 DEF HttpdExit, Calm, TypeInv, ServerState
<1>15. ASSUME NEW fd \in Fds, Connect(fd) \/ Disconnect(fd) \/ ClientFrame(fd)
       PROVE  Calm'
  BY <1>0, <1>15 DEF Connect, Disconnect, ClientFrame, Calm, Turns, Lag, One
<1>16. CASE UNCHANGED vars
  BY <1>0, <1>16 DEF vars, Calm, Turns, Lag, One
<1> QED
  BY <1>1, <1>2, <1>3, <1>4, <1>5, <1>6, <1>7, <1>8, <1>9, <1>10, <1>11, <1>12,
     <1>13, <1>14, <1>15, <1>16
     DEF Next, MainStep, SendMessage, HttpdStep, ClientStep

-----------------------------------------------------------------------------
(* Theorems *)

(* The inductive invariant: the properties and what they rest on. *)
IInv ==
    /\ TypeInv
    /\ OneCallAtATime
    /\ EveryCallHasAMessage
    /\ Order
    /\ Calm

(* IInv holds initially. *)
LEMMA InitIInv == Init => IInv
<1> SUFFICES ASSUME Init PROVE IInv
  OBVIOUS
<1>1. OneCallAtATime /\ EveryCallHasAMessage
  BY DEF Init, OneCallAtATime, EveryCallHasAMessage, Turns, Lag, One
<1> QED
  BY <1>1, InitTypes, InitOrder, InitCalm DEF IInv

(* IInv is inductive, and no step shrinks the lag. *)
LEMMA StepIInv == IInv /\ [Next]_vars => IInv' /\ Lag' >= Lag
<1> SUFFICES ASSUME IInv, [Next]_vars PROVE IInv' /\ Lag' >= Lag
  OBVIOUS
<1>1. TypeInv' /\ Order' /\ Calm'
  BY StepTypes, StepOrder, StepCalm DEF IInv
<1>2. OneCallAtATime' /\ Lag' >= Lag
  BY StepCalls DEF IInv
<1>3. Lag \in Int /\ Lag' \in Int
  BY <1>1 DEF IInv, TypeInv, TypeOK, Lag, One
<1>4. EveryCallHasAMessage'
  BY <1>2, <1>3 DEF IInv, EveryCallHasAMessage
<1> QED
  BY <1>1, <1>2, <1>4 DEF IInv

(* IInv holds throughout every behaviour. *)
THEOREM Invariance == Spec => []IInv
  BY InitIInv, StepIInv, PTL DEF Spec

(* The queues keep to their capacity and work_semaphore is binary.         *)
THEOREM TypeCorrect == Spec => []TypeOK
<1>1. IInv => TypeOK
  BY DEF IInv, TypeInv
<1> QED
  BY <1>1, Invariance, PTL

(* work_semaphore admits one websocket_send call at a time, in every       *)
(* environment.                                                            *)
THEOREM CallsAreOneAtATime == Spec => []OneCallAtATime
<1>1. IInv => OneCallAtATime
  BY DEF IInv
<1> QED
  BY <1>1, Invariance, PTL

(* websocket_send never finds out_queue empty, so it always gives          *)
(* work_semaphore back.                                                    *)
THEOREM CallsFindMessages == Spec => []EveryCallHasAMessage
<1>1. IInv => EveryCallHasAMessage
  BY DEF IInv
<1> QED
  BY <1>1, Invariance, PTL

(* Clients are sent messages in order and at most once.                    *)
THEOREM DeliveryInOrder == Spec => []DeliveredInOrder
<1>1. IInv => DeliveredInOrder
  BY LenProperties DEF IInv, TypeInv, TypeOK, Order, DeliveredInOrder
<1> QED
  BY <1>1, Invariance, PTL

(* While WiFi stays up and the server keeps up, no turn and no message is  *)
(* lost.                                                                   *)
THEOREM CalmIsKept == Spec => []CalmKeepsEveryTurn
<1>1. IInv => CalmKeepsEveryTurn
  BY DEF IInv, Calm, CalmKeepsEveryTurn
<1> QED
  BY <1>1, Invariance, PTL

(* Once messages run late they run late for good.                          *)
THEOREM LagStays == Spec => LagNeverShrinks
<1>1. IInv /\ [Next]_vars => [Lag' >= Lag]_vars
  BY StepIInv
<1> QED
  BY <1>1, Invariance, PTL DEF Spec, LagNeverShrinks
=============================================================================
