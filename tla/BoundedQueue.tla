---------------------------- MODULE BoundedQueue ----------------------------
(***************************************************************************)
(* shrapnel::Queue, components/os/include/os/queue.h: the bounded queue    *)
(* between the tasks of the firmware (in_queue and out_queue of the server *)
(* and the queue of WiFi events).  Two counting semaphores count the used  *)
(* and the free slots, and a mutex guards the container.                   *)
(*                                                                         *)
(* One task may be on both sides: the main task receives from in_queue and *)
(* sends to it, there even without a timeout (main.cpp:395).               *)
(***************************************************************************)
EXTENDS Naturals, Sequences, FiniteSets

CONSTANTS
    Producers,  \* tasks that call send
    Consumers,  \* tasks that call receive
    Patient,    \* producers that may call send with portMAX_DELAY
    Msg,        \* messages
    NoMsg,      \* an uninitialised message
    NoThread,   \* the mutex is free
    Capacity    \* MAX_SIZE

Threads == Producers \union Consumers

ASSUME QueueAssumption ==
    /\ Capacity \in Nat \ {0}
    /\ IsFiniteSet(Producers) /\ IsFiniteSet(Consumers)
    /\ Patient \subseteq Producers
    /\ NoMsg \notin Msg
    /\ NoThread \notin Threads

VARIABLES
    queue,      \* contents of the container
    used,       \* used_semaphore
    free,       \* free_semaphore
    mutex,      \* the task that holds the mutex, or NoThread
    pc,         \* where each task is in send or receive
    item        \* *in of a send, *out of a receive

vars == <<queue, used, free, mutex, pc, item>>

(* Where a task is in send: asking for a slot for a time, waiting for one  *)
(* without end, and past that.                                             *)
Asking == {"acquireFree", "awaitFree"}
Sending == Asking \union {"lockSend", "push", "releaseUsed"}

(* Where a task is in receive. *)
Receiving == {"acquireUsed", "lockReceive", "front", "pop", "releaseFree"}

Locations == {"idle"} \union Sending \union Receiving

TypeOK ==
    /\ queue \in Seq(Msg)
    /\ used \in 0 .. Capacity
    /\ free \in 0 .. Capacity
    /\ mutex \in Threads \union {NoThread}
    /\ pc \in [Threads -> Locations]
    /\ \A t \in Threads :
          /\ pc[t] \in Sending => t \in Producers
          /\ pc[t] \in Receiving => t \in Consumers
          /\ pc[t] = "awaitFree" => t \in Patient
    /\ item \in [Threads -> Msg \union {NoMsg}]

Init ==
    /\ queue = <<>>
    /\ used = 0
    /\ free = Capacity
    /\ mutex = NoThread
    /\ pc = [t \in Threads |-> "idle"]
    /\ item = [t \in Threads |-> NoMsg]

GoTo(t, from, to) ==
    /\ pc[t] = from
    /\ pc' = [pc EXCEPT ![t] = to]

-----------------------------------------------------------------------------
(* Variants of the steps below, each with a plausible mistake.  They are   *)
(* not part of the specification; the properties tell them apart.          *)

(* send looks at free_semaphore without taking it. *)
AcquireFreeOnlyLooks(p) ==
    /\ pc[p] \in Asking
    /\ GoTo(p, pc[p], "lockSend")
    /\ free > 0
    /\ UNCHANGED <<queue, used, free, mutex, item>>

(* receive reads the container without the mutex. *)
LockReceiveUnguarded(c) ==
    /\ GoTo(c, "lockReceive", "front")
    /\ mutex' = c
    /\ UNCHANGED <<queue, used, free, item>>

(* receive leaves with the mutex locked. *)
PopKeepsMutex(c) ==
    /\ GoTo(c, "pop", "releaseFree")
    /\ queue' = Tail(queue)
    /\ UNCHANGED <<used, free, mutex, item>>

(* receive does not give the slot back. *)
ReleaseFreeForgotten(c) ==
    /\ GoTo(c, "releaseFree", "idle")
    /\ UNCHANGED <<queue, used, free, mutex, item>>

-----------------------------------------------------------------------------
(* send *)

Send(p, m) ==
    /\ \/ GoTo(p, "idle", "acquireFree")
       \/ p \in Patient /\ GoTo(p, "idle", "awaitFree")
    /\ item' = [item EXCEPT ![p] = m]
    /\ UNCHANGED <<queue, used, free, mutex>>

AcquireFree(p) ==
    /\ pc[p] \in Asking
    /\ GoTo(p, pc[p], "lockSend")
    /\ free > 0
    /\ free' = free - 1
    /\ UNCHANGED <<queue, used, mutex, item>>

(* try_acquire_for gives up, unless the wait has no end: send returns      *)
(* errQUEUE_FULL.                                                          *)
SendTimeout(p) ==
    /\ GoTo(p, "acquireFree", "idle")
    /\ free = 0
    /\ UNCHANGED <<queue, used, free, mutex, item>>

LockSend(p) ==
    /\ GoTo(p, "lockSend", "push")
    /\ mutex = NoThread
    /\ mutex' = p
    /\ UNCHANGED <<queue, used, free, item>>

Push(p) ==
    /\ GoTo(p, "push", "releaseUsed")
    /\ queue' = Append(queue, item[p])
    /\ mutex' = NoThread
    /\ UNCHANGED <<used, free, item>>

ReleaseUsed(p) ==
    /\ GoTo(p, "releaseUsed", "idle")
    /\ used' = used + 1
    /\ UNCHANGED <<queue, free, mutex, item>>

-----------------------------------------------------------------------------
(* receive *)

Receive(c) ==
    /\ GoTo(c, "idle", "acquireUsed")
    /\ UNCHANGED <<queue, used, free, mutex, item>>

AcquireUsed(c) ==
    /\ GoTo(c, "acquireUsed", "lockReceive")
    /\ used > 0
    /\ used' = used - 1
    /\ UNCHANGED <<queue, free, mutex, item>>

(* try_acquire_for gives up: receive returns errQUEUE_EMPTY.               *)
ReceiveTimeout(c) ==
    /\ GoTo(c, "acquireUsed", "idle")
    /\ used = 0
    /\ UNCHANGED <<queue, used, free, mutex, item>>

LockReceive(c) ==
    /\ GoTo(c, "lockReceive", "front")
    /\ mutex = NoThread
    /\ mutex' = c
    /\ UNCHANGED <<queue, used, free, item>>

Front(c) ==
    /\ GoTo(c, "front", "pop")
    /\ item' = [item EXCEPT ![c] = Head(queue)]
    /\ UNCHANGED <<queue, used, free, mutex>>

Pop(c) ==
    /\ GoTo(c, "pop", "releaseFree")
    /\ queue' = Tail(queue)
    /\ mutex' = NoThread
    /\ UNCHANGED <<used, free, item>>

ReleaseFree(c) ==
    /\ GoTo(c, "releaseFree", "idle")
    /\ free' = free + 1
    /\ UNCHANGED <<queue, used, mutex, item>>

-----------------------------------------------------------------------------
SendSteps(p) ==
    AcquireFree(p) \/ SendTimeout(p) \/ LockSend(p) \/ Push(p) \/ ReleaseUsed(p)

ReceiveSteps(c) ==
    \/ AcquireUsed(c) \/ ReceiveTimeout(c) \/ LockReceive(c)
    \/ Front(c) \/ Pop(c) \/ ReleaseFree(c)

Next ==
    \/ \E p \in Producers : (\E m \in Msg : Send(p, m)) \/ SendSteps(p)
    \/ \E c \in Consumers : Receive(c) \/ ReceiveSteps(c)

Spec == Init /\ [][Next]_vars

(* A task that is ready to run is scheduled, and the mutex passes to the   *)
(* tasks that wait for it.  Nothing obliges a task to make a call, and a   *)
(* send without a timeout owes nothing while there is no slot for it: the  *)
(* task that would receive may be the one that waits.                      *)
Fairness ==
    /\ \A p \in Producers : WF_vars(SendSteps(p)) /\ SF_vars(LockSend(p))
    /\ \A c \in Consumers : WF_vars(ReceiveSteps(c)) /\ SF_vars(LockReceive(c))

FairSpec == Spec /\ Fairness

-----------------------------------------------------------------------------
(* Properties *)

(* How many tasks are at one of the locations L. *)
Count(L) == Cardinality({t \in Threads : pc[t] \in L})

(* Each stored message is announced by used_semaphore, claimed by a        *)
(* consumer that has not popped it, or not announced yet by the producer   *)
(* that pushed it: no message is stranded in the container.                *)
UsedAccounted ==
    Len(queue) = used + Count({"releaseUsed"})
                      + Count({"lockReceive", "front", "pop"})

(* Each slot is free, occupied, claimed by a producer that has not pushed, *)
(* or not given back yet by the consumer that emptied it: no slot leaks.   *)
FreeAccounted ==
    Capacity = free + Count({"lockSend", "push"}) + Len(queue)
                    + Count({"releaseFree"})

(* Neither messages nor slots get lost between the semaphores and the      *)
(* container, in whatever order tasks overlap and time out.                *)
NothingLost == UsedAccounted /\ FreeAccounted

(* queue.front() and queue.pop() find a message and queue.push() finds     *)
(* room, although neither checks: the semaphores are counted outside the   *)
(* critical section.                                                       *)
ContainerInBounds ==
    \A t \in Threads :
        /\ pc[t] \in {"front", "pop"} => queue # <<>>
        /\ pc[t] = "push" => Len(queue) < Capacity

(* Every call but a send that waits for a slot without a timeout ends,     *)
(* whatever the other tasks do, even if they wait for ever: the wait for a *)
(* slot or a message is bounded, and the wait for the mutex is short.      *)
TimedCallsReturn ==
    \A t \in Threads : pc[t] \notin {"idle", "awaitFree"} ~> pc[t] = "idle"

(* The queue is a FIFO buffer of overlapping calls: a put takes effect     *)
(* when the message is pushed, a take when it is popped, and a call is     *)
(* refused only when the calls in progress account for every slot or       *)
(* every message.                                                          *)
StatusOf(loc) ==
    CASE loc = "releaseUsed"                      -> "put"
      [] loc = "releaseFree"                      -> "taken"
      [] loc \in Sending \ {"releaseUsed"}        -> "putting"
      [] loc \in Receiving \ {"releaseFree"}      -> "taking"
      [] OTHER                                    -> "idle"

(* A task on its way in with a message, or out with the one it received. *)
Holds(t) == pc[t] \in Asking \union {"lockSend", "push", "releaseFree"}

Fifo == INSTANCE BoundedFifo WITH
    items  <- queue,
    status <- [t \in Threads |-> StatusOf(pc[t])],
    arg    <- [t \in Threads |-> IF Holds(t) THEN item[t] ELSE NoMsg]

ImplementsFifo == Fifo!Spec
=============================================================================
