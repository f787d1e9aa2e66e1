------------------------- MODULE BoundedQueueProofs -------------------------
(***************************************************************************)
(* Proofs about BoundedQueue for every number of tasks and every capacity. *)
(*                                                                         *)
(* The semaphores are counted outside the critical section, so neither     *)
(* their range nor the bounds of the container follow from one step.  The  *)
(* two accounting equations are the inductive part; the rest follows.      *)
(***************************************************************************)
EXTENDS BoundedQueue, Integers, FiniteSetTheorems, TLAPS

USE QueueAssumption

-----------------------------------------------------------------------------
(* Counting the tasks at some locations *)

(* There are finitely many tasks. *)
LEMMA FiniteThreads == IsFiniteSet(Threads)
  BY FS_Union DEF Threads

(* The tasks at some locations are counted by a natural number, and there  *)
(* is one if a given task is there.                                        *)
LEMMA CountType ==
    ASSUME NEW L
    PROVE  /\ Count(L) \in Nat
           /\ \A t \in Threads : pc[t] \in L => Count(L) >= 1
<1> DEFINE S == {t \in Threads : pc[t] \in L}
<1>1. IsFiniteSet(S) /\ Cardinality(S) \in Nat
  BY FiniteThreads, FS_Subset, FS_CardinalityType
<1>2. ASSUME NEW t \in Threads, pc[t] \in L
      PROVE  Cardinality(S) >= 1
  BY <1>1, <1>2, FS_EmptySet
<1> QED
  BY <1>1, <1>2 DEF Count

In(loc, L) == IF loc \in L THEN 1 ELSE 0

(* One task moves: the count changes by one if the move enters or leaves   *)
(* the locations counted.                                                  *)
LEMMA CountGoTo ==
    ASSUME pc \in [Threads -> Locations], NEW L,
           NEW t \in Threads, NEW from, NEW to, GoTo(t, from, to)
    PROVE  /\ Count(L)' = Count(L) + In(to, L) - In(from, L)
           /\ Count(L)' \in Nat
<1> DEFINE S == {u \in Threads : pc[u] \in L}
           R == {u \in Threads : pc'[u] \in L}
<1>1. IsFiniteSet(S) /\ Cardinality(S) \in Nat
  BY FiniteThreads, FS_Subset, FS_CardinalityType
<1>2. /\ pc[t] = from
      /\ pc'[t] = to
      /\ \A u \in Threads \ {t} : pc'[u] = pc[u]
  BY DEF GoTo
<1>3. Count(L) = Cardinality(S) /\ Count(L)' = Cardinality(R)
  BY DEF Count
<1>4. Count(L)' \in Nat
  BY <1>3, FiniteThreads, FS_Subset, FS_CardinalityType
<1>5. CASE from \notin L /\ to \in L
  <2>1. R = S \union {t} /\ t \notin S
    BY <1>2, <1>5
  <2>2. Cardinality(R) = Cardinality(S) + 1
    BY <1>1, <2>1, FS_AddElement
  <2>3. In(to, L) = 1 /\ In(from, L) = 0
    BY <1>5 DEF In
  <2> QED
    BY <1>1, <1>3, <1>4, <2>2, <2>3
<1>6. CASE from \in L /\ to \notin L
  <2>1. R = S \ {t} /\ t \in S
    BY <1>2, <1>6
  <2>2. Cardinality(R) = Cardinality(S) - 1
    <3> HIDE DEF S, R
    <3> QED
      BY <1>1, <2>1, FS_RemoveElement
  <2>3. In(to, L) = 0 /\ In(from, L) = 1
    BY <1>6 DEF In
  <2> QED
    BY <1>1, <1>3, <1>4, <2>2, <2>3
<1>7. CASE from \in L <=> to \in L
  <2>1. R = S
    BY <1>2, <1>7
  <2>2. Count(L)' = Count(L) /\ Count(L) \in Nat
    BY <1>1, <1>3, <2>1
  <2>3. In(to, L) = In(from, L) /\ In(to, L) \in Nat
    BY <1>7 DEF In
  <2> QED
    BY <1>4, <2>2, <2>3
<1> QED
  BY <1>5, <1>6, <1>7

-----------------------------------------------------------------------------
(* The inductive invariant *)

(* The types without the upper bounds of the semaphores.                   *)
Types ==
    /\ queue \in Seq(Msg)
    /\ used \in Nat
    /\ free \in Nat
    /\ mutex \in Threads \union {NoThread}
    /\ pc \in [Threads -> Locations]
    /\ \A t \in Threads :
          /\ pc[t] \in Sending => t \in Producers
          /\ pc[t] \in Receiving => t \in Consumers
          /\ pc[t] = "awaitFree" => t \in Patient
    /\ item \in [Threads -> Msg \union {NoMsg}]
    /\ \A t \in Threads :
          pc[t] \in Asking \union {"lockSend", "push"} => item[t] \in Msg

(* A task in the critical section holds the mutex.                         *)
MutexHeld ==
    \A t \in Threads : pc[t] \in {"push", "front", "pop"} => mutex = t

(* A task about to pop has read the message it pops.                       *)
FrontRead ==
    \A t \in Threads : pc[t] = "pop" => item[t] = Head(queue)

IInv ==
    /\ Types
    /\ UsedAccounted
    /\ FreeAccounted
    /\ MutexHeld
    /\ FrontRead

(* The accounting bounds the semaphores and the container.                 *)
LEMMA Bounds ==
    ASSUME Types, UsedAccounted, FreeAccounted
    PROVE  /\ used <= Capacity /\ free <= Capacity
           /\ ContainerInBounds
<1>1. /\ Count({"releaseUsed"}) \in Nat
      /\ Count({"lockReceive", "front", "pop"}) \in Nat
      /\ Count({"lockSend", "push"}) \in Nat
      /\ Count({"releaseFree"}) \in Nat
  BY CountType
<1>2. Len(queue) \in Nat /\ (Len(queue) >= 1 => queue # <<>>)
  BY DEF Types
<1>3. ASSUME NEW t \in Threads, pc[t] = "push"
      PROVE  Count({"lockSend", "push"}) >= 1
  BY <1>3, CountType
<1>4. ASSUME NEW t \in Threads, pc[t] \in {"front", "pop"}
      PROVE  Count({"lockReceive", "front", "pop"}) >= 1
  BY <1>4, CountType
<1>5. /\ Len(queue) = used + Count({"releaseUsed"})
                           + Count({"lockReceive", "front", "pop"})
      /\ Capacity = free + Count({"lockSend", "push"}) + Len(queue)
                         + Count({"releaseFree"})
  BY DEF UsedAccounted, FreeAccounted
<1>6. used <= Capacity /\ free <= Capacity
  BY <1>1, <1>2, <1>5 DEF Types
<1>7. ASSUME NEW t \in Threads, pc[t] \in {"front", "pop"}
      PROVE  queue # <<>>
  BY <1>1, <1>2, <1>4, <1>5, <1>7 DEF Types
<1>8. ASSUME NEW t \in Threads, pc[t] = "push"
      PROVE  Len(queue) < Capacity
  BY <1>1, <1>2, <1>3, <1>5, <1>8 DEF Types
<1> QED
  BY <1>6, <1>7, <1>8 DEF ContainerInBounds

-----------------------------------------------------------------------------
(* An idle, empty queue satisfies the inductive invariant. *)
LEMMA InitIInv == Init => IInv
<1> SUFFICES ASSUME Init PROVE IInv
  OBVIOUS
<1>1. ASSUME NEW L, "idle" \notin L
      PROVE  Count(L) = 0
  <2>1. {t \in Threads : pc[t] \in L} = {}
    BY <1>1 DEF Init
  <2> QED
    BY <2>1, FS_EmptySet DEF Count
<1>2. /\ Count({"releaseUsed"}) = 0
      /\ Count({"lockReceive", "front", "pop"}) = 0
      /\ Count({"lockSend", "push"}) = 0
      /\ Count({"releaseFree"}) = 0
  BY <1>1
<1>3. Types
  BY DEF Init, Types, Threads, Locations, Sending, Receiving, Asking
<1>4. UsedAccounted /\ FreeAccounted
  BY <1>2 DEF Init, UsedAccounted, FreeAccounted
<1>5. MutexHeld /\ FrontRead
  BY DEF Init, MutexHeld, FrontRead, Threads
<1> QED
  BY <1>3, <1>4, <1>5 DEF IInv

-----------------------------------------------------------------------------
(* The four counts of the accounting *)

Announcing == Count({"releaseUsed"})
Taking == Count({"lockReceive", "front", "pop"})
Putting == Count({"lockSend", "push"})
Returning == Count({"releaseFree"})

CountsTyped ==
    /\ Announcing \in Nat /\ Taking \in Nat
    /\ Putting \in Nat /\ Returning \in Nat

Accounting ==
    /\ CountsTyped
    /\ Len(queue) = used + Announcing + Taking
    /\ Capacity = free + Putting + Len(queue) + Returning

(* The two accounting invariants of BoundedQueue are the equations of      *)
(* Accounting, with the counts named.                                      *)
LEMMA AccountingEquiv == UsedAccounted /\ FreeAccounted <=> Accounting
<1>1. CountsTyped
  BY CountType DEF CountsTyped, Announcing, Taking, Putting, Returning
<1> QED
  BY <1>1 DEF Accounting, UsedAccounted, FreeAccounted, Announcing, Taking,
              Putting, Returning

(* The counts change by so much. *)
Change(a, t, p, r) ==
    /\ Announcing' = Announcing + a
    /\ Taking' = Taking + t
    /\ Putting' = Putting + p
    /\ Returning' = Returning + r
    /\ CountsTyped /\ CountsTyped'

(* What a step of a call does to the counts. *)
LEMMA Moves ==
    ASSUME Types, NEW t \in Threads, NEW from, NEW to, GoTo(t, from, to)
    PROVE  Change(In(to, {"releaseUsed"}) - In(from, {"releaseUsed"}),
                  In(to, {"lockReceive", "front", "pop"})
                      - In(from, {"lockReceive", "front", "pop"}),
                  In(to, {"lockSend", "push"}) - In(from, {"lockSend", "push"}),
                  In(to, {"releaseFree"}) - In(from, {"releaseFree"}))
<1>1. CountsTyped
  BY CountType DEF CountsTyped, Announcing, Taking, Putting, Returning
<1>2. pc \in [Threads -> Locations]
  BY DEF Types
<1>3. \A loc, L : In(loc, L) \in Nat
  BY DEF In
<1>4. ASSUME NEW L, Count(L) \in Nat
      PROVE  /\ Count(L)' = Count(L) + (In(to, L) - In(from, L))
             /\ Count(L)' \in Nat
  <2>1. Count(L)' = Count(L) + In(to, L) - In(from, L) /\ Count(L)' \in Nat
    BY <1>2, CountGoTo
  <2>2. In(to, L) \in Nat /\ In(from, L) \in Nat
    BY <1>3
  <2> QED
    BY <1>4, <2>1, <2>2
<1> QED
  BY <1>1, <1>4 DEF Change, CountsTyped, Announcing, Taking, Putting, Returning

(* What each step of a send call does to the counts. *)
LEMMA ProducerMoves ==
    ASSUME Types, NEW p \in Producers
    PROVE  /\ GoTo(p, "idle", "acquireFree") => Change(0, 0, 0, 0)
           /\ GoTo(p, "idle", "awaitFree") => Change(0, 0, 0, 0)
           /\ GoTo(p, "acquireFree", "idle") => Change(0, 0, 0, 0)
           /\ GoTo(p, "acquireFree", "lockSend") => Change(0, 0, 1, 0)
           /\ GoTo(p, "awaitFree", "lockSend") => Change(0, 0, 1, 0)
           /\ GoTo(p, "lockSend", "push") => Change(0, 0, 0, 0)
           /\ GoTo(p, "push", "releaseUsed") => Change(1, 0, -1, 0)
           /\ GoTo(p, "releaseUsed", "idle") => Change(-1, 0, 0, 0)
<1>1. p \in Threads
  BY DEF Threads
<1> QED
  BY <1>1, Moves DEF In

(* What each step of a receive call does to the counts. *)
LEMMA ConsumerMoves ==
    ASSUME Types, NEW c \in Consumers
    PROVE  /\ GoTo(c, "idle", "acquireUsed") => Change(0, 0, 0, 0)
           /\ GoTo(c, "acquireUsed", "idle") => Change(0, 0, 0, 0)
           /\ GoTo(c, "acquireUsed", "lockReceive") => Change(0, 1, 0, 0)
           /\ GoTo(c, "lockReceive", "front") => Change(0, 0, 0, 0)
           /\ GoTo(c, "front", "pop") => Change(0, 0, 0, 0)
           /\ GoTo(c, "pop", "releaseFree") => Change(0, -1, 0, 1)
           /\ GoTo(c, "releaseFree", "idle") => Change(0, 0, 0, -1)
<1>1. c \in Threads
  BY DEF Threads
<1> QED
  BY <1>1, Moves DEF In

-----------------------------------------------------------------------------
(* Every step keeps the accounting.                                        *)
LEMMA StepAccounting ==
    ASSUME Types, Accounting, ContainerInBounds, [Next]_vars
    PROVE  Accounting'
<1> USE DEF Accounting, CountsTyped
<1>1. ASSUME NEW p \in Producers, NEW m \in Msg, Send(p, m)
      PROVE  Accounting'
  <2>1. Change(0, 0, 0, 0)
    BY <1>1, ProducerMoves DEF Send
  <2> QED
    BY <1>1, <2>1 DEF Send, Change, Types
<1>2. ASSUME NEW p \in Producers, AcquireFree(p)
      PROVE  Accounting'
  <2>1. Change(0, 0, 1, 0)
    BY <1>2, ProducerMoves DEF AcquireFree, Asking
  <2> QED
    BY <1>2, <2>1 DEF AcquireFree, Change, Types
<1>3. ASSUME NEW p \in Producers, SendTimeout(p)
      PROVE  Accounting'
  <2>1. Change(0, 0, 0, 0)
    BY <1>3, ProducerMoves DEF SendTimeout
  <2> QED
    BY <1>3, <2>1 DEF SendTimeout, Change, Types
<1>4. ASSUME NEW p \in Producers, LockSend(p)
      PROVE  Accounting'
  <2>1. Change(0, 0, 0, 0)
    BY <1>4, ProducerMoves DEF LockSend
  <2> QED
    BY <1>4, <2>1 DEF LockSend, Change, Types
<1>5. ASSUME NEW p \in Producers, Push(p)
      PROVE  Accounting'
  <2>1. Len(queue') = Len(queue) + 1 /\ Len(queue) \in Nat
    BY <1>5 DEF Push, GoTo, Types, Threads
  <2>2. Change(1, 0, -1, 0)
    BY <1>5, ProducerMoves DEF Push
  <2> QED
    BY <1>5, <2>1, <2>2 DEF Push, Change, Types
<1>6. ASSUME NEW p \in Producers, ReleaseUsed(p)
      PROVE  Accounting'
  <2>1. Change(-1, 0, 0, 0)
    BY <1>6, ProducerMoves DEF ReleaseUsed
  <2> QED
    BY <1>6, <2>1 DEF ReleaseUsed, Change, Types
<1>7. ASSUME NEW c \in Consumers, Receive(c)
      PROVE  Accounting'
  <2>1. Change(0, 0, 0, 0)
    BY <1>7, ConsumerMoves DEF Receive
  <2> QED
    BY <1>7, <2>1 DEF Receive, Change, Types
<1>8. ASSUME NEW c \in Consumers, AcquireUsed(c)
      PROVE  Accounting'
  <2>1. Change(0, 1, 0, 0)
    BY <1>8, ConsumerMoves DEF AcquireUsed
  <2> QED
    BY <1>8, <2>1 DEF AcquireUsed, Change, Types
<1>9. ASSUME NEW c \in Consumers, ReceiveTimeout(c)
      PROVE  Accounting'
  <2>1. Change(0, 0, 0, 0)
    BY <1>9, ConsumerMoves DEF ReceiveTimeout
  <2> QED
    BY <1>9, <2>1 DEF ReceiveTimeout, Change, Types
<1>10. ASSUME NEW c \in Consumers, LockReceive(c)
       PROVE  Accounting'
  <2>1. Change(0, 0, 0, 0)
    BY <1>10, ConsumerMoves DEF LockReceive
  <2> QED
    BY <1>10, <2>1 DEF LockReceive, Change, Types
<1>11. ASSUME NEW c \in Consumers, Front(c)
       PROVE  Accounting'
  <2>1. Change(0, 0, 0, 0)
    BY <1>11, ConsumerMoves DEF Front
  <2> QED
    BY <1>11, <2>1 DEF Front, Change, Types
<1>12. ASSUME NEW c \in Consumers, Pop(c)
       PROVE  Accounting'
  <2>1. queue # <<>>
    BY <1>12 DEF Pop, GoTo, ContainerInBounds, Threads
  <2>2. Len(queue') = Len(queue) - 1 /\ Len(queue) \in Nat
    BY <1>12, <2>1 DEF Pop, Types
  <2>3. Change(0, -1, 0, 1) /\ used' = used /\ free' = free
    BY <1>12, ConsumerMoves DEF Pop
  <2> QED
    BY <2>2, <2>3 DEF Change, Types
<1>13. ASSUME NEW c \in Consumers, ReleaseFree(c)
       PROVE  Accounting'
  <2>1. Change(0, 0, 0, -1)
    BY <1>13, ConsumerMoves DEF ReleaseFree
  <2> QED
    BY <1>13, <2>1 DEF ReleaseFree, Change, Types
<1>14. CASE UNCHANGED vars
  BY <1>14 DEF vars, Count, Announcing, Taking, Putting, Returning
<1> QED
  BY <1>1, <1>2, <1>3, <1>4, <1>5, <1>6, <1>7, <1>8, <1>9, <1>10, <1>11, <1>12,
     <1>13, <1>14 DEF Next, SendSteps, ReceiveSteps

-----------------------------------------------------------------------------
(* Every step keeps the types, the mutual exclusion of the critical        *)
(* sections, and what a consumer has read.                                 *)
LEMMA StepTypes ==
    ASSUME Types, ContainerInBounds, [Next]_vars
    PROVE  Types'
<1> USE DEF Types, GoTo, Locations, Sending, Receiving, Asking
<1>0. ASSUME queue # <<>>
      PROVE  Head(queue) \in Msg /\ Tail(queue) \in Seq(Msg)
  BY <1>0
<1>1. ASSUME NEW p \in Producers, NEW m \in Msg, Send(p, m)
      PROVE  Types'
  BY <1>1 DEF Send, Threads
<1>2. ASSUME NEW p \in Producers, AcquireFree(p)
      PROVE  Types'
  BY <1>2 DEF AcquireFree, Threads
<1>3. ASSUME NEW p \in Producers, SendTimeout(p)
      PROVE  Types'
  BY <1>3 DEF SendTimeout, Threads
<1>4. ASSUME NEW p \in Producers, LockSend(p)
      PROVE  Types'
  BY <1>4 DEF LockSend, Threads
<1>5. ASSUME NEW p \in Producers, Push(p)
      PROVE  Types'
  BY <1>5 DEF Push, Threads
<1>6. ASSUME NEW p \in Producers, ReleaseUsed(p)
      PROVE  Types'
  BY <1>6 DEF ReleaseUsed, Threads
<1>7. ASSUME NEW c \in Consumers, Receive(c)
      PROVE  Types'
  BY <1>7 DEF Receive, Threads
<1>8. ASSUME NEW c \in Consumers, AcquireUsed(c)
      PROVE  Types'
  BY <1>8 DEF AcquireUsed, Threads
<1>9. ASSUME NEW c \in Consumers, ReceiveTimeout(c)
      PROVE  Types'
  BY <1>9 DEF ReceiveTimeout, Threads
<1>10. ASSUME NEW c \in Consumers, LockReceive(c)
       PROVE  Types'
  BY <1>10 DEF LockReceive, Threads
<1>11. ASSUME NEW c \in Consumers, Front(c)
       PROVE  Types'
  <2>1. Head(queue) \in Msg
    BY <1>0, <1>11 DEF Front, ContainerInBounds, Threads
  <2> QED
    BY <1>11, <2>1 DEF Front, Threads
<1>12. ASSUME NEW c \in Consumers, Pop(c)
       PROVE  Types'
  <2>1. Tail(queue) \in Seq(Msg)
    BY <1>0, <1>12 DEF Pop, ContainerInBounds, Threads
  <2> QED
    BY <1>12, <2>1 DEF Pop, Threads
<1>13. ASSUME NEW c \in Consumers, ReleaseFree(c)
       PROVE  Types'
  BY <1>13 DEF ReleaseFree, Threads
<1>14. CASE UNCHANGED vars
  BY <1>14 DEF vars
<1> QED
  BY <1>1, <1>2, <1>3, <1>4, <1>5, <1>6, <1>7, <1>8, <1>9, <1>10, <1>11, <1>12,
     <1>13, <1>14 DEF Next, SendSteps, ReceiveSteps

(* The mutex keeps the critical sections apart. *)
LEMMA StepMutex ==
    ASSUME Types, MutexHeld, FrontRead, ContainerInBounds, [Next]_vars
    PROVE  MutexHeld' /\ FrontRead'
<1> USE DEF Types, MutexHeld, FrontRead, GoTo, Asking
<1>1. ASSUME NEW p \in Producers, NEW m \in Msg, Send(p, m)
      PROVE  MutexHeld' /\ FrontRead'
  BY <1>1 DEF Send, Threads
<1>2. ASSUME NEW p \in Producers,
             AcquireFree(p) \/ SendTimeout(p) \/ ReleaseUsed(p)
      PROVE  MutexHeld' /\ FrontRead'
  BY <1>2 DEF AcquireFree, SendTimeout, ReleaseUsed, Threads
<1>3. ASSUME NEW p \in Producers, LockSend(p)
      PROVE  MutexHeld' /\ FrontRead'
  BY <1>3 DEF LockSend, Threads
<1>4. ASSUME NEW p \in Producers, Push(p)
      PROVE  MutexHeld' /\ FrontRead'
  BY <1>4 DEF Push, Threads
<1>5. ASSUME NEW c \in Consumers,
             Receive(c) \/ AcquireUsed(c) \/ ReceiveTimeout(c) \/ ReleaseFree(c)
      PROVE  MutexHeld' /\ FrontRead'
  BY <1>5 DEF Receive, AcquireUsed, ReceiveTimeout, ReleaseFree, Threads
<1>6. ASSUME NEW c \in Consumers, LockReceive(c)
      PROVE  MutexHeld' /\ FrontRead'
  BY <1>6 DEF LockReceive, Threads
<1>7. ASSUME NEW c \in Consumers, Front(c)
      PROVE  MutexHeld' /\ FrontRead'
  BY <1>7 DEF Front, Threads
<1>8. ASSUME NEW c \in Consumers, Pop(c)
      PROVE  MutexHeld' /\ FrontRead'
  BY <1>8 DEF Pop, Threads
<1>9. CASE UNCHANGED vars
  BY <1>9 DEF vars
<1> QED
  BY <1>1, <1>2, <1>3, <1>4, <1>5, <1>6, <1>7, <1>8, <1>9
     DEF Next, SendSteps, ReceiveSteps

-----------------------------------------------------------------------------
(* The inductive invariant holds throughout every behaviour. *)
THEOREM Invariance == Spec => []IInv
<1>1. Init => IInv
  BY InitIInv
<1>2. IInv /\ [Next]_vars => IInv'
  <2> SUFFICES ASSUME IInv, [Next]_vars PROVE IInv'
    OBVIOUS
  <2>1. Types /\ Accounting /\ ContainerInBounds /\ MutexHeld /\ FrontRead
    BY Bounds, AccountingEquiv DEF IInv
  <2>2. Types' /\ MutexHeld' /\ FrontRead'
    BY <2>1, StepTypes, StepMutex
  <2>3. Accounting'
    BY <2>1, StepAccounting
  <2>4. UsedAccounted' /\ FreeAccounted'
    BY <2>3 DEF Accounting, UsedAccounted, FreeAccounted, Announcing, Taking,
                Putting, Returning
  <2> QED
    BY <2>2, <2>4 DEF IInv
<1> QED
  BY <1>1, <1>2, PTL DEF Spec

(* The semaphores stay between 0 and Capacity: neither release() can       *)
(* exceed the maximum its semaphore was constructed with.                  *)
THEOREM TypeCorrect == Spec => []TypeOK
<1>1. IInv => TypeOK
  <2> SUFFICES ASSUME IInv PROVE TypeOK
    OBVIOUS
  <2>1. used <= Capacity /\ free <= Capacity
    BY Bounds DEF IInv
  <2> QED
    BY <2>1 DEF IInv, Types, TypeOK
<1> QED
  BY <1>1, Invariance, PTL

(* No message is stranded in the container and no slot leaks, for any      *)
(* number of tasks that overlap in any order.                              *)
THEOREM NothingGetsLost == Spec => []NothingLost
<1>1. IInv => NothingLost
  BY DEF IInv, NothingLost
<1> QED
  BY <1>1, Invariance, PTL

(* front() and pop() always find a message, and push() room.               *)
THEOREM ContainerSafe == Spec => []ContainerInBounds
<1>1. IInv => ContainerInBounds
  BY Bounds DEF IInv
<1> QED
  BY <1>1, Invariance, PTL

-----------------------------------------------------------------------------
(* The queue implements BoundedFifo *)

(* The refinement mapping, under names.                                    *)
Status == [t \in Threads |-> StatusOf(pc[t])]
Arg == [t \in Threads |-> IF Holds(t) THEN item[t] ELSE NoMsg]

(* What a step of one task does to its status in the abstract buffer. *)
LEMMA StatusGoTo ==
    ASSUME Types, NEW t \in Threads, NEW from, NEW to, GoTo(t, from, to)
    PROVE  /\ Status[t] = StatusOf(from)
           /\ Status' = [Status EXCEPT ![t] = StatusOf(to)]
  BY DEF Types, Status, GoTo

(* The initial states map to the initial state of the abstract buffer. *)
LEMMA RefineInit == Init => Fifo!Init
  BY DEF Init, Fifo!Init, Fifo!Threads, Threads, StatusOf, Holds, Sending,
         Receiving, Asking

(* When no slot is free, the calls in progress account for all of them.    *)
LEMMA NoSlot ==
    ASSUME Types, Accounting, NEW p \in Threads, pc[p] = "acquireFree", free = 0
    PROVE  Len(queue) + Fifo!InStatus(Threads \ {p}, "putting")
                      + Fifo!InStatus(Threads, "taken") >= Capacity
<1> DEFINE Called == {t \in Threads \ {p} : Status[t] = "putting"}
           Claims == {t \in Threads : pc[t] \in {"lockSend", "push"}}
           Done == {t \in Threads : Status[t] = "taken"}
           Leaving == {t \in Threads : pc[t] \in {"releaseFree"}}
<1>1. Claims \subseteq Called
  BY DEF Status, StatusOf, Types, Locations, Sending, Receiving, Asking
<1>2. Cardinality(Called) \in Nat /\ Cardinality(Claims) <= Cardinality(Called)
  <2>1. IsFiniteSet(Called)
    BY FiniteThreads, FS_Subset
  <2> HIDE DEF Called, Claims
  <2> QED
    BY <1>1, <2>1, FS_Subset, FS_CardinalityType
<1>3. Done = Leaving
  BY DEF Status, StatusOf, Types, Locations, Sending, Receiving, Asking
<1>4. Putting = Cardinality(Claims) /\ Returning = Cardinality(Leaving)
  BY DEF Putting, Returning, Count
<1>5. /\ Fifo!InStatus(Threads \ {p}, "putting") = Cardinality(Called)
      /\ Fifo!InStatus(Threads, "taken") = Cardinality(Done)
  BY DEF Fifo!InStatus, Status, Cardinality, Fifo!Cardinality
<1> HIDE DEF Called, Claims, Done, Leaving
<1> QED
  BY <1>2, <1>3, <1>4, <1>5 DEF Accounting, CountsTyped, Types

(* When no message is announced, the calls in progress account for those   *)
(* that are stored.                                                        *)
LEMMA NoMessage ==
    ASSUME Types, Accounting, NEW c \in Threads, pc[c] = "acquireUsed", used = 0
    PROVE  Len(queue) <= Fifo!InStatus(Threads \ {c}, "taking")
                         + Fifo!InStatus(Threads, "put")
<1> DEFINE Called == {t \in Threads \ {c} : Status[t] = "taking"}
           Claims == {t \in Threads : pc[t] \in {"lockReceive", "front", "pop"}}
           Done == {t \in Threads : Status[t] = "put"}
           Leaving == {t \in Threads : pc[t] \in {"releaseUsed"}}
<1>1. Claims \subseteq Called
  BY DEF Status, StatusOf, Types, Locations, Sending, Receiving, Asking
<1>2. Cardinality(Called) \in Nat /\ Cardinality(Claims) <= Cardinality(Called)
  <2>1. IsFiniteSet(Called)
    BY FiniteThreads, FS_Subset
  <2> HIDE DEF Called, Claims
  <2> QED
    BY <1>1, <2>1, FS_Subset, FS_CardinalityType
<1>3. Done = Leaving
  BY DEF Status, StatusOf, Types, Locations, Sending, Receiving, Asking
<1>4. Taking = Cardinality(Claims) /\ Announcing = Cardinality(Leaving)
  BY DEF Taking, Announcing, Count
<1>5. /\ Fifo!InStatus(Threads \ {c}, "taking") = Cardinality(Called)
      /\ Fifo!InStatus(Threads, "put") = Cardinality(Done)
  BY DEF Fifo!InStatus, Status, Cardinality, Fifo!Cardinality
<1> HIDE DEF Called, Claims, Done, Leaving
<1> QED
  BY <1>2, <1>3, <1>4, <1>5 DEF Accounting, CountsTyped, Types

(* Every step is a step of the abstract buffer or a stutter. *)
LEMMA StepRefines ==
    ASSUME Types, Accounting, ContainerInBounds, FrontRead, [Next]_vars
    PROVE  [Fifo!Next]_(Fifo!vars)
<1> USE DEF Types, Threads, StatusOf, Sending, Receiving, Asking
<1>0. /\ Fifo!Threads = Threads
      /\ \A t \in Threads : Status[t] = StatusOf(pc[t])
      /\ \A t \in Threads : Arg[t] = IF Holds(t) THEN item[t] ELSE NoMsg
  BY DEF Fifo!Threads, Status, Arg
<1>1. ASSUME NEW p \in Producers, NEW m \in Msg, Send(p, m)
      PROVE  Fifo!CallPut(p, m)
  <2>1. Status[p] = "idle" /\ Status' = [Status EXCEPT ![p] = "putting"]
    BY <1>1, StatusGoTo DEF Send
  <2>2. Arg' = [Arg EXCEPT ![p] = m]
    BY <1>1 DEF Send, GoTo, Arg, Holds
  <2> QED
    BY <1>1, <2>1, <2>2 DEF Send, Fifo!CallPut, Status, Arg
<1>2. ASSUME NEW p \in Producers, AcquireFree(p) \/ LockSend(p)
      PROVE  UNCHANGED Fifo!vars
  <2>1. Status' = Status
    BY <1>2 DEF AcquireFree, LockSend, GoTo, Status
  <2>2. Arg' = Arg
    BY <1>2 DEF AcquireFree, LockSend, GoTo, Arg, Holds
  <2> QED
    BY <1>2, <2>1, <2>2 DEF AcquireFree, LockSend, Fifo!vars, Status, Arg
<1>3. ASSUME NEW p \in Producers, SendTimeout(p)
      PROVE  Fifo!RefusePut(p)
  <2>1. Status[p] = "putting" /\ Status' = [Status EXCEPT ![p] = "idle"]
    BY <1>3, StatusGoTo DEF SendTimeout
  <2>2. Arg' = [Arg EXCEPT ![p] = NoMsg]
    BY <1>3 DEF SendTimeout, GoTo, Arg, Holds
  <2>3. Len(queue) + Fifo!InStatus(Threads \ {p}, "putting")
                   + Fifo!InStatus(Threads, "taken") >= Capacity
    BY <1>3, NoSlot DEF SendTimeout, GoTo
  <2> QED
    BY <1>0, <1>3, <2>1, <2>2, <2>3 DEF SendTimeout, Fifo!RefusePut, Status, Arg
<1>4. ASSUME NEW p \in Producers, Push(p)
      PROVE  Fifo!Put(p)
  <2>1. Status[p] = "putting" /\ Status' = [Status EXCEPT ![p] = "put"]
    BY <1>4, StatusGoTo DEF Push
  <2>2. Arg[p] = item[p] /\ Arg' = [Arg EXCEPT ![p] = NoMsg]
    BY <1>4 DEF Push, GoTo, Arg, Holds
  <2>3. Len(queue) < Capacity
    BY <1>4 DEF Push, GoTo, ContainerInBounds
  <2> QED
    BY <1>4, <2>1, <2>2, <2>3 DEF Push, Fifo!Put, Status, Arg
<1>5. ASSUME NEW p \in Producers, ReleaseUsed(p)
      PROVE  Fifo!Return(p)
  <2>1. Status[p] = "put" /\ Status' = [Status EXCEPT ![p] = "idle"]
    BY <1>5, StatusGoTo DEF ReleaseUsed
  <2>2. Arg' = [Arg EXCEPT ![p] = NoMsg]
    BY <1>5 DEF ReleaseUsed, GoTo, Arg, Holds
  <2> QED
    BY <1>5, <2>1, <2>2 DEF ReleaseUsed, Fifo!Return, Status, Arg
<1>6. ASSUME NEW c \in Consumers, Receive(c)
      PROVE  Fifo!CallTake(c)
  <2>1. Status[c] = "idle" /\ Status' = [Status EXCEPT ![c] = "taking"]
    BY <1>6, StatusGoTo DEF Receive
  <2>2. Arg' = Arg
    BY <1>6 DEF Receive, GoTo, Arg, Holds
  <2> QED
    BY <1>6, <2>1, <2>2 DEF Receive, Fifo!CallTake, Status, Arg
<1>7. ASSUME NEW c \in Consumers,
             AcquireUsed(c) \/ LockReceive(c) \/ Front(c)
      PROVE  UNCHANGED Fifo!vars
  <2>1. Status' = Status
    BY <1>7 DEF AcquireUsed, LockReceive, Front, GoTo, Status
  <2>2. Arg' = Arg
    BY <1>7 DEF AcquireUsed, LockReceive, Front, GoTo, Arg, Holds
  <2> QED
    BY <1>7, <2>1, <2>2
       DEF AcquireUsed, LockReceive, Front, Fifo!vars, Status, Arg
<1>8. ASSUME NEW c \in Consumers, ReceiveTimeout(c)
      PROVE  Fifo!RefuseTake(c)
  <2>1. Status[c] = "taking" /\ Status' = [Status EXCEPT ![c] = "idle"]
    BY <1>8, StatusGoTo DEF ReceiveTimeout
  <2>2. Arg' = Arg
    BY <1>8 DEF ReceiveTimeout, GoTo, Arg, Holds
  <2>3. Len(queue) <= Fifo!InStatus(Threads \ {c}, "taking")
                      + Fifo!InStatus(Threads, "put")
    BY <1>8, NoMessage DEF ReceiveTimeout, GoTo
  <2> QED
    BY <1>0, <1>8, <2>1, <2>2, <2>3
       DEF ReceiveTimeout, Fifo!RefuseTake, Status, Arg
<1>9. ASSUME NEW c \in Consumers, Pop(c)
      PROVE  Fifo!Take(c)
  <2>1. Status[c] = "taking" /\ Status' = [Status EXCEPT ![c] = "taken"]
    BY <1>9, StatusGoTo DEF Pop
  <2>2. item[c] = Head(queue) /\ queue # <<>>
    BY <1>9 DEF Pop, GoTo, FrontRead, ContainerInBounds
  <2>3. Arg' = [Arg EXCEPT ![c] = Head(queue)]
    BY <1>9, <2>2 DEF Pop, GoTo, Arg, Holds
  <2> QED
    BY <1>9, <2>1, <2>2, <2>3 DEF Pop, Fifo!Take, Status, Arg
<1>10. ASSUME NEW c \in Consumers, ReleaseFree(c)
       PROVE  Fifo!Return(c)
  <2>1. Status[c] = "taken" /\ Status' = [Status EXCEPT ![c] = "idle"]
    BY <1>10, StatusGoTo DEF ReleaseFree
  <2>2. Arg' = [Arg EXCEPT ![c] = NoMsg]
    BY <1>10 DEF ReleaseFree, GoTo, Arg, Holds
  <2> QED
    BY <1>10, <2>1, <2>2 DEF ReleaseFree, Fifo!Return, Status, Arg
<1>11. CASE UNCHANGED vars
  BY <1>11 DEF vars, Fifo!vars, Holds
<1> QED
  BY <1>0, <1>1, <1>2, <1>3, <1>4, <1>5, <1>6, <1>7, <1>8, <1>9, <1>10, <1>11
     DEF Next, SendSteps, ReceiveSteps, Fifo!Next

(* Overlapping calls of send and receive take effect one at a time, in the *)
(* order of a FIFO buffer, for any number of tasks and any capacity.       *)
THEOREM Refinement == Spec => ImplementsFifo
<1>1. Init => Fifo!Init
  BY RefineInit
<1>2. IInv /\ [Next]_vars => [Fifo!Next]_(Fifo!vars)
  BY StepRefines, Bounds, AccountingEquiv DEF IInv
<1> QED
  BY <1>1, <1>2, Invariance, PTL DEF Spec, ImplementsFifo, Fifo!Spec
=============================================================================
