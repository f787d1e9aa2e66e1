---------------------------- MODULE BoundedFifo ----------------------------
(***************************************************************************)
(* What shrapnel::Queue (components/os/include/os/queue.h) promises to the *)
(* tasks that share it: a first-in first-out buffer of Capacity messages   *)
(* whose calls overlap.  A call is made, takes effect in one instant or is *)
(* refused, and returns.                                                   *)
(*                                                                         *)
(* The buffer does not promise that send fails only when Capacity messages *)
(* are stored, nor that receive fails only when none is: a call that is    *)
(* still in progress may hold the slot or the message.  The guards of      *)
(* RefusePut and RefuseTake say exactly how much of that is allowed.       *)
(***************************************************************************)
EXTENDS Naturals, Sequences, FiniteSets

CONSTANTS
    Producers,  \* tasks that call send
    Consumers,  \* tasks that call receive
    Msg,        \* messages
    NoMsg,      \* "no message"
    Capacity    \* MAX_SIZE

Threads == Producers \union Consumers

VARIABLES
    items,      \* messages stored, oldest first
    status,     \* of each task: "idle", "putting", "put", "taking", "taken"
    arg         \* message a task is putting, or the one its take returned

vars == <<items, status, arg>>

Init ==
    /\ items = <<>>
    /\ status = [t \in Threads |-> "idle"]
    /\ arg = [t \in Threads |-> NoMsg]

(* The tasks of T whose call has that status. *)
InStatus(T, s) == Cardinality({t \in T : status[t] = s})

CallPut(p, m) ==
    /\ status[p] = "idle"
    /\ status' = [status EXCEPT ![p] = "putting"]
    /\ arg' = [arg EXCEPT ![p] = m]
    /\ UNCHANGED items

CallTake(c) ==
    /\ status[c] = "idle"
    /\ status' = [status EXCEPT ![c] = "taking"]
    /\ UNCHANGED <<items, arg>>

(* The put takes effect: the message becomes the newest one. *)
Put(p) ==
    /\ status[p] = "putting"
    /\ Len(items) < Capacity
    /\ items' = Append(items, arg[p])
    /\ status' = [status EXCEPT ![p] = "put"]
    /\ arg' = [arg EXCEPT ![p] = NoMsg]

(* The take takes effect: the caller gets the oldest message. *)
Take(c) ==
    /\ status[c] = "taking"
    /\ items # <<>>
    /\ arg' = [arg EXCEPT ![c] = Head(items)]
    /\ items' = Tail(items)
    /\ status' = [status EXCEPT ![c] = "taken"]

Return(t) ==
    /\ status[t] \in {"put", "taken"}
    /\ status' = [status EXCEPT ![t] = "idle"]
    /\ arg' = [arg EXCEPT ![t] = NoMsg]
    /\ UNCHANGED items

(* Every slot is occupied, claimed by another put, or being given back.    *)
RefusePut(p) ==
    /\ status[p] = "putting"
    /\ Len(items) + InStatus(Threads \ {p}, "putting")
                  + InStatus(Threads, "taken") >= Capacity
    /\ status' = [status EXCEPT ![p] = "idle"]
    /\ arg' = [arg EXCEPT ![p] = NoMsg]
    /\ UNCHANGED items

(* Every message stored is claimed by another take, or was put by a call   *)
(* that has not returned.                                                  *)
RefuseTake(c) ==
    /\ status[c] = "taking"
    /\ Len(items) <= InStatus(Threads \ {c}, "taking")
                     + InStatus(Threads, "put")
    /\ status' = [status EXCEPT ![c] = "idle"]
    /\ UNCHANGED <<items, arg>>

Next ==
    \/ \E p \in Producers :
          \/ \E m \in Msg : CallPut(p, m)
          \/ Put(p) \/ RefusePut(p)
    \/ \E c \in Consumers : CallTake(c) \/ Take(c) \/ RefuseTake(c)
    \/ \E t \in Threads : Return(t)

Spec == Init /\ [][Next]_vars
=============================================================================
