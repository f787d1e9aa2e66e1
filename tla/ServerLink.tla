----------------------------- MODULE ServerLink -----------------------------
(***************************************************************************)
(* The link between the main task and the websocket clients.               *)
(*                                                                         *)
(*   - The main task (main/main.cpp, MainThread::loop) takes messages from *)
(*     in_queue, and sends its own with Server::send_message: it pushes    *)
(*     the message on out_queue, takes work_semaphore and asks the HTTP    *)
(*     server to call websocket_send.  It also starts and stops the        *)
(*     server when WiFi comes and goes, and runs the console.              *)
(*   - The httpd task runs one thing at a time: a frame of a client, which *)
(*     goes to in_queue, or a websocket_send call, which takes ONE message *)
(*     from out_queue, sends it to the clients and gives work_semaphore.   *)
(*                                                                         *)
(* The two queues are BoundedQueue's, at the grain of BoundedFifo.  Every  *)
(* wait of the code has a timeout, which is possible here only while what  *)
(* the task waits for is not there.                                        *)
(***************************************************************************)
EXTENDS Naturals, Integers, Sequences, FiniteSets

CONSTANTS
    Fds,        \* socket numbers of clients, MAX_CLIENTS of them
    NoFd,       \* std::nullopt, the message has no source
    QueueLen,   \* QUEUE_LEN, capacity of in_queue and of out_queue
    MaxReplies, \* most messages to all clients that one handler sends
    MaxMsgs,    \* bound: messages the main task sends in a behaviour
    Envs        \* environments considered, see Env below

(***************************************************************************)
(* What surrounds the tasks during a behaviour.                            *)
(*   "calm"    WiFi is up from the start and stays up, the HTTP server     *)
(*             serves within the timeouts, and nobody uses the console     *)
(*   "late"    as calm, but WiFi connects at some later time               *)
(*   "console" as calm, with commands on the console                       *)
(*   "rough"   WiFi comes and goes, httpd_start may fail, calls may take   *)
(*             longer than the timeouts, the server may drop a queued call *)
(*             (the comment in server.h says it does), console in use      *)
(***************************************************************************)
Env == {"calm", "late", "console", "rough"}

Sources == Fds \union {NoFd}
Phases == {"midi", "receive", "notify", "wifi", "console"}

ASSUME LinkAssumption ==
    /\ QueueLen \in Nat \ {0}
    /\ MaxReplies \in Nat /\ MaxMsgs \in Nat
    /\ Envs \subseteq Env
    /\ NoFd \notin Fds

Message == [id : 1 .. MaxMsgs, src : Sources]

VARIABLES
    env,        \* constant during a behaviour
    inq,        \* in_queue: the source of each message
    outq,       \* out_queue
    sem,        \* work_semaphore
    works,      \* websocket_send calls queued in the running server
    server,     \* Server::server: "null", "up" or "dangling" after a stop
    linked,     \* the WiFi state machine is in CONNECTED
    clients,    \* open websockets
    last,       \* id of the last message each open websocket was sent
    mpc,        \* main task: a phase of the loop, or inside send_message,
                \* Server::stop or the console's in_queue->send
    after,      \* phase to go to when the message is sent
    todo,       \* sources of the messages the handler has yet to send
    cur,        \* message being sent
    nextId,     \* id of the next message sent
    hpc,        \* httpd task: "down", "idle", "deliver" or "put"
    hmsg,       \* message httpd is delivering
    hfd         \* client whose message httpd is putting on in_queue

mainVars == <<mpc, after, todo, cur, nextId>>
httpdVars == <<hpc, hmsg, hfd>>
netVars == <<clients, last>>
vars == <<env, inq, outq, sem, works, server, linked, netVars, mainVars, httpdVars>>

NoMessage == [id |-> 0, src |-> NoFd]

TypeOK ==
    /\ env \in Envs
    /\ inq \in Seq(Sources) /\ Len(inq) <= QueueLen
    /\ outq \in Seq(Message) /\ Len(outq) <= QueueLen
    /\ sem \in {0, 1}
    /\ works \in Nat
    /\ server \in {"null", "up", "dangling"}
    /\ linked \in BOOLEAN
    /\ clients \subseteq Fds
    /\ last \in [Fds -> 0 .. MaxMsgs]
    /\ mpc \in Phases \union {"push", "take", "work", "stopping", "enqueue"}
    /\ after \in Phases
    /\ todo \in Seq(Sources)
    /\ cur \in Message \union {NoMessage}
    /\ nextId \in 1 .. MaxMsgs + 1
    /\ hpc \in {"down", "idle", "deliver", "put"}
    /\ hmsg \in Message \union {NoMessage}
    /\ hfd \in Sources

Init ==
    /\ env \in Envs
    /\ inq = <<>> /\ outq = <<>>
    /\ sem = 1 /\ works = 0
    /\ linked = (env \in {"calm", "console"})
    /\ server = IF linked THEN "up" ELSE "null"
    /\ hpc = IF linked THEN "idle" ELSE "down"
    /\ clients = {} /\ last = [fd \in Fds |-> 0]
    /\ mpc = "midi" /\ after = "midi" /\ todo = <<>>
    /\ cur = NoMessage /\ nextId = 1
    /\ hmsg = NoMessage /\ hfd = NoFd

-----------------------------------------------------------------------------
(* The main task: Server::send_message *)

(* Call send_message once for each source in srcs, then go to a phase. *)
SendAll(srcs, phase) ==
    IF srcs = <<>>
    THEN /\ mpc' = phase
         /\ todo' = <<>>
         /\ UNCHANGED <<after, cur, nextId>>
    ELSE /\ nextId + Len(srcs) <= MaxMsgs + 1
         /\ cur' = [id |-> nextId, src |-> Head(srcs)]
         /\ nextId' = nextId + 1
         /\ todo' = Tail(srcs)
         /\ after' = phase
         /\ mpc' = "push"

(* send_message returns, and the handler goes on with its next message. *)
SendReturns ==
    IF todo = <<>>
    THEN mpc' = after /\ UNCHANGED <<after, todo, cur, nextId>>
    ELSE /\ mpc' = "push"
         /\ cur' = [id |-> nextId, src |-> Head(todo)]
         /\ nextId' = nextId + 1
         /\ todo' = Tail(todo)
         /\ UNCHANGED after

-----------------------------------------------------------------------------
(* Variants of the steps below, each with a plausible mistake.  They are   *)
(* not part of the specification; the properties tell them apart.          *)

(* The push does not look at the capacity of out_queue. *)
PushUnbounded ==
    /\ mpc = "push"
    /\ outq' = Append(outq, cur)
    /\ mpc' = "take"
    /\ UNCHANGED <<env, inq, sem, works, server, linked, netVars, after, todo,
                   cur, nextId, httpdVars>>

(* send_message queues the call although work_semaphore was not free. *)
TakeTimeoutGoesOn ==
    /\ mpc = "take"
    /\ sem = 0
    /\ mpc' = "work"
    /\ UNCHANGED <<env, inq, outq, sem, works, server, linked, netVars, after,
                   todo, cur, nextId, httpdVars>>

(* The wait for work_semaphore has no timeout. *)
TakeForever == mpc = "take" /\ FALSE /\ UNCHANGED vars

(* The call is queued only while a client is connected. *)
QueueWorkIfClients ==
    /\ mpc = "work"
    /\ server = "up"
    /\ works' = IF clients = {} THEN works ELSE works + 1
    /\ SendReturns
    /\ UNCHANGED <<env, inq, outq, sem, server, linked, netVars, httpdVars>>

(* The wait for room on in_queue has no timeout. *)
FramePutForever == hpc = "put" /\ FALSE /\ UNCHANGED vars

(* websocket_send takes the newest message. *)
RunWorkNewestFirst ==
    /\ hpc = "idle" /\ works > 0 /\ outq # <<>>
    /\ works' = works - 1
    /\ hmsg' = outq[Len(outq)]
    /\ outq' = SubSeq(outq, 1, Len(outq) - 1)
    /\ hpc' = "deliver"
    /\ UNCHANGED <<env, inq, sem, server, linked, netVars, mainVars, hfd>>

(* websocket_send throws away the messages that lag behind. *)
RunWorkClearsBacklog ==
    /\ hpc = "idle" /\ works > 0 /\ outq # <<>>
    /\ works' = works - 1
    /\ hmsg' = Head(outq)
    /\ outq' = <<>>
    /\ hpc' = "deliver"
    /\ UNCHANGED <<env, inq, sem, server, linked, netVars, mainVars, hfd>>

(* websocket_send returns early when there is no client to send to. *)
DeliveredReturnsEarly ==
    /\ hpc = "deliver"
    /\ last' = [fd \in Fds |-> IF fd \in clients \ {hmsg.src} THEN hmsg.id ELSE last[fd]]
    /\ sem' = IF clients = {} THEN sem ELSE 1
    /\ hpc' = "idle"
    /\ hmsg' = NoMessage
    /\ UNCHANGED <<env, inq, outq, works, server, linked, clients, mainVars, hfd>>

-----------------------------------------------------------------------------
PushOk ==
    /\ mpc = "push"
    /\ Len(outq) < QueueLen
    /\ outq' = Append(outq, cur)
    /\ mpc' = "take"
    /\ UNCHANGED <<env, inq, sem, works, server, linked, netVars, after, todo,
                   cur, nextId, httpdVars>>

(* "Failed to send message to websocket" *)
PushTimeout ==
    /\ mpc = "push"
    /\ Len(outq) = QueueLen
    /\ SendReturns
    /\ UNCHANGED <<env, inq, outq, sem, works, server, linked, netVars, httpdVars>>

TakeOk ==
    /\ mpc = "take"
    /\ sem = 1
    /\ sem' = 0
    /\ mpc' = "work"
    /\ UNCHANGED <<env, inq, outq, works, server, linked, netVars, after, todo,
                   cur, nextId, httpdVars>>

(* "work semaphore timed out": the message stays on out_queue.  Only a     *)
(* slow network lets the wait end while a websocket_send call is under way.*)
TakeTimeout ==
    /\ mpc = "take"
    /\ sem = 0
    /\ env # "rough" => works = 0 /\ hpc # "deliver"
    /\ SendReturns
    /\ UNCHANGED <<env, inq, outq, sem, works, server, linked, netVars, httpdVars>>

(* httpd_queue_work with a running server.  The call may be dropped.       *)
QueueWork ==
    /\ mpc = "work"
    /\ server = "up"
    /\ \/ works' = works + 1
       \/ env = "rough" /\ works' = works
    /\ SendReturns
    /\ UNCHANGED <<env, inq, outq, sem, server, linked, netVars, httpdVars>>

(* httpd_queue_work with no server: a null handle is refused.  The handle  *)
(* of a stopped server is freed memory; whether the call reports an error  *)
(* or not, nothing runs websocket_send, and work_semaphore is not given.   *)
QueueWorkFails ==
    /\ mpc = "work"
    /\ server # "up"
    /\ SendReturns
    /\ UNCHANGED <<env, inq, outq, sem, works, server, linked, netVars, httpdVars>>

-----------------------------------------------------------------------------
(* The main task: the loop *)

NextPhase == [midi |-> "receive", notify |-> "wifi", wifi |-> "console",
              console |-> "midi"]

(* Nothing (more) to do in this phase.  The phase "receive" handles exactly*)
(* one message and ends by itself.                                         *)
PhaseDone ==
    /\ mpc \in DOMAIN NextPhase
    /\ mpc' = NextPhase[mpc]
    /\ UNCHANGED <<env, inq, outq, sem, works, server, linked, netVars, after,
                   todo, cur, nextId, httpdVars>>

(* A MIDI message changes parameters, a clipped buffer is reported, or the *)
(* last MIDI message is shown: a message for every client.                 *)
Emit ==
    /\ mpc \in {"midi", "notify"}
    /\ SendAll(<<NoFd>>, mpc)
    /\ UNCHANGED <<env, inq, outq, sem, works, server, linked, netVars, httpdVars>>

ReceiveNothing ==
    /\ mpc = "receive"
    /\ inq = <<>>
    /\ mpc' = "notify"
    /\ UNCHANGED <<env, inq, outq, sem, works, server, linked, netVars, after,
                   todo, cur, nextId, httpdVars>>

(* What a handler sends: a parameter update goes back to every client but  *)
(* its source, everything else to all clients.                             *)
Replies(src) == {<<src>>} \union {[i \in 1 .. n |-> NoFd] : n \in 0 .. MaxReplies}

HandleMessage ==
    /\ mpc = "receive"
    /\ inq # <<>>
    /\ inq' = Tail(inq)
    /\ \E srcs \in Replies(Head(inq)) : SendAll(srcs, "notify")
    /\ UNCHANGED <<env, outq, sem, works, server, linked, netVars, httpdVars>>

(* WiFi is connected: Server::start.  If httpd_start fails the handle      *)
(* keeps its old value.                                                    *)
ServerStart ==
    /\ mpc = "wifi" /\ ~linked
    /\ linked' = TRUE
    /\ \/ server' = "up" /\ hpc' = "idle"
       \/ env = "rough" /\ UNCHANGED <<server, hpc>>
    /\ UNCHANGED <<env, inq, outq, sem, works, netVars, mainVars, hmsg, hfd>>

(* WiFi is lost: Server::stop waits until the httpd task has ended.        *)
ServerStop ==
    /\ env = "rough"
    /\ mpc = "wifi" /\ linked
    /\ linked' = FALSE
    /\ mpc' = IF server = "up" THEN "stopping" ELSE "wifi"
    /\ UNCHANGED <<env, inq, outq, sem, works, server, netVars, after, todo, cur,
                   nextId, httpdVars>>

(* A midi command on the console: in_queue->send(portMAX_DELAY), called by *)
(* the only task that receives from in_queue.                              *)
ConsoleCommand ==
    /\ env \in {"rough", "console"}
    /\ mpc = "console"
    /\ mpc' = "enqueue"
    /\ UNCHANGED <<env, inq, outq, sem, works, server, linked, netVars, after,
                   todo, cur, nextId, httpdVars>>

ConsoleEnqueue ==
    /\ mpc = "enqueue"
    /\ Len(inq) < QueueLen
    /\ inq' = Append(inq, NoFd)
    /\ mpc' = "console"
    /\ UNCHANGED <<env, outq, sem, works, server, linked, netVars, after, todo,
                   cur, nextId, httpdVars>>

-----------------------------------------------------------------------------
(* The httpd task *)

Connect(fd) ==
    /\ hpc = "idle"
    /\ fd \notin clients
    /\ clients' = clients \union {fd}
    /\ last' = [last EXCEPT ![fd] = 0]
    /\ UNCHANGED <<env, inq, outq, sem, works, server, linked, mainVars, httpdVars>>

Disconnect(fd) ==
    /\ hpc = "idle"
    /\ fd \in clients
    /\ clients' = clients \ {fd}
    /\ last' = [last EXCEPT ![fd] = 0]
    /\ UNCHANGED <<env, inq, outq, sem, works, server, linked, mainVars, httpdVars>>

(* websocket_get_handler has a message from a client for in_queue.         *)
ClientFrame(fd) ==
    /\ hpc = "idle"
    /\ fd \in clients
    /\ hpc' = "put"
    /\ hfd' = fd
    /\ UNCHANGED <<env, inq, outq, sem, works, server, linked, netVars, mainVars, hmsg>>

FramePut ==
    /\ hpc = "put"
    /\ Len(inq) < QueueLen
    /\ inq' = Append(inq, hfd)
    /\ hpc' = "idle"
    /\ hfd' = NoFd
    /\ UNCHANGED <<env, outq, sem, works, server, linked, netVars, mainVars, hmsg>>

(* "in_queue message dropped" *)
FrameDropped ==
    /\ hpc = "put"
    /\ Len(inq) = QueueLen
    /\ hpc' = "idle"
    /\ hfd' = NoFd
    /\ UNCHANGED <<env, inq, outq, sem, works, server, linked, netVars, mainVars, hmsg>>

(* websocket_send starts: it takes one message, or returns without giving  *)
(* work_semaphore when there is none.                                      *)
RunWork ==
    /\ hpc = "idle"
    /\ works > 0
    /\ works' = works - 1
    /\ IF outq = <<>>
       THEN UNCHANGED <<outq, hmsg, hpc>>
       ELSE /\ hmsg' = Head(outq)
            /\ outq' = Tail(outq)
            /\ hpc' = "deliver"
    /\ UNCHANGED <<env, inq, sem, server, linked, netVars, mainVars, hfd>>

(* Every client but the source is sent the message; sending may fail for   *)
(* some.  Then work_semaphore is given.                                    *)
Delivered ==
    /\ hpc = "deliver"
    /\ \E failed \in SUBSET clients :
          /\ failed # {} => env = "rough"
          /\ last' = [fd \in Fds |->
                        IF fd \in clients \ (failed \union {hmsg.src})
                        THEN hmsg.id ELSE last[fd]]
    /\ sem' = 1
    /\ hpc' = "idle"
    /\ hmsg' = NoMessage
    /\ UNCHANGED <<env, inq, outq, works, server, linked, clients, mainVars, hfd>>

(* The shutdown request is behind the queued calls.  The task ends, the    *)
(* sockets are closed, and Server::stop returns; it leaves the handle.     *)
HttpdExit ==
    /\ mpc = "stopping"
    /\ hpc = "idle"
    /\ works = 0
    /\ hpc' = "down"
    /\ clients' = {}
    /\ last' = [fd \in Fds |-> 0]
    /\ server' = "dangling"
    /\ mpc' = "wifi"
    /\ UNCHANGED <<env, inq, outq, sem, works, linked, after, todo, cur, nextId,
                   hmsg, hfd>>

-----------------------------------------------------------------------------
SendMessage ==
    PushOk \/ PushTimeout \/ TakeOk \/ TakeTimeout \/ QueueWork \/ QueueWorkFails

MainStep ==
    \/ SendMessage
    \/ PhaseDone \/ Emit \/ ReceiveNothing \/ HandleMessage
    \/ ServerStart \/ ServerStop
    \/ ConsoleCommand \/ ConsoleEnqueue

HttpdStep == FramePut \/ FrameDropped \/ RunWork \/ Delivered \/ HttpdExit

ClientStep == \E fd \in Fds : Connect(fd) \/ Disconnect(fd) \/ ClientFrame(fd)

Next == MainStep \/ HttpdStep \/ ClientStep

Spec == Init /\ [][Next]_vars

(* Both tasks run when they can.  The loops that drain events and console  *)
(* input end: they consume faster than input arrives.  The select loop of  *)
(* httpd serves queued calls and the shutdown request even while clients   *)
(* keep it busy.  Nothing obliges clients, WiFi or the console to act.     *)
Fairness ==
    /\ WF_vars(MainStep) /\ SF_vars(PhaseDone)
    /\ WF_vars(HttpdStep) /\ SF_vars(RunWork) /\ SF_vars(HttpdExit)

FairSpec == Spec /\ Fairness

-----------------------------------------------------------------------------
(* Properties *)

One(b) == IF b THEN 1 ELSE 0

(* Holders of work_semaphore: websocket_send calls queued or running, and  *)
(* send_message between taking it and queueing the call.                   *)
Turns == works + One(mpc = "work") + One(hpc = "deliver")

(* Messages on out_queue that no call, queued or about to be queued, will  *)
(* take: they wait for a call made for a later message.                    *)
Lag == Len(outq) - (works + One(mpc \in {"take", "work"}))

(* work_semaphore does what its comment in server.h asks of it: there is   *)
(* never a websocket_send call queued while another is queued or running,  *)
(* across lost calls, timeouts and restarts of the server.                 *)
OneCallAtATime == sem + Turns <= 1

(* Each queued call finds a message: websocket_send never takes its early  *)
(* return, which would keep work_semaphore for ever.                       *)
EveryCallHasAMessage == Lag >= 0

(* A client is sent messages in the order the main task sent them, each at *)
(* most once, however long they lay on out_queue.                          *)
DeliveredInOrder ==
    /\ \A i, j \in DOMAIN outq : i < j => outq[i].id < outq[j].id
    /\ \A i \in DOMAIN outq : hmsg.id < outq[i].id
    /\ \A fd \in clients :
          /\ hpc = "deliver" => last[fd] < hmsg.id
          /\ \A i \in DOMAIN outq : last[fd] < outq[i].id

(* While WiFi stays up and the server is not too slow, work_semaphore is   *)
(* never lost and no message misses its call.                              *)
CalmKeepsEveryTurn == env = "calm" => sem + Turns = 1 /\ Lag = 0

(* A missed call is never made up: once the messages run late they run     *)
(* late by at least as much for the rest of the session, also after the    *)
(* server is restarted.                                                    *)
LagNeverShrinks == [][Lag' >= Lag]_vars

InOutbox(id) == id \in {outq[i].id : i \in DOMAIN outq}

(* While WiFi stays up every message queued is sent.                       *)
CalmDelivers ==
    env = "calm" => \A id \in 1 .. MaxMsgs : InOutbox(id) ~> ~InOutbox(id)

(* Timeouts keep the main loop going through a dead server and a lost      *)
(* work_semaphore; the only place it can stop for ever is the console.     *)
MainStallsOnlyInConsole == []<>(mpc = "midi") \/ <>[](mpc = "enqueue")

(* Server::stop ends, although it waits for the httpd task while httpd may *)
(* be waiting for the main task to make room on in_queue.                  *)
StopCompletes == mpc = "stopping" ~> mpc # "stopping"

(* midi_mapping.h, page ws_api: the firmware sends events to the frontend  *)
(* without polling; a queued event leaves for the clients if the server    *)
(* stays up.                                                               *)
EventsAreSent ==
    \A id \in 1 .. MaxMsgs :
        InOutbox(id) /\ server = "up" ~> ~InOutbox(id) \/ server # "up"
=============================================================================
