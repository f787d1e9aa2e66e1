------------------------ MODULE PresetControlProofs ------------------------
(***************************************************************************)
(* Proofs about PresetControl, for any number of clients, parameters,      *)
(* presets and acts: what a client will show once the messages that are    *)
(* on their way have arrived is what the main task has, of each preset,    *)
(* of the selection and of each parameter.                                 *)
(***************************************************************************)
EXTENDS PresetControl, SequenceTheorems, FiniteSetTheorems, FunctionTheorems, TLAPS

USE ControlAssumption

-----------------------------------------------------------------------------
(* The last message of a kind *)

NoneIn(s, S) == \A i \in DOMAIN s : s[i] \notin S

LastIn(s, S, m) ==
    m \in S /\ \E i \in DOMAIN s : s[i] = m /\ \A j \in DOMAIN s : j > i => s[j] \notin S

(* What the receiver of s, which has now, will have when s has arrived.    *)
Settles(s, S, now, m) == LastIn(s, S, m) \/ (NoneIn(s, S) /\ now = m)

LEMMA EmptyNone == \A S : NoneIn(<<>>, S)
  BY DEF NoneIn

LEMMA ConcatNone ==
    ASSUME NEW T, NEW s \in Seq(T), NEW t \in Seq(T), NEW S
    PROVE  NoneIn(s \o t, S) <=> NoneIn(s, S) /\ NoneIn(t, S)
<1>1. /\ Len(s) \in Nat /\ Len(t) \in Nat
      /\ DOMAIN s = 1 .. Len(s) /\ DOMAIN t = 1 .. Len(t)
      /\ DOMAIN (s \o t) = 1 .. Len(s) + Len(t)
      /\ \A i \in 1 .. Len(s) + Len(t) :
            (s \o t)[i] = IF i <= Len(s) THEN s[i] ELSE t[i - Len(s)]
  BY ConcatProperties, LenProperties
<1>2. \A i \in 1 .. Len(t) : i + Len(s) \in 1 .. Len(s) + Len(t) /\ (s \o t)[i + Len(s)] = t[i]
  BY <1>1
<1>3. NoneIn(s \o t, S) => NoneIn(s, S)
  BY <1>1 DEF NoneIn
<1>4. NoneIn(s \o t, S) => NoneIn(t, S)
  BY <1>1, <1>2 DEF NoneIn
<1>5. NoneIn(s, S) /\ NoneIn(t, S) => NoneIn(s \o t, S)
  BY <1>1 DEF NoneIn
<1> QED
  BY <1>3, <1>4, <1>5

LEMMA ConcatLast ==
    ASSUME NEW T, NEW s \in Seq(T), NEW t \in Seq(T), NEW S, NEW m
    PROVE  /\ LastIn(t, S, m) => LastIn(s \o t, S, m)
           /\ LastIn(s, S, m) /\ NoneIn(t, S) => LastIn(s \o t, S, m)
<1>1. /\ Len(s) \in Nat /\ Len(t) \in Nat
      /\ DOMAIN s = 1 .. Len(s) /\ DOMAIN t = 1 .. Len(t)
      /\ DOMAIN (s \o t) = 1 .. Len(s) + Len(t)
      /\ \A i \in 1 .. Len(s) + Len(t) :
            (s \o t)[i] = IF i <= Len(s) THEN s[i] ELSE t[i - Len(s)]
  BY ConcatProperties, LenProperties
<1>2. ASSUME LastIn(t, S, m)
      PROVE  LastIn(s \o t, S, m)
  <2>1. PICK i \in 1 .. Len(t) : t[i] = m /\ \A j \in 1 .. Len(t) : j > i => t[j] \notin S
    BY <1>1, <1>2 DEF LastIn
  <2>2. i + Len(s) \in 1 .. Len(s) + Len(t) /\ (s \o t)[i + Len(s)] = m
    BY <1>1, <2>1
  <2>3. ASSUME NEW j \in 1 .. Len(s) + Len(t), j > i + Len(s)
        PROVE  (s \o t)[j] \notin S
    BY <1>1, <2>1, <2>3
  <2> QED
    BY <1>1, <1>2, <2>2, <2>3 DEF LastIn
<1>3. ASSUME LastIn(s, S, m), NoneIn(t, S)
      PROVE  LastIn(s \o t, S, m)
  <2>1. PICK i \in 1 .. Len(s) : s[i] = m /\ \A j \in 1 .. Len(s) : j > i => s[j] \notin S
    BY <1>1, <1>3 DEF LastIn
  <2>2. i \in 1 .. Len(s) + Len(t) /\ (s \o t)[i] = m
    BY <1>1, <2>1
  <2>3. ASSUME NEW j \in 1 .. Len(s) + Len(t), j > i
        PROVE  (s \o t)[j] \notin S
    BY <1>1, <1>3, <2>1, <2>3 DEF NoneIn
  <2> QED
    BY <1>1, <1>3, <2>2, <2>3 DEF LastIn
<1> QED
  BY <1>2, <1>3

LEMMA ConcatSettles ==
    ASSUME NEW T, NEW s \in Seq(T), NEW t \in Seq(T), NEW S, NEW now, NEW m
    PROVE  /\ LastIn(t, S, m) => Settles(s \o t, S, now, m)
           /\ Settles(s, S, now, m) /\ NoneIn(t, S) => Settles(s \o t, S, now, m)
  BY ConcatNone, ConcatLast DEF Settles

(* The first message arrives.                                              *)
LEMMA TailLast ==
    ASSUME NEW T, NEW s \in Seq(T), s # <<>>, NEW S, NEW m
    PROVE  /\ NoneIn(s, S) <=> Head(s) \notin S /\ NoneIn(Tail(s), S)
           /\ LastIn(s, S, m) =>
                LastIn(Tail(s), S, m) \/ (Head(s) = m /\ NoneIn(Tail(s), S))
<1>1. /\ Len(s) \in Nat /\ Len(s) > 0 /\ DOMAIN s = 1 .. Len(s)
      /\ DOMAIN Tail(s) = 1 .. Len(s) - 1
      /\ Head(s) = s[1]
      /\ \A i \in 1 .. Len(s) - 1 : Tail(s)[i] = s[i + 1]
  BY HeadTailProperties, LenProperties, EmptySeq
<1>2. NoneIn(s, S) <=> Head(s) \notin S /\ NoneIn(Tail(s), S)
  <2>1. \A i \in 1 .. Len(s) : i = 1 \/ (i - 1 \in 1 .. Len(s) - 1 /\ Tail(s)[i - 1] = s[i])
    BY <1>1
  <2>2. NoneIn(s, S) => Head(s) \notin S /\ NoneIn(Tail(s), S)
    BY <1>1 DEF NoneIn
  <2>3. Head(s) \notin S /\ NoneIn(Tail(s), S) => NoneIn(s, S)
    BY <1>1, <2>1 DEF NoneIn
  <2> QED
    BY <2>2, <2>3
<1>3. ASSUME LastIn(s, S, m)
      PROVE  LastIn(Tail(s), S, m) \/ (Head(s) = m /\ NoneIn(Tail(s), S))
  <2>1. PICK i \in 1 .. Len(s) : s[i] = m /\ \A j \in 1 .. Len(s) : j > i => s[j] \notin S
    BY <1>1, <1>3 DEF LastIn
  <2>2. \A j \in 1 .. Len(s) - 1 : j + 1 > i => Tail(s)[j] \notin S
    BY <1>1, <2>1
  <2>3. CASE i = 1
    BY <1>1, <2>1, <2>2, <2>3 DEF NoneIn
  <2>4. CASE i > 1
    <3>1. i - 1 \in 1 .. Len(s) - 1 /\ Tail(s)[i - 1] = m
      BY <1>1, <2>1, <2>4
    <3>2. \A j \in 1 .. Len(s) - 1 : j > i - 1 => Tail(s)[j] \notin S
      BY <1>1, <2>1, <2>2
    <3> QED
      BY <1>1, <1>3, <3>1, <3>2 DEF LastIn
  <2> QED
    BY <2>1, <2>3, <2>4
<1> QED
  BY <1>2, <1>3

LEMMA TailSettles ==
    ASSUME NEW T, NEW s \in Seq(T), s # <<>>, NEW S, NEW now, NEW m, Settles(s, S, now, m)
    PROVE  /\ Head(s) \notin S => Settles(Tail(s), S, now, m)
           /\ Head(s) \in S => Settles(Tail(s), S, Head(s), m)
<1>1. Head(s) \notin S \/ Head(s) \in S
  OBVIOUS
<1>2. m \in S \/ ~LastIn(s, S, m)
  BY DEF LastIn
<1> QED
  BY <1>2, TailLast DEF Settles

-----------------------------------------------------------------------------
(* The inductive invariants *)

UpdatesOf(p) == {m \in FirmwareMessages : m.type = "update" /\ m.id = p}
Notices(id) == {m \in FirmwareMessages : m.type = "notify" /\ m.id = id}
Selections == {m \in FirmwareMessages : m.type = "selected"}

(* A message of c is on its way that makes the main task send the preset,  *)
(* change it, or note that it failed to.                                   *)
Asks(m, id) == m.type = "presets" \/ (m.type \in {"save", "remove"} /\ m.id = id)

Asking(id) == {m \in ClientMessages : Asks(m, id)}

PresetSettles(c, id) ==
    \/ ~NoneIn(up[c], Asking(id))
    \/ Settles(down[c], Notices(id), Notify(id, copies[c][id]), Notify(id, store[id]))

PresetsSettle ==
    \A c \in connected : \A id \in Ids \ unheard[c] :
        store[id] # NoPreset => PresetSettles(c, id)

Reading == {m \in ClientMessages : m.type = "read"}

SelectionSettles ==
    selected # NoId =>
        \A c \in connected :
            \/ NoId \in unheard[c]
            \/ ~NoneIn(up[c], Reading)
            \/ Settles(down[c], Selections, Selected(shown[c]), Selected(selected))

(* A client whose messages to and from the main task are u and d, whose    *)
(* throttle holds w and whose knob of p shows k: what it sends ends with k *)
(* and nothing of p comes back; or it sends nothing of p, and will show v. *)
Leads(u, d, w, k, p) ==
    /\ NoneIn(d, UpdatesOf(p))
    /\ \/ w = Update(p, k)
       \/ w \notin UpdatesOf(p) /\ LastIn(u, UpdatesOf(p), Update(p, k))

Follows(u, d, w, k, v, p) ==
    /\ w \notin UpdatesOf(p) /\ NoneIn(u, UpdatesOf(p))
    /\ Settles(d, UpdatesOf(p), Update(p, k), Update(p, v))

KnobSettles(u, d, w, k, v, p) == Leads(u, d, w, k, p) \/ Follows(u, d, w, k, v, p)

KnobsSettle ==
    \A c \in connected : \A p \in Params \ doubt[c] :
        KnobSettles(up[c], down[c], pending[c], knobs[c][p], live[p], p)

-----------------------------------------------------------------------------
(* What the main task's operations do *)

FirmwareOK ==
    /\ live \in Settings
    /\ store \in [Ids -> Presets \union {NoPreset}]
    /\ last \in 0 .. MaxId
    /\ selected \in Ids \union {NoId}
    /\ faults \in 0 .. MaxFaults
    /\ unheard \in [Clients -> SUBSET (Ids \union {NoId})]

LEMMA MessageKinds ==
    /\ \A p \in Params, v \in Values : Update(p, v) \in UpdatesOf(p) /\ Update(p, v) \in ClientMessages
    /\ \A id \in Ids, preset \in Presets : Notify(id, preset) \in Notices(id)
    /\ \A id \in Ids : Selected(id) \in Selections
  BY DEF UpdatesOf, Notices, Selections, FirmwareMessages, ClientMessages, Update, Notify, Selected

LEMMA BroadcastFacts ==
    ASSUME TypeOK, NEW messages \in Seq(FirmwareMessages), NEW source, Broadcast(messages, source)
    PROVE  /\ down' \in [Clients -> Seq(FirmwareMessages)]
           /\ doubt' \in [Clients -> SUBSET Params]
           /\ \A c \in connected \ source : down'[c] = down[c] \o messages
           /\ \A c \in Clients \ (connected \ source) :
                down'[c] = down[c] /\ doubt'[c] = doubt[c]
           /\ \A c \in connected \ source, p \in Params :
                p \notin doubt'[c] =>
                    IF NoneIn(messages, UpdatesOf(p)) THEN p \notin doubt[c] ELSE ~OnItsWay(c, p)
<1> DEFINE told == {m.id : m \in {messages[i] : i \in
                        {j \in DOMAIN messages : messages[j].type = "update"}}}
<1>1. /\ down' = [c \in Clients |->
                    IF c \in connected \ source THEN down[c] \o messages ELSE down[c]]
      /\ doubt' = [c \in Clients |->
                    IF c \in connected \ source
                    THEN (doubt[c] \ told) \union {p \in told : OnItsWay(c, p)}
                    ELSE doubt[c]]
  BY DEF Broadcast
<1>2. /\ connected \subseteq Clients
      /\ down \in [Clients -> Seq(FirmwareMessages)] /\ doubt \in [Clients -> SUBSET Params]
  BY DEF TypeOK
<1>3. \A i \in DOMAIN messages : messages[i] \in FirmwareMessages
  BY LenProperties, ElementOfSeq
<1>4. \A i \in DOMAIN messages : messages[i].type = "update" => messages[i].id \in Params
  BY <1>3 DEF FirmwareMessages
<1>5. told \subseteq Params
  BY <1>4
<1>6. \A p \in Params : p \in told <=> ~NoneIn(messages, UpdatesOf(p))
  BY <1>3 DEF NoneIn, UpdatesOf
<1>7. \A c \in Clients : down[c] \o messages \in Seq(FirmwareMessages)
  BY <1>2, ConcatProperties
<1> HIDE DEF told
<1> QED
  BY <1>1, <1>2, <1>5, <1>6, <1>7

LEMMA QuietlyBroadcasts == TypeOK /\ Quietly => Broadcast(<<>>, {})
<1> SUFFICES ASSUME TypeOK, Quietly
             PROVE  Broadcast(<<>>, {})
  OBVIOUS
<1>1. /\ connected \subseteq Clients
      /\ down \in [Clients -> Seq(FirmwareMessages)] /\ doubt \in [Clients -> SUBSET Params]
      /\ down' = down /\ doubt' = doubt
  BY DEF TypeOK, Quietly
<1>2. \A c \in Clients : down[c] \o <<>> = down[c]
  BY <1>1, ConcatEmptySeq
<1>3. DOMAIN <<>> = {}
  OBVIOUS
<1> QED
  BY <1>1, <1>2, <1>3 DEF Broadcast

(* An injection from as many numbers as a finite set has elements is a     *)
(* sequence that has each element once.                                    *)
LEMMA Enumeration ==
    ASSUME NEW S, IsFiniteSet(S), NEW f \in [1 .. Cardinality(S) -> S],
           \A i, j \in 1 .. Cardinality(S) : f[i] = f[j] => i = j
    PROVE  /\ Cardinality(S) \in Nat
           /\ DOMAIN f = 1 .. Cardinality(S)
           /\ \A x \in S : \E i \in 1 .. Cardinality(S) : f[i] = x
<1>1. Cardinality(S) \in Nat
  BY FS_CardinalityType
<1>2. Cardinality(1 .. Cardinality(S)) = Cardinality(S)
  BY <1>1, FS_Interval
<1>3. f \in Injection(1 .. Cardinality(S), S)
  BY DEF Injection, IsInjective
<1>4. f \in Surjection(1 .. Cardinality(S), S)
  BY <1>2, <1>3, FS_Injection
<1> QED
  BY <1>1, <1>4, Fun_SurjectionProperties

LEMMA ParamsInOrder ==
    LET order == SetToSeq(Params)
    IN /\ Cardinality(Params) \in Nat
       /\ order \in [1 .. Cardinality(Params) -> Params]
       /\ \A i, j \in 1 .. Cardinality(Params) : order[i] = order[j] => i = j
       /\ \A p \in Params : \E i \in 1 .. Cardinality(Params) : order[i] = p
<1> DEFINE order == SetToSeq(Params)
           n == Cardinality(Params)
<1>1. n \in Nat /\ ExistsBijection(1 .. n, Params)
  BY FS_CardinalityType
<1>2. PICK f \in Bijection(1 .. n, Params) : TRUE
  BY <1>1 DEF ExistsBijection
<1>3. f \in [1 .. n -> Params] /\ IsInjective(f)
  BY <1>2 DEF Bijection, Injection, IsInjective
<1>4. order \in [1 .. n -> Params] /\ IsInjective(order)
  BY <1>3 DEF SetToSeq
<1>5. \A i, j \in 1 .. n : order[i] = order[j] => i = j
  BY <1>4 DEF IsInjective
<1> QED
  BY <1>1, <1>4, <1>5, Enumeration

LEMMA UpdatesFacts ==
    ASSUME NEW settings \in Settings
    PROVE  /\ Updates(settings) \in Seq(FirmwareMessages)
           /\ \A p \in Params : LastIn(Updates(settings), UpdatesOf(p), Update(p, settings[p]))
           /\ NoneIn(Updates(settings), Selections)
           /\ \A id \in Ids : NoneIn(Updates(settings), Notices(id))
<1> DEFINE order == SetToSeq(Params)
           n == Cardinality(Params)
           s == Updates(settings)
<1>1. /\ n \in Nat /\ order \in [1 .. n -> Params]
      /\ \A i, j \in 1 .. n : order[i] = order[j] => i = j
      /\ \A p \in Params : \E i \in 1 .. n : order[i] = p
  BY ParamsInOrder
<1>2. \A p \in Params : settings[p] \in Values
  BY DEF Settings
<1>3. s = [i \in 1 .. n |-> Update(order[i], settings[order[i]])]
  BY <1>1 DEF Updates
<1>4. \A i \in 1 .. n : s[i] \in UpdatesOf(order[i]) /\ s[i] = Update(order[i], settings[order[i]])
  BY <1>1, <1>2, <1>3, MessageKinds
<1>5. s \in Seq(FirmwareMessages) /\ DOMAIN s = 1 .. n
  BY <1>1, <1>3, <1>4, SeqDef DEF UpdatesOf
<1>6. \A i \in 1 .. n : s[i].type = "update" /\ s[i].id = order[i]
  BY <1>4 DEF UpdatesOf
<1> HIDE DEF s, order
<1>7. ASSUME NEW p \in Params
      PROVE  LastIn(s, UpdatesOf(p), Update(p, settings[p]))
  <2>1. PICK i \in 1 .. n : order[i] = p
    BY <1>1
  <2>2. s[i] = Update(p, settings[p]) /\ s[i] \in UpdatesOf(p)
    BY <1>4, <2>1
  <2>3. \A j \in 1 .. n : j > i => s[j] \notin UpdatesOf(p)
    BY <1>1, <1>6, <2>1 DEF UpdatesOf
  <2> QED
    BY <1>5, <2>2, <2>3 DEF LastIn
<1> QED
  BY <1>5, <1>6, <1>7 DEF NoneIn, Selections, Notices, s

LEMMA PresetsInOrder ==
    ASSUME NEW stored \in SUBSET Ids, NEW order \in SetToSeqs(stored),
           NEW records \in [Ids -> Presets \union {NoPreset}],
           \A id \in stored : records[id] \in Presets
    PROVE  LET s == [i \in DOMAIN order |-> Notify(order[i], records[order[i]])]
           IN /\ s \in Seq(FirmwareMessages)
              /\ \A id \in stored : LastIn(s, Notices(id), Notify(id, records[id]))
              /\ NoneIn(s, Selections)
              /\ \A p \in Params : NoneIn(s, UpdatesOf(p))
              /\ \A id \in Ids \ stored : NoneIn(s, Notices(id))
<1> DEFINE s == [i \in DOMAIN order |-> Notify(order[i], records[order[i]])]
           n == Cardinality(stored)
<1>1. IsFiniteSet(stored)
  <2>1. IsFiniteSet(Ids)
    BY FS_Interval DEF Ids
  <2> QED
    BY <2>1, FS_Subset
<1>2. order \in [1 .. n -> stored] /\ \A i, j \in 1 .. n : order[i] = order[j] => i = j
  BY DEF SetToSeqs
<1>3. /\ n \in Nat /\ DOMAIN order = 1 .. n
      /\ \A id \in stored : \E i \in 1 .. n : order[i] = id
  BY <1>1, <1>2, Enumeration
<1>4. DOMAIN s = 1 .. n /\ \A i \in 1 .. n : s[i] = Notify(order[i], records[order[i]])
  BY <1>3
<1>5. \A i \in 1 .. n : s[i] \in Notices(order[i])
  BY <1>2, <1>4, MessageKinds
<1>6. s \in Seq(FirmwareMessages)
  BY <1>3, <1>4, <1>5, SeqDef DEF Notices
<1>7. \A i \in 1 .. n : s[i].type = "notify" /\ s[i].id = order[i]
  BY <1>5 DEF Notices
<1> HIDE DEF s
<1>8. ASSUME NEW id \in stored
      PROVE  LastIn(s, Notices(id), Notify(id, records[id]))
  <2>1. PICK i \in 1 .. n : order[i] = id
    BY <1>3
  <2>2. s[i] = Notify(id, records[id]) /\ s[i] \in Notices(id)
    BY <1>4, <1>5, <2>1
  <2>3. \A j \in 1 .. n : j > i => s[j] \notin Notices(id)
    BY <1>2, <1>7, <2>1 DEF Notices
  <2> QED
    BY <1>4, <2>2, <2>3 DEF LastIn
<1>9. NoneIn(s, Selections) /\ \A p \in Params : NoneIn(s, UpdatesOf(p))
  BY <1>4, <1>7 DEF NoneIn, Selections, UpdatesOf
<1>10. \A id \in Ids \ stored : NoneIn(s, Notices(id))
  BY <1>2, <1>4, <1>7 DEF NoneIn, Notices
<1> QED
  BY <1>6, <1>8, <1>9, <1>10 DEF s

(* What an operation does to the main task's state, and what it tells the  *)
(* clients: of whatever it changes, the last message has the new value,    *)
(* unless client c is to miss it.                                          *)
PresetNews(c, messages, source) ==
    \A id \in Ids \ unheard'[c] :
        \/ store'[id] = NoPreset
        \/ store'[id] = store[id] /\ id \notin unheard[c] /\ NoneIn(messages, Notices(id))
        \/ source = {} /\ LastIn(messages, Notices(id), Notify(id, store'[id]))

SelectionNews(c, messages, source) ==
    NoId \notin unheard'[c] /\ selected' # NoId =>
        \/ selected' = selected /\ NoId \notin unheard[c] /\ NoneIn(messages, Selections)
        \/ source = {} /\ LastIn(messages, Selections, Selected(selected'))

KnobNews(messages) ==
    \A p \in Params :
        \/ live'[p] = live[p] /\ NoneIn(messages, UpdatesOf(p))
        \/ LastIn(messages, UpdatesOf(p), Update(p, live'[p]))

News(messages, source) ==
    /\ messages \in Seq(FirmwareMessages)
    /\ Broadcast(messages, source)
    /\ FirmwareOK'
    /\ \A c \in connected : PresetNews(c, messages, source) /\ SelectionNews(c, messages, source)
    /\ KnobNews(messages)

(* What client c, who sent m, may rely on.                                 *)
Answers(c, m, messages) ==
    /\ \A id \in Ids \ unheard'[c] :
          Asks(m, id) /\ store'[id] # NoPreset =>
              LastIn(messages, Notices(id), Notify(id, store'[id]))
    /\ m.type = "read" /\ NoId \notin unheard'[c] /\ selected' # NoId =>
          LastIn(messages, Selections, Selected(selected'))

LEMMA SilentNews ==
    ASSUME TypeOK, Quietly, FirmwareOK', live' = live,
           \A c \in connected : \A id \in Ids \ unheard'[c] :
              store'[id] = NoPreset \/ (store'[id] = store[id] /\ id \notin unheard[c]),
           \A c \in connected :
              NoId \notin unheard'[c] => selected' = selected /\ NoId \notin unheard[c]
    PROVE  News(<<>>, {})
  BY QuietlyBroadcasts, EmptyNone, EmptySeq DEF News, PresetNews, SelectionNews, KnobNews

LEMMA HeardFacts ==
    ASSUME TypeOK, NEW what \in SUBSET (Ids \union {NoId}), Heard(what)
    PROVE  /\ unheard' \in [Clients -> SUBSET (Ids \union {NoId})]
           /\ \A c \in connected : unheard'[c] = unheard[c] \ what
  BY DEF TypeOK, Heard

LEMMA MissedFacts ==
    ASSUME TypeOK, NEW what \in SUBSET (Ids \union {NoId}), Missed(what)
    PROVE  /\ unheard' \in [Clients -> SUBSET (Ids \union {NoId})]
           /\ \A c \in connected : unheard'[c] = unheard[c] \union what
  BY DEF TypeOK, Missed

LEMMA OneMessage ==
    ASSUME NEW m \in FirmwareMessages
    PROVE  /\ <<m>> \in Seq(FirmwareMessages)
           /\ \A S : IF m \in S THEN LastIn(<<m>>, S, m) ELSE NoneIn(<<m>>, S)
<1>1. <<m>> \in Seq(FirmwareMessages) /\ DOMAIN <<m>> = {1} /\ <<m>>[1] = m
  OBVIOUS
<1> QED
  BY <1>1 DEF LastIn, NoneIn

LEMMA UpdateNews ==
    ASSUME NEW p \in Params, NEW v \in Values
    PROVE  LET s == <<Update(p, v)>>
           IN /\ s \in Seq(FirmwareMessages)
              /\ LastIn(s, UpdatesOf(p), Update(p, v))
              /\ \A q \in Params \ {p} : NoneIn(s, UpdatesOf(q))
              /\ NoneIn(s, Selections) /\ \A id \in Ids : NoneIn(s, Notices(id))
<1>1. /\ Update(p, v) \in FirmwareMessages /\ Update(p, v).type = "update"
      /\ Update(p, v).id = p /\ Update(p, v) \in UpdatesOf(p)
  BY MessageKinds DEF Update, UpdatesOf
<1> QED
  BY <1>1, OneMessage DEF UpdatesOf, Notices, Selections

LEMMA NotifyNews ==
    ASSUME NEW id \in Ids, NEW preset \in Presets
    PROVE  LET s == <<Notify(id, preset)>>
           IN /\ s \in Seq(FirmwareMessages)
              /\ LastIn(s, Notices(id), Notify(id, preset))
              /\ \A i \in Ids \ {id} : NoneIn(s, Notices(i))
              /\ NoneIn(s, Selections) /\ \A p \in Params : NoneIn(s, UpdatesOf(p))
<1>1. /\ Notify(id, preset) \in FirmwareMessages /\ Notify(id, preset).type = "notify"
      /\ Notify(id, preset).id = id /\ Notify(id, preset) \in Notices(id)
  BY MessageKinds DEF Notify, Notices
<1> QED
  BY <1>1, OneMessage DEF UpdatesOf, Notices, Selections

LEMMA SelectedNews ==
    ASSUME NEW id \in Ids
    PROVE  LET s == <<Selected(id)>>
           IN /\ s \in Seq(FirmwareMessages)
              /\ LastIn(s, Selections, Selected(id))
              /\ \A i \in Ids : NoneIn(s, Notices(i))
              /\ \A p \in Params : NoneIn(s, UpdatesOf(p))
<1>1. /\ Selected(id) \in FirmwareMessages /\ Selected(id).type = "selected"
      /\ Selected(id) \in Selections
  BY MessageKinds DEF Selected, Selections
<1> QED
  BY <1>1, OneMessage DEF UpdatesOf, Notices, Selections

LEMMA TypeFirmware == TypeOK => FirmwareOK
  BY DEF TypeOK, FirmwareOK

LEMMA TellParametersNews ==
    TypeOK /\ TellParameters => News(Updates(live), {})
<1> SUFFICES ASSUME TypeOK, TellParameters
             PROVE  News(Updates(live), {})
  OBVIOUS
<1>1. Broadcast(Updates(live), {}) /\ UNCHANGED <<live, store, last, selected, faults, unheard>>
  BY DEF TellParameters, Works, Everyone, firmware
<1>2. live \in Settings
  BY DEF TypeOK
<1>3. FirmwareOK'
  BY <1>1, TypeFirmware DEF FirmwareOK
<1> QED
  BY <1>1, <1>2, <1>3, UpdatesFacts DEF News, PresetNews, SelectionNews, KnobNews

LEMMA TellPresetsNews ==
    ASSUME TypeOK, NEW c \in Clients, TellPresets(c)
    PROVE  \E messages : News(messages, {}) /\ Answers(c, [type |-> "presets"], messages)
<1> DEFINE stored == {id \in Ids : store[id] # NoPreset}
           Told(order) == [i \in DOMAIN order |-> Notify(order[i], store[order[i]])]
<1>1. PICK unread \in SUBSET stored :
        /\ IF unread = {} THEN Works ELSE Fails
        /\ \E order \in SetToSeqs(stored \ unread) : Broadcast(Told(order), {})
        /\ unheard' = [d \in Clients |->
              (unheard[d] \ (stored \ unread)) \union (IF d = c THEN unread ELSE {})]
  BY DEF TellPresets, Everyone
<1>2. PICK order \in SetToSeqs(stored \ unread) : Broadcast(Told(order), {})
  BY <1>1
<1>3. UNCHANGED <<live, store, last, selected>>
  BY DEF TellPresets, firmware
<1>4. FirmwareOK /\ unread \subseteq Ids /\ stored \subseteq Ids /\ connected \subseteq Clients
  BY TypeFirmware DEF TypeOK
<1>5. /\ unheard' \in [Clients -> SUBSET (Ids \union {NoId})]
      /\ \A d \in Clients : unheard[d] \subseteq Ids \union {NoId}
  BY <1>1, <1>4 DEF FirmwareOK
<1>6. FirmwareOK'
  <2>1. faults' \in 0 .. MaxFaults
    BY <1>1 DEF Works, Fails, TypeOK
  <2> QED
    BY <1>3, <1>4, <1>5, <2>1 DEF FirmwareOK
<1>7. /\ Told(order) \in Seq(FirmwareMessages)
      /\ \A id \in stored \ unread : LastIn(Told(order), Notices(id), Notify(id, store[id]))
      /\ NoneIn(Told(order), Selections)
      /\ \A p \in Params : NoneIn(Told(order), UpdatesOf(p))
      /\ \A id \in Ids \ (stored \ unread) : NoneIn(Told(order), Notices(id))
  BY <1>4, PresetsInOrder DEF FirmwareOK
<1> HIDE DEF Told
<1>8. ASSUME NEW d \in connected, NEW id \in Ids \ unheard'[d], store[id] # NoPreset
      PROVE  /\ id \in stored
             /\ id \in unread => d # c /\ id \notin unheard[d]
  BY <1>1, <1>4, <1>8
<1>9. ASSUME NEW d \in connected
      PROVE  PresetNews(d, Told(order), {})
  BY <1>3, <1>7, <1>8 DEF PresetNews
<1>10. ASSUME NEW d \in connected
       PROVE  SelectionNews(d, Told(order), {})
  <2>1. NoId \notin Ids
    BY DEF NoId, Ids
  <2>2. NoId \notin unheard'[d] => NoId \notin unheard[d]
    BY <1>1, <1>4, <2>1
  <2> QED
    BY <1>3, <1>7, <2>2 DEF SelectionNews
<1>11. News(Told(order), {})
  BY <1>2, <1>3, <1>6, <1>7, <1>9, <1>10 DEF News, KnobNews
<1>12. Answers(c, [type |-> "presets"], Told(order))
  <2>1. ASSUME NEW id \in Ids \ unheard'[c], store[id] # NoPreset
        PROVE  id \in stored \ unread
    BY <1>1, <2>1
  <2> QED
    BY <1>3, <1>7, <2>1 DEF Answers
<1> QED
  BY <1>11, <1>12

LEMMA TellSelectedNews ==
    ASSUME TypeOK, NEW c \in Clients, TellSelected(c)
    PROVE  \E messages : News(messages, {}) /\ Answers(c, [type |-> "read"], messages)
<1>1. UNCHANGED <<live, store, last, selected>> /\ connected \subseteq Clients
  BY DEF TellSelected, firmware, TypeOK
<1>2. unheard' \in [Clients -> SUBSET (Ids \union {NoId})] => FirmwareOK'
  <2>1. faults' \in 0 .. MaxFaults
    BY DEF TellSelected, Works, Fails, TypeOK
  <2> QED
    BY <1>1, <2>1, TypeFirmware DEF FirmwareOK
<1>3. \A id : ~Asks([type |-> "read"], id)
  BY DEF Asks
<1>4. NoId \notin Ids
  BY DEF NoId, Ids
<1>5. CASE Works /\ selected = NoId /\ Quietly /\ UNCHANGED unheard
  <2>1. FirmwareOK'
    BY <1>2, <1>5 DEF TypeOK
  <2>2. News(<<>>, {})
    BY <1>1, <1>5, <2>1, SilentNews
  <2> QED
    BY <1>1, <1>3, <1>5, <2>2 DEF Answers
<1>6. CASE /\ Works
           /\ selected # NoId
           /\ Heard({NoId})
           /\ Broadcast(<<Selected(selected)>>, Everyone)
  <2>1. Broadcast(<<Selected(selected)>>, {}) /\ selected \in Ids
    BY <1>6 DEF Everyone, TypeOK
  <2>2. FirmwareOK' /\ \A d \in connected : unheard'[d] = unheard[d] \ {NoId}
    BY <1>2, <1>6, HeardFacts
  <2>3. \A d \in connected :
          /\ PresetNews(d, <<Selected(selected)>>, {})
          /\ SelectionNews(d, <<Selected(selected)>>, {})
    BY <1>1, <1>4, <2>1, <2>2, SelectedNews DEF PresetNews, SelectionNews
  <2>4. News(<<Selected(selected)>>, {})
    BY <1>1, <2>1, <2>2, <2>3, SelectedNews DEF News, KnobNews
  <2> QED
    BY <1>1, <1>3, <2>1, <2>4, SelectedNews DEF Answers
<1>7. CASE /\ Fails
           /\ selected # NoId
           /\ Quietly
           /\ unheard' = [unheard EXCEPT ![c] = @ \union {NoId}]
  <2>1. FirmwareOK' /\ \A d \in Clients : d # c => unheard'[d] = unheard[d]
    BY <1>2, <1>7 DEF TypeOK
  <2>2. unheard'[c] = unheard[c] \union {NoId}
    BY <1>7 DEF TypeOK
  <2>3. News(<<>>, {})
    BY <1>1, <1>4, <1>7, <2>1, <2>2, SilentNews
  <2> QED
    BY <1>3, <2>2, <2>3 DEF Answers
<1> QED
  BY <1>5, <1>6, <1>7 DEF TellSelected

LEMMA SetParameterNews ==
    ASSUME TypeOK, NEW p \in Params, NEW v \in Values, NEW source, SetParameter(p, v, source)
    PROVE  News(<<Update(p, v)>>, source)
<1>1. /\ live' = [live EXCEPT ![p] = v]
      /\ Broadcast(<<Update(p, v)>>, source)
      /\ UNCHANGED <<store, last, selected, faults, unheard>>
  BY DEF SetParameter, Works
<1>2. live \in Settings /\ FirmwareOK'
  BY <1>1, TypeFirmware DEF FirmwareOK, Settings
<1>3. live'[p] = v /\ \A q \in Params \ {p} : live'[q] = live[q]
  BY <1>1, <1>2 DEF Settings
<1> QED
  BY <1>1, <1>2, <1>3, UpdateNews DEF News, PresetNews, SelectionNews, KnobNews

(* An operation that stores one preset and tells everyone of it            *)
LEMMA StoreNews ==
    ASSUME TypeOK, NEW id \in Ids, NEW preset \in Presets,
           store' = [store EXCEPT ![id] = preset], Heard({id}),
           last' \in 0 .. MaxId, UNCHANGED <<live, selected, faults>>,
           Broadcast(<<Notify(id, preset)>>, {})
    PROVE  /\ News(<<Notify(id, preset)>>, {})
           /\ LastIn(<<Notify(id, preset)>>, Notices(id), Notify(id, store'[id]))
<1>0. /\ unheard' \in [Clients -> SUBSET (Ids \union {NoId})]
      /\ \A c \in connected : unheard'[c] = unheard[c] \ {id}
  BY HeardFacts
<1>1. FirmwareOK /\ FirmwareOK'
  BY <1>0, TypeFirmware DEF FirmwareOK
<1>2. store'[id] = preset /\ \A i \in Ids \ {id} : store'[i] = store[i]
  BY <1>1 DEF FirmwareOK
<1>3. NoId \notin Ids
  BY DEF NoId, Ids
<1> QED
  BY <1>0, <1>1, <1>2, <1>3, NotifyNews DEF News, PresetNews, SelectionNews, KnobNews

(* An operation that fails, or removes a preset, without a word            *)
LEMMA ChangeNews ==
    ASSUME TypeOK, NEW id \in Ids, NEW record \in Presets \union {NoPreset},
           store' \in {store, [store EXCEPT ![id] = record]},
           UNCHANGED <<live, selected>>, last' \in 0 .. MaxId, faults' \in 0 .. MaxFaults,
           \/ Missed({id})
           \/ unheard' = unheard /\ (store' = store \/ record = NoPreset),
           Quietly
    PROVE  News(<<>>, {})
<1>0. /\ unheard' \in [Clients -> SUBSET (Ids \union {NoId})]
      /\ \/ \A c \in connected : unheard'[c] = unheard[c] \union {id}
         \/ unheard' = unheard /\ (store' = store \/ record = NoPreset)
  BY MissedFacts DEF TypeOK
<1>1. FirmwareOK /\ FirmwareOK'
  BY <1>0, TypeFirmware DEF FirmwareOK
<1>2. \A i \in Ids \ {id} : store'[i] = store[i]
  BY <1>1 DEF FirmwareOK
<1>3. store'[id] = store[id] \/ store'[id] = record
  BY <1>1 DEF FirmwareOK
<1>4. \A c \in connected : \A i \in Ids \ unheard'[c] :
        store'[i] = NoPreset \/ (store'[i] = store[i] /\ i \notin unheard[c])
  BY <1>0, <1>2, <1>3
<1>5. \A c \in connected :
        NoId \notin unheard'[c] => selected' = selected /\ NoId \notin unheard[c]
  BY <1>0
<1> QED
  BY <1>1, <1>4, <1>5, SilentNews

LEMMA FaultTypes == TypeOK /\ (Fails \/ Works) => faults' \in 0 .. MaxFaults
  BY DEF TypeOK, Fails, Works

LEMMA CreatePresetNews ==
    ASSUME TypeOK, NEW preset \in Presets, CreatePreset(preset)
    PROVE  \E messages : News(messages, {})
<1> DEFINE id == last + 1
<1>1. id \in Ids /\ last \in 0 .. MaxId /\ id \in 0 .. MaxId /\ UNCHANGED <<live, selected>>
  BY DEF CreatePreset, TypeOK, Ids
<1> HIDE DEF id
<1>2. CASE /\ Works
           /\ store' = [store EXCEPT ![id] = preset]
           /\ last' = id
           /\ Heard({id})
           /\ Broadcast(<<Notify(id, preset)>>, Everyone)
  BY <1>1, <1>2, StoreNews DEF Works, Everyone
<1>3. CASE Fails /\ Quietly /\ UNCHANGED <<store, last, unheard>>
  BY <1>1, <1>3, FaultTypes, ChangeNews
<1>4. CASE /\ Fails /\ Quietly
           /\ store' = [store EXCEPT ![id] = preset]
           /\ Missed({id})
           /\ last' \in {last, id}
  BY <1>1, <1>4, FaultTypes, ChangeNews
<1> QED
  BY <1>2, <1>3, <1>4 DEF CreatePreset, id

LEMMA UpdatePresetNews ==
    ASSUME TypeOK, NEW id \in Ids, NEW preset \in Presets, UpdatePreset(id, preset)
    PROVE  \E messages :
              /\ News(messages, {})
              /\ \A c \in connected :
                    id \notin unheard'[c] => LastIn(messages, Notices(id), Notify(id, store'[id]))
<1>1. UNCHANGED <<live, selected, last>> /\ last \in 0 .. MaxId
  BY DEF UpdatePreset, TypeOK
<1>2. CASE /\ Works
           /\ store' = [store EXCEPT ![id] = preset]
           /\ Heard({id})
           /\ Broadcast(<<Notify(id, preset)>>, Everyone)
  BY <1>1, <1>2, StoreNews DEF Works, Everyone
<1>3. CASE /\ Fails /\ Quietly
           /\ store' \in {store, [store EXCEPT ![id] = preset]}
           /\ Missed({id})
  BY <1>1, <1>3, FaultTypes, ChangeNews, MissedFacts
<1> QED
  BY <1>2, <1>3 DEF UpdatePreset

LEMMA RemovePresetNews ==
    ASSUME TypeOK, NEW id \in Ids, RemovePreset(id)
    PROVE  /\ News(<<>>, {})
           /\ \A c \in connected : id \in unheard'[c] \/ store'[id] = NoPreset
<1>1. UNCHANGED <<live, selected, last>> /\ last \in 0 .. MaxId /\ Quietly
  BY DEF RemovePreset, TypeOK
<1>2. CASE Works /\ store' = [store EXCEPT ![id] = NoPreset] /\ UNCHANGED unheard
  BY <1>1, <1>2, FaultTypes, ChangeNews DEF TypeOK
<1>3. CASE /\ Fails
           /\ store' \in {store, [store EXCEPT ![id] = NoPreset]}
           /\ Missed({id})
  BY <1>1, <1>3, FaultTypes, ChangeNews, MissedFacts
<1> QED
  BY <1>2, <1>3 DEF RemovePreset

LEMMA LoadNews ==
    ASSUME TypeOK, NEW id \in Ids, Load(id), Records
    PROVE  \E messages : News(messages, {})
<1>1. FirmwareOK /\ UNCHANGED <<store, last>>
  BY TypeFirmware DEF Records
<1>2. ASSUME Fails \/ Works, Quietly, UNCHANGED live,
             \/ UNCHANGED <<selected, unheard>>
             \/ selected' = id /\ Missed({NoId})
      PROVE  News(<<>>, {})
  <2>1. /\ unheard' \in [Clients -> SUBSET (Ids \union {NoId})]
        /\ \A c \in connected :
              \/ unheard'[c] = unheard[c] /\ selected' = selected
              \/ unheard'[c] = unheard[c] \union {NoId}
    BY <1>2, MissedFacts DEF TypeOK
  <2>2. FirmwareOK'
    BY <1>1, <1>2, <2>1, FaultTypes DEF FirmwareOK
  <2> QED
    BY <1>1, <1>2, <2>1, <2>2, SilentNews
<1>3. CASE /\ Works
           /\ store[id] # NoPreset
           /\ selected' = id
           /\ Heard({NoId})
           /\ live' = store[id].parameters
           /\ Broadcast(Updates(store[id].parameters) \o <<Selected(id)>>, Everyone)
  <2> DEFINE settings == store[id].parameters
             messages == Updates(settings) \o <<Selected(id)>>
  <2>1. settings \in Settings
    BY <1>1, <1>3 DEF FirmwareOK, Presets
  <2>0. /\ unheard' \in [Clients -> SUBSET (Ids \union {NoId})]
        /\ \A c \in connected : unheard'[c] = unheard[c] \ {NoId}
    BY <1>3, HeardFacts
  <2>2. FirmwareOK'
    BY <1>1, <1>3, <2>0, <2>1 DEF FirmwareOK, Works
  <2> HIDE DEF settings
  <2>3. /\ messages \in Seq(FirmwareMessages)
        /\ \A p \in Params : LastIn(messages, UpdatesOf(p), Update(p, settings[p]))
        /\ LastIn(messages, Selections, Selected(id))
        /\ \A i \in Ids : NoneIn(messages, Notices(i))
    BY <2>1, UpdatesFacts, SelectedNews, ConcatProperties, ConcatLast, ConcatNone
  <2>4. NoId \notin Ids
    BY DEF NoId, Ids
  <2>5. live' = settings /\ Broadcast(messages, {})
    BY <1>3 DEF settings, Everyone
  <2> HIDE DEF messages
  <2>6. News(messages, {})
    BY <1>1, <1>3, <2>0, <2>2, <2>3, <2>4, <2>5 DEF News, PresetNews, SelectionNews, KnobNews
  <2> QED
    BY <2>6
<1> QED
  BY <1>2, <1>3 DEF Load

(* A client's message is handled.                                          *)
LEMMA HandleNews ==
    ASSUME TypeOK, NEW c \in Clients, Handle(c)
    PROVE  LET m == Head(up[c])
           IN \E messages, source :
                 /\ News(messages, source)
                 /\ c \in connected => Answers(c, m, messages)
                 /\ m.type # "update" => source = {}
                 /\ m.type = "update" =>
                       /\ m \in UpdatesOf(m.id) /\ m.id \in Params
                       /\ source = {c}
                       /\ m = Update(m.id, live'[m.id])
                       /\ \A p \in Params \ {m.id} : live'[p] = live[p]
<1> DEFINE m == Head(up[c])
<1>1. m \in ClientMessages
  BY HeadTailProperties DEF TypeOK, Handle
<1>2. live \in Settings
  BY DEF TypeOK
<1> SUFFICES \E messages, source :
                 /\ News(messages, source)
                 /\ c \in connected => Answers(c, m, messages)
                 /\ m.type # "update" => source = {}
                 /\ m.type = "update" =>
                       /\ m \in UpdatesOf(m.id) /\ m.id \in Params
                       /\ source = {c}
                       /\ m = Update(m.id, live'[m.id])
                       /\ \A p \in Params \ {m.id} : live'[p] = live[p]
  OBVIOUS
<1>3. \/ m.type = "parameters" /\ TellParameters
      \/ m.type = "update" /\ SetParameter(m.id, m.value, {c})
      \/ m.type = "presets" /\ TellPresets(c)
      \/ m.type = "create" /\ CreatePreset(m.preset)
      \/ m.type = "save" /\ UpdatePreset(m.id, m.preset)
      \/ m.type = "remove" /\ RemovePreset(m.id)
      \/ m.type = "read" /\ TellSelected(c)
      \/ m.type = "write" /\ Load(m.id) /\ Records
  BY DEF Handle
<1> HIDE DEF m
<1>4. m.type \notin {"presets", "save", "remove", "read"} => \A messages : Answers(c, m, messages)
  BY DEF Answers, Asks
<1>5. CASE m.type = "parameters" /\ TellParameters
  BY <1>4, <1>5, TellParametersNews
<1>6. CASE m.type = "update" /\ SetParameter(m.id, m.value, {c})
  <2>1. m \in [type : {"update"}, id : Params, value : Values]
    BY <1>1, <1>6 DEF ClientMessages
  <2>2. m = Update(m.id, m.value) /\ m.id \in Params /\ m.value \in Values
    BY <2>1 DEF Update
  <2>3. m \in UpdatesOf(m.id)
    BY <2>2, MessageKinds
  <2>4. live'[m.id] = m.value /\ \A p \in Params \ {m.id} : live'[p] = live[p]
    BY <1>2, <1>6, <2>2 DEF SetParameter, Settings
  <2>5. News(<<Update(m.id, m.value)>>, {c})
    BY <1>6, <2>2, SetParameterNews
  <2> QED
    BY <1>4, <1>6, <2>2, <2>3, <2>4, <2>5
<1>7. CASE m.type = "presets" /\ TellPresets(c)
  BY <1>7, TellPresetsNews DEF Answers, Asks
<1>8. CASE m.type = "create" /\ CreatePreset(m.preset)
  <2>1. m.preset \in Presets
    BY <1>1, <1>8 DEF ClientMessages
  <2> QED
    BY <1>4, <1>8, <2>1, CreatePresetNews
<1>9. CASE m.type = "save" /\ UpdatePreset(m.id, m.preset)
  <2>1. m.id \in Ids /\ m.preset \in Presets
    BY <1>1, <1>9 DEF ClientMessages
  <2>2. PICK messages :
              /\ News(messages, {})
              /\ \A d \in connected : m.id \notin unheard'[d] =>
                    LastIn(messages, Notices(m.id), Notify(m.id, store'[m.id]))
    BY <1>9, <2>1, UpdatePresetNews
  <2>3. c \in connected => Answers(c, m, messages)
    BY <1>9, <2>2 DEF Answers, Asks
  <2> QED
    BY <1>9, <2>2, <2>3
<1>10. CASE m.type = "remove" /\ RemovePreset(m.id)
  <2>1. m.id \in Ids
    BY <1>1, <1>10 DEF ClientMessages
  <2>2. /\ News(<<>>, {})
        /\ \A d \in connected : m.id \in unheard'[d] \/ store'[m.id] = NoPreset
    BY <1>10, <2>1, RemovePresetNews
  <2>3. c \in connected => Answers(c, m, <<>>)
    BY <1>10, <2>2 DEF Answers, Asks
  <2> QED
    BY <1>10, <2>2, <2>3
<1>11. CASE m.type = "read" /\ TellSelected(c)
  BY <1>11, TellSelectedNews DEF Answers, Asks
<1>12. CASE m.type = "write" /\ Load(m.id) /\ Records
  <2>1. m.id \in Ids
    BY <1>1, <1>12 DEF ClientMessages
  <2> QED
    BY <1>4, <1>12, <2>1, LoadNews
<1> QED
  BY <1>3, <1>5, <1>6, <1>7, <1>8, <1>9, <1>10, <1>11, <1>12

(* A MIDI message is handled.                                              *)
LEMMA MidiNews ==
    ASSUME TypeOK,
           \/ \E p \in Params, v \in Values : MidiSets(p, v)
           \/ \E id \in Ids : MidiLoads(id)
    PROVE  /\ UNCHANGED <<connected, up, clients>> /\ acts' \in 0 .. MaxActs
           /\ \E messages : News(messages, {})
<1>1. CASE \E p \in Params, v \in Values : MidiSets(p, v)
  <2>1. PICK p \in Params, v \in Values : MidiSets(p, v)
    BY <1>1
  <2>2. SetParameter(p, v, {})
    BY <2>1 DEF MidiSets, Everyone
  <2>3. News(<<Update(p, v)>>, {})
    BY <2>2, SetParameterNews
  <2> QED
    BY <2>1, <2>3 DEF MidiSets, Act, TypeOK
<1>2. CASE \E id \in Ids : MidiLoads(id)
  BY <1>2, LoadNews DEF MidiLoads, Act, TypeOK
<1> QED
  BY <1>1, <1>2

-----------------------------------------------------------------------------
(* Types *)

LEMMA NewsTypes ==
    ASSUME TypeOK, NEW messages, NEW source, News(messages, source)
    PROVE  /\ FirmwareOK'
           /\ down' \in [Clients -> Seq(FirmwareMessages)] /\ doubt' \in [Clients -> SUBSET Params]
  BY BroadcastFacts DEF News

LEMMA ClientSendsTypes ==
    ASSUME TypeOK, NEW c \in Clients, NEW m \in ClientMessages, ClientSends(c, <<m>>)
    PROVE  up' \in [Clients -> Seq(ClientMessages)]
<1>1. up[c] \o <<m>> \in Seq(ClientMessages)
  BY ConcatProperties DEF TypeOK
<1> QED
  BY <1>1 DEF TypeOK, ClientSends

LEMMA HandleTypes == ASSUME TypeOK, NEW c \in Clients, Handle(c) PROVE TypeOK'
<1>1. up' \in [Clients -> Seq(ClientMessages)]
  <2>1. Tail(up[c]) \in Seq(ClientMessages)
    BY HeadTailProperties DEF TypeOK, Handle
  <2> QED
    BY <2>1 DEF TypeOK, Handle
<1>2. UNCHANGED <<connected, pending, knobs, copies, shown, creating, acts>>
  BY DEF Handle, clients
<1> QED
  BY <1>1, <1>2, HandleNews, NewsTypes DEF TypeOK, FirmwareOK

LEMMA MidiTypes ==
    ASSUME TypeOK,
           \/ \E p \in Params, v \in Values : MidiSets(p, v)
           \/ \E id \in Ids : MidiLoads(id)
    PROVE  TypeOK'
  BY MidiNews, NewsTypes DEF TypeOK, FirmwareOK, clients

LEMMA ReceiveTypes == ASSUME TypeOK, NEW c \in Clients, Receive(c) PROVE TypeOK'
<1> DEFINE m == Head(down[c])
<1>1. m \in FirmwareMessages /\ Tail(down[c]) \in Seq(FirmwareMessages)
  BY HeadTailProperties DEF TypeOK, Receive
<1>2. down' \in [Clients -> Seq(FirmwareMessages)]
  BY <1>1 DEF TypeOK, Receive
<1>3. UNCHANGED <<firmware, connected, pending, acts, faults, history>>
  BY DEF Receive
<1>4. CASE /\ m.type = "update"
           /\ knobs' = [knobs EXCEPT ![c][m.id] = m.value]
           /\ UNCHANGED <<up, copies, shown, creating>>
  <2>1. m.id \in Params /\ m.value \in Values
    BY <1>1, <1>4 DEF FirmwareMessages
  <2>2. knobs' \in [Clients -> Settings]
    BY <1>4, <2>1 DEF TypeOK, Settings
  <2> QED
    BY <1>2, <1>3, <1>4, <2>2 DEF TypeOK, firmware, history
<1>5. CASE /\ m.type = "notify"
           /\ copies' = [copies EXCEPT ![c][m.id] = m.preset]
           /\ IF creating[c] = m.preset.name
              THEN /\ creating' = [creating EXCEPT ![c] = "none"]
                   /\ ClientSends(c, <<Write(m.id)>>)
              ELSE UNCHANGED <<up, creating>>
           /\ UNCHANGED <<knobs, shown>>
  <2>1. m.id \in Ids /\ m.preset \in Presets
    BY <1>1, <1>5 DEF FirmwareMessages
  <2>2. copies' \in [Clients -> [Ids -> Presets \union {NoPreset}]]
    BY <1>5, <2>1 DEF TypeOK
  <2>3. Write(m.id) \in ClientMessages
    BY <2>1 DEF Write, ClientMessages
  <2>4. up' \in [Clients -> Seq(ClientMessages)] /\ creating' \in [Clients -> Names \union {"none"}]
    BY <1>5, <2>3, ClientSendsTypes DEF TypeOK
  <2> QED
    BY <1>2, <1>3, <1>5, <2>2, <2>4 DEF TypeOK, firmware, history
<1>6. CASE /\ m.type = "selected"
           /\ shown' = [shown EXCEPT ![c] = m.id]
           /\ UNCHANGED <<up, knobs, copies, creating>>
  <2>1. m.id \in Ids
    BY <1>1, <1>6 DEF FirmwareMessages
  <2> QED
    BY <1>2, <1>3, <1>6, <2>1 DEF TypeOK, firmware, history
<1> QED
  BY <1>4, <1>5, <1>6 DEF Receive

LEMMA NetworkTypes ==
    ASSUME TypeOK, Restart \/ \E c \in Clients : Connect(c) \/ Disconnect(c)
    PROVE  TypeOK'
<1>1. <<>> \in Seq(ClientMessages) /\ <<>> \in Seq(FirmwareMessages)
  BY EmptySeq
<1>2. CASE Restart
  <2>1. live' \in Settings
    BY <1>2 DEF Restart, Settings
  <2> QED
    BY <1>1, <1>2, <2>1 DEF TypeOK, Restart, Outage, clients
<1>3. ASSUME NEW c \in Clients, Disconnect(c)
      PROVE  TypeOK'
  BY <1>1, <1>3 DEF TypeOK, Disconnect, Outage, firmware, clients
<1>4. ASSUME NEW c \in Clients, Connect(c)
      PROVE  TypeOK'
  <2>1. /\ [type |-> "presets"] \in ClientMessages /\ [type |-> "read"] \in ClientMessages
        /\ [type |-> "parameters"] \in ClientMessages
    BY DEF ClientMessages
  <2>2. <<[type |-> "presets"], [type |-> "read"]>> \in Seq(ClientMessages)
    BY <2>1
  <2>3. /\ up' \in [Clients -> Seq(ClientMessages)]
        /\ pending' \in [Clients -> ClientMessages \union {NoMessage}]
        /\ doubt' \in [Clients -> SUBSET Params]
        /\ connected' \subseteq Clients
    BY <1>4, <2>1, <2>2 DEF TypeOK, Connect
  <2> QED
    BY <1>4, <2>3 DEF TypeOK, Connect, firmware
<1> QED
  BY <1>2, <1>3, <1>4

LEMMA TurnTypes ==
    ASSUME TypeOK, NEW c \in Clients, NEW p \in Params, NEW v \in Values, Turn(c, p, v)
    PROVE  TypeOK'
<1>1. knobs' \in [Clients -> Settings]
  BY DEF TypeOK, Turn, Settings
<1>2. pending' \in [Clients -> ClientMessages \union {NoMessage}]
  BY MessageKinds DEF TypeOK, Turn
<1>3. pending[c].type = "update" => pending[c].id \in Params
  <2>1. pending[c] \in ClientMessages \union {NoMessage}
    BY DEF TypeOK
  <2> QED
    BY <2>1 DEF ClientMessages, NoMessage
<1>4. doubt' \in [Clients -> SUBSET Params]
  BY <1>3 DEF TypeOK, Turn
<1> QED
  BY <1>1, <1>2, <1>4 DEF TypeOK, Turn, Act, firmware

LEMMA ActTypes == TypeOK /\ Act => acts' \in 0 .. MaxActs
  BY DEF TypeOK, Act

(* What SaveChanges sends                                                  *)
Saved(c) ==
    Save(shown[c], [copies[c][shown[c]] EXCEPT !.parameters = knobs[c]])

LEMMA SavedFacts ==
    ASSUME TypeOK, NEW c \in Clients, SaveChanges(c)
    PROVE  /\ shown[c] \in Ids /\ Saved(c) \in ClientMessages /\ Saved(c).type # "update"
           /\ Saved(c) \in Asking(shown[c]) /\ ClientSends(c, <<Saved(c)>>)
           /\ copies' \in [Clients -> [Ids -> Presets \union {NoPreset}]]
           /\ \A i \in Ids \ {shown[c]} : copies'[c][i] = copies[c][i]
           /\ \A d \in Clients \ {c} : copies'[d] = copies[d]
<1> DEFINE id == shown[c]
           preset == [copies[c][id] EXCEPT !.parameters = knobs[c]]
<1>1. id \in Ids /\ copies[c][id] \in Presets /\ knobs[c] \in Settings
  BY DEF TypeOK, SaveChanges
<1>2. preset \in Presets
  BY <1>1 DEF Presets
<1>3. copies' = [copies EXCEPT ![c][id] = preset] /\ ClientSends(c, <<Save(id, preset)>>)
  BY DEF SaveChanges
<1>4. Saved(c) = Save(id, preset)
  BY DEF Saved
<1> HIDE DEF preset, id
<1>5. Saved(c) \in ClientMessages /\ Saved(c).type # "update" /\ Saved(c) \in Asking(id)
  BY <1>1, <1>2, <1>4 DEF ClientMessages, Save, Asking, Asks
<1>6. /\ copies' \in [Clients -> [Ids -> Presets \union {NoPreset}]]
      /\ \A i \in Ids \ {id} : copies'[c][i] = copies[c][i]
      /\ \A d \in Clients \ {c} : copies'[d] = copies[d]
  BY <1>1, <1>2, <1>3 DEF TypeOK
<1> QED
  BY <1>1, <1>3, <1>4, <1>5, <1>6 DEF id

(* What the acts of a client leave alone, and what they send               *)
LEMMA ActSends ==
    ASSUME TypeOK, NEW c \in Clients, UserActs(c) \/ Throttle(c) \/ CreateTimeout(c)
    PROVE  /\ UNCHANGED <<firmware, faults, unheard, connected, down, shown>>
           /\ UNCHANGED up \/ \E m \in ClientMessages : ClientSends(c, <<m>>)
           /\ \/ \E p \in Params, v \in Values : Turn(c, p, v)
              \/ Throttle(c)
              \/ /\ UNCHANGED <<pending, knobs, doubt>> /\ acts' \in 0 .. MaxActs
                 /\ \/ UNCHANGED up
                    \/ \E m \in ClientMessages : m.type # "update" /\ ClientSends(c, <<m>>)
<1> DEFINE Goal ==
              /\ UNCHANGED <<firmware, faults, unheard, connected, down, shown>>
              /\ UNCHANGED <<pending, knobs, doubt>> /\ acts' \in 0 .. MaxActs
              /\ \/ UNCHANGED up
                 \/ \E m \in ClientMessages : m.type # "update" /\ ClientSends(c, <<m>>)
<1>1. CASE \E p \in Params, v \in Values : Turn(c, p, v)
  BY <1>1 DEF Turn
<1>2. CASE Throttle(c)
  BY <1>2 DEF Throttle, history, TypeOK
<1>3. CASE CreateTimeout(c)
  BY <1>3 DEF CreateTimeout, history, TypeOK
<1>4. ASSUME NEW name \in Names, Create(c, name)
      PROVE  Goal
  <2> DEFINE m == [type |-> "create", preset |-> [name |-> name, parameters |-> knobs[c]]]
  <2>1. m \in ClientMessages /\ m.type # "update"
    BY DEF TypeOK, ClientMessages, Presets
  <2>2. ClientSends(c, <<m>>)
    BY <1>4 DEF Create
  <2> HIDE DEF m
  <2> QED
    BY <1>4, <2>1, <2>2, ActTypes DEF Create, history
<1>5. ASSUME NEW id \in Ids, Select(c, id)
      PROVE  Goal
  <2>1. Write(id) \in ClientMessages /\ Write(id).type # "update"
    BY DEF ClientMessages, Write
  <2> QED
    BY <1>5, <2>1, ActTypes DEF Select, clients, history
<1>6. ASSUME NEW id \in Ids, Delete(c, id)
      PROVE  Goal
  <2> DEFINE m == [type |-> "remove", id |-> id]
  <2>1. m \in ClientMessages /\ m.type # "update"
    BY DEF ClientMessages
  <2>2. ClientSends(c, <<m>>)
    BY <1>6 DEF Delete
  <2> HIDE DEF m
  <2> QED
    BY <1>6, <2>1, <2>2, ActTypes DEF Delete, history
<1>7. CASE SaveChanges(c)
  BY <1>7, SavedFacts, ActTypes DEF SaveChanges, history
<1> QED
  BY <1>1, <1>2, <1>3, <1>4, <1>5, <1>6, <1>7 DEF UserActs

LEMMA ClientTypes ==
    ASSUME TypeOK, NEW c \in Clients, UserActs(c) \/ Throttle(c) \/ CreateTimeout(c)
    PROVE  TypeOK'
<1>1. up' \in [Clients -> Seq(ClientMessages)]
  BY ActSends, ClientSendsTypes DEF TypeOK
<1>2. CASE \E p \in Params, v \in Values : Turn(c, p, v)
  BY <1>2, TurnTypes
<1>3. CASE Throttle(c)
  BY <1>1, <1>3 DEF TypeOK, Throttle, firmware, history
<1>4. CASE CreateTimeout(c)
  BY <1>4 DEF TypeOK, CreateTimeout, firmware, history
<1>5. ASSUME NEW name \in Names, Create(c, name)
      PROVE  TypeOK'
  <2>1. creating' \in [Clients -> Names \union {"none"}] /\ acts' \in 0 .. MaxActs
    BY <1>5 DEF TypeOK, Create, Act
  <2> QED
    BY <1>1, <1>5, <2>1 DEF TypeOK, Create, firmware, history
<1>6. ASSUME NEW id \in Ids, Select(c, id)
      PROVE  TypeOK'
  BY <1>1, <1>6 DEF TypeOK, Select, Act, firmware, clients, history
<1>7. ASSUME NEW id \in Ids, Delete(c, id)
      PROVE  TypeOK'
  <2>1. copies' \in [Clients -> [Ids -> Presets \union {NoPreset}]]
    BY <1>7 DEF TypeOK, Delete
  <2> QED
    BY <1>1, <1>7, <2>1 DEF TypeOK, Delete, Act, firmware, history
<1>8. CASE SaveChanges(c)
  <2>1. /\ copies' \in [Clients -> [Ids -> Presets \union {NoPreset}]]
        /\ acts' \in 0 .. MaxActs
    BY <1>8, SavedFacts, ActTypes DEF SaveChanges
  <2> QED
    BY <1>1, <1>8, <2>1 DEF TypeOK, SaveChanges, firmware, history
<1> QED
  BY <1>2, <1>3, <1>4, <1>5, <1>6, <1>7, <1>8 DEF UserActs

LEMMA InitTypes == Init => TypeOK
<1> SUFFICES ASSUME Init
             PROVE  TypeOK
  OBVIOUS
<1>1. <<>> \in Seq(ClientMessages) /\ <<>> \in Seq(FirmwareMessages)
  BY EmptySeq
<1>2. live \in Settings
  BY DEF Init, Settings
<1>3. CASE store = [id \in Ids |-> NoPreset] /\ last = 0 /\ selected = NoId
  BY <1>1, <1>2, <1>3 DEF Init, TypeOK, NoId
<1>4. ASSUME NEW preset \in [name : Names, parameters : Stored],
             /\ store = [id \in Ids |-> IF id = 1 THEN preset ELSE NoPreset]
             /\ last = 1
             /\ selected \in {NoId, 1}
      PROVE  TypeOK
  <2>1. preset \in Presets
    BY StoredAssumption DEF Presets, Settings
  <2>2. store \in [Ids -> Presets \union {NoPreset}]
    BY <1>4, <2>1
  <2>3. last \in 0 .. MaxId /\ selected \in Ids \union {NoId}
    BY <1>4 DEF Ids
  <2> QED
    BY <1>1, <1>2, <2>2, <2>3 DEF Init, TypeOK
<1> QED
  BY <1>3, <1>4 DEF Init

LEMMA StepTypes == TypeOK /\ [Next]_vars => TypeOK'
<1> SUFFICES ASSUME TypeOK, [Next]_vars
             PROVE  TypeOK'
  OBVIOUS
<1>1. CASE UNCHANGED vars
  BY <1>1 DEF TypeOK, vars, firmware, clients, history
<1>2. CASE Next
  BY <1>2, NetworkTypes, HandleTypes, ReceiveTypes, ClientTypes, MidiTypes DEF Next
<1> QED
  BY <1>1, <1>2

(* Every message, copy and record is one of its kind: the numbers that     *)
(* handle_message and the clients' handlers use as keys are of presets and *)
(* parameters that there are, whatever is sent, lost and restarted.        *)
THEOREM TypeCorrect == Spec => []TypeOK
  BY InitTypes, StepTypes, PTL DEF Spec

-----------------------------------------------------------------------------
(* Presets *)

LEMMA ClientSendsFacts ==
    ASSUME TypeOK, NEW c \in Clients, NEW m \in ClientMessages, ClientSends(c, <<m>>)
    PROVE  /\ c \in connected => up'[c] = up[c] \o <<m>>
           /\ \A d \in Clients \ {c} : up'[d] = up[d]
           /\ \A d \in Clients : \A S : NoneIn(up'[d], S) => NoneIn(up[d], S)
           /\ \A d \in Clients : \A S : m \notin S => (NoneIn(up'[d], S) <=> NoneIn(up[d], S))
           /\ \A d \in Clients : \A S, x :
                m \notin S /\ LastIn(up[d], S, x) => LastIn(up'[d], S, x)
           /\ \A S : c \in connected /\ m \in S => ~NoneIn(up'[c], S)
<1>1. /\ <<m>> \in Seq(ClientMessages)
      /\ \A S : NoneIn(<<m>>, S) <=> m \notin S
  BY DEF NoneIn
<1>2. \A d \in Clients : up[d] \in Seq(ClientMessages)
  BY DEF TypeOK
<1>3. /\ c \in connected => up'[c] = up[c] \o <<m>>
      /\ c \notin connected => up' = up
      /\ \A d \in Clients \ {c} : up'[d] = up[d]
  BY DEF TypeOK, ClientSends
<1>4. \A S : NoneIn(up[c] \o <<m>>, S) <=> NoneIn(up[c], S) /\ m \notin S
  BY <1>1, <1>2, ConcatNone
<1>5. \A S, x : m \notin S /\ LastIn(up[c], S, x) => LastIn(up[c] \o <<m>>, S, x)
  BY <1>1, <1>2, ConcatLast
<1> QED
  <2>1. \A d \in Clients : \A S : NoneIn(up'[d], S) => NoneIn(up[d], S)
    BY <1>3, <1>4
  <2>2. \A d \in Clients : \A S : m \notin S => (NoneIn(up'[d], S) <=> NoneIn(up[d], S))
    BY <1>3, <1>4
  <2>3. \A d \in Clients : \A S, x : m \notin S /\ LastIn(up[d], S, x) => LastIn(up'[d], S, x)
    BY <1>3, <1>5
  <2>4. \A S : c \in connected /\ m \in S => ~NoneIn(up'[c], S)
    BY <1>3, <1>4
  <2> QED
    BY <1>3, <2>1, <2>2, <2>3, <2>4

(* The main task's news reaches a connected client.                        *)
LEMMA PresetHeard ==
    ASSUME TypeOK, PresetsSettle, NEW messages, NEW source, News(messages, source),
           NEW c \in connected, NEW id \in Ids \ unheard'[c], store'[id] # NoPreset
    PROVE  LET Good == Settles(down'[c], Notices(id), Notify(id, copies[c][id]),
                               Notify(id, store'[id]))
           IN /\ Good \/ ~NoneIn(up[c], Asking(id))
              /\ source = {} /\ LastIn(messages, Notices(id), Notify(id, store'[id])) => Good
<1>1. /\ messages \in Seq(FirmwareMessages) /\ down[c] \in Seq(FirmwareMessages)
      /\ c \in Clients /\ Broadcast(messages, source)
  BY DEF News, TypeOK
<1>2. IF c \in source THEN down'[c] = down[c] ELSE down'[c] = down[c] \o messages
  BY <1>1, BroadcastFacts
<1>3. ASSUME source = {}, LastIn(messages, Notices(id), Notify(id, store'[id]))
      PROVE  Settles(down'[c], Notices(id), Notify(id, copies[c][id]), Notify(id, store'[id]))
  <2>1. down'[c] = down[c] \o messages
    BY <1>2, <1>3
  <2>2. Settles(down[c] \o messages, Notices(id), Notify(id, copies[c][id]), Notify(id, store'[id]))
    BY <1>1, <1>3, ConcatSettles
  <2> QED
    BY <2>1, <2>2
<1>4. CASE store'[id] = store[id] /\ id \notin unheard[c] /\ NoneIn(messages, Notices(id))
  <2>1. CASE ~NoneIn(up[c], Asking(id))
    BY <1>3, <2>1
  <2>2. CASE Settles(down[c], Notices(id), Notify(id, copies[c][id]), Notify(id, store[id]))
    <3>1. Settles(down[c] \o messages, Notices(id), Notify(id, copies[c][id]), Notify(id, store[id]))
      BY <1>1, <1>4, <2>2, ConcatSettles
    <3>2. Settles(down'[c], Notices(id), Notify(id, copies[c][id]), Notify(id, store'[id]))
      BY <1>2, <1>4, <2>2, <3>1
    <3> QED
      BY <1>3, <3>2
  <2> QED
    BY <1>4, <2>1, <2>2 DEF PresetsSettle, PresetSettles
<1> QED
  BY <1>3, <1>4 DEF News, PresetNews

LEMMA HandlePresets ==
    ASSUME TypeOK, PresetsSettle, NEW c \in Clients, Handle(c)
    PROVE  PresetsSettle'
<1> DEFINE m == Head(up[c])
<1>1. PICK messages, source :
            /\ News(messages, source)
            /\ c \in connected => Answers(c, m, messages)
            /\ m.type # "update" => source = {}
  BY HandleNews
<1>2. /\ up[c] \in Seq(ClientMessages) /\ up[c] # <<>> /\ m \in ClientMessages
      /\ up'[c] = Tail(up[c]) /\ \A d \in Clients \ {c} : up'[d] = up[d]
      /\ UNCHANGED <<connected, copies>> /\ connected \subseteq Clients
  BY HeadTailProperties DEF Handle, TypeOK, clients
<1> HIDE DEF m
<1>3. \A S : NoneIn(up[c], S) <=> m \notin S /\ NoneIn(up'[c], S)
  BY <1>2, TailLast DEF m
<1> SUFFICES ASSUME NEW d \in connected, NEW id \in Ids \ unheard'[d], store'[id] # NoPreset
             PROVE  \/ ~NoneIn(up'[d], Asking(id))
                    \/ Settles(down'[d], Notices(id), Notify(id, copies[d][id]),
                               Notify(id, store'[id]))
  BY <1>2 DEF PresetsSettle, PresetSettles
<1>4. CASE d = c /\ m \in Asking(id)
  <2>1. m.type # "update" /\ Asks(m, id)
    BY <1>4 DEF Asking, Asks
  <2> QED
    BY <1>1, <1>4, <2>1, PresetHeard DEF Answers
<1>5. CASE d # c \/ m \notin Asking(id)
  BY <1>1, <1>2, <1>3, <1>5, PresetHeard
<1> QED
  BY <1>4, <1>5

LEMMA ReceivePresets ==
    ASSUME TypeOK, PresetsSettle, NEW c \in Clients, Receive(c)
    PROVE  PresetsSettle'
<1> DEFINE m == Head(down[c])
<1>1. /\ down[c] \in Seq(FirmwareMessages) /\ down[c] # <<>> /\ m \in FirmwareMessages
      /\ down'[c] = Tail(down[c]) /\ \A d \in Clients \ {c} : down'[d] = down[d]
      /\ UNCHANGED <<connected, store, unheard>> /\ connected \subseteq Clients
  BY HeadTailProperties DEF Receive, TypeOK, firmware, history
<1>2. \A d \in Clients : \A S : NoneIn(up'[d], S) => NoneIn(up[d], S)
  <2>1. CASE UNCHANGED up
    BY <2>1
  <2>2. CASE m.type = "notify" /\ ClientSends(c, <<Write(m.id)>>)
    <3>1. Write(m.id) \in ClientMessages
      BY <1>1, <2>2 DEF ClientMessages, FirmwareMessages, Write
    <3> QED
      BY <2>2, <3>1, ClientSendsFacts
  <2> QED
    BY <2>1, <2>2 DEF Receive
<1>3. \A d \in Clients, id \in Ids :
        \/ copies'[d][id] = copies[d][id] /\ (d # c \/ m \notin Notices(id))
        \/ d = c /\ m \in Notices(id) /\ Notify(id, copies'[d][id]) = m
  <2>1. CASE m.type = "notify" /\ copies' = [copies EXCEPT ![c][m.id] = m.preset]
    <3>1. m.id \in Ids /\ m = Notify(m.id, m.preset)
      BY <1>1, <2>1 DEF FirmwareMessages, Notify
    <3>2. copies'[c][m.id] = m.preset
      BY <2>1, <3>1 DEF TypeOK
    <3>3. \A d \in Clients, id \in Ids : d # c \/ id # m.id => copies'[d][id] = copies[d][id]
      BY <2>1, <3>1 DEF TypeOK
    <3>4. \A id \in Ids : m \in Notices(id) <=> id = m.id
      BY <1>1, <2>1 DEF Notices
    <3> QED
      BY <3>1, <3>2, <3>3, <3>4
  <2>2. CASE m.type # "notify" /\ UNCHANGED copies
    BY <2>2 DEF Notices
  <2> QED
    BY <2>1, <2>2 DEF Receive
<1> HIDE DEF m
<1> SUFFICES ASSUME NEW d \in connected, NEW id \in Ids \ unheard[d], store[id] # NoPreset,
                    NoneIn(up[d], Asking(id))
             PROVE  Settles(down'[d], Notices(id), Notify(id, copies'[d][id]),
                            Notify(id, store[id]))
  BY <1>1, <1>2 DEF PresetsSettle, PresetSettles
<1>4. Settles(down[d], Notices(id), Notify(id, copies[d][id]), Notify(id, store[id]))
  BY DEF PresetsSettle, PresetSettles
<1>5. CASE d # c
  BY <1>1, <1>3, <1>4, <1>5
<1>6. CASE d = c
  BY <1>1, <1>3, <1>4, <1>6, TailSettles DEF m
<1> QED
  BY <1>5, <1>6

(* A client's acts.  What makes its copy differ from the store asks the    *)
(* main task for a change, if the client is connected.                     *)
LEMMA ActPresets ==
    ASSUME TypeOK, PresetsSettle, NEW c \in Clients,
           UserActs(c) \/ Throttle(c) \/ CreateTimeout(c)
    PROVE  PresetsSettle'
<1>1. /\ UNCHANGED <<store, unheard, connected, down>> /\ connected \subseteq Clients
      /\ \A d \in Clients : \A S : NoneIn(up'[d], S) => NoneIn(up[d], S)
  BY ActSends, ClientSendsFacts DEF TypeOK, firmware
<1>2. ASSUME NEW id \in Ids, c \in connected => ~NoneIn(up'[c], Asking(id)),
             \A i \in Ids \ {id} : copies'[c][i] = copies[c][i],
             \A d \in Clients \ {c} : copies'[d] = copies[d]
      PROVE  PresetsSettle'
  BY <1>1, <1>2 DEF PresetsSettle, PresetSettles
<1>3. CASE (\E p \in Params, v \in Values : Turn(c, p, v)) \/ (\E name \in Names : Create(c, name))
           \/ (\E id \in Ids : Select(c, id)) \/ Throttle(c) \/ CreateTimeout(c)
  <2>1. UNCHANGED copies
    BY <1>3 DEF Turn, Create, Select, Throttle, CreateTimeout, clients
  <2> QED
    BY <1>1, <2>1 DEF PresetsSettle, PresetSettles
<1>4. ASSUME NEW id \in Ids, Delete(c, id)
      PROVE  PresetsSettle'
  <2> DEFINE m == [type |-> "remove", id |-> id]
  <2>1. m \in ClientMessages /\ m \in Asking(id)
    BY DEF ClientMessages, Asking, Asks
  <2>2. ClientSends(c, <<m>>)
    BY <1>4 DEF Delete
  <2> HIDE DEF m
  <2>3. c \in connected => ~NoneIn(up'[c], Asking(id))
    BY <2>1, <2>2, ClientSendsFacts
  <2>4. /\ \A i \in Ids \ {id} : copies'[c][i] = copies[c][i]
        /\ \A d \in Clients \ {c} : copies'[d] = copies[d]
    BY <1>4 DEF Delete, TypeOK
  <2> QED
    BY <1>2, <2>3, <2>4
<1>5. CASE SaveChanges(c)
  <2>1. /\ shown[c] \in Ids /\ Saved(c) \in ClientMessages
        /\ Saved(c) \in Asking(shown[c]) /\ ClientSends(c, <<Saved(c)>>)
    BY <1>5, SavedFacts
  <2>2. c \in connected => ~NoneIn(up'[c], Asking(shown[c]))
    BY <2>1, ClientSendsFacts
  <2>3. /\ \A i \in Ids \ {shown[c]} : copies'[c][i] = copies[c][i]
        /\ \A d \in Clients \ {c} : copies'[d] = copies[d]
    BY <1>5, SavedFacts
  <2> QED
    BY <1>2, <2>1, <2>2, <2>3
<1> QED
  BY <1>3, <1>4, <1>5 DEF UserActs

LEMMA ConnectFacts ==
    ASSUME TypeOK, NEW c \in Clients, Connect(c)
    PROVE  /\ \A id : ~NoneIn(up'[c], Asking(id))
           /\ ~NoneIn(up'[c], Reading)
           /\ \A d \in Clients \ {c} : up'[d] = up[d]
           /\ connected' = connected \union {c} /\ connected \subseteq Clients
<1> DEFINE p == [type |-> "presets"]
           r == [type |-> "read"]
<1>1. p \in ClientMessages /\ r \in ClientMessages /\ p.type = "presets" /\ r.type = "read"
  BY DEF ClientMessages
<1> HIDE DEF p, r
<1>2. up'[c] = <<p, r>> /\ \A d \in Clients \ {c} : up'[d] = up[d]
  BY DEF Connect, TypeOK, p, r
<1>3. DOMAIN <<p, r>> = 1 .. 2 /\ <<p, r>>[1] = p /\ <<p, r>>[2] = r
  OBVIOUS
<1>4. \A id : ~NoneIn(up'[c], Asking(id))
  BY <1>1, <1>2, <1>3 DEF NoneIn, Asking, Asks
<1>5. ~NoneIn(up'[c], Reading)
  BY <1>1, <1>2, <1>3 DEF NoneIn, Reading
<1> QED
  BY <1>2, <1>4, <1>5 DEF Connect, TypeOK

LEMMA StepPresets == TypeOK /\ PresetsSettle /\ [Next]_vars => PresetsSettle'
<1> SUFFICES ASSUME TypeOK, PresetsSettle, [Next]_vars
             PROVE  PresetsSettle'
  OBVIOUS
<1> USE DEF PresetsSettle, PresetSettles
<1>1. CASE UNCHANGED vars
  BY <1>1 DEF vars, firmware, clients, history
<1>2. ASSUME NEW c \in Clients, Connect(c)
      PROVE  PresetsSettle'
  BY <1>2, ConnectFacts DEF Connect, firmware
<1>3. ASSUME NEW c \in Clients, Disconnect(c)
      PROVE  PresetsSettle'
  <2>1. /\ connected' = connected \ {c}
        /\ \A d \in Clients \ {c} : up'[d] = up[d] /\ down'[d] = down[d]
        /\ \A d \in Clients \ {c} : unheard'[d] = unheard[d]
        /\ UNCHANGED <<store, copies>> /\ connected \subseteq Clients
    BY <1>3 DEF Disconnect, TypeOK, firmware, clients
  <2> QED
    BY <2>1
<1>4. CASE Restart
  BY <1>4 DEF Restart
<1>5. CASE \/ \E p \in Params, v \in Values : MidiSets(p, v)
           \/ \E id \in Ids : MidiLoads(id)
  <2>1. UNCHANGED <<connected, up, copies>> /\ \E messages : News(messages, {})
    BY <1>5, MidiNews DEF clients
  <2> QED
    BY <2>1, PresetHeard
<1> QED
  BY <1>1, <1>2, <1>3, <1>4, <1>5, HandlePresets, ReceivePresets, ActPresets DEF Next

-----------------------------------------------------------------------------
(* The selection *)

LEMMA SelectionHeard ==
    ASSUME TypeOK, SelectionSettles, NEW messages, NEW source, News(messages, source),
           NEW c \in connected, NoId \notin unheard'[c], selected' # NoId
    PROVE  LET Good == Settles(down'[c], Selections, Selected(shown[c]), Selected(selected'))
           IN /\ Good \/ ~NoneIn(up[c], Reading)
              /\ source = {} /\ LastIn(messages, Selections, Selected(selected')) => Good
<1>1. /\ messages \in Seq(FirmwareMessages) /\ down[c] \in Seq(FirmwareMessages)
      /\ c \in Clients /\ Broadcast(messages, source)
  BY DEF News, TypeOK
<1>2. IF c \in source THEN down'[c] = down[c] ELSE down'[c] = down[c] \o messages
  BY <1>1, BroadcastFacts
<1>3. ASSUME source = {}, LastIn(messages, Selections, Selected(selected'))
      PROVE  Settles(down'[c], Selections, Selected(shown[c]), Selected(selected'))
  <2>1. down'[c] = down[c] \o messages
    BY <1>2, <1>3
  <2>2. Settles(down[c] \o messages, Selections, Selected(shown[c]), Selected(selected'))
    BY <1>1, <1>3, ConcatSettles
  <2> QED
    BY <2>1, <2>2
<1>4. CASE selected' = selected /\ NoId \notin unheard[c] /\ NoneIn(messages, Selections)
  <2>1. CASE ~NoneIn(up[c], Reading)
    BY <1>3, <2>1
  <2>2. CASE Settles(down[c], Selections, Selected(shown[c]), Selected(selected))
    <3>1. Settles(down[c] \o messages, Selections, Selected(shown[c]), Selected(selected))
      BY <1>1, <1>4, <2>2, ConcatSettles
    <3>2. Settles(down'[c], Selections, Selected(shown[c]), Selected(selected'))
      BY <1>2, <1>4, <2>2, <3>1
    <3> QED
      BY <1>3, <3>2
  <2> QED
    BY <1>4, <2>1, <2>2 DEF SelectionSettles
<1> QED
  BY <1>3, <1>4 DEF News, SelectionNews

LEMMA HandleSelection ==
    ASSUME TypeOK, SelectionSettles, NEW c \in Clients, Handle(c)
    PROVE  SelectionSettles'
<1> DEFINE m == Head(up[c])
<1>1. PICK messages, source :
            /\ News(messages, source)
            /\ c \in connected => Answers(c, m, messages)
            /\ m.type # "update" => source = {}
  BY HandleNews
<1>2. /\ up[c] \in Seq(ClientMessages) /\ up[c] # <<>> /\ m \in ClientMessages
      /\ up'[c] = Tail(up[c]) /\ \A d \in Clients \ {c} : up'[d] = up[d]
      /\ UNCHANGED <<connected, shown>> /\ connected \subseteq Clients
  BY HeadTailProperties DEF Handle, TypeOK, clients
<1> HIDE DEF m
<1>3. \A S : NoneIn(up[c], S) <=> m \notin S /\ NoneIn(up'[c], S)
  BY <1>2, TailLast DEF m
<1> SUFFICES ASSUME NEW d \in connected, NoId \notin unheard'[d], selected' # NoId
             PROVE  \/ ~NoneIn(up'[d], Reading)
                    \/ Settles(down'[d], Selections, Selected(shown[d]), Selected(selected'))
  BY <1>2 DEF SelectionSettles
<1>4. CASE d = c /\ m \in Reading
  BY <1>1, <1>4, SelectionHeard DEF Answers, Reading
<1>5. CASE d # c \/ m \notin Reading
  BY <1>1, <1>2, <1>3, <1>5, SelectionHeard
<1> QED
  BY <1>4, <1>5

LEMMA ReceiveSelection ==
    ASSUME TypeOK, SelectionSettles, NEW c \in Clients, Receive(c)
    PROVE  SelectionSettles'
<1> DEFINE m == Head(down[c])
<1>1. /\ down[c] \in Seq(FirmwareMessages) /\ down[c] # <<>> /\ m \in FirmwareMessages
      /\ down'[c] = Tail(down[c]) /\ \A d \in Clients \ {c} : down'[d] = down[d]
      /\ UNCHANGED <<connected, selected, unheard>> /\ connected \subseteq Clients
  BY HeadTailProperties DEF Receive, TypeOK, firmware, history
<1>2. \A d \in Clients : \A S : NoneIn(up'[d], S) => NoneIn(up[d], S)
  <2>1. CASE UNCHANGED up
    BY <2>1
  <2>2. CASE m.type = "notify" /\ ClientSends(c, <<Write(m.id)>>)
    <3>1. Write(m.id) \in ClientMessages
      BY <1>1, <2>2 DEF ClientMessages, FirmwareMessages, Write
    <3> QED
      BY <2>2, <3>1, ClientSendsFacts
  <2> QED
    BY <2>1, <2>2 DEF Receive
<1>3. \A d \in Clients :
        \/ shown'[d] = shown[d] /\ (d # c \/ m \notin Selections)
        \/ d = c /\ m \in Selections /\ Selected(shown'[d]) = m
  <2>1. CASE m.type = "selected" /\ shown' = [shown EXCEPT ![c] = m.id]
    <3>1. m = Selected(m.id) /\ m \in Selections
      BY <1>1, <2>1 DEF FirmwareMessages, Selected, Selections
    <3> QED
      BY <2>1, <3>1 DEF TypeOK
  <2>2. CASE m.type # "selected" /\ UNCHANGED shown
    BY <2>2 DEF Selections
  <2> QED
    BY <2>1, <2>2 DEF Receive
<1> HIDE DEF m
<1> SUFFICES ASSUME NEW d \in connected, NoId \notin unheard[d], selected # NoId,
                    NoneIn(up[d], Reading)
             PROVE  Settles(down'[d], Selections, Selected(shown'[d]), Selected(selected))
  BY <1>1, <1>2 DEF SelectionSettles
<1>4. Settles(down[d], Selections, Selected(shown[d]), Selected(selected))
  BY DEF SelectionSettles
<1>5. CASE d # c
  BY <1>1, <1>3, <1>4, <1>5
<1>6. CASE d = c
  BY <1>1, <1>3, <1>4, <1>6, TailSettles DEF m
<1> QED
  BY <1>5, <1>6

LEMMA StepSelection == TypeOK /\ SelectionSettles /\ [Next]_vars => SelectionSettles'
<1> SUFFICES ASSUME TypeOK, SelectionSettles, [Next]_vars
             PROVE  SelectionSettles'
  OBVIOUS
<1> USE DEF SelectionSettles
<1>1. CASE UNCHANGED vars
  BY <1>1 DEF vars, firmware, clients, history
<1>2. ASSUME NEW c \in Clients, Connect(c)
      PROVE  SelectionSettles'
  BY <1>2, ConnectFacts DEF Connect, firmware
<1>3. ASSUME NEW c \in Clients, Disconnect(c)
      PROVE  SelectionSettles'
  <2>1. /\ connected' = connected \ {c}
        /\ \A d \in Clients \ {c} : up'[d] = up[d] /\ down'[d] = down[d]
        /\ \A d \in Clients \ {c} : unheard'[d] = unheard[d]
        /\ UNCHANGED <<selected, shown>> /\ connected \subseteq Clients
    BY <1>3 DEF Disconnect, TypeOK, firmware, clients
  <2> QED
    BY <2>1
<1>4. CASE Restart
  BY <1>4 DEF Restart
<1>5. CASE \/ \E p \in Params, v \in Values : MidiSets(p, v)
           \/ \E id \in Ids : MidiLoads(id)
  <2>1. UNCHANGED <<connected, up, shown>> /\ \E messages : News(messages, {})
    BY <1>5, MidiNews DEF clients
  <2> QED
    BY <2>1, SelectionHeard
<1>6. ASSUME NEW c \in Clients, UserActs(c) \/ Throttle(c) \/ CreateTimeout(c)
      PROVE  SelectionSettles'
  <2>1. \A d \in connected : \A S : NoneIn(up'[d], S) => NoneIn(up[d], S)
    BY <1>6, ActSends, ClientSendsFacts DEF TypeOK
  <2> QED
    BY <1>6, <2>1, ActSends DEF firmware
<1> QED
  BY <1>1, <1>2, <1>3, <1>4, <1>5, <1>6, HandleSelection, ReceiveSelection DEF Next

-----------------------------------------------------------------------------
(* Knobs *)

LEMMA OnItsWayFacts ==
    ASSUME TypeOK, NEW c \in Clients, NEW p \in Params, ~OnItsWay(c, p)
    PROVE  pending[c] \notin UpdatesOf(p) /\ NoneIn(up[c], UpdatesOf(p))
  BY DEF OnItsWay, UpdatesOf, NoneIn

(* The main task's news reaches a connected client.                        *)
LEMMA KnobHeard ==
    ASSUME TypeOK, KnobsSettle, NEW messages, NEW source, News(messages, source),
           NEW c \in connected \ source, NEW p \in Params \ doubt'[c]
    PROVE  KnobSettles(up[c], down'[c], pending[c], knobs[c][p], live'[p], p)
<1>1. /\ messages \in Seq(FirmwareMessages) /\ down[c] \in Seq(FirmwareMessages)
      /\ c \in Clients /\ Broadcast(messages, source)
  BY DEF News, TypeOK
<1>2. down'[c] = down[c] \o messages
  BY <1>1, BroadcastFacts
<1>3. CASE NoneIn(messages, UpdatesOf(p))
  <2>1. p \notin doubt[c]
    BY <1>1, <1>3, BroadcastFacts
  <2>2. live'[p] = live[p]
    BY <1>3 DEF News, KnobNews, LastIn, NoneIn
  <2>3. KnobSettles(up[c], down[c], pending[c], knobs[c][p], live[p], p)
    BY <2>1 DEF KnobsSettle
  <2>4. Leads(up[c], down[c], pending[c], knobs[c][p], p) =>
            Leads(up[c], down'[c], pending[c], knobs[c][p], p)
    BY <1>1, <1>2, <1>3, ConcatNone DEF Leads
  <2>5. Follows(up[c], down[c], pending[c], knobs[c][p], live[p], p) =>
            Follows(up[c], down'[c], pending[c], knobs[c][p], live'[p], p)
    BY <1>1, <1>2, <1>3, <2>2, ConcatSettles DEF Follows
  <2> QED
    BY <2>3, <2>4, <2>5 DEF KnobSettles
<1>4. CASE ~NoneIn(messages, UpdatesOf(p))
  <2>1. ~OnItsWay(c, p)
    BY <1>1, <1>4, BroadcastFacts
  <2>2. LastIn(messages, UpdatesOf(p), Update(p, live'[p]))
    BY <1>4 DEF News, KnobNews
  <2>3. Settles(down'[c], UpdatesOf(p), Update(p, knobs[c][p]), Update(p, live'[p]))
    BY <1>1, <1>2, <2>2, ConcatSettles
  <2> QED
    BY <1>1, <2>1, <2>3, OnItsWayFacts DEF KnobSettles, Follows
<1> QED
  BY <1>3, <1>4

LEMMA HandleKnobs ==
    ASSUME TypeOK, KnobsSettle, NEW c \in Clients, Handle(c)
    PROVE  KnobsSettle'
<1> DEFINE m == Head(up[c])
<1>1. PICK messages, source :
            /\ News(messages, source)
            /\ m.type # "update" => source = {}
            /\ m.type = "update" =>
                  /\ m \in UpdatesOf(m.id) /\ m.id \in Params
                  /\ source = {c}
                  /\ m = Update(m.id, live'[m.id])
                  /\ \A p \in Params \ {m.id} : live'[p] = live[p]
  BY HandleNews
<1>2. /\ up[c] \in Seq(ClientMessages) /\ up[c] # <<>>
      /\ up'[c] = Tail(up[c]) /\ \A d \in Clients \ {c} : up'[d] = up[d]
      /\ UNCHANGED <<connected, knobs, pending>> /\ connected \subseteq Clients
  BY DEF Handle, TypeOK, clients
<1> SUFFICES ASSUME NEW d \in connected, NEW p \in Params \ doubt'[d]
             PROVE  KnobSettles(up'[d], down'[d], pending[d], knobs[d][p], live'[p], p)
  BY <1>2 DEF KnobsSettle
<1>3. /\ NoneIn(up[c], UpdatesOf(p)) <=> m \notin UpdatesOf(p) /\ NoneIn(up'[c], UpdatesOf(p))
      /\ LastIn(up[c], UpdatesOf(p), Update(p, knobs[d][p])) =>
            \/ LastIn(up'[c], UpdatesOf(p), Update(p, knobs[d][p]))
            \/ m = Update(p, knobs[d][p]) /\ NoneIn(up'[c], UpdatesOf(p))
  BY <1>2, TailLast
<1> HIDE DEF m
<1>4. CASE d # c
  BY <1>1, <1>2, <1>4, KnobHeard
<1>5. CASE d = c /\ m \notin UpdatesOf(p)
  <2>1. KnobSettles(up[c], down'[c], pending[c], knobs[c][p], live'[p], p)
    <3>1. CASE m.type # "update"
      BY <1>1, <1>5, <3>1, KnobHeard
    <3>2. CASE m.type = "update"
      <4>1. p # m.id /\ source = {c} /\ live'[p] = live[p]
        BY <1>1, <1>5, <3>2
      <4>2. down'[c] = down[c] /\ doubt'[c] = doubt[c]
        BY <1>1, <4>1, BroadcastFacts DEF News
      <4> QED
        BY <1>5, <4>1, <4>2 DEF KnobsSettle
    <3> QED
      BY <3>1, <3>2
  <2>2. ~LastIn(up[c], UpdatesOf(p), Update(p, knobs[c][p])) \/ Update(p, knobs[c][p]) \in UpdatesOf(p)
    BY DEF LastIn
  <2> QED
    BY <1>3, <1>5, <2>1, <2>2 DEF KnobSettles, Leads, Follows
<1>6. CASE d = c /\ m \in UpdatesOf(p)
  <2>1. p = m.id /\ source = {c} /\ m = Update(p, live'[p])
    BY <1>1, <1>6 DEF UpdatesOf
  <2>2. down'[c] = down[c] /\ doubt'[c] = doubt[c]
    BY <1>1, <1>2, <1>6, <2>1, BroadcastFacts DEF News
  <2>3. Leads(up[c], down[c], pending[c], knobs[c][p], p)
    BY <1>3, <1>6, <2>2 DEF KnobsSettle, KnobSettles, Follows
  <2>4. CASE pending[c] = Update(p, knobs[c][p])
    BY <1>6, <2>2, <2>3, <2>4 DEF KnobSettles, Leads
  <2>5. CASE pending[c] \notin UpdatesOf(p) /\ LastIn(up'[c], UpdatesOf(p), Update(p, knobs[c][p]))
    BY <1>6, <2>2, <2>3, <2>5 DEF KnobSettles, Leads
  <2>6. CASE /\ pending[c] \notin UpdatesOf(p)
             /\ m = Update(p, knobs[c][p]) /\ NoneIn(up'[c], UpdatesOf(p))
    BY <1>6, <2>1, <2>2, <2>3, <2>6 DEF KnobSettles, Leads, Follows, Settles
  <2> QED
    BY <1>3, <1>6, <2>3, <2>4, <2>5, <2>6 DEF Leads
<1> QED
  BY <1>4, <1>5, <1>6

LEMMA ReceiveKnobs ==
    ASSUME TypeOK, KnobsSettle, NEW c \in Clients, Receive(c)
    PROVE  KnobsSettle'
<1> DEFINE m == Head(down[c])
<1>1. /\ down[c] \in Seq(FirmwareMessages) /\ down[c] # <<>> /\ m \in FirmwareMessages
      /\ down'[c] = Tail(down[c]) /\ \A d \in Clients \ {c} : down'[d] = down[d]
      /\ UNCHANGED <<connected, live, pending, doubt>> /\ connected \subseteq Clients
  BY HeadTailProperties DEF Receive, TypeOK, firmware, history
<1>2. \A d \in Clients, p \in Params :
        /\ NoneIn(up[d], UpdatesOf(p)) => NoneIn(up'[d], UpdatesOf(p))
        /\ \A x : LastIn(up[d], UpdatesOf(p), x) => LastIn(up'[d], UpdatesOf(p), x)
  <2>1. CASE UNCHANGED up
    BY <2>1
  <2>2. CASE m.type = "notify" /\ ClientSends(c, <<Write(m.id)>>)
    <3>1. /\ Write(m.id) \in ClientMessages
          /\ \A p \in Params : Write(m.id) \notin UpdatesOf(p)
      BY <1>1, <2>2 DEF ClientMessages, FirmwareMessages, Write, UpdatesOf
    <3> QED
      BY <2>2, <3>1, ClientSendsFacts
  <2> QED
    BY <2>1, <2>2 DEF Receive
<1>3. \A d \in Clients, p \in Params :
        \/ knobs'[d][p] = knobs[d][p] /\ (d # c \/ m \notin UpdatesOf(p))
        \/ d = c /\ m \in UpdatesOf(p) /\ Update(p, knobs'[d][p]) = m
  <2>1. CASE m.type = "update" /\ knobs' = [knobs EXCEPT ![c][m.id] = m.value]
    <3>1. m.id \in Params /\ m = Update(m.id, m.value)
      BY <1>1, <2>1 DEF FirmwareMessages, Update
    <3>2. knobs'[c][m.id] = m.value
      BY <2>1, <3>1 DEF TypeOK, Settings
    <3>3. \A d \in Clients, p \in Params : d # c \/ p # m.id => knobs'[d][p] = knobs[d][p]
      BY <2>1, <3>1 DEF TypeOK, Settings
    <3>4. \A p \in Params : m \in UpdatesOf(p) <=> p = m.id
      BY <1>1, <2>1 DEF UpdatesOf
    <3> QED
      BY <3>1, <3>2, <3>3, <3>4
  <2>2. CASE m.type # "update" /\ UNCHANGED knobs
    BY <2>2 DEF UpdatesOf
  <2> QED
    BY <2>1, <2>2 DEF Receive
<1> HIDE DEF m
<1> SUFFICES ASSUME NEW d \in connected, NEW p \in Params \ doubt[d]
             PROVE  KnobSettles(up'[d], down'[d], pending[d], knobs'[d][p], live[p], p)
  BY <1>1 DEF KnobsSettle
<1>4. KnobSettles(up[d], down[d], pending[d], knobs[d][p], live[p], p)
  BY DEF KnobsSettle
<1>5. CASE d # c
  BY <1>1, <1>2, <1>3, <1>4, <1>5 DEF KnobSettles, Leads, Follows
<1>6. CASE d = c
  <2>1. CASE Leads(up[c], down[c], pending[c], knobs[c][p], p)
    <3>1. m \notin UpdatesOf(p) /\ NoneIn(down'[c], UpdatesOf(p))
      <4>1. NoneIn(down[c], UpdatesOf(p))
        BY <2>1 DEF Leads
      <4>2. Head(down[c]) \notin UpdatesOf(p) /\ NoneIn(Tail(down[c]), UpdatesOf(p))
        BY <1>1, <4>1, TailLast
      <4> QED
        BY <1>1, <4>2 DEF m
    <3>2. knobs'[c][p] = knobs[c][p]
      BY <1>1, <1>3, <3>1
    <3> QED
      BY <1>1, <1>2, <1>6, <2>1, <3>1, <3>2 DEF KnobSettles, Leads
  <2>2. CASE Follows(up[c], down[c], pending[c], knobs[c][p], live[p], p)
    <3>1. Settles(down'[c], UpdatesOf(p), Update(p, knobs'[c][p]), Update(p, live[p]))
      BY <1>1, <1>3, <2>2, TailSettles DEF Follows, m
    <3> QED
      BY <1>1, <1>2, <1>6, <2>2, <3>1 DEF KnobSettles, Follows
  <2> QED
    BY <1>4, <1>6, <2>1, <2>2 DEF KnobSettles
<1> QED
  BY <1>5, <1>6

LEMMA TurnKnobs ==
    ASSUME TypeOK, KnobsSettle, NEW c \in Clients, NEW p \in Params, NEW v \in Values,
           Turn(c, p, v)
    PROVE  KnobsSettle'
<1> DEFINE overwritten == IF pending[c].type = "update" THEN {pending[c].id} ELSE {}
           coming == {down[c][i].id : i \in
                        {j \in DOMAIN down[c] : down[c][j].type = "update"}}
<1>1. /\ UNCHANGED <<live, up, down, connected>> /\ connected \subseteq Clients
      /\ pending'[c] = Update(p, v) /\ knobs'[c][p] = v
      /\ \A q \in Params \ {p} : knobs'[c][q] = knobs[c][q]
      /\ \A d \in Clients \ {c} :
            pending'[d] = pending[d] /\ knobs'[d] = knobs[d] /\ doubt'[d] = doubt[d]
  BY DEF Turn, TypeOK, Settings, firmware
<1>2. doubt'[c] = ((doubt[c] \union overwritten) \ {p}) \union ({p} \intersect coming)
  BY DEF Turn, TypeOK
<1>3. pending[c] \in ClientMessages \union {NoMessage}
  BY DEF TypeOK
<1>4. \A q \in Params : q \notin overwritten => pending[c] \notin UpdatesOf(q)
  BY <1>3 DEF UpdatesOf
<1>5. p \notin coming => NoneIn(down[c], UpdatesOf(p))
  BY DEF NoneIn, UpdatesOf
<1> HIDE DEF overwritten, coming
<1>6. \A q \in Params \ {p} : Update(p, v) \notin UpdatesOf(q)
  BY DEF Update, UpdatesOf
<1> SUFFICES ASSUME NEW d \in connected, NEW q \in Params \ doubt'[d]
             PROVE  KnobSettles(up[d], down[d], pending'[d], knobs'[d][q], live[q], q)
  BY <1>1 DEF KnobsSettle
<1>7. CASE d # c
  BY <1>1, <1>7 DEF KnobsSettle
<1>8. CASE d = c /\ q = p
  BY <1>1, <1>2, <1>5, <1>8 DEF KnobSettles, Leads
<1>9. CASE d = c /\ q # p
  <2>1. q \notin doubt[c] /\ pending[c] \notin UpdatesOf(q) /\ pending'[c] \notin UpdatesOf(q)
    BY <1>1, <1>2, <1>4, <1>6, <1>9
  <2>2. KnobSettles(up[c], down[c], pending[c], knobs[c][q], live[q], q)
    BY <1>9, <2>1 DEF KnobsSettle
  <2>3. Update(q, knobs[c][q]) \in UpdatesOf(q)
    BY MessageKinds, <1>1, <1>9 DEF TypeOK, Settings
  <2> QED
    BY <1>1, <1>9, <2>1, <2>2, <2>3 DEF KnobSettles, Leads, Follows
<1> QED
  BY <1>7, <1>8, <1>9

LEMMA ThrottleKnobs ==
    ASSUME TypeOK, KnobsSettle, NEW c \in Clients, Throttle(c)
    PROVE  KnobsSettle'
<1> DEFINE m == pending[c]
<1>1. /\ UNCHANGED <<live, down, connected, knobs, doubt>> /\ connected \subseteq Clients
      /\ m \in ClientMessages /\ ClientSends(c, <<m>>)
      /\ pending'[c] = NoMessage /\ \A d \in Clients \ {c} : pending'[d] = pending[d]
  BY DEF Throttle, TypeOK, firmware, history
<1>2. \A p : NoMessage \notin UpdatesOf(p)
  BY DEF NoMessage, UpdatesOf
<1> SUFFICES ASSUME NEW d \in connected, NEW p \in Params \ doubt[d]
             PROVE  KnobSettles(up'[d], down[d], pending'[d], knobs[d][p], live[p], p)
  BY <1>1 DEF KnobsSettle
<1>3. KnobSettles(up[d], down[d], pending[d], knobs[d][p], live[p], p)
  BY DEF KnobsSettle
<1>4. CASE d # c
  BY <1>1, <1>3, <1>4, ClientSendsFacts
<1>5. CASE d = c /\ m \in UpdatesOf(p)
  <2>1. m = Update(p, knobs[c][p]) /\ NoneIn(down[c], UpdatesOf(p))
    BY <1>3, <1>5 DEF KnobSettles, Leads, Follows
  <2>2. LastIn(<<m>>, UpdatesOf(p), m) /\ <<m>> \in Seq(ClientMessages)
    BY <1>1, <1>5 DEF LastIn
  <2>3. up'[c] = up[c] \o <<m>> /\ up[c] \in Seq(ClientMessages)
    BY <1>1, <1>5, ClientSendsFacts DEF TypeOK
  <2>4. LastIn(up[c] \o <<m>>, UpdatesOf(p), m)
    BY <2>2, <2>3, ConcatLast
  <2> QED
    BY <1>1, <1>2, <1>5, <2>1, <2>3, <2>4 DEF KnobSettles, Leads
<1>6. CASE d = c /\ m \notin UpdatesOf(p)
  <2>1. /\ NoneIn(up'[c], UpdatesOf(p)) <=> NoneIn(up[c], UpdatesOf(p))
        /\ \A x : LastIn(up[c], UpdatesOf(p), x) => LastIn(up'[c], UpdatesOf(p), x)
    BY <1>1, <1>6, ClientSendsFacts
  <2>2. Update(p, knobs[c][p]) \in UpdatesOf(p)
    BY <1>1, <1>6, MessageKinds DEF TypeOK, Settings
  <2> QED
    BY <1>1, <1>2, <1>3, <1>6, <2>1, <2>2 DEF KnobSettles, Leads, Follows
<1> QED
  BY <1>4, <1>5, <1>6

LEMMA StepKnobs == TypeOK /\ KnobsSettle /\ [Next]_vars => KnobsSettle'
<1> SUFFICES ASSUME TypeOK, KnobsSettle, [Next]_vars
             PROVE  KnobsSettle'
  OBVIOUS
<1> USE DEF KnobsSettle
<1>1. CASE UNCHANGED vars
  BY <1>1 DEF vars, firmware, clients, history
<1>2. ASSUME NEW c \in Clients, Connect(c)
      PROVE  KnobsSettle'
  <2>1. /\ connected' = connected \union {c} /\ connected \subseteq Clients
        /\ doubt'[c] = Params
        /\ \A d \in Clients \ {c} :
              up'[d] = up[d] /\ pending'[d] = pending[d] /\ doubt'[d] = doubt[d]
        /\ UNCHANGED <<live, down, knobs>>
    BY <1>2 DEF Connect, TypeOK, firmware
  <2> QED
    BY <2>1
<1>3. ASSUME NEW c \in Clients, Disconnect(c)
      PROVE  KnobsSettle'
  <2>1. /\ connected' = connected \ {c} /\ connected \subseteq Clients
        /\ \A d \in Clients \ {c} : up'[d] = up[d] /\ down'[d] = down[d]
        /\ UNCHANGED <<live, pending, knobs, doubt>>
    BY <1>3 DEF Disconnect, TypeOK, firmware, clients
  <2> QED
    BY <2>1
<1>4. CASE Restart
  BY <1>4 DEF Restart
<1>5. CASE \/ \E p \in Params, v \in Values : MidiSets(p, v)
           \/ \E id \in Ids : MidiLoads(id)
  <2>1. UNCHANGED <<connected, up, pending, knobs>> /\ \E messages : News(messages, {})
    BY <1>5, MidiNews DEF clients
  <2> QED
    BY <2>1, KnobHeard
<1>6. ASSUME NEW c \in Clients, UserActs(c) \/ Throttle(c) \/ CreateTimeout(c)
      PROVE  KnobsSettle'
  <2>1. CASE /\ UNCHANGED <<pending, knobs, doubt>>
             /\ \/ UNCHANGED up
                \/ \E m \in ClientMessages : m.type # "update" /\ ClientSends(c, <<m>>)
    <3>1. UNCHANGED <<live, down, connected>> /\ connected \subseteq Clients
      BY <1>6, ActSends DEF TypeOK, firmware
    <3>2. \A d \in Clients, p \in Params :
            /\ NoneIn(up[d], UpdatesOf(p)) => NoneIn(up'[d], UpdatesOf(p))
            /\ \A x : LastIn(up[d], UpdatesOf(p), x) => LastIn(up'[d], UpdatesOf(p), x)
      BY <2>1, ClientSendsFacts DEF UpdatesOf
    <3> QED
      BY <2>1, <3>1, <3>2 DEF KnobSettles, Leads, Follows
  <2> QED
    BY <1>6, <2>1, ActSends, TurnKnobs, ThrottleKnobs
<1> QED
  BY <1>1, <1>2, <1>3, <1>4, <1>5, <1>6, HandleKnobs, ReceiveKnobs DEF Next

-----------------------------------------------------------------------------
(* Theorems *)

LEMMA InitSettles == Init => PresetsSettle /\ SelectionSettles /\ KnobsSettle
<1> SUFFICES ASSUME Init
             PROVE  PresetsSettle /\ SelectionSettles /\ KnobsSettle
  OBVIOUS
<1>1. \A c \in Clients : up[c] = <<>> /\ down[c] = <<>> /\ pending[c] = NoMessage
  BY DEF Init
<1>2. \A c \in Clients : knobs[c] = live /\ copies[c] = store /\ shown[c] = selected
  BY DEF Init
<1>3. \A p : NoMessage \notin UpdatesOf(p)
  BY DEF NoMessage, UpdatesOf
<1>4. connected = Clients
  BY DEF Init
<1> QED
  BY <1>1, <1>2, <1>3, <1>4, EmptyNone
     DEF PresetsSettle, PresetSettles, SelectionSettles, KnobsSettle, KnobSettles, Follows, Settles

LEMMA QuietSettles ==
    ASSUME NEW S, NEW now, NEW m, Settles(<<>>, S, now, m)
    PROVE  now = m
  BY DEF Settles, LastIn

(* Whoever created, saved, deleted or brought back a preset last: when the *)
(* messages have arrived, every connected client shows it as it is stored, *)
(* unless it has no message of it since an operation of the flash failed   *)
(* (PresetsRepository, handle_message of the presets).                     *)
THEOREM PresetsConverge == Spec => []PresetsAgree
<1>1. TypeOK /\ PresetsSettle => PresetsAgree
  <2> SUFFICES ASSUME TypeOK, PresetsSettle, Quiet,
                      NEW c \in connected, NEW id \in Ids \ unheard[c], store[id] # NoPreset
               PROVE  copies[c][id] = store[id]
    BY DEF PresetsAgree
  <2>1. up[c] = <<>> /\ down[c] = <<>>
    BY DEF TypeOK, Quiet
  <2>2. Settles(<<>>, Notices(id), Notify(id, copies[c][id]), Notify(id, store[id]))
    BY <2>1, EmptyNone DEF PresetsSettle, PresetSettles
  <2>3. Notify(id, copies[c][id]) = Notify(id, store[id])
    BY <2>2, QuietSettles
  <2> QED
    BY <2>3 DEF Notify
<1> QED
  BY <1>1, InitSettles, StepPresets, TypeCorrect, PTL DEF Spec

(* When the messages have arrived, every connected client shows the        *)
(* selection that is stored, unless it has no message of it since a preset *)
(* could not be loaded or since the flash failed to give it the selection. *)
THEOREM SelectionConverges == Spec => []SelectionAgrees
<1>1. TypeOK /\ SelectionSettles => SelectionAgrees
  <2> SUFFICES ASSUME TypeOK, SelectionSettles, Quiet, selected # NoId,
                      NEW c \in connected, NoId \notin unheard[c]
               PROVE  shown[c] = selected
    BY DEF SelectionAgrees
  <2>1. up[c] = <<>> /\ down[c] = <<>>
    BY DEF TypeOK, Quiet
  <2>2. Settles(<<>>, Selections, Selected(shown[c]), Selected(selected))
    BY <2>1, EmptyNone DEF SelectionSettles
  <2>3. Selected(shown[c]) = Selected(selected)
    BY <2>2, QuietSettles
  <2> QED
    BY <2>3 DEF Selected
<1> QED
  BY <1>1, InitSettles, StepSelection, TypeCorrect, PTL DEF Spec

(* When the messages have arrived, every knob of every connected client    *)
(* stands where the parameter is, save those in doubt: turned while        *)
(* another's change was on its way, or with their last message overwritten *)
(* in the throttle.                                                        *)
THEOREM KnobsConverge == Spec => []KnobsAgree
<1>1. TypeOK /\ KnobsSettle => KnobsAgree
  <2> SUFFICES ASSUME TypeOK, KnobsSettle, Quiet,
                      NEW c \in connected, NEW p \in Params \ doubt[c]
               PROVE  knobs[c][p] = live[p]
    BY DEF KnobsAgree
  <2>1. up[c] = <<>> /\ down[c] = <<>> /\ pending[c] = NoMessage
    BY DEF TypeOK, Quiet
  <2>2. ~LastIn(<<>>, UpdatesOf(p), Update(p, knobs[c][p]))
    BY DEF LastIn
  <2>3. NoMessage # Update(p, knobs[c][p])
    BY DEF NoMessage, Update
  <2>4. Settles(<<>>, UpdatesOf(p), Update(p, knobs[c][p]), Update(p, live[p]))
    BY <2>1, <2>2, <2>3 DEF KnobsSettle, KnobSettles, Leads, Follows
  <2>5. Update(p, knobs[c][p]) = Update(p, live[p])
    BY <2>4, QuietSettles
  <2> QED
    BY <2>5 DEF Update
<1> QED
  BY <1>1, InitSettles, StepKnobs, TypeCorrect, PTL DEF Spec
=============================================================================
