----------------------------- MODULE DataProofs -----------------------------
(***************************************************************************)
(* Proofs about the two components whose properties are about values.      *)
(*                                                                         *)
(* ApiExchange, for any names, parameters, numbers of records, MIDI data   *)
(* and number of round trips: content survives, nothing gets lost but long *)
(* names, and every preset fits its buffer.                                *)
(*                                                                         *)
(* AudioTask, for any buffer size, any samples and any times of the gate:  *)
(* its gain fits its state, and hysteresis holds the gain.                 *)
(***************************************************************************)
EXTENDS ApiExchange, AudioTask, FiniteSetTheorems, NaturalsInduction,
        WellFoundedInduction, TLAPS

-----------------------------------------------------------------------------
(* The messages that may be anywhere, by what they have in them            *)

(* What parameters of presets may be, at either end                        *)
Thousandths == 0 .. 1000
Numbers == [type : {"float", "double"}, k : Thousandths]
SomePreset == [name : Names, parameters : [Params -> Numbers]]

NewPresets == [api : {"presets"}, kind : {"Create"}, preset : SomePreset]
PresetRecords(kinds) == [api : {"presets"}, kind : kinds, id : Ids, preset : SomePreset]
NewMappings == [api : {"mapping"}, kind : {"CreateRequest"}, mapping : Mappings]
MappingRecords(kinds) == [api : {"mapping"}, kind : kinds, id : Ids, mapping : Mappings]
Selections(kinds) == [api : {"selected"}, kind : kinds, selectedPresetId : Ids]
Values == [api : {"parameters"}, kind : {"Update"}, id : ParameterNames, value : Numbers]
Clips == [api : {"events"}, kind : {"InputClipped", "OutputClipped"}]
Controls == [api : {"mapping"}, kind : {"MessageReceived"}, message : MidiMessages]

(* Requests that say all by their kind, and by the number of a record      *)
Plain ==
    [api : {"parameters", "presets"}, kind : {"Initialise"}]
    \union [api : {"presets"}, kind : {"Delete"}, id : Ids]
    \union [api : {"selected"}, kind : {"Read"}]
    \union [api : {"mapping"}, kind : {"GetRequest"}]
    \union [api : {"mapping"}, kind : {"Remove"}, id : Ids]

WithPreset == NewPresets \union PresetRecords({"Update", "Notify"})
WithMapping == NewMappings \union MappingRecords({"CreateResponse", "Update"})
WithSelection == Selections({"Write", "Notify"})

(* What clients may ask for, and what the firmware may tell them           *)
Asked ==
    NewPresets \union PresetRecords({"Update"}) \union NewMappings
    \union MappingRecords({"Update"}) \union Selections({"Write"}) \union Values \union Plain
Told ==
    PresetRecords({"Notify"}) \union MappingRecords({"CreateResponse", "Update"})
    \union Selections({"Notify"}) \union Values \union Clips \union Controls

(* What may become of k thousandths                                        *)
Drifts(k, l) == k = l \/ (FallsShort(l) /\ k = l - 1)

PresetKept(a, b) ==
    /\ a.name = b.name
    /\ \A p \in Params : Drifts(a.parameters[p].k, b.parameters[p].k)

(* The record of m is that of o, if o has one.                             *)
RecordKept(m, o) == "id" \in DOMAIN o => "id" \in DOMAIN m /\ m.id = o.id

(* Message m has the content of o.                                         *)
Kept(m, o) ==
    \/ /\ m \in WithPreset /\ o \in WithPreset
       /\ PresetKept(m.preset, o.preset) /\ RecordKept(m, o)
    \/ m \in WithMapping /\ o \in WithMapping /\ m.mapping = o.mapping /\ RecordKept(m, o)
    \/ /\ m \in WithSelection /\ o \in WithSelection
       /\ m.selectedPresetId = o.selectedPresetId
    \/ m \in Values /\ o \in Values /\ m.id = o.id /\ m.value.k = o.value.k
    \/ m \in Plain \union Clips \union Controls /\ m = o
    \/ /\ m \in WithMapping /\ o \in Controls
       /\ m.mapping.midi_channel = o.message.channel
       /\ m.mapping.cc_number = o.message.data[1]

(* What the receiver of the frame will find in it                          *)
Decoded == FromProto(frame.proto).out
Heard == ClientFromProto(frame.proto)

(* What is asked for and told where the message is, and that the content   *)
(* of a frame will arrive                                                  *)
OnTheWay ==
    /\ at = "client" => msg \in IF rounds = 0 THEN Requests ELSE Told
    /\ at = "uplink" =>
          /\ FromProto(frame.proto).rc = 0
          /\ Decoded \in Asked /\ Kept(Decoded, origin)
          /\ frame.strings = StringsOf(Decoded)
    /\ at = "firmware" => msg \in Asked \union Clips \union Controls \union {Garbage}
    /\ at = "downlink" => Heard # NotSet /\ Heard[1] \in Told /\ Kept(Heard[1], origin)
    /\ at = "done" => Replies(msg) \union Reloaded(msg) = {} /\ msg \in Asked \union {Garbage}

(* The message, and what will be decoded of a frame, have the content that *)
(* was sent first, within one drift; that is what makes it inductive, since*)
(* two single thousandths would be too many.                               *)
IInv ==
    /\ origin \in Requests \union Events
    /\ msg = Garbage \/ Kept(msg, origin)
    /\ at = "lost" \/ msg = Garbage => ~Fits(StringsOf(origin))
    /\ rounds \in Nat
    /\ OnTheWay

-----------------------------------------------------------------------------
(* Induction on numbers *)

(* NatInduction of the library, for a set in place of its operator.        *)
LEMMA Induction ==
    ASSUME NEW T, 0 \in T, \A n \in Nat : n \in T => n + 1 \in T
    PROVE  Nat \subseteq T
<1> SUFFICES ASSUME Nat \ T # {}
             PROVE  FALSE
  OBVIOUS
<1>1. IsWellFoundedOn(OpToRel(<, Nat), Nat)
  BY NatLessThanWellFounded
<1>2. PICK x \in Nat \ T : \A y \in Nat \ T : ~(<<y, x>> \in OpToRel(<, Nat))
  BY <1>1, WFMin
<1>3. x - 1 \in Nat \ T /\ x - 1 < x
  OBVIOUS
<1>4. <<x - 1, x>> \in OpToRel(<, Nat)
  BY <1>3 DEF OpToRel
<1> QED
  BY <1>2, <1>3, <1>4

-----------------------------------------------------------------------------
(* Sums over finite sets, as the folds of the library compute them         *)

(* MapThenFoldSet, as FoldFunction uses it, takes this element of a set    *)
(* first.                                                                  *)
Chosen(s) == CHOOSE x \in s : TRUE
Rest(s) == s \ {Chosen(s)}

(* h gives the sum of f over each set of D.                                *)
Sums(f, D, h) ==
    h = [s \in D |-> IF s = {} THEN 0 ELSE f[Chosen(s)] + h[Rest(s)]]

(* The fold is the sum over the whole domain, if there are such sums.      *)
LEMMA FoldIsSum ==
    ASSUME NEW f, \E h : Sums(f, SUBSET DOMAIN f, h)
    PROVE  \E h : Sums(f, SUBSET DOMAIN f, h) /\ FoldFunction(+, 0, f) = h[DOMAIN f]
<1> DEFINE h == CHOOSE h : Sums(f, SUBSET DOMAIN f, h)
<1>1. Sums(f, SUBSET DOMAIN f, h)
  OBVIOUS
<1>2. FoldFunction(+, 0, f) = h[DOMAIN f]
  BY DEF FoldFunction, FoldFunctionOnSet, MapThenFoldSet, Sums, Chosen, Rest
<1> QED
  BY <1>1, <1>2

(* Subsets of at most n elements                                           *)
AtMost(S, n) == {s \in SUBSET S : Cardinality(s) <= n}

LEMMA RestSmaller ==
    ASSUME NEW S, IsFiniteSet(S), NEW n \in Nat, NEW s \in AtMost(S, n + 1), s # {}
    PROVE  Chosen(s) \in s /\ Rest(s) \in AtMost(S, n)
<1>1. Chosen(s) \in s
  BY DEF Chosen
<1>2. IsFiniteSet(s)
  BY FS_Subset DEF AtMost
<1>3. Cardinality(Rest(s)) = Cardinality(s) - 1 /\ Cardinality(s) \in Nat
  BY <1>1, <1>2, FS_RemoveElement, FS_CardinalityType DEF Rest
<1> QED
  BY <1>1, <1>3 DEF AtMost, Rest

LEMMA EmptyAlone ==
    ASSUME NEW S, IsFiniteSet(S)
    PROVE  AtMost(S, 0) = {{}} /\ AtMost(S, Cardinality(S)) = SUBSET S
<1>1. \A s \in SUBSET S : IsFiniteSet(s) /\ Cardinality(s) \in Nat
                          /\ Cardinality(s) <= Cardinality(S)
  BY FS_Subset, FS_CardinalityType
<1>2. \A s \in SUBSET S : Cardinality(s) = 0 <=> s = {}
  BY <1>1, FS_EmptySet
<1> QED
  BY <1>1, <1>2 DEF AtMost

(* There are sums over the subsets of a finite set, by induction on their  *)
(* size.                                                                   *)
LEMMA SumsExist ==
    ASSUME NEW S, IsFiniteSet(S), NEW f
    PROVE  \E h : Sums(f, SUBSET S, h)
<1> DEFINE T == {n \in Nat : \E h : Sums(f, AtMost(S, n), h)}
<1>1. 0 \in T
  <2> DEFINE h == [s \in {{}} |-> 0]
  <2>1. h = [s \in {{}} |-> IF s = {} THEN 0 ELSE f[Chosen(s)] + h[Rest(s)]]
    OBVIOUS
  <2> QED
    BY <2>1, EmptyAlone DEF Sums
<1>2. ASSUME NEW n \in Nat, n \in T
      PROVE  n + 1 \in T
  <2>1. PICK h : h = [s \in AtMost(S, n) |->
                        IF s = {} THEN 0 ELSE f[Chosen(s)] + h[Rest(s)]]
    BY <1>2 DEF Sums
  <2> DEFINE g == [s \in AtMost(S, n + 1) |->
                     IF s = {} THEN 0 ELSE f[Chosen(s)] + h[Rest(s)]]
  <2>2. \A s \in AtMost(S, n) : s \in AtMost(S, n + 1)
    BY FS_Subset, FS_CardinalityType DEF AtMost
  <2>3. \A s \in AtMost(S, n) : g[s] = h[s]
    BY <2>1, <2>2
  <2>4. \A s \in AtMost(S, n + 1) : s # {} => g[Rest(s)] = h[Rest(s)]
    BY <2>3, RestSmaller
  <2> HIDE DEF g
  <2>5. g = [s \in AtMost(S, n + 1) |->
               IF s = {} THEN 0 ELSE f[Chosen(s)] + g[Rest(s)]]
    BY <2>4 DEF g
  <2> QED
    BY <2>5 DEF Sums
<1> HIDE DEF T
<1>3. Cardinality(S) \in T
  BY <1>1, <1>2, Induction, FS_CardinalityType
<1>4. \E h : Sums(f, AtMost(S, Cardinality(S)), h)
  BY <1>3 DEF T
<1>5. AtMost(S, Cardinality(S)) = SUBSET S
  BY EmptyAlone
<1> QED
  BY <1>4, <1>5

(* A sum of smaller numbers is not greater.                                *)
LEMMA SumsMonotone ==
    ASSUME NEW S, IsFiniteSet(S), NEW f \in [S -> Int], NEW g \in [S -> Int],
           \A x \in S : f[x] <= g[x],
           NEW h, Sums(f, SUBSET S, h), NEW i, Sums(g, SUBSET S, i)
    PROVE  h[S] \in Int /\ i[S] \in Int /\ h[S] <= i[S]
<1> DEFINE T == {n \in Nat : \A s \in AtMost(S, n) :
                     h[s] \in Int /\ i[s] \in Int /\ h[s] <= i[s]}
<1>0. \A s \in SUBSET S : /\ h[s] = IF s = {} THEN 0 ELSE f[Chosen(s)] + h[Rest(s)]
                          /\ i[s] = IF s = {} THEN 0 ELSE g[Chosen(s)] + i[Rest(s)]
  BY DEF Sums
<1>1. 0 \in T
  BY <1>0, EmptyAlone
<1>2. ASSUME NEW n \in Nat, n \in T
      PROVE  n + 1 \in T
  <2> SUFFICES ASSUME NEW s \in AtMost(S, n + 1)
               PROVE  h[s] \in Int /\ i[s] \in Int /\ h[s] <= i[s]
    OBVIOUS
  <2>1. CASE s = {}
    BY <1>0, <2>1
  <2>2. CASE s # {}
    <3>1. Chosen(s) \in S /\ Rest(s) \in AtMost(S, n) /\ s \in SUBSET S
      BY <2>2, RestSmaller DEF AtMost
    <3>2. h[Rest(s)] \in Int /\ i[Rest(s)] \in Int /\ h[Rest(s)] <= i[Rest(s)]
      BY <1>2, <3>1
    <3>3. f[Chosen(s)] \in Int /\ g[Chosen(s)] \in Int /\ f[Chosen(s)] <= g[Chosen(s)]
      BY <3>1
    <3>4. h[s] = f[Chosen(s)] + h[Rest(s)] /\ i[s] = g[Chosen(s)] + i[Rest(s)]
      BY <1>0, <2>2, <3>1
    <3> QED
      BY <3>2, <3>3, <3>4
  <2> QED
    BY <2>1, <2>2
<1> HIDE DEF T
<1>3. Cardinality(S) \in T
  BY <1>1, <1>2, Induction, FS_CardinalityType
<1>4. S \in AtMost(S, Cardinality(S))
  BY EmptyAlone
<1> QED
  BY <1>3, <1>4 DEF T

(* Hence the fold of smaller numbers is not greater.                       *)
LEMMA FoldMonotone ==
    ASSUME NEW S, IsFiniteSet(S), NEW f \in [S -> Int], NEW g \in [S -> Int],
           \A x \in S : f[x] <= g[x]
    PROVE  /\ FoldFunction(+, 0, f) \in Int /\ FoldFunction(+, 0, g) \in Int
           /\ FoldFunction(+, 0, f) <= FoldFunction(+, 0, g)
<1>0. DOMAIN f = S /\ DOMAIN g = S
  OBVIOUS
<1>1. PICK h : Sums(f, SUBSET S, h) /\ FoldFunction(+, 0, f) = h[S]
  BY <1>0, SumsExist, FoldIsSum
<1>2. PICK i : Sums(g, SUBSET S, i) /\ FoldFunction(+, 0, g) = i[S]
  BY <1>0, SumsExist, FoldIsSum
<1> QED
  BY <1>1, <1>2, SumsMonotone

-----------------------------------------------------------------------------
(* The buffer of presets has room for all parameters *)

(* What the code's sizes amount to, without the rest of the assumption     *)
LEMMA Room ==
    /\ IsFiniteSet(Params) /\ RestBytes \in Nat /\ TagBytes \in [Params -> 1 .. 2]
    /\ RestBytes + FoldFunction(+, 0, [p \in Params |-> TagBytes[p] + 2])
          <= BlobBytes - (2 + MaxName) - 2
BY ExchangeAssumption

LEMMA Varints ==
    ASSUME NEW n \in 0 .. 1000
    PROVE  VarintBytes(n) \in {1, 2}
BY DEF VarintBytes

(* No parameters take more bytes than the longest value of each.           *)
LEMMA FieldsFit ==
    ASSUME NEW q \in [Params -> 0 .. 1000]
    PROVE  FieldsBytes(q) \in Int /\ FieldsBytes(q) <= 65
<1> DEFINE f == [p \in Params |-> IF q[p] = 0 THEN 0 ELSE TagBytes[p] + VarintBytes(q[p])]
           g == [p \in Params |-> TagBytes[p] + 2]
           longest == FoldFunction(+, 0, g)
           all == FoldFunction(+, 0, f)
<1>1. IsFiniteSet(Params) /\ RestBytes \in Nat /\ TagBytes \in [Params -> 1 .. 2]
  BY Room
<1>2. \A p \in Params : VarintBytes(q[p]) \in {1, 2}
  <2> SUFFICES ASSUME NEW p \in Params
               PROVE  VarintBytes(q[p]) \in {1, 2}
    OBVIOUS
  <2>1. q[p] \in 0 .. 1000
    OBVIOUS
  <2> QED
    BY <2>1, Varints
<1>3. f \in [Params -> Int] /\ g \in [Params -> Int]
  BY <1>1, <1>2
<1>4. \A p \in Params : f[p] <= g[p]
  BY <1>1, <1>2
<1>6. RestBytes + longest <= BlobBytes - (2 + MaxName) - 2
  BY Room
<1>7. FieldsBytes(q) = RestBytes + all
  BY DEF FieldsBytes
<1> HIDE DEF f, g
<1>5. all \in Int /\ longest \in Int /\ all <= longest
  BY <1>1, <1>3, <1>4, FoldMonotone
<1> HIDE DEF longest, all
<1> QED
  BY <1>1, <1>5, <1>6, <1>7 DEF BlobBytes, MaxName

-----------------------------------------------------------------------------
(* Thousandths and floats *)

(* Powers of two, as a table that the provers can look into                *)
Power == [j \in 0 .. 32 |-> 2^j]

LEMMA Powers ==
    /\ Power[0] = 1 /\ Power[1] = 2 /\ Power[2] = 4 /\ Power[3] = 8 /\ Power[4] = 16
    /\ Power[5] = 32 /\ Power[6] = 64 /\ Power[7] = 128 /\ Power[8] = 256
    /\ Power[9] = 512 /\ Power[10] = 1024 /\ Power[11] = 2048 /\ Power[12] = 4096
    /\ Power[13] = 8192 /\ Power[14] = 16384 /\ Power[15] = 32768
    /\ Power[16] = 65536 /\ Power[17] = 131072 /\ Power[18] = 262144
    /\ Power[19] = 524288 /\ Power[20] = 1048576 /\ Power[21] = 2097152
    /\ Power[22] = 4194304 /\ Power[23] = 8388608 /\ Power[24] = 16777216
    /\ Power[25] = 33554432 /\ Power[26] = 67108864 /\ Power[27] = 134217728
    /\ Power[28] = 268435456 /\ Power[29] = 536870912 /\ Power[30] = 1073741824
    /\ Power[31] = 2147483648 /\ Power[32] = 4294967296
<1>1. /\ 2^0 = 1 /\ 2^1 = 2 /\ 2^2 = 4 /\ 2^3 = 8 /\ 2^4 = 16 /\ 2^5 = 32
      /\ 2^6 = 64 /\ 2^7 = 128 /\ 2^8 = 256 /\ 2^9 = 512 /\ 2^10 = 1024
      /\ 2^11 = 2048 /\ 2^12 = 4096 /\ 2^13 = 8192 /\ 2^14 = 16384 /\ 2^15 = 32768
      /\ 2^16 = 65536 /\ 2^17 = 131072 /\ 2^18 = 262144 /\ 2^19 = 524288
      /\ 2^20 = 1048576 /\ 2^21 = 2097152 /\ 2^22 = 4194304 /\ 2^23 = 8388608
      /\ 2^24 = 16777216 /\ 2^25 = 33554432 /\ 2^26 = 67108864 /\ 2^27 = 134217728
      /\ 2^28 = 268435456 /\ 2^29 = 536870912 /\ 2^30 = 1073741824
      /\ 2^31 = 2147483648 /\ 2^32 = 4294967296
  OBVIOUS
<1> QED
  BY <1>1 DEF Power

LEMMA OctaveInRange ==
    ASSUME NEW k \in 1 .. 1000
    PROVE  Octave(k) \in 0 .. 9 /\ Power[Octave(k)] <= k /\ k < 2 * Power[Octave(k)]
<1>1. \E j \in 0 .. 30 : Power[j] <= k /\ k < 2 * Power[j]
  BY Powers
<1>2. Octave(k) = CHOOSE j \in 0 .. 30 : Power[j] <= k /\ k < 2 * Power[j]
  BY DEF Octave, Power
<1>3. Octave(k) \in 0 .. 30 /\ Power[Octave(k)] <= k /\ k < 2 * Power[Octave(k)]
  BY <1>1, <1>2
<1>4. Octave(k) \in 0 .. 9
  BY <1>3, Powers
<1> QED
  BY <1>3, <1>4

(* Of the thousandths that a parameter may have, only these are not        *)
(* recovered from the nearest float (presets_api.cpp multiplies a float by *)
(* 1000 and converts it to an integer).                                    *)
THEOREM FewFallShort ==
    ASSUME NEW k \in 0 .. 1000, FallsShort(k)
    PROVE  k \in {251, 253, 502, 506, 511}
<1> DEFINE j == Octave(k)
<1>1. k \in 1 .. 1000
  BY DEF FallsShort
<1>2. j \in 0 .. 9 /\ Power[j] <= k /\ k < 2 * Power[j]
  BY <1>1, OctaveInRange
<1>3. /\ 512 * k >= 1000 * Power[j]
      /\ ((k % 1000) * (Power[32 - j] % 1000)) % 1000 \in 257 .. 499
  <2>1. /\ 512 * k >= 1000 * 2^j
        /\ ((k % 1000) * (2^(32 - j) % 1000)) % 1000 \in 257 .. 499
    BY DEF FallsShort
  <2>2. j \in 0 .. 32 /\ 32 - j \in 0 .. 32
    BY <1>2
  <2>3. 2^j = Power[j] /\ 2^(32 - j) = Power[32 - j]
    BY <2>2, Zenon DEF Power
  <2> QED
    BY <2>1, <2>3
<1> HIDE DEF j
<1>4. CASE j \in 0 .. 4
  BY <1>1, <1>2, <1>3, <1>4, Powers
<1>5. CASE j = 5
  BY <1>1, <1>2, <1>3, <1>5, Powers
<1>6. CASE j = 6
  <2>1. k \in {125, 126, 127} /\ Power[32 - 6] % 1000 = 864
    BY <1>1, <1>2, <1>3, <1>6, Powers
  <2> QED
    BY <1>3, <1>6, <2>1
<1>7. CASE j = 7
  <2>1. k \in {250, 251, 252, 253, 254, 255} /\ Power[32 - 7] % 1000 = 432
    BY <1>1, <1>2, <1>3, <1>7, Powers
  <2> QED
    BY <1>3, <1>7, <2>1
<1>8. CASE j = 8
  <2>1. k \in {500, 501, 502, 503, 504, 505, 506, 507, 508, 509, 510, 511}
        /\ Power[32 - 8] % 1000 = 216
    BY <1>1, <1>2, <1>3, <1>8, Powers
  <2> QED
    BY <1>3, <1>8, <2>1
<1>9. CASE j = 9
  <2>1. k = 1000
    BY <1>1, <1>2, <1>3, <1>9, Powers
  <2> QED
    BY <1>3, <1>9, <2>1, Powers
<1> QED
  BY <1>2, <1>4, <1>5, <1>6, <1>7, <1>8, <1>9

(* No two of them are neighbours: what has lost a thousandth loses no      *)
(* more.                                                                   *)
LEMMA DriftsOnce ==
    ASSUME NEW k \in Thousandths, NEW l \in Thousandths, NEW n \in Thousandths,
           Drifts(k, l), Drifts(l, n)
    PROVE  Drifts(k, n)
<1>1. CASE k = l \/ l = n
  BY <1>1 DEF Drifts
<1>2. CASE FallsShort(l) /\ FallsShort(n) /\ l = n - 1
  BY <1>2, FewFallShort DEF Thousandths
<1> QED
  BY <1>1, <1>2 DEF Drifts

(* What presets_api.cpp writes of a parameter is at most one drift away.   *)
LEMMA ThousandthsDrift ==
    ASSUME NEW x \in Numbers
    PROVE  ToThousandths(x) \in Thousandths /\ Drifts(ToThousandths(x), x.k)
<1>1. x.k \in Thousandths /\ Magnitude(x.k) = x.k
  BY DEF Numbers, Magnitude, Thousandths
<1>2. FallsShort(x.k) => x.k > 0
  BY DEF FallsShort
<1>3. ToThousandths(x) = IF ~FallsShort(x.k) THEN x.k ELSE x.k - 1
  BY <1>1 DEF ToThousandths, Thousandths
<1> QED
  BY <1>1, <1>2, <1>3 DEF Drifts, Thousandths

LEMMA DriftsNear ==
    ASSUME NEW k \in Thousandths, NEW l \in Thousandths, Drifts(k, l)
    PROVE  Magnitude(k - l) <= MaxDrift
BY DEF Drifts, Magnitude, MaxDrift, Thousandths

-----------------------------------------------------------------------------
(* Presets *)

LEMMA ParametersInRange ==
    ASSUME NEW a \in SomePreset, NEW p \in Params
    PROVE  a.parameters[p].k \in Thousandths
<1>1. a.parameters \in [Params -> Numbers]
  BY DEF SomePreset
<1>2. a.parameters[p] \in Numbers
  BY <1>1
<1> QED
  BY <1>2 DEF Numbers

LEMMA PresetKeptTwice ==
    ASSUME NEW a \in SomePreset, NEW b \in SomePreset, NEW c \in SomePreset,
           PresetKept(a, b), PresetKept(b, c)
    PROVE  PresetKept(a, c)
<1> SUFFICES ASSUME NEW p \in Params
             PROVE  Drifts(a.parameters[p].k, c.parameters[p].k)
  BY DEF PresetKept
<1> DEFINE Of(x) == x.parameters[p].k
<1>1. \A x \in SomePreset : Of(x) \in Thousandths
  BY ParametersInRange
<1>2. Drifts(Of(a), Of(b)) /\ Drifts(Of(b), Of(c))
  BY DEF PresetKept
<1>3. Of(a) \in Thousandths /\ Of(b) \in Thousandths /\ Of(c) \in Thousandths
  BY <1>1
<1> HIDE DEF Of
<1>4. Drifts(Of(a), Of(c))
  BY <1>2, <1>3, DriftsOnce
<1> QED
  BY <1>4 DEF Of

(* A preset of the firmware reaches flash, and a client, with at most one  *)
(* drift.                                                                  *)
LEMMA FirmwareSendsPreset ==
    ASSUME NEW a \in SomePreset
    PROVE  /\ PresetFromProto(PresetToProto(a)) \in SomePreset
           /\ PresetKept(PresetFromProto(PresetToProto(a)), a)
           /\ ClientPresetFromProto(PresetToProto(a)) \in SomePreset
           /\ PresetKept(ClientPresetFromProto(PresetToProto(a)), a)
<1> DEFINE q == [p \in Params |-> ToThousandths(a.parameters[p])]
           r == [p \in Params |-> Number("float", q[p])]
           s == [p \in Params |-> Number("double", q[p])]
<1>1. PresetToProto(a) = [name |-> a.name, parameters |-> <<q>>]
  BY DEF PresetToProto, ParametersToProto, Set
<1>2. \A p \in Params : q[p] \in Thousandths /\ Drifts(q[p], a.parameters[p].k)
  BY ThousandthsDrift DEF SomePreset
<1> HIDE DEF q
<1>3. /\ PresetFromProto(PresetToProto(a)) = [name |-> a.name, parameters |-> r]
      /\ ClientPresetFromProto(PresetToProto(a)) = [name |-> a.name, parameters |-> s]
  BY <1>1 DEF PresetFromProto, ParametersFromProto, ClientPresetFromProto, Field, NotSet,
             ToDouble
<1>4. /\ r \in [Params -> Numbers] /\ \A p \in Params : r[p].k = q[p]
      /\ s \in [Params -> Numbers] /\ \A p \in Params : s[p].k = q[p]
  BY <1>2 DEF Number, Numbers
<1> HIDE DEF r, s
<1> QED
  BY <1>2, <1>3, <1>4 DEF SomePreset, PresetKept

(* A preset of a client reaches the firmware as it is.                     *)
LEMMA ClientSendsPreset ==
    ASSUME NEW a \in SomePreset
    PROVE  /\ PresetFromProto(ClientPresetToProto(a)) \in SomePreset
           /\ PresetKept(PresetFromProto(ClientPresetToProto(a)), a)
<1> DEFINE q == [p \in Params |-> a.parameters[p].k]
           r == [p \in Params |-> Number("float", q[p])]
<1>1. ClientPresetToProto(a) = [name |-> a.name, parameters |-> <<q>>]
  BY DEF ClientPresetToProto, RoundThousandths, Set
<1>2. PresetFromProto(ClientPresetToProto(a)) = [name |-> a.name, parameters |-> r]
  BY <1>1 DEF PresetFromProto, ParametersFromProto, Field, NotSet
<1>3. \A p \in Params : q[p] \in Thousandths /\ q[p] = a.parameters[p].k
  BY DEF SomePreset, Numbers
<1> HIDE DEF q
<1>4. r \in [Params -> Numbers] /\ \A p \in Params : r[p].k = q[p]
  BY <1>3 DEF Number, Numbers
<1> HIDE DEF r
<1> QED
  BY <1>2, <1>3, <1>4 DEF SomePreset, PresetKept, Drifts

-----------------------------------------------------------------------------
(* What is kept *)

LEMMA KeptItself ==
    ASSUME NEW m \in Asked \union Told
    PROVE  Kept(m, m)
<1>1. \/ m \in WithPreset \/ m \in WithMapping \/ m \in WithSelection \/ m \in Values
      \/ m \in Plain \union Clips \union Controls
  BY DEF Asked, Told, WithPreset, WithMapping, WithSelection, PresetRecords, MappingRecords,
         Selections
<1> QED
  BY <1>1 DEF Kept, PresetKept, Drifts, RecordKept

(* What has content tells its class by its API, and by its kind.           *)
LEMMA Classes ==
    /\ \A m \in WithPreset : m.api = "presets"
    /\ \A m \in WithMapping : m.api = "mapping" /\ m.kind # "MessageReceived"
    /\ \A m \in WithSelection : m.api = "selected"
    /\ \A m \in Values : m.api = "parameters"
    /\ \A m \in Clips : m.api = "events"
    /\ \A m \in Controls : m.api = "mapping" /\ m.kind = "MessageReceived"
BY DEF WithPreset, NewPresets, PresetRecords, WithMapping, NewMappings, MappingRecords,
       WithSelection, Selections, Values, Clips, Controls

(* However many conversions there have been, the content is that of the    *)
(* first message.                                                          *)
LEMMA KeptTwice ==
    ASSUME NEW m, NEW n, NEW o, Kept(m, n), Kept(n, o)
    PROVE  Kept(m, o)
<1>1. CASE /\ n \in WithPreset /\ m \in WithPreset
           /\ PresetKept(m.preset, n.preset) /\ RecordKept(m, n)
  <2>1. CASE n = o
    BY <2>1
  <2>2. CASE o \in WithPreset /\ PresetKept(n.preset, o.preset) /\ RecordKept(n, o)
    <3>1. m.preset \in SomePreset /\ n.preset \in SomePreset /\ o.preset \in SomePreset
      BY <1>1, <2>2 DEF WithPreset, NewPresets, PresetRecords
    <3>2. PresetKept(m.preset, o.preset)
      BY <1>1, <2>2, <3>1, PresetKeptTwice
    <3> QED
      BY <1>1, <2>2, <3>2 DEF Kept, RecordKept
  <2> QED
    BY <1>1, <2>1, <2>2, Classes DEF Kept
<1>2. CASE /\ n \in WithMapping /\ m \in WithMapping
           /\ m.mapping = n.mapping /\ RecordKept(m, n)
  BY <1>2, Classes DEF Kept, RecordKept
<1>3. CASE /\ n \in WithSelection /\ m \in WithSelection
           /\ m.selectedPresetId = n.selectedPresetId
  BY <1>3, Classes DEF Kept
<1>4. CASE n \in Values /\ m \in Values /\ m.id = n.id /\ m.value.k = n.value.k
  BY <1>4, Classes DEF Kept
<1>5. CASE m = n
  BY <1>5
<1>6. CASE /\ m \in WithMapping /\ n \in Controls
           /\ m.mapping.midi_channel = n.message.channel
           /\ m.mapping.cc_number = n.message.data[1]
  BY <1>6, Classes DEF Kept
<1> QED
  BY <1>1, <1>2, <1>3, <1>4, <1>5, <1>6 DEF Kept

-----------------------------------------------------------------------------
(* Up: what a client sends *)

LEMMA ParametersWhole == Parameters \subseteq [Params -> Thousandths]
<1>1. Parameters \subseteq [Params -> 0 .. 1000]
  BY ExchangeAssumption
<1> QED
  BY <1>1 DEF Thousandths

(* The user can only ask for what clients may ask for.                     *)
LEMMA RequestsAreAsked == Requests \subseteq Asked
<1>1. Presets \subseteq SomePreset
  <2> SUFFICES ASSUME NEW name \in Names, NEW f \in Parameters
               PROVE  [name |-> name, parameters |-> [p \in Params |-> ToDouble(f[p])]]
                         \in SomePreset
    BY DEF Presets
  <2>1. f \in [Params -> Thousandths]
    BY ParametersWhole
  <2>2. [p \in Params |-> ToDouble(f[p])] \in [Params -> Numbers]
    BY <2>1 DEF ToDouble, Number, Numbers
  <2> QED
    BY <2>2 DEF SomePreset
<1>2. [api : {"parameters"}, kind : {"Update"}, id : ParameterNames,
       value : {ToDouble(f[p]) : f \in Parameters, p \in Params}] \subseteq Values
  <2>1. ASSUME NEW f \in Parameters, NEW p \in Params
        PROVE  ToDouble(f[p]) \in Numbers
    <3>1. f \in [Params -> Thousandths]
      BY ParametersWhole
    <3> QED
      BY <3>1 DEF ToDouble, Number, Numbers
  <2> QED
    BY <2>1 DEF Values
<1>3. PresetRequests \subseteq Asked
  BY <1>1 DEF PresetRequests, Asked, NewPresets, PresetRecords, Plain
<1>4. ParameterRequests \subseteq Asked
  BY <1>2 DEF ParameterRequests, Asked, Plain
<1>5. SelectionRequests \subseteq Asked
  BY DEF SelectionRequests, Asked, Selections, Plain
<1>6. MappingRequests \subseteq Asked
  BY DEF MappingRequests, Asked, NewMappings, MappingRecords, Plain
<1> QED
  BY <1>3, <1>4, <1>5, <1>6 DEF Requests

LEMMA EventsAre == Events = Clips \union Controls
BY DEF Events, Clips, Controls

(* The firmware understands what a client sends, and has its content.      *)
Arrives(m) ==
    /\ ClientToProto(m) # NotSet
    /\ LET received == FromProto(ClientToProto(m)[1])
       IN /\ received.rc = 0
          /\ received.out \in Asked
          /\ Kept(received.out, m)
          /\ StringsOf(received.out) = StringsOf(m)

LEMMA NewPresetArrives ==
    ASSUME NEW m \in NewPresets
    PROVE  Arrives(m)
<1>1. PICK a \in SomePreset : m = [api |-> "presets", kind |-> "Create", preset |-> a]
  BY DEF NewPresets
<1> DEFINE sent == [which |-> "create", preset |-> <<ClientPresetToProto(a)>>]
           b == PresetFromProto(ClientPresetToProto(a))
           received == [api |-> "presets", kind |-> "Create", preset |-> b]
<1>2. ClientPresetsToProto(m) = sent
  BY <1>1 DEF ClientPresetsToProto, Set
<1>3. ClientToProto(m) = <<[which |-> "preset", message |-> sent]>>
  BY <1>1, <1>2 DEF ClientToProto, Tag, Set
<1>4. PresetsFromProto(sent) = [rc |-> 0, out |-> received]
  BY DEF PresetsFromProto, Done, Field, NotSet
<1>5. FromProto([which |-> "preset", message |-> sent]) = [rc |-> 0, out |-> received]
  BY <1>4 DEF FromProto, Done
<1>6. b \in SomePreset /\ PresetKept(b, a)
  BY ClientSendsPreset
<1> HIDE DEF b
<1>7. received \in NewPresets /\ received \in Asked
  BY <1>6 DEF NewPresets, Asked
<1>8. Kept(received, m)
  BY <1>1, <1>6, <1>7 DEF Kept, WithPreset, RecordKept
<1>9. StringsOf(received) = {b.name} /\ StringsOf(m) = {a.name}
  BY <1>1 DEF StringsOf
<1>10. b.name = a.name
  BY <1>6 DEF PresetKept
<1> QED
  BY <1>3, <1>5, <1>7, <1>8, <1>9, <1>10 DEF Arrives, NotSet

LEMMA PresetRecordArrives ==
    ASSUME NEW m \in PresetRecords({"Update"})
    PROVE  Arrives(m)
<1>1. PICK a \in SomePreset, id \in Ids :
         m = [api |-> "presets", kind |-> "Update", id |-> id, preset |-> a]
  BY DEF PresetRecords
<1> DEFINE record == [id |-> id, preset |-> <<ClientPresetToProto(a)>>]
           sent == [which |-> "update", preset |-> <<record>>]
           b == PresetFromProto(ClientPresetToProto(a))
           received == [api |-> "presets", kind |-> "Update", id |-> id, preset |-> b]
<1>2. ClientPresetsToProto(m) = sent
  BY <1>1 DEF ClientPresetsToProto, ClientRecordToProto, Set
<1>3. ClientToProto(m) = <<[which |-> "preset", message |-> sent]>>
  BY <1>1, <1>2 DEF ClientToProto, Tag, Set
<1>4. PresetRecordFromProto("Update", record) = received
  BY DEF PresetRecordFromProto, Field, NotSet
<1>5. PresetsFromProto(sent) = [rc |-> 0, out |-> received]
  BY <1>4 DEF PresetsFromProto, Done, Field, NotSet
<1>6. FromProto([which |-> "preset", message |-> sent]) = [rc |-> 0, out |-> received]
  BY <1>5 DEF FromProto, Done
<1>7. b \in SomePreset /\ PresetKept(b, a)
  BY ClientSendsPreset
<1> HIDE DEF b
<1>8. received \in PresetRecords({"Update"}) /\ received \in Asked
  BY <1>7 DEF PresetRecords, Asked
<1>9. received \in WithPreset /\ m \in WithPreset
  BY <1>7, <1>8 DEF WithPreset, PresetRecords
<1>10. Kept(received, m)
  BY <1>1, <1>7, <1>9 DEF Kept, RecordKept
<1>11. StringsOf(received) = {b.name} /\ StringsOf(m) = {a.name}
  BY <1>1 DEF StringsOf
<1>12. b.name = a.name
  BY <1>7 DEF PresetKept
<1> QED
  BY <1>3, <1>6, <1>8, <1>10, <1>11, <1>12 DEF Arrives, NotSet

LEMMA ArrivesUnchanged ==
    ASSUME NEW m \in Asked, NEW p, ClientToProto(m) = <<p>>,
           FromProto(p) = [rc |-> 0, out |-> m]
    PROVE  Arrives(m)
BY KeptItself DEF Arrives, NotSet

(* MIDI data are not changed by narrowing them to bytes.                   *)
LEMMA SmallEnough == \A n \in DataBytes : n % 256 = n
<1>1. DataBytes \subseteq 0 .. 127
  BY ExchangeAssumption
<1> QED
  BY <1>1

(* Mappings are the same for clients, in protos and in the firmware.       *)
LEMMA MappingUnchanged ==
    ASSUME NEW f \in Mappings
    PROVE  /\ ClientMapping(f) = f
           /\ MappingToProto(f) = f
           /\ MappingFromProto(f) = [rc |-> 0, out |-> f]
<1>1. PICK ch \in DataBytes, cc \in DataBytes, mode \in Modes,
           name \in ParameterNames \union {NoName}, id \in Ids \union {0} :
         /\ f = [midi_channel |-> ch, cc_number |-> cc, mode |-> mode,
                 parameter_name |-> name, preset_id |-> id]
         /\ mode = "button" => name = NoName
         /\ mode # "button" => id = 0
  BY DEF Mappings, Modes
<1>2. ch % 256 = ch /\ cc % 256 = cc
  BY SmallEnough
<1>3. MappingToProto(f) = f
  BY <1>1 DEF MappingToProto
<1>4. MappingFromProto(f) = [rc |-> 0, out |-> f]
  BY <1>1, <1>2 DEF MappingFromProto, Done
<1>5. ClientMapping(f) = f
  BY <1>1 DEF ClientMapping
<1> QED
  BY <1>3, <1>4, <1>5

LEMMA NewMappingArrives ==
    ASSUME NEW m \in NewMappings
    PROVE  Arrives(m)
<1>1. PICK f \in Mappings : m = [api |-> "mapping", kind |-> "CreateRequest", mapping |-> f]
  BY DEF NewMappings
<1> DEFINE sent == [which |-> "create_request", mapping |-> <<f>>]
<1>2. ClientMappingToProto(m) = <<sent>>
  BY <1>1, MappingUnchanged DEF ClientMappingToProto, Set
<1>3. ClientToProto(m) = <<[which |-> "midi_mapping", message |-> sent]>>
  BY <1>1, <1>2 DEF ClientToProto, Tag, Set, NotSet
<1>4. MappingApiFromProto(sent) = [rc |-> 0, out |-> m]
  BY <1>1, MappingUnchanged DEF MappingApiFromProto, Field, NotSet
<1>5. FromProto([which |-> "midi_mapping", message |-> sent]) = [rc |-> 0, out |-> m]
  BY <1>4 DEF FromProto, Done
<1> QED
  BY <1>3, <1>5, ArrivesUnchanged DEF Asked

LEMMA MappingRecordArrives ==
    ASSUME NEW m \in MappingRecords({"Update"})
    PROVE  Arrives(m)
<1>1. PICK f \in Mappings, id \in Ids :
         m = [api |-> "mapping", kind |-> "Update", id |-> id, mapping |-> f]
  BY DEF MappingRecords
<1> DEFINE record == [id |-> id, mapping |-> <<f>>]
           sent == [which |-> "update", mapping |-> <<record>>]
<1>2. ClientMappingToProto(m) = <<sent>>
  BY <1>1, MappingUnchanged DEF ClientMappingToProto, Set
<1>3. ClientToProto(m) = <<[which |-> "midi_mapping", message |-> sent]>>
  BY <1>1, <1>2 DEF ClientToProto, Tag, Set, NotSet
<1>4. MappingRecordFromProto("Update", record) = [rc |-> 0, out |-> m]
  BY <1>1, MappingUnchanged DEF MappingRecordFromProto, Field, NotSet
<1>5. MappingApiFromProto(sent) = [rc |-> 0, out |-> m]
  BY <1>4 DEF MappingApiFromProto, Field, NotSet
<1>6. FromProto([which |-> "midi_mapping", message |-> sent]) = [rc |-> 0, out |-> m]
  BY <1>5 DEF FromProto, Done
<1> QED
  BY <1>3, <1>6, ArrivesUnchanged DEF Asked

LEMMA SelectionArrives ==
    ASSUME NEW m \in Selections({"Write"})
    PROVE  Arrives(m)
<1>1. PICK id \in Ids : m = [api |-> "selected", kind |-> "Write", selectedPresetId |-> id]
  BY DEF Selections
<1> DEFINE sent == [which |-> "write", id |-> id]
<1>2. ClientToProto(m) = <<[which |-> "selected_preset", message |-> sent]>>
  BY <1>1 DEF ClientToProto, ClientSelectedToProto, Tag, Set
<1>3. FromProto([which |-> "selected_preset", message |-> sent]) = [rc |-> 0, out |-> m]
  BY <1>1 DEF FromProto, SelectedFromProto, Done
<1> QED
  BY <1>2, <1>3, ArrivesUnchanged DEF Asked

LEMMA ValueArrives ==
    ASSUME NEW m \in Values
    PROVE  Arrives(m)
<1>1. PICK id \in ParameterNames, v \in Numbers :
         m = [api |-> "parameters", kind |-> "Update", id |-> id, value |-> v]
  BY DEF Values
<1> DEFINE sent == [which |-> "update", id |-> id, value |-> ToFloat(v)]
           received == [api |-> "parameters", kind |-> "Update", id |-> id,
                        value |-> ToFloat(v)]
<1>2. ClientToProto(m) = <<[which |-> "command", message |-> sent]>>
  BY <1>1 DEF ClientToProto, ClientCommandToProto, Tag, Set
<1>3. FromProto([which |-> "command", message |-> sent]) = [rc |-> 0, out |-> received]
  BY DEF FromProto, CommandFromProto, Done
<1>4. ToFloat(v) \in Numbers /\ ToFloat(v).k = v.k
  BY DEF ToFloat, Number, Numbers
<1>5. received \in Values
  BY <1>4 DEF Values
<1>6. received \in Asked /\ Kept(received, m)
  BY <1>1, <1>4, <1>5 DEF Asked, Kept
<1>7. StringsOf(received) = StringsOf(m)
  BY <1>1 DEF StringsOf
<1> QED
  BY <1>2, <1>3, <1>6, <1>7 DEF Arrives, NotSet

LEMMA PlainArrives ==
    ASSUME NEW m \in Plain
    PROVE  Arrives(m)
<1>0. m \in Asked
  BY DEF Asked
<1>1. CASE m = [api |-> "parameters", kind |-> "Initialise"]
  <2>1. /\ ClientToProto(m) = <<[which |-> "command", message |-> [which |-> "initialise"]]>>
        /\ FromProto([which |-> "command", message |-> [which |-> "initialise"]])
             = [rc |-> 0, out |-> m]
    BY <1>1 DEF ClientToProto, ClientCommandToProto, Tag, Set, FromProto,
                CommandFromProto, Done
  <2> QED
    BY <1>0, <2>1, ArrivesUnchanged
<1>2. CASE m = [api |-> "presets", kind |-> "Initialise"]
  <2>1. /\ ClientToProto(m) = <<[which |-> "preset", message |-> [which |-> "initialise"]]>>
        /\ FromProto([which |-> "preset", message |-> [which |-> "initialise"]])
             = [rc |-> 0, out |-> m]
    BY <1>2 DEF ClientToProto, ClientPresetsToProto, Tag, Set, FromProto,
                PresetsFromProto, Done
  <2> QED
    BY <1>0, <2>1, ArrivesUnchanged
<1>3. ASSUME NEW id \in Ids, m = [api |-> "presets", kind |-> "Delete", id |-> id]
      PROVE  Arrives(m)
  <2> DEFINE sent == [which |-> "remove", id |-> id]
  <2>1. /\ ClientToProto(m) = <<[which |-> "preset", message |-> sent]>>
        /\ FromProto([which |-> "preset", message |-> sent]) = [rc |-> 0, out |-> m]
    BY <1>3 DEF ClientToProto, ClientPresetsToProto, Tag, Set, FromProto,
                PresetsFromProto, Done
  <2> QED
    BY <1>0, <2>1, ArrivesUnchanged
<1>4. CASE m = [api |-> "selected", kind |-> "Read"]
  <2>1. /\ ClientToProto(m) = <<[which |-> "selected_preset", message |-> [which |-> "read"]]>>
        /\ FromProto([which |-> "selected_preset", message |-> [which |-> "read"]])
             = [rc |-> 0, out |-> m]
    BY <1>4 DEF ClientToProto, ClientSelectedToProto, Tag, Set, FromProto,
                SelectedFromProto, Done
  <2> QED
    BY <1>0, <2>1, ArrivesUnchanged
<1>5. CASE m = [api |-> "mapping", kind |-> "GetRequest"]
  <2>1. /\ ClientToProto(m)
             = <<[which |-> "midi_mapping", message |-> [which |-> "get_request"]]>>
        /\ FromProto([which |-> "midi_mapping", message |-> [which |-> "get_request"]])
             = [rc |-> 0, out |-> m]
    BY <1>5 DEF ClientToProto, ClientMappingToProto, Tag, Set, NotSet, FromProto,
                MappingApiFromProto, Done
  <2> QED
    BY <1>0, <2>1, ArrivesUnchanged
<1>6. ASSUME NEW id \in Ids, m = [api |-> "mapping", kind |-> "Remove", id |-> id]
      PROVE  Arrives(m)
  <2> DEFINE sent == [which |-> "remove", id |-> id]
  <2>1. /\ ClientToProto(m) = <<[which |-> "midi_mapping", message |-> sent]>>
        /\ FromProto([which |-> "midi_mapping", message |-> sent]) = [rc |-> 0, out |-> m]
    BY <1>6 DEF ClientToProto, ClientMappingToProto, Tag, Set, NotSet, FromProto,
                MappingApiFromProto, Done
  <2> QED
    BY <1>0, <2>1, ArrivesUnchanged
<1> QED
  BY <1>1, <1>2, <1>3, <1>4, <1>5, <1>6 DEF Plain

(* Every request that a client may send is understood by the firmware.     *)
LEMMA AskedArrives ==
    ASSUME NEW m \in Asked
    PROVE  Arrives(m)
BY NewPresetArrives, PresetRecordArrives, NewMappingArrives, MappingRecordArrives,
   SelectionArrives, ValueArrives, PlainArrives DEF Asked

-----------------------------------------------------------------------------
(* Down: what the firmware sends *)

(* Clients understand what the firmware sends, and have its content.       *)
Heeds(m) ==
    LET heard == ClientFromProto(ToProto(m))
    IN heard # NotSet /\ heard[1] \in Told /\ Kept(heard[1], m)

LEMMA HeardUnchanged ==
    ASSUME NEW m \in Told, ClientFromProto(ToProto(m)) = <<m>>
    PROVE  Heeds(m)
BY KeptItself DEF Heeds, NotSet

LEMMA PresetRecordHeard ==
    ASSUME NEW m \in PresetRecords({"Notify"})
    PROVE  Heeds(m)
<1>1. PICK a \in SomePreset, id \in Ids :
         m = [api |-> "presets", kind |-> "Notify", id |-> id, preset |-> a]
  BY DEF PresetRecords
<1> DEFINE record == [id |-> id, preset |-> <<PresetToProto(a)>>]
           sent == [which |-> "notify", preset |-> <<record>>]
           b == ClientPresetFromProto(PresetToProto(a))
           heard == [api |-> "presets", kind |-> "Notify", id |-> id, preset |-> b]
<1>2. PresetsToProto(m) = sent
  BY <1>1 DEF PresetsToProto, PresetRecordToProto, Set
<1>3. ToProto(m) = [which |-> "preset", message |-> sent]
  BY <1>1, <1>2 DEF ToProto, Tag
<1>4. ClientRecordFromProto("Notify", record) = heard
  BY DEF ClientRecordFromProto, Field, NotSet
<1>5. ClientPresetsFromProto(sent) = heard
  BY <1>4 DEF ClientPresetsFromProto, Field, NotSet
<1>6. ClientFromProto([which |-> "preset", message |-> sent]) = <<heard>>
  BY <1>5 DEF ClientFromProto, Set
<1>7. b \in SomePreset /\ PresetKept(b, a)
  BY FirmwareSendsPreset
<1> HIDE DEF b
<1>8. heard \in PresetRecords({"Notify"}) /\ heard \in Told
  BY <1>7 DEF PresetRecords, Told
<1>9. heard \in WithPreset /\ m \in WithPreset
  BY <1>7, <1>8 DEF WithPreset, PresetRecords
<1>10. Kept(heard, m)
  BY <1>1, <1>7, <1>9 DEF Kept, RecordKept
<1> QED
  BY <1>3, <1>6, <1>8, <1>10 DEF Heeds, NotSet

LEMMA MappingRecordHeard ==
    ASSUME NEW m \in MappingRecords({"CreateResponse", "Update"})
    PROVE  Heeds(m)
<1>1. PICK f \in Mappings, id \in Ids, kind \in {"CreateResponse", "Update"} :
         m = [api |-> "mapping", kind |-> kind, id |-> id, mapping |-> f]
  BY DEF MappingRecords
<1> DEFINE record == [id |-> id, mapping |-> <<f>>]
           sent == [which |-> IF kind = "Update" THEN "update" ELSE "create_response",
                    mapping |-> <<record>>]
<1>2. MappingApiToProto(m) = sent
  BY <1>1, MappingUnchanged DEF MappingApiToProto, MappingRecordToProto, Set
<1>3. ToProto(m) = [which |-> "midi_mapping", message |-> sent]
  BY <1>1, <1>2 DEF ToProto, Tag
<1>4. ClientMappingRecord(kind, sent) = m
  BY <1>1, MappingUnchanged DEF ClientMappingRecord, Field, NotSet
<1>5. ClientMappingFromProto(sent) = <<m>>
  BY <1>4 DEF ClientMappingFromProto, Set
<1>6. ClientFromProto([which |-> "midi_mapping", message |-> sent]) = <<m>>
  BY <1>5 DEF ClientFromProto, Set
<1> QED
  BY <1>3, <1>6, HeardUnchanged DEF Told

LEMMA SelectionHeard ==
    ASSUME NEW m \in Selections({"Notify"})
    PROVE  Heeds(m)
<1>1. PICK id \in Ids : m = [api |-> "selected", kind |-> "Notify", selectedPresetId |-> id]
  BY DEF Selections
<1>2. ToProto(m) = [which |-> "selected_preset", message |-> [which |-> "notify", id |-> id]]
  BY <1>1 DEF ToProto, SelectedToProto, Tag
<1>3. ClientFromProto(ToProto(m)) = <<m>>
  BY <1>1, <1>2 DEF ClientFromProto, ClientSelectedFromProto, Set
<1> QED
  BY <1>3, HeardUnchanged DEF Told

LEMMA ValueHeard ==
    ASSUME NEW m \in Values
    PROVE  Heeds(m)
<1>1. PICK id \in ParameterNames, v \in Numbers :
         m = [api |-> "parameters", kind |-> "Update", id |-> id, value |-> v]
  BY DEF Values
<1>2. ToProto(m) = [which |-> "command",
                    message |-> [which |-> "update", id |-> id, value |-> v]]
  BY <1>1 DEF ToProto, CommandToProto, Tag
<1>3. ClientFromProto(ToProto(m)) = <<m>>
  BY <1>1, <1>2 DEF ClientFromProto, ClientCommandFromProto, Set
<1> QED
  BY <1>3, HeardUnchanged DEF Told

LEMMA ClipHeard ==
    ASSUME NEW m \in Clips
    PROVE  Heeds(m)
<1>1. PICK kind \in {"InputClipped", "OutputClipped"} : m = [api |-> "events", kind |-> kind]
  BY DEF Clips
<1>2. ToProto(m) = [which |-> "audio_event", message |-> EventToProto(m)]
  BY <1>1 DEF ToProto, Tag
<1>3. ClientFromProto(ToProto(m)) = <<m>>
  BY <1>1, <1>2 DEF ClientFromProto, ClientEventFromProto, EventToProto, Set
<1> QED
  BY <1>3, HeardUnchanged DEF Told

LEMMA ControlHeard ==
    ASSUME NEW m \in Controls
    PROVE  Heeds(m)
<1>1. PICK midi \in MidiMessages :
         m = [api |-> "mapping", kind |-> "MessageReceived", message |-> midi]
  BY DEF Controls
<1>2. midi = [channel |-> midi.channel, type |-> midi.type, data |-> midi.data]
  BY DEF MidiMessages
<1> DEFINE proto == [channel |-> midi.channel, which |-> midi.type, data |-> midi.data]
           sent == [which |-> "message_received", message |-> <<proto>>]
<1>3. MappingApiToProto(m) = sent
  BY <1>1 DEF MappingApiToProto, MidiMessageToProto, Set
<1>4. ToProto(m) = [which |-> "midi_mapping", message |-> sent]
  BY <1>1, <1>3 DEF ToProto, Tag
<1>5. ClientMappingFromProto(sent) = <<m>>
  BY <1>1, <1>2 DEF ClientMappingFromProto, Set, Field, NotSet
<1>6. ClientFromProto([which |-> "midi_mapping", message |-> sent]) = <<m>>
  BY <1>5 DEF ClientFromProto, Set
<1> QED
  BY <1>4, <1>6, HeardUnchanged DEF Told

(* Every message that the firmware may send is understood by the clients.  *)
LEMMA ToldHeard ==
    ASSUME NEW m \in Told
    PROVE  Heeds(m)
BY PresetRecordHeard, MappingRecordHeard, SelectionHeard, ValueHeard, ClipHeard, ControlHeard
   DEF Told

-----------------------------------------------------------------------------
(* What is sent back, and what the firmware answers *)

(* A client that sends back what it was told asks for it with the same     *)
(* content.                                                                *)
LEMMA AgainAsks ==
    ASSUME NEW m \in Told, NEW again \in Again(m)
    PROVE  again \in Asked /\ Kept(again, m)
<1>1. CASE m \in PresetRecords({"Notify"})
  <2>1. again = [m EXCEPT !.kind = "Update"]
    BY <1>1 DEF Again, PresetRecords
  <2>2. again \in PresetRecords({"Update"})
    BY <1>1, <2>1 DEF PresetRecords
  <2>3. again.preset = m.preset /\ again.id = m.id
    BY <1>1, <2>1 DEF PresetRecords
  <2> QED
    BY <1>1, <2>2, <2>3 DEF Asked, Kept, WithPreset, PresetRecords, PresetKept, Drifts,
       RecordKept
<1>2. CASE m \in Values
  <2>1. again = m
    BY <1>2 DEF Again, Values
  <2> QED
    BY <1>2, <2>1, KeptItself DEF Asked
<1>3. CASE m \in Selections({"Notify"})
  <2>1. again = [m EXCEPT !.kind = "Write"]
    BY <1>3 DEF Again, Selections
  <2>2. again \in Selections({"Write"}) /\ again.selectedPresetId = m.selectedPresetId
    BY <1>3, <2>1 DEF Selections
  <2> QED
    BY <1>3, <2>2 DEF Asked, Kept, WithSelection, Selections
<1>4. CASE m \in MappingRecords({"CreateResponse", "Update"})
  <2>1. again = [m EXCEPT !.kind = "Update"]
    BY <1>4 DEF Again, MappingRecords
  <2>2. again \in MappingRecords({"Update"}) /\ again.mapping = m.mapping /\ again.id = m.id
    BY <1>4, <2>1 DEF MappingRecords
  <2>3. again \in WithMapping /\ m \in WithMapping /\ RecordKept(again, m)
    BY <1>4, <2>2 DEF WithMapping, MappingRecords, RecordKept
  <2> QED
    BY <2>2, <2>3 DEF Asked, Kept
<1>5. CASE m \in Clips
  BY <1>5 DEF Again, Clips
<1>6. CASE m \in Controls
  <2>1. PICK midi \in MidiMessages :
           m = [api |-> "mapping", kind |-> "MessageReceived", message |-> midi]
    BY <1>6 DEF Controls
  <2>2. /\ midi.type = "control_change"
        /\ \E name \in ParameterNames :
              again = [api |-> "mapping", kind |-> "CreateRequest",
                       mapping |-> [midi_channel |-> midi.channel, cc_number |-> midi.data[1],
                                    mode |-> "toggle", parameter_name |-> name,
                                    preset_id |-> 0]]
    BY <2>1 DEF Again
  <2>3. PICK name \in ParameterNames :
           again = [api |-> "mapping", kind |-> "CreateRequest",
                    mapping |-> [midi_channel |-> midi.channel, cc_number |-> midi.data[1],
                                 mode |-> "toggle", parameter_name |-> name, preset_id |-> 0]]
    BY <2>2
  <2>4. midi.channel \in DataBytes /\ midi.data \in DataBytes \X DataBytes
    BY <2>2 DEF MidiMessages
  <2>5. midi.data[1] \in DataBytes
    BY <2>4
  <2>6. again.mapping \in Mappings
    BY <2>3, <2>4, <2>5 DEF Mappings
  <2>7. again \in NewMappings
    BY <2>3, <2>6 DEF NewMappings
  <2> QED
    BY <1>6, <2>1, <2>3, <2>7 DEF Asked, Kept, WithMapping
<1> QED
  BY <1>1, <1>2, <1>3, <1>4, <1>5, <1>6 DEF Told

(* What the firmware answers at once has the content of the request.       *)
LEMMA RepliesTold ==
    ASSUME NEW m \in Asked \union Clips \union Controls, NEW reply \in Replies(m)
    PROVE  reply \in Told /\ Kept(reply, m)
<1>1. CASE m \in Clips \union Controls
  <2>1. reply = m
    BY <1>1, EventsAre, Classes DEF Replies
  <2> QED
    BY <1>1, <2>1, KeptItself DEF Told
<1>2. CASE m \in Asked /\ ~(m \in Events)
  <2>1. CASE m \in Values
    <3>1. reply = m
      BY <1>2, <2>1 DEF Replies, Values
    <3> QED
      BY <2>1, <3>1, KeptItself DEF Told
  <2>2. CASE m \in NewPresets
    <3>1. PICK id \in Ids :
             reply = [api |-> "presets", kind |-> "Notify", id |-> id, preset |-> m.preset]
      BY <1>2, <2>2 DEF Replies, NewPresets
    <3>2. reply \in PresetRecords({"Notify"}) /\ reply.preset = m.preset
      BY <2>2, <3>1 DEF NewPresets, PresetRecords
    <3>3. reply \in WithPreset /\ m \in WithPreset /\ RecordKept(reply, m)
      BY <2>2, <3>1, <3>2 DEF WithPreset, NewPresets, PresetRecords, RecordKept
    <3> QED
      BY <3>2, <3>3 DEF Told, Kept, PresetKept, Drifts
  <2>3. CASE m \in PresetRecords({"Update"})
    <3>1. reply = [m EXCEPT !.kind = "Notify"]
      BY <1>2, <2>3 DEF Replies, PresetRecords
    <3>2. reply \in PresetRecords({"Notify"}) /\ reply.preset = m.preset /\ reply.id = m.id
      BY <2>3, <3>1 DEF PresetRecords
    <3>3. reply \in WithPreset /\ m \in WithPreset /\ RecordKept(reply, m)
      BY <2>3, <3>2 DEF WithPreset, PresetRecords, RecordKept
    <3> QED
      BY <3>2, <3>3 DEF Told, Kept, PresetKept, Drifts
  <2>4. CASE m \in Selections({"Write"})
    <3>1. reply = [m EXCEPT !.kind = "Notify"]
      BY <1>2, <2>4 DEF Replies, Selections
    <3>2. reply \in Selections({"Notify"}) /\ reply.selectedPresetId = m.selectedPresetId
      BY <2>4, <3>1 DEF Selections
    <3> QED
      BY <2>4, <3>2 DEF Told, Kept, WithSelection, Selections
  <2>5. CASE m \in NewMappings
    <3>1. PICK id \in Ids : reply = [api |-> "mapping", kind |-> "CreateResponse", id |-> id,
                                     mapping |-> m.mapping]
      BY <1>2, <2>5 DEF Replies, NewMappings
    <3>2. reply \in MappingRecords({"CreateResponse", "Update"}) /\ reply.mapping = m.mapping
      BY <2>5, <3>1 DEF NewMappings, MappingRecords
    <3>3. reply \in WithMapping /\ m \in WithMapping /\ RecordKept(reply, m)
      BY <2>5, <3>1, <3>2 DEF WithMapping, NewMappings, MappingRecords, RecordKept
    <3> QED
      BY <3>2, <3>3 DEF Told, Kept
  <2>6. CASE m \in MappingRecords({"Update"}) \union Plain
    BY <1>2, <2>6 DEF Replies, MappingRecords, Plain
  <2> QED
    BY <1>2, <2>1, <2>2, <2>3, <2>4, <2>5, <2>6 DEF Asked
<1> QED
  BY <1>1, <1>2, EventsAre

(* So has what it reads from flash after a restart.                        *)
LEMMA ReloadedTold ==
    ASSUME NEW m \in Asked \union Clips \union Controls, NEW r \in Reloaded(m)
    PROVE  r \in Told /\ Kept(r, m)
<1>1. CASE m \in NewPresets \union PresetRecords({"Update"})
  <2>1. m.preset \in SomePreset /\ m \in WithPreset /\ m.api = "presets"
    BY <1>1 DEF NewPresets, PresetRecords, WithPreset
  <2> DEFINE b == PresetFromProto(PresetToProto(m.preset))
  <2>2. /\ PresetToBytes(m.preset) # NotSet
        /\ \E id \in IF m.kind = "Update" THEN {m.id} ELSE Ids :
              r = [api |-> "presets", kind |-> "Notify", id |-> id,
                   preset |-> PresetFromBytes(PresetToBytes(m.preset)[1])]
    BY <2>1 DEF Reloaded, Stored
  <2>3. PresetFromBytes(PresetToBytes(m.preset)[1]) = b
    BY <2>2 DEF PresetToBytes, PresetFromBytes, Set, NotSet
  <2>4. PICK id \in Ids :
           /\ m.kind = "Update" => id = m.id
           /\ r = [api |-> "presets", kind |-> "Notify", id |-> id, preset |-> b]
    BY <1>1, <2>2, <2>3 DEF NewPresets, PresetRecords
  <2>5. b \in SomePreset /\ PresetKept(b, m.preset)
    BY <2>1, FirmwareSendsPreset
  <2> HIDE DEF b
  <2>6. r \in PresetRecords({"Notify"}) /\ r.preset = b
    BY <2>4, <2>5 DEF PresetRecords
  <2>7. r \in WithPreset /\ RecordKept(r, m)
    BY <1>1, <2>4, <2>6 DEF WithPreset, PresetRecords, NewPresets, RecordKept
  <2> QED
    BY <2>1, <2>5, <2>6, <2>7 DEF Told, Kept
<1>2. CASE m \in NewMappings \union MappingRecords({"Update"})
  <2>1. m.mapping \in Mappings /\ m \in WithMapping /\ m.api = "mapping"
        /\ m.kind # "MessageReceived"
    BY <1>2 DEF NewMappings, MappingRecords, WithMapping
  <2>2. /\ MappingToBytes(m.mapping) # NotSet
        /\ \E id \in IF m.kind = "Update" THEN {m.id} ELSE Ids :
              r = [api |-> "mapping", kind |-> "Update", id |-> id,
                   mapping |-> MappingFromBytes(MappingToBytes(m.mapping)[1])]
    BY <2>1 DEF Reloaded
  <2>3. MappingFromBytes(MappingToBytes(m.mapping)[1]) = m.mapping
    BY <2>1, <2>2, MappingUnchanged DEF MappingToBytes, MappingFromBytes, Set, NotSet
  <2>4. PICK id \in Ids :
           /\ m.kind = "Update" => id = m.id
           /\ r = [api |-> "mapping", kind |-> "Update", id |-> id, mapping |-> m.mapping]
    BY <1>2, <2>2, <2>3 DEF NewMappings, MappingRecords
  <2>5. r \in MappingRecords({"CreateResponse", "Update"}) /\ r.mapping = m.mapping
    BY <2>1, <2>4 DEF MappingRecords
  <2>6. r \in WithMapping /\ RecordKept(r, m)
    BY <1>2, <2>4, <2>5 DEF WithMapping, MappingRecords, NewMappings, RecordKept
  <2> QED
    BY <2>1, <2>5, <2>6 DEF Told, Kept
<1>3. CASE m \in Selections({"Write"}) \union Values \union Plain \union Clips \union Controls
  BY <1>3 DEF Reloaded, Selections, Values, Plain, Clips, Controls
<1> QED
  BY <1>1, <1>2, <1>3 DEF Asked

(* Only what has the name of a preset in it may be too long.               *)
LEMMA FitsKept ==
    ASSUME NEW m \in Asked \union Told, NEW o, Kept(m, o), ~Fits(StringsOf(m))
    PROVE  ~Fits(StringsOf(o))
<1>1. m \in WithPreset
  <2>1. ASSUME m \in WithMapping PROVE FALSE
    <3>1. m.mapping \in Mappings /\ StringsOf(m) = {m.mapping.parameter_name}
      BY <2>1 DEF WithMapping, NewMappings, MappingRecords, StringsOf
    <3>2. m.mapping.parameter_name \in ParameterNames \union {NoName}
      BY <3>1 DEF Mappings
    <3>3. NameBytes[NoName] = 0
      BY ExchangeAssumption
    <3> QED
      BY <3>1, <3>2, <3>3 DEF ParameterNames, Fits, MaxName
  <2>2. ASSUME m \in Values PROVE FALSE
    <3>1. m.id \in ParameterNames /\ StringsOf(m) = {m.id}
      BY <2>2 DEF Values, StringsOf
    <3> QED
      BY <3>1 DEF ParameterNames, Fits
  <2>3. ASSUME m \in WithSelection \union Plain \union Clips \union Controls PROVE FALSE
    <3>1. StringsOf(m) = {}
      BY <2>3 DEF WithSelection, Selections, Plain, Clips, Controls, StringsOf
    <3> QED
      BY <3>1 DEF Fits
  <2> QED
    BY <2>1, <2>2, <2>3 DEF Asked, Told, WithPreset, WithMapping, WithSelection, PresetRecords,
       MappingRecords, Selections
<1>2. m = o \/ (o \in WithPreset /\ PresetKept(m.preset, o.preset))
  BY <1>1, Classes DEF Kept
<1>3. CASE o \in WithPreset /\ PresetKept(m.preset, o.preset)
  <2>1. StringsOf(m) = {m.preset.name} /\ StringsOf(o) = {o.preset.name}
    BY <1>1, <1>3 DEF WithPreset, NewPresets, PresetRecords, StringsOf
  <2> QED
    BY <1>3, <2>1 DEF PresetKept
<1> QED
  BY <1>2, <1>3

(* A preset is stored if its name fits.                                    *)
LEMMA PresetStored ==
    ASSUME NEW a \in SomePreset, Fits({a.name})
    PROVE  Stored(a)
<1> DEFINE q == [p \in Params |-> ToThousandths(a.parameters[p])]
<1>1. PresetToProto(a) = [name |-> a.name, parameters |-> <<q>>]
  BY DEF PresetToProto, ParametersToProto, Set
<1>2. \A p \in Params : q[p] \in Thousandths
  BY ThousandthsDrift DEF SomePreset
<1>3. q \in [Params -> 0 .. 1000]
  BY <1>2 DEF Thousandths
<1> HIDE DEF q
<1>4. FieldsBytes(q) \in Int /\ FieldsBytes(q) <= 65
  BY <1>3, FieldsFit
<1>5. a.name \in Names /\ NameBytes[a.name] \in Nat /\ NameBytes[a.name] <= 31
  <2>1. NameBytes \in [Names \union {NoName} -> Nat]
    BY ExchangeAssumption
  <2> QED
    BY <2>1 DEF SomePreset, Fits, MaxName
<1>6. PresetBytes(PresetToProto(a)) <= 100
  <2>1. PresetBytes(PresetToProto(a))
          = (IF NameBytes[a.name] = 0 THEN 0 ELSE 2 + NameBytes[a.name])
            + (2 + FieldsBytes(q))
    BY <1>1 DEF PresetBytes, NotSet
  <2> QED
    BY <1>4, <1>5, <2>1
<1> QED
  BY <1>6 DEF Stored, PresetToBytes, BlobBytes, Set, NotSet

-----------------------------------------------------------------------------
(* The invariant *)

LEMMA OriginKept ==
    ASSUME NEW m \in Requests \union Events
    PROVE  Kept(m, m)
BY RequestsAreAsked, EventsAre, KeptItself DEF Told

(* What nanopb leaves behind when it fails is no message.                  *)
LEMMA NotGarbage == ~(Garbage \in Asked \union Told)
<1>1. Garbage.api = "garbage"
  BY DEF Garbage
<1>2. \A m \in Plain : m.api # "garbage"
  BY DEF Plain
<1>3. \A m \in Asked \union Told : m.api # "garbage"
  <2>1. \A m \in Asked \union Told :
           \/ m \in WithPreset \/ m \in WithMapping \/ m \in WithSelection \/ m \in Values
           \/ m \in Plain \/ m \in Clips \/ m \in Controls
    BY DEF Asked, Told, WithPreset, WithMapping, WithSelection, PresetRecords, MappingRecords,
           Selections
  <2> QED
    BY <1>2, <2>1, Classes
<1> QED
  BY <1>1, <1>3

LEMMA NoReplyToGarbage == Replies(Garbage) = {} /\ Reloaded(Garbage) = {}
<1>1. ~(Garbage \in Events)
  BY NotGarbage, EventsAre DEF Told
<1> QED
  BY <1>1 DEF Replies, Reloaded, Garbage

LEMMA InitIInv == ExchangeInit => IInv
<1> SUFFICES ASSUME ExchangeInit PROVE IInv
  OBVIOUS
<1>1. origin \in Requests \union Events /\ msg = origin /\ Kept(msg, origin)
  BY OriginKept DEF ExchangeInit
<1>2. msg # Garbage
  BY <1>1, RequestsAreAsked, EventsAre, NotGarbage DEF Told
<1>3. OnTheWay
  BY EventsAre DEF ExchangeInit, OnTheWay
<1> QED
  BY <1>1, <1>2, <1>3 DEF IInv, ExchangeInit

LEMMA StepClientSends == IInv /\ ClientSends => IInv'
<1> SUFFICES ASSUME IInv, ClientSends PROVE IInv'
  OBVIOUS
<1>1. PICK m \in IF rounds = 0 THEN {msg} ELSE Again(msg) :
         IF ClientToProto(m) = NotSet
         THEN at' = "lost" /\ UNCHANGED frame
         ELSE at' = "uplink" /\ frame' = Frame(m, ClientToProto(m)[1])
  BY DEF ClientSends
<1>2. at = "client" /\ UNCHANGED <<msg, origin, rounds>>
  BY DEF ClientSends
<1>3. msg \in (IF rounds = 0 THEN Requests ELSE Told) /\ msg # Garbage /\ Kept(msg, origin)
  BY <1>2, RequestsAreAsked, NotGarbage DEF IInv, OnTheWay
<1>4. m \in Asked /\ Kept(m, origin)
  <2>1. CASE rounds = 0
    BY <1>1, <1>3, <2>1, RequestsAreAsked
  <2>2. CASE rounds # 0
    <3>1. m \in Asked /\ Kept(m, msg)
      BY <1>1, <1>3, <2>2, AgainAsks
    <3> QED
      BY <1>3, <3>1, KeptTwice
  <2> QED
    BY <2>1, <2>2
<1>5. Arrives(m)
  BY <1>4, AskedArrives
<1>6. at' = "uplink" /\ frame' = Frame(m, ClientToProto(m)[1])
  BY <1>1, <1>5 DEF Arrives
<1>7. /\ FromProto(frame'.proto).rc = 0
      /\ Decoded' \in Asked /\ Kept(Decoded', m)
      /\ frame'.strings = StringsOf(Decoded')
  BY <1>5, <1>6 DEF Arrives, Decoded, Frame
<1>8. Kept(Decoded', origin)
  BY <1>4, <1>7, KeptTwice
<1>9. OnTheWay'
  BY <1>2, <1>6, <1>7, <1>8 DEF OnTheWay, Decoded
<1> QED
  BY <1>2, <1>3, <1>6, <1>9 DEF IInv

LEMMA StepClientReceives == IInv /\ ClientReceives => IInv'
<1> SUFFICES ASSUME IInv, ClientReceives PROVE IInv'
  OBVIOUS
<1>1. at = "downlink" /\ Heard # NotSet /\ Heard[1] \in Told /\ Kept(Heard[1], origin)
  BY DEF IInv, OnTheWay, ClientReceives
<1>2. at' = "client" /\ msg' = Heard[1] /\ rounds' = rounds + 1 /\ UNCHANGED origin
  BY <1>1 DEF ClientReceives, Heard
<1>3. msg' # Garbage
  BY <1>1, <1>2, NotGarbage
<1>4. rounds' \in Nat /\ rounds' # 0
  BY <1>2 DEF IInv
<1> QED
  BY <1>1, <1>2, <1>3, <1>4 DEF IInv, OnTheWay

LEMMA StepFirmwareReceives == IInv /\ FirmwareReceives => IInv'
<1> SUFFICES ASSUME IInv, FirmwareReceives PROVE IInv'
  OBVIOUS
<1>1. at = "uplink" /\ FromProto(frame.proto).rc = 0
      /\ Decoded \in Asked /\ Kept(Decoded, origin) /\ frame.strings = StringsOf(Decoded)
      /\ UNCHANGED <<origin, rounds>>
  BY DEF IInv, OnTheWay, FirmwareReceives
<1>2. PICK m \in from_bytes(frame) :
         IF m = NotSet THEN at' = "lost" /\ UNCHANGED msg
         ELSE at' = "firmware" /\ msg' = m[1]
  BY DEF FirmwareReceives
<1>3. CASE ~Fits(StringsOf(Decoded))
  <2>1. ~Fits(StringsOf(origin))
    BY <1>1, <1>3, FitsKept
  <2>2. m = NotSet \/ m = <<Garbage>>
    BY <1>1, <1>2, <1>3 DEF from_bytes, Set
  <2>3. \/ at' = "lost" /\ msg' = msg
        \/ at' = "firmware" /\ msg' = Garbage
    BY <1>2, <2>2 DEF NotSet
  <2> QED
    BY <1>1, <2>1, <2>3 DEF IInv, OnTheWay
<1>4. CASE Fits(StringsOf(Decoded))
  <2>1. m = <<Decoded>>
    BY <1>1, <1>2, <1>4 DEF from_bytes, Decoded, Set
  <2>2. at' = "firmware" /\ msg' = Decoded
    BY <1>2, <2>1 DEF NotSet
  <2>3. msg' # Garbage
    BY <1>1, <2>2, NotGarbage
  <2> QED
    BY <1>1, <2>2, <2>3 DEF IInv, OnTheWay
<1> QED
  BY <1>3, <1>4

LEMMA StepFirmwareSends == IInv /\ FirmwareSends => IInv'
<1> SUFFICES ASSUME IInv, FirmwareSends PROVE IInv'
  OBVIOUS
<1>1. PICK m \in Replies(msg) \union Reloaded(msg) :
         /\ msg' = m
         /\ IF to_bytes(m) = NotSet THEN at' = "lost" /\ UNCHANGED frame
            ELSE at' = "downlink" /\ frame' = to_bytes(m)[1]
  BY DEF FirmwareSends
<1>2. at = "firmware" /\ msg \in Asked \union Clips \union Controls \union {Garbage}
      /\ UNCHANGED <<origin, rounds>>
  BY DEF IInv, OnTheWay, FirmwareSends
<1>3. msg # Garbage
  BY <1>1, NoReplyToGarbage
<1>4. m \in Told /\ Kept(m, msg)
  BY <1>1, <1>2, <1>3, RepliesTold, ReloadedTold
<1>5. Kept(m, origin)
  BY <1>3, <1>4, KeptTwice DEF IInv
<1>6. m # Garbage
  BY <1>4, NotGarbage
<1>7. CASE to_bytes(m) = NotSet
  <2>1. at' = "lost" /\ ~Fits(StringsOf(m))
    BY <1>1, <1>7 DEF to_bytes, Set, NotSet
  <2>2. ~Fits(StringsOf(origin))
    BY <1>4, <1>5, <2>1, FitsKept
  <2> QED
    BY <1>1, <1>2, <1>5, <2>1, <2>2 DEF IInv, OnTheWay
<1>8. CASE to_bytes(m) # NotSet
  <2>1. to_bytes(m) = <<Frame(m, ToProto(m))>>
    BY <1>8 DEF to_bytes, Set
  <2>2. at' = "downlink" /\ frame'.proto = ToProto(m)
    BY <1>1, <1>8, <2>1 DEF Frame
  <2>3. Heeds(m)
    BY <1>4, ToldHeard
  <2>4. Heard' # NotSet /\ Heard'[1] \in Told /\ Kept(Heard'[1], m)
    BY <2>2, <2>3 DEF Heeds, Heard
  <2>5. Kept(Heard'[1], origin)
    BY <1>5, <2>4, KeptTwice
  <2> QED
    BY <1>1, <1>2, <1>5, <1>6, <2>2, <2>4, <2>5 DEF IInv, OnTheWay
<1> QED
  BY <1>7, <1>8

LEMMA StepFirmwareHasNoReply == IInv /\ FirmwareHasNoReply => IInv'
<1> SUFFICES ASSUME IInv, FirmwareHasNoReply PROVE IInv'
  OBVIOUS
<1>1. at' = "done" /\ UNCHANGED <<msg, frame, origin, rounds>>
      /\ Replies(msg) \union Reloaded(msg) = {} /\ at = "firmware"
  BY DEF FirmwareHasNoReply
<1>2. msg \in Asked \union Clips \union Controls \union {Garbage}
  BY <1>1 DEF IInv, OnTheWay
<1>3. ASSUME msg \in Clips \union Controls PROVE FALSE
  <2>1. Replies(msg) = {msg}
    BY <1>3, EventsAre, Classes DEF Replies
  <2> QED
    BY <1>1, <2>1
<1>4. Replies(msg)' \union Reloaded(msg)' = {}
  BY <1>1 DEF Replies, Reloaded
<1> QED
  BY <1>1, <1>2, <1>3, <1>4 DEF IInv, OnTheWay

LEMMA StepIInv == IInv /\ [ExchangeNext]_exchangeVars => IInv'
<1>1. CASE UNCHANGED exchangeVars
  BY <1>1 DEF exchangeVars, IInv, OnTheWay, Decoded, Heard, Replies, Reloaded
<1> QED
  BY <1>1, StepClientSends, StepClientReceives, StepFirmwareReceives, StepFirmwareSends,
     StepFirmwareHasNoReply DEF ExchangeNext

THEOREM Invariance == ExchangeSpec => []IInv
<1> QED
  BY InitIInv, StepIInv, PTL DEF ExchangeSpec

-----------------------------------------------------------------------------
(* The properties *)

(* The invariant says more than ContentSurvives.                           *)
LEMMA KeptIsSame ==
    ASSUME NEW m, NEW o, Kept(m, o)
    PROVE  SameContent(m, o) /\ RecordKept(m, o)
<1>1. CASE m \in WithPreset /\ o \in WithPreset /\ PresetKept(m.preset, o.preset)
           /\ RecordKept(m, o)
  <2>1. m.preset \in SomePreset /\ o.preset \in SomePreset
        /\ "preset" \in DOMAIN m /\ "preset" \in DOMAIN o
    BY <1>1 DEF WithPreset, NewPresets, PresetRecords
  <2>2. ASSUME NEW p \in Params
        PROVE  Near(m.preset.parameters[p], o.preset.parameters[p])
    <3> DEFINE Of(x) == x.parameters[p].k
    <3>1. \A x \in SomePreset : Of(x) \in Thousandths
      BY ParametersInRange
    <3>2. Drifts(Of(m.preset), Of(o.preset))
      BY <1>1 DEF PresetKept
    <3> HIDE DEF Of
    <3>3. Magnitude(Of(m.preset) - Of(o.preset)) <= MaxDrift
      BY <2>1, <3>1, <3>2, DriftsNear
    <3> QED
      BY <3>3 DEF Near, Of
  <2>3. SamePreset(m.preset, o.preset)
    BY <1>1, <2>2 DEF SamePreset, PresetKept
  <2>4. ~("mapping" \in DOMAIN o) /\ ~("selectedPresetId" \in DOMAIN o)
        /\ ~("value" \in DOMAIN o) /\ ~("message" \in DOMAIN o)
    BY <1>1 DEF WithPreset, NewPresets, PresetRecords
  <2> QED
    BY <1>1, <2>1, <2>3, <2>4 DEF SameContent
<1>2. CASE /\ m \in WithMapping /\ o \in WithMapping
           /\ m.mapping = o.mapping /\ RecordKept(m, o)
  <2>1. /\ "mapping" \in DOMAIN m /\ "mapping" \in DOMAIN o
        /\ ~("preset" \in DOMAIN o) /\ ~("selectedPresetId" \in DOMAIN o)
        /\ ~("value" \in DOMAIN o) /\ ~("message" \in DOMAIN o)
    BY <1>2 DEF WithMapping, NewMappings, MappingRecords
  <2> QED
    BY <1>2, <2>1 DEF SameContent
<1>3. CASE /\ m \in WithSelection /\ o \in WithSelection
           /\ m.selectedPresetId = o.selectedPresetId
  <2>1. /\ "selectedPresetId" \in DOMAIN m /\ "selectedPresetId" \in DOMAIN o
        /\ ~("preset" \in DOMAIN o) /\ ~("mapping" \in DOMAIN o)
        /\ ~("value" \in DOMAIN o) /\ ~("message" \in DOMAIN o) /\ ~("id" \in DOMAIN o)
    BY <1>3 DEF WithSelection, Selections
  <2> QED
    BY <1>3, <2>1 DEF SameContent, RecordKept
<1>4. CASE m \in Values /\ o \in Values /\ m.id = o.id /\ m.value.k = o.value.k
  <2>1. /\ "value" \in DOMAIN m /\ "value" \in DOMAIN o /\ "id" \in DOMAIN m
        /\ ~("preset" \in DOMAIN o) /\ ~("mapping" \in DOMAIN o)
        /\ ~("selectedPresetId" \in DOMAIN o) /\ ~("message" \in DOMAIN o)
    BY <1>4 DEF Values
  <2> QED
    BY <1>4, <2>1 DEF SameContent, RecordKept
<1>5. CASE m \in Plain \union Clips /\ m = o
  <2>1. /\ ~("preset" \in DOMAIN o) /\ ~("mapping" \in DOMAIN o) /\ ~("value" \in DOMAIN o)
        /\ ~("selectedPresetId" \in DOMAIN o) /\ ~("message" \in DOMAIN o)
    BY <1>5 DEF Plain, Clips
  <2> QED
    BY <1>5, <2>1 DEF SameContent, RecordKept
<1>6. CASE o \in Controls /\ (m = o \/ (/\ m \in WithMapping
                                        /\ m.mapping.midi_channel = o.message.channel
                                        /\ m.mapping.cc_number = o.message.data[1]))
  <2>1. /\ "message" \in DOMAIN o /\ ~("id" \in DOMAIN o)
        /\ ~("preset" \in DOMAIN o) /\ ~("mapping" \in DOMAIN o) /\ ~("value" \in DOMAIN o)
        /\ ~("selectedPresetId" \in DOMAIN o)
    BY <1>6 DEF Controls
  <2>2. m \in WithMapping => ~("message" \in DOMAIN m)
    BY DEF WithMapping, NewMappings, MappingRecords
  <2> QED
    BY <1>6, <2>1, <2>2 DEF SameContent, RecordKept
<1> QED
  BY <1>1, <1>2, <1>3, <1>4, <1>5, <1>6 DEF Kept

(* A record keeps its number, and what the user entered stays as it was    *)
(* entered, however often it goes round: only parameters of presets may    *)
(* lose a thousandth, and only one. Holds for any names, parameters and    *)
(* number of round trips.                                                  *)
THEOREM ContentIsKept == ExchangeSpec => []ContentSurvives
<1>1. IInv => ContentSurvives
  BY KeptIsSame DEF IInv, ContentSurvives, RecordKept
<1> QED
  BY <1>1, Invariance, PTL

(* The only messages that get lost in a conversion are those with a name   *)
(* that is longer than its field, whatever the messages and whichever side *)
(* sends them.                                                             *)
THEOREM LongNamesOnly == ExchangeSpec => []OnlyLongNamesAreLost
<1>1. IInv => OnlyLongNamesAreLost
  BY DEF IInv, OnlyLongNamesAreLost
<1> QED
  BY <1>1, Invariance, PTL

(* A preset whose name fits its field is stored, whatever its parameters   *)
(* are: the sum over all parameters of what they take in the buffer of 100 *)
(* bytes is never more than the longest values take.                       *)
THEOREM PresetsAreStored == ExchangeSpec => []EveryPresetFits
<1>1. IInv => EveryPresetFits
  <2> SUFFICES ASSUME IInv, at = "done", "preset" \in DOMAIN msg, Fits({msg.preset.name})
               PROVE  FALSE
    BY DEF EveryPresetFits
  <2>1. msg \in Asked \union {Garbage} /\ Replies(msg) = {}
    BY DEF IInv, OnTheWay
  <2>2. msg \in NewPresets \/ msg \in PresetRecords({"Update"})
    BY <2>1 DEF Garbage, Asked, NewMappings, MappingRecords, Selections, Values, Plain
  <2>3. Stored(msg.preset) /\ ~(msg \in Events)
    BY <2>2, PresetStored, EventsAre, Classes DEF NewPresets, PresetRecords, WithPreset
  <2>4. PICK id : id \in Ids
    <3>1. Ids # {}
      BY ExchangeAssumption
    <3> QED
      BY <3>1
  <2>5. CASE msg \in NewPresets
    <3>1. [api |-> "presets", kind |-> "Notify", id |-> id, preset |-> msg.preset]
             \in Replies(msg)
      BY <2>3, <2>4, <2>5 DEF Replies, NewPresets
    <3> QED
      BY <2>1, <3>1
  <2>6. CASE msg \in PresetRecords({"Update"})
    <3>1. [msg EXCEPT !.kind = "Notify"] \in Replies(msg)
      BY <2>3, <2>6 DEF Replies, PresetRecords
    <3> QED
      BY <2>1, <3>1
  <2> QED
    BY <2>2, <2>5, <2>6
<1> QED
  BY <1>1, Invariance, PTL

-----------------------------------------------------------------------------
(* The audio task *)

USE AudioAssumption

(* The part of TypeOK that is about the gate                               *)
GateOK(g) ==
    /\ g.state \in {"INIT", "CLOSED", "ATTACK", "OPEN", "RELEASE"}
    /\ g.gain \in 0 .. Full
    /\ \E h \in Holds : g.hold_count \in 0 .. h + 1
    /\ g.state = "OPEN" => g.gain = Full /\ \E h \in Holds : g.hold_count <= h
    /\ g.state \in {"INIT", "CLOSED"} => g.gain = 0

(* TypeOK leaves open that the gate is a record of three fields.           *)
Gates == [state : {"INIT", "CLOSED", "ATTACK", "OPEN", "RELEASE"},
          gain : Int, hold_count : Int]

AudioInv == TypeOK /\ gate \in Gates

-----------------------------------------------------------------------------
(* The gate *)

LEMMA StepOfGain == \A n \in Nat \ {0} : Full \div n \in Nat
  OBVIOUS

(* A sample of any level takes a gate in order to a gate in order.         *)
LEMMA GateStepOK ==
    ASSUME NEW g \in Gates, GateOK(g), NEW level \in Levels, NEW t \in Times
    PROVE  GateStep(g, level, t) \in Gates /\ GateOK(GateStep(g, level, t))
<1> DEFINE next == GateStep(g, level, t)
<1>1. /\ t.hold \in Holds /\ t.hold \in Nat
      /\ Full \div t.attack \in Nat
      /\ Full \div t.release \in Nat
  <2>1. t.attack \in Nat \ {0} /\ t.release \in Nat \ {0} /\ t.hold \in Holds
    BY DEF Times
  <2> QED
    BY <2>1, StepOfGain
<1> USE DEF GateStep, GateOK, Gates, Gate, Go, WithGain, Closed
<1>2. CASE g.state \in {"INIT", "CLOSED"}
  BY <1>2
<1>3. CASE g.state = "ATTACK"
  BY <1>1, <1>3 DEF Attack, Opened
<1>4. CASE g.state = "OPEN"
  BY <1>1, <1>4 DEF Hold
<1>5. CASE g.state = "RELEASE"
  BY <1>1, <1>5 DEF Release
<1> QED
  BY <1>2, <1>3, <1>4, <1>5

(* Between the thresholds a gate in order keeps its gain.                  *)
LEMMA BetweenKeepsGain ==
    ASSUME NEW g \in Gates, GateOK(g), NEW t
    PROVE  GateStep(g, "between", t).gain = g.gain
  BY DEF GateStep, GateOK, Gates, Gate, Go, Closed,
         Attack, Hold, Release

-----------------------------------------------------------------------------
(* The invariant *)

(* Samples that go out are of 24 bits, whatever the effects make of them.  *)
LEMMA ConvertedRange ==
    \A f \in Int : float_to_int32(f) \in INT24_MIN .. INT24_MAX
  BY DEF float_to_int32, INT24_MIN, INT24_MAX

LEMMA AudioInit == Init => AudioInv
<1> SUFFICES ASSUME Init PROVE AudioInv
  OBVIOUS
<1>1. gate \in Gates /\ gate = [state |-> "INIT", gain |-> 0, hold_count |-> 0]
  BY DEF Init, GateInit, Gate, Gates
<1>2. \E h \in Holds : gate.hold_count \in 0 .. h + 1
  <2>1. PICK h \in Holds : h \in Nat
    OBVIOUS
  <2>2. 0 \in 0 .. h + 1
    BY <2>1
  <2> QED
    BY <1>1, <2>2
<1>3. rx_buf \in [Index -> INT24_MIN .. INT24_MAX]
  BY DEF Init, INT24_MIN, INT24_MAX
<1>4. /\ flags \in [Sides -> BOOLEAN]
      /\ owed \in [Sides -> BOOLEAN]
  BY DEF Init
<1>5. /\ task \in {"start", "ended"} /\ sample = 0 /\ signal = "none"
      /\ mpc = "timer" /\ timer = FALSE /\ starts \in 0 .. MaxStarts
  BY DEF Init
<1>6. /\ gate.state = "INIT" /\ gate.gain = 0 /\ 0 \in 0 .. Full
  BY <1>1
<1> QED
  BY <1>1, <1>2, <1>3, <1>4, <1>5, <1>6 DEF AudioInv, TypeOK

LEMMA AudioStepKeeps == AudioInv /\ [Next]_vars => AudioInv'
<1> SUFFICES ASSUME AudioInv, [Next]_vars
             PROVE  AudioInv'
  OBVIOUS
<1> USE DEF AudioInv
<1>1. CASE Start
  BY <1>1 DEF Start, TypeOK, gateVars, mainVars
<1>2. CASE Read
  <2>1. PICK n \in 0 .. BufferSize, new \in [Index -> Inputs] :
          rx_buf' = [i \in Index |-> IF i <= n THEN new[i] ELSE rx_buf[i]]
    BY <1>2 DEF Read
  <2>2. rx_buf' \in [Index -> INT24_MIN .. INT24_MAX]
    BY <2>1 DEF TypeOK, INT24_MIN, INT24_MAX
  <2> QED
    BY <1>2, <2>2 DEF Read, TypeOK, gateVars, mainVars
<1>3. CASE Input
  BY <1>3 DEF Input, Clear, TypeOK, gateVars, mainVars
<1>4. CASE SetTimes
  BY <1>4 DEF SetTimes, TypeOK, mainVars, Index
<1>5. CASE Analyse
  <2>1. /\ times \in Times /\ signal' \in Levels
        /\ gate' = GateStep(gate, signal', times)
    BY <1>5 DEF Analyse, TypeOK
  <2>2. GateOK(gate)
    BY DEF TypeOK, GateOK
  <2>3. gate' \in Gates /\ GateOK(gate')
    BY <2>1, <2>2, GateStepOK
  <2>4. /\ task' \in {"analyse", "output"}
        /\ IF task' = "analyse" THEN sample' \in Index ELSE sample' = 0
    BY <1>5 DEF Analyse, TypeOK, Index
  <2> QED
    BY <1>5, <2>1, <2>3, <2>4 DEF Analyse, TypeOK, GateOK, mainVars
<1>6. CASE Output
  <2>1. PICK fbuf \in Processed :
           rx_buf' = [i \in Index |-> float_to_int32(fbuf[i])]
    BY <1>6 DEF Output
  <2>2. rx_buf' \in [Index -> INT24_MIN .. INT24_MAX]
    BY <2>1, ConvertedRange DEF Processed
  <2>3. flags' \in [Sides -> BOOLEAN] /\ owed' \in [Sides -> BOOLEAN]
    BY <1>6 DEF Output, Clear, TypeOK
  <2> QED
    BY <1>6, <2>2, <2>3 DEF Output, TypeOK, gateVars, mainVars
<1>7. CASE Loop
  BY <1>7 DEF Loop, TypeOK, audioVars, gateVars
<1>8. ASSUME NEW which \in Sides, NEW next \in {"timer", "output"},
             Report(which, which, next)
      PROVE  AudioInv'
  <2>1. /\ flags' \in [Sides -> BOOLEAN]
        /\ owed' \in [Sides -> BOOLEAN]
    BY <1>8 DEF Report, TypeOK
  <2>2. starts' \in 0 .. MaxStarts
    BY <1>8 DEF Report, TypeOK
  <2> QED
    BY <1>8, <2>1, <2>2 DEF Report, TypeOK, audioVars, gateVars
<1>9. CASE ReportInput \/ ReportOutput
  BY <1>8, <1>9 DEF ReportInput, ReportOutput, Sides
<1>10. CASE TimerStarts
  BY <1>10 DEF TimerStarts, TypeOK, audioVars, gateVars
<1>11. CASE TimerExpires
  BY <1>11 DEF TimerExpires, TypeOK, audioVars, gateVars
<1>12. CASE UNCHANGED vars
  BY <1>12 DEF vars, TypeOK, audioVars, gateVars, mainVars
<1> QED
  BY <1>1, <1>2, <1>3, <1>4, <1>5, <1>6, <1>7, <1>9, <1>10, <1>11, <1>12
  DEF Next, AudioStep, LoopStep

THEOREM AudioInvariance == Spec => []AudioInv
BY AudioInit, AudioStepKeeps, PTL DEF Spec

(* The gain is 0 in a closed gate and 1 in an open one and never leaves    *)
(* that range, hold_count never passes the longest hold by more than one,  *)
(* and samples that are written keep to 24 bits.                           *)
THEOREM AudioTypeCorrect == Spec => []TypeOK
<1>1. AudioInv => TypeOK
  BY DEF AudioInv
<1> QED
  BY <1>1, AudioInvariance, PTL

(* While the signal is between the thresholds the gain stands still.       *)
THEOREM GainRests == Spec => HysteresisHolds
<1>1. AudioInv /\ [Next]_vars
         => [signal' = "between" => gate'.gain = gate.gain]_gate
  <2> SUFFICES ASSUME AudioInv, Next, gate' # gate, signal' = "between"
               PROVE  gate'.gain = gate.gain
    BY DEF vars, audioVars, gateVars
  <2>1. Analyse
    BY DEF Next, AudioStep, LoopStep, Start, Read, Input,
           SetTimes, Output, Loop, ReportInput, ReportOutput,
           Report, TimerStarts, TimerExpires, audioVars, gateVars
  <2>2. gate' = GateStep(gate, "between", times)
    BY <2>1 DEF Analyse
  <2> QED
    BY <2>2, BetweenKeepsGain DEF AudioInv, TypeOK, GateOK
<1> QED
  BY <1>1, AudioInvariance, PTL DEF Spec, HysteresisHolds
=============================================================================
