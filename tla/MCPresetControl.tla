-------------------------- MODULE MCPresetControl --------------------------
(* Model values for PresetControl: the parameters and the first preset     *)
(* differ, so that it matters when one replaces the other.                 *)
EXTENDS PresetControl, TLC

CONSTANTS a, b, gain, bass, low, high, lead

TwoClients == {a, b}
TwoParams == {gain, bass}
TwoValues == {low, high}
AllLow == {[p \in TwoParams |-> low]}
AllHigh == {[p \in TwoParams |-> high]}
OneName == {lead}
ClientSymmetry == Permutations(TwoClients)
=============================================================================
