---------------------------- MODULE MCMidiInput ----------------------------
(* A small instance of MidiInput: one control that is mapped in different  *)
(* ways, a channel mode message, a message of one data byte, and messages  *)
(* of two and of three bytes that the decoder does not know.               *)
EXTENDS MidiInput

Control(cc, value) == [channel |-> 1, type |-> "control_change", data |-> <<cc, value>>]

SentDef == {Control(7, 127), Control(7, 1), Control(121, 0),
            [channel |-> 1, type |-> "program_change", data |-> <<7>>]}
ConsoleDef == {Control(7, 0)}
UnknownDef == {<<208, 7>>, <<224, 7, 127>>}

LoadsDef == {[p \in {"p", "q"} |-> 127]}

For(mode, target) == [channel |-> 1, cc |-> 7, mode |-> mode, target |-> target]
MappingsDef ==
    {<<For("toggle", "p"), For("parameter", "p")>>,
     <<For("parameter", "p"), For("toggle", "q"),
       For("button", [p \in {"p", "q"} |-> 127])>>}
=============================================================================
