----------------------------- MODULE AudioTask -----------------------------
(***************************************************************************)
(* The audio task (i2s.cpp, audio_processor.cpp), its noise gate           *)
(* (effects/gate/noise_gate.cpp), and the reports of clipped samples that  *)
(* the main loop sends, throttled by a one-shot timer (main_thread.h).     *)
(*                                                                         *)
(* Samples are words of 24 bits, as i2s_config has them. Of the envelope   *)
(* and of the thresholds of the gate, which change between buffers, only   *)
(* their order is kept: a sample's level is "high" above threshold, "low"  *)
(* not above threshold_low, and "between". The gain is counted in units of *)
(* 1 / Full; floating point rounding is left out.                          *)
(***************************************************************************)
EXTENDS Integers

CONSTANTS
    BufferSize,     \* DMA_BUF_SIZE
    Half,           \* half the range of a sample, 2^23 for 24 bits
    Inputs,         \* samples that the converter may give
    Outputs,        \* samples that the effects may give, times INT24_MAX
    Attacks,        \* values of attack_samples
    Holds,          \* values of hold_samples
    Releases,       \* values of release_samples
    Full,           \* the gain 1
    MaxStarts       \* room for start commands in the queue of the timer daemon

ASSUME AudioAssumption ==
    /\ BufferSize \in Nat \ {0}
    /\ Full \in Nat \ {0} /\ MaxStarts \in Nat \ {0}
    /\ Half \in Nat \ {0}
    /\ Inputs \subseteq -Half .. (Half - 1) /\ Outputs \subseteq Int
    /\ Attacks \subseteq Nat \ {0} /\ Releases \subseteq Nat \ {0} /\ Holds \subseteq Nat
    /\ Holds # {}
    /\ \A n \in Attacks \union Releases : Full % n = 0

INT24_MAX == Half - 1
INT24_MIN == -Half

Index == 1 .. BufferSize
Times == [attack : Attacks, hold : Holds, release : Releases]
Levels == {"low", "between", "high"}
Sides == {"input", "output"}

VARIABLES
    task,       \* where the audio task is
    rx_buf,     \* what was read, or what was last written
    gate,       \* [state, gain, hold_count]; next_state is state, wherever it is read
    times,      \* attack_samples, hold_samples and release_samples
    sample,     \* the sample of the buffer that the gate is at, or 0
    signal,     \* the level of the last sample that the gate saw
    flags,      \* events::input_clipped and output_clipped: TRUE when set
    mpc,        \* where the main loop is
    timer,      \* clipping_throttle_timer is active
    starts,     \* start commands that the timer daemon has not seen
    owed        \* history: samples clipped since the last report

gateVars == <<gate, times, sample, signal>>
audioVars == <<task, rx_buf, gateVars>>
mainVars == <<mpc, timer, starts>>
vars == <<audioVars, flags, mainVars, owed>>

-----------------------------------------------------------------------------
(* The gate *)

Gate(state, gain, hold_count) ==
    [state |-> state, gain |-> gain, hold_count |-> hold_count]

(* gate_init, and the variables that gate_analyse keeps                    *)
GateInit == Gate("INIT", 0, 0)

Go(g, state) == Gate(state, g.gain, g.hold_count)
WithGain(g, gain) == Gate(g.state, gain, g.hold_count)
Closed(g) == Gate("CLOSED", 0, g.hold_count)

(* A hold_count that is not reset                                          *)
OpenedVariant(g) == Gate("OPEN", Full, g.hold_count)
Opened(g) == Gate("OPEN", Full, 0)

Attack(g, level, attack_samples) ==
    LET gain == g.gain + Full \div attack_samples
    IN IF level # "high" THEN Go(g, "RELEASE")
       ELSE IF gain > Full THEN Opened(g) ELSE WithGain(g, gain)

Hold(g, level, hold_samples) ==
    LET count == IF level = "low" THEN g.hold_count + 1 ELSE 0
    IN Gate(IF count > hold_samples /\ level = "low" THEN "RELEASE" ELSE "OPEN", g.gain, count)

(* The gain falls all the way, but the gate is never closed.               *)
ReleaseVariant(g, level, release_samples) ==
    LET gain == g.gain - Full \div release_samples
    IN IF level # "low" THEN Go(g, "ATTACK")
       ELSE IF gain < 0 THEN WithGain(g, 0) ELSE WithGain(g, gain)

(* Without hysteresis                                                      *)
ReleaseAtOnce(g, level, release_samples) ==
    LET gain == g.gain - Full \div release_samples
    IN IF level = "high" THEN Go(g, "ATTACK")
       ELSE IF gain < 0 THEN Closed(g) ELSE WithGain(g, gain)

Release(g, level, release_samples) ==
    LET gain == g.gain - Full \div release_samples
    IN IF level # "low" THEN Go(g, "ATTACK")
       ELSE IF gain < 0 THEN Closed(g) ELSE WithGain(g, gain)

(* gate_analyse for one sample                                             *)
GateStep(g, level, t) ==
    CASE g.state = "INIT" -> Closed(g)
      [] g.state = "CLOSED" -> IF level = "high" THEN Go(g, "ATTACK") ELSE g
      [] g.state = "ATTACK" -> Attack(g, level, t.attack)
      [] g.state = "OPEN" -> Hold(g, level, t.hold)
      [] g.state = "RELEASE" -> Release(g, level, t.release)

-----------------------------------------------------------------------------
(* The audio task *)

(* The task returns only for an error of the driver, and FreeRTOS stops    *)
(* the program then.                                                       *)
Start ==
    /\ task = "start"
    /\ task' \in {"read", "ended"}
    /\ UNCHANGED <<rx_buf, gateVars, flags, mainVars, owed>>

(* A read that times out or is short leaves samples that were written.     *)
Read ==
    /\ task = "read"
    /\ \E n \in 0 .. BufferSize, new \in [Index -> Inputs] :
          rx_buf' = [i \in Index |-> IF i <= n THEN new[i] ELSE rx_buf[i]]
    /\ task' = "input"
    /\ UNCHANGED <<gateVars, flags, mainVars, owed>>

Clear(which, clipped) ==
    /\ flags' = [flags EXCEPT ![which] = @ /\ ~clipped]
    /\ owed' = [owed EXCEPT ![which] = @ \/ clipped]

(* process_samples, the samples that come in. None of 24 bits is           *)
(* INT32_MAX, so the upper limit is not noticed.                           *)
Input ==
    /\ task = "input"
    /\ Clear("input", \E i \in Index : rx_buf[i] = INT24_MIN)
    /\ task' = "set"
    /\ UNCHANGED <<rx_buf, gateVars, mainVars>>

(* gate_set_attack, gate_set_hold, gate_set_release                        *)
SetTimes ==
    /\ task = "set"
    /\ times' \in Times
    /\ sample' = 1
    /\ task' = "analyse"
    /\ UNCHANGED <<rx_buf, gate, signal, flags, mainVars, owed>>

(* gate_analyse, the next sample                                           *)
Analyse ==
    /\ task = "analyse"
    /\ signal' \in Levels
    /\ gate' = GateStep(gate, signal', times)
    /\ IF sample < BufferSize THEN sample' = sample + 1 /\ UNCHANGED task
       ELSE sample' = 0 /\ task' = "output"
    /\ UNCHANGED <<rx_buf, times, flags, mainVars, owed>>

(* float_to_int32 does not saturate.                                       *)
float_to_int32(f) ==
    ((f + Half) % (2 * Half)) - Half

(* AudioProcessor::process: the amplifier, the gate, the speaker, chorus   *)
(* and wah make anything of the buffer.                                    *)
Processed == [Index -> Outputs]

(* process_samples, the samples that go out, and i2s_write                 *)
Output ==
    /\ task = "output"
    /\ \E fbuf \in Processed :
          /\ Clear("output", \E i \in Index : fbuf[i] \notin -INT24_MAX .. INT24_MAX)
          /\ rx_buf' = [i \in Index |-> float_to_int32(fbuf[i])]
    /\ task' = "read"
    /\ UNCHANGED <<gateVars, mainVars>>

-----------------------------------------------------------------------------
(* The main loop and the timer daemon *)

(* The flags are taken before the timer is looked at.                      *)
LoopVariant ==
    /\ mpc = "timer"
    /\ mpc' = IF timer THEN "timer" ELSE "input"
    /\ flags' = IF timer THEN [c \in Sides |-> TRUE] ELSE flags
    /\ UNCHANGED <<audioVars, timer, starts, owed>>

Loop ==
    /\ mpc = "timer" /\ ~timer
    /\ mpc' = "input"
    /\ UNCHANGED <<audioVars, flags, timer, starts, owed>>

(* test_and_set, send_message and timer.start, whose command may find no   *)
(* room within 10 ms                                                       *)
Report(here, which, next) ==
    /\ mpc = here
    /\ mpc' = next
    /\ flags' = [flags EXCEPT ![which] = TRUE]
    /\ IF flags[which] THEN UNCHANGED <<owed, starts>>
       ELSE /\ owed' = [owed EXCEPT ![which] = FALSE]
            /\ starts' \in {starts} \union {n \in {starts + 1} : n <= MaxStarts}
    /\ UNCHANGED <<audioVars, timer>>

ReportInput == Report("input", "input", "output")
ReportOutput == Report("output", "output", "timer")

TimerStarts ==
    /\ starts > 0 /\ starts' = starts - 1
    /\ timer' = TRUE
    /\ UNCHANGED <<audioVars, flags, mpc, owed>>

TimerExpires ==
    /\ timer
    /\ timer' = FALSE
    /\ UNCHANGED <<audioVars, flags, mpc, starts, owed>>

-----------------------------------------------------------------------------
(* i2s_setup, which may fail to start the task                             *)
Init ==
    /\ task \in {"start", "ended"}
    /\ rx_buf = [i \in Index |-> 0]
    /\ gate = GateInit
    /\ times = [attack |-> 0, hold |-> 0, release |-> 0]
    /\ sample = 0 /\ signal = "none"
    /\ flags = [c \in Sides |-> TRUE]
    /\ mpc = "timer" /\ timer = FALSE /\ starts = 0
    /\ owed = [c \in Sides |-> FALSE]

AudioStep == Read \/ Input \/ SetTimes \/ Analyse \/ Output
LoopStep == Loop \/ ReportInput \/ ReportOutput

Next == Start \/ AudioStep \/ LoopStep \/ TimerStarts \/ TimerExpires

(* The audio task has a core of its own and each wait in it has a timeout; *)
(* the main loop waits a millisecond in each turn; the timer daemon runs.  *)
Fairness ==
    /\ WF_vars(AudioStep)
    /\ WF_vars(LoopStep)
    /\ WF_vars(TimerStarts) /\ WF_vars(TimerExpires)

Spec == Init /\ [][Next]_vars /\ Fairness

-----------------------------------------------------------------------------
(* Properties *)

(* Types, and the gain fits the state of the gate (noise_gate.cpp), across *)
(* changes of attack, hold and release between buffers: nothing passes a   *)
(* closed gate, an open one changes nothing, and the gain never leaves     *)
(* 0 .. 1.                                                                 *)
TypeOK ==
    /\ task \in {"start", "ended", "read", "input", "set", "analyse", "output"}
    /\ rx_buf \in [Index -> INT24_MIN .. INT24_MAX]
    /\ gate.state \in {"INIT", "CLOSED", "ATTACK", "OPEN", "RELEASE"}
    /\ gate.gain \in 0 .. Full
    /\ \E h \in Holds : gate.hold_count \in 0 .. h + 1
    /\ gate.state = "OPEN" => gate.gain = Full /\ \E h \in Holds : gate.hold_count <= h
    /\ gate.state \in {"INIT", "CLOSED"} => gate.gain = 0
    /\ task = "analyse" => times \in Times
    /\ IF task = "analyse" THEN sample \in Index ELSE sample = 0
    /\ signal \in Levels \union {"none"}
    /\ flags \in [Sides -> BOOLEAN]
    /\ owed \in [Sides -> BOOLEAN]
    /\ mpc \in {"timer", "input", "output"} /\ timer \in BOOLEAN
    /\ starts \in 0 .. MaxStarts

(* A signal that stays above threshold opens the gate for good, and one    *)
(* that stays below threshold_low closes it, whatever it did before and    *)
(* however the times are changed meanwhile.                                *)
GateFollows ==
    /\ <>[](signal = "high") => <>[](gate.state = "OPEN")
    /\ <>[](signal = "low") => <>[](gate.state = "CLOSED")

(* What hysteresis is for: while the signal is between the thresholds the  *)
(* gain does not change, in any state of the gate.                         *)
HysteresisHolds == [][signal' = "between" => gate'.gain = gate.gain]_gate

(* Clipped samples of either side are reported, those too that the audio   *)
(* task finds between a look at the flag and the report, or while the      *)
(* throttle is on.                                                         *)
ClipIsReported == \A which \in Sides : owed[which] ~> ~owed[which]
=============================================================================
