---------------------------- MODULE MCAudioTask ----------------------------
(* A small instance of AudioTask: buffers of two samples, both limits of   *)
(* the converters, and times of the gate that change.                      *)
EXTENDS AudioTask

InputsDef == {INT24_MIN, INT24_MAX}
OutputsDef == {0, INT24_MAX + 1}
=============================================================================
