-------------------------- MODULE MCParameterStore --------------------------
(* Model values for ParameterStore: as many parameters as there is room    *)
(* for in updated_parameters, as in the firmware.                          *)
EXTENDS ParameterStore

CONSTANTS p1, p2, low, high, wild

MCParams == {p1, p2}
MCValid == {low, high}
MCInvalid == {wild}
=============================================================================
