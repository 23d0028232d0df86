----------------------------- MODULE MCNvramPower -----------------------------
(* Constant values for checking NvramPower with TLC.                       *)
EXTENDS NvramPower, Crc8, TLC

CONSTANTS a, b, empty

MCNames == {a, b, empty}
MCAppNames == {a, b}
MCAppSize == (a :> 1) @@ (b :> 2)

(* The memory of a new board, erased or with old data in it.               *)
MCImages ==
  { m \in [ magic: BOOLEAN, cnt: {0, 1, U8 - 1}, toc: {EmptyTable}, sealed: BOOLEAN ] :
      ~ Formatted(m) }

(* The theorems about NvramPower apply to this instance.                   *)
ASSUME HypothesesHold == SmallDevice /\ FitsCounter /\ NewBoard
=============================================================================
