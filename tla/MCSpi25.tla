------------------------------- MODULE MCSpi25 -------------------------------
(* Constant values for checking Spi25 with TLC.                            *)
EXTENDS Spi25

MCDriverOf == [d \in Devices |-> IF d = "flash" THEN "s25" ELSE "25aa"]
MCProgramTime == [d \in Devices |-> IF d = "fram" THEN 0 ELSE 3]
MCEraseTime == [d \in Devices |-> IF d = "flash" THEN 6 ELSE 0]
MCEraseTimes == [d \in Devices |-> {4, 6}]

(* Chips that keep to the worst case of their data sheet, and one that     *)
(* does not.                                                               *)
ChipsInTime == [d \in Devices |-> IF d = "fram" THEN {0} ELSE {1, 2, 3}]
ChipsLate == [d \in Devices |-> IF d = "fram" THEN {0} ELSE {2, 5}]
=============================================================================
