---------------------------- MODULE MCLegacyEeprom ----------------------------
(* Constant values for checking LegacyEeprom with TLC.                     *)
EXTENDS LegacyEeprom

(* A file that begins and ends inside pages, and one behind it.            *)
MCStart == <<3, 7>>
MCSize == <<4, 3>>

(* The hypothesis of the theorems in LegacyProofs.                         *)
ASSUME HypothesisHolds == CountFits
=============================================================================
