----------------------------- MODULE MCNvramSuite -----------------------------
(* Constant values for checking NvramSuite with TLC.                       *)
EXTENDS NvramSuite

CONSTANTS t0, t1, t2, t3, empty

MCNames == {t0, t1, t2, t3, empty}
MCTestName == [k \in 0 .. 3 |-> <<t0, t1, t2, t3>>[k + 1]]
MCImages == {Unformatted}
MCRandom == [x \in 0 .. Capacity - 1 |-> (37 * x + 11) % 251]

(* The last misaligned write leaves its pattern in front, the caller 0.    *)
MCStale == [x \in 0 .. Capacity - 1 |-> IF x < 17 THEN 23 ELSE 0]

(* An EEPROM with one buffer for all of it, an FRAM with smaller buffers.   *)
MCContexts ==
  { [pagesize |-> 8, pages |-> Capacity \div 8, len |-> Capacity],
    [pagesize |-> Capacity, pages |-> 1, len |-> Capacity \div 2] }

(* The right EEPROM, one of larger pages, the right FRAM, smaller pages,   *)
(* half of the memory.                                                     *)
MCChips ==
  { [page |-> 8, cap |-> Capacity], [page |-> 16, cap |-> Capacity],
    [page |-> Capacity, cap |-> Capacity],
    [page |-> 4, cap |-> Capacity], [page |-> 8, cap |-> Capacity \div 2] }

(* The hypotheses of the theorems in NvramSuiteProofs and                  *)
(* NvramSuitePassProofs.                                                   *)
ASSUME HypothesesHold ==
  BuffersSuffice /\ ChipsDiffer /\ RandomDiffers /\ WholeChunks /\ DeviceSuits /\ BufferDiffers
=============================================================================
