---------------------------- MODULE MCNvramVolume ----------------------------
(* Constant values for checking NvramVolume with TLC.                      *)
EXTENDS NvramVolume

CONSTANTS a, b, dotted, long, empty

MCNames == {a, b, dotted, long, empty}

NoFile == [name |-> empty, start |-> 0, size |-> 0]

(* Erased memory, an interrupted mkfs, a table of more files than fit.     *)
MCImages ==
  { m \in [ magic: BOOLEAN, cnt: {0, U8 - 1}, toc: {[i \in Slots |-> NoFile]}, sealed: BOOLEAN ] :
      ~ Formatted(m) }

MCByte == {0, 1}

(* One byte of either value, two different bytes, more than a file takes.  *)
MCBuffers ==
  { [len |-> 1, data |-> [x \in {0} |-> 0]],
    [len |-> 1, data |-> [x \in {0} |-> 1]],
    [len |-> 2, data |-> [x \in 0 .. 1 |-> 1 - x]],
    [len |-> 6, data |-> [x \in 0 .. 5 |-> x % 2]] }
=============================================================================
