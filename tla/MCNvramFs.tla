------------------------------ MODULE MCNvramFs ------------------------------
(* Constant values for checking NvramFs with TLC.                          *)
EXTENDS NvramFs

CONSTANTS a, b, dotted, long, empty

MCNames == {a, b, dotted, long, empty}

(* An application that only uses names fsck() accepts.                     *)
MCProperNames == {a, b, long, empty}

NoFile == [name |-> empty, start |-> 0, size |-> 0]

(* Erased memory, an interrupted mkfs, a table of more files than fit.     *)
MCImages ==
  { m \in [ magic: BOOLEAN, cnt: {0, U8 - 1}, toc: {[i \in Slots |-> NoFile]}, sealed: BOOLEAN ] :
      ~ Formatted(m) }
=============================================================================
