------------------------------ MODULE NvramStore ------------------------------
(***************************************************************************)
(* What an application that keeps its files in the store can rely on when  *)
(* power may fail at any moment.  The files it created stay where they     *)
(* are, apart from each other; a file is added in one step or not at all;  *)
(* and the only moment at which all of them can be lost is while a file is *)
(* being added, or before the device was formatted for the first time.     *)
(***************************************************************************)
EXTENDS Integers

CONSTANTS FileNames, Bytes     \* names of files, addresses and sizes in bytes

Extent == [name: FileNames, start: Bytes, size: Bytes]

VARIABLES
  stored,   \* the files, as extents of the device
  state     \* "lost": to be formatted, "valid", or "adding" a file

svars == <<stored, state>>

Before(e, f) == e.start + e.size <= f.start
Apart(e, f) == e.name # f.name /\ (Before(e, f) \/ Before(f, e))

Init == stored = {} /\ state = "lost"

Format == state = "lost" /\ state' = "valid" /\ UNCHANGED stored

BeginAdd == state = "valid" /\ state' = "adding" /\ UNCHANGED stored

(* The new file is there.                                                  *)
Commit ==
  /\ state = "adding" /\ state' = "valid"
  /\ \E new \in Extent : /\ \A old \in stored : Apart(old, new)
                         /\ stored' = stored \cup {new}

(* Nothing had been written when power failed.                             *)
Abandon == state = "adding" /\ state' = "valid" /\ UNCHANGED stored

(* The table was half written when power failed.                           *)
Lose == state = "adding" /\ state' = "lost" /\ stored' = {}

Next == Format \/ BeginAdd \/ Commit \/ Abandon \/ Lose

Spec == Init /\ [][Next]_svars
=============================================================================
