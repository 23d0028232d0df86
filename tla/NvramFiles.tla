------------------------------ MODULE NvramFiles ------------------------------
(***************************************************************************)
(* What the file system promises to its caller: files with names, each a   *)
(* byte array of its own.  A write changes bytes of one file, from first   *)
(* to last, and reports how many it is sure of; a read returns bytes of    *)
(* one file; create adds a file and leaves the others alone; only a format *)
(* removes files.                                                          *)
(***************************************************************************)
EXTENDS Integers

CONSTANTS
  Names,      \* names of files
  Contents,   \* what a file may contain: functions from 0 .. size - 1
  Buffers     \* what may be written: [len, data]

VARIABLES
  files,      \* the contents of every file, by name
  transfer    \* what the last call transferred: of which file, from where on

avars == <<files, transfer>>

NoTransfer == [op |-> "none"]

Init == files = <<>> /\ transfer = NoTransfer

Create(name) ==
  /\ transfer' = NoTransfer
  /\ name \notin DOMAIN files
  /\ \E c \in Contents : files' = [n \in DOMAIN files \cup {name} |-> IF n = name THEN c ELSE files[n]]

Format == transfer' = NoTransfer /\ files' = <<>>

(* The file c with the first n bytes of a buffer from position at on.      *)
Put(c, at, buf, n) ==
  [x \in DOMAIN c |-> IF x - at \in 0 .. n - 1 THEN buf.data[x - at] ELSE c[x]]

Write(name, at, buf) ==
  \E sure \in 0 .. buf.len :
    /\ transfer' = [op |-> "write", name |-> name, at |-> at, count |-> sure]
    /\ \E n \in sure .. buf.len :
         /\ at .. at + n - 1 \subseteq DOMAIN files[name]
         /\ files' = [files EXCEPT ![name] = Put(@, at, buf, n)]

Read(name, at, end) ==
  /\ at .. end \subseteq DOMAIN files[name]
  /\ transfer' = [ op |-> "read", name |-> name, at |-> at,
                   bytes |-> [x \in 0 .. end - at |-> files[name][at + x]] ]
  /\ UNCHANGED files

(* Any other call, and a transfer of nothing.                              *)
Other == transfer' = NoTransfer /\ UNCHANGED files

Next ==
  \/ Other
  \/ Format
  \/ \E name \in Names : Create(name)
  \/ \E name \in DOMAIN files : \E at \in DOMAIN files[name] :
       \/ \E buf \in Buffers : Write(name, at, buf)
       \/ \E end \in DOMAIN files[name] : at <= end /\ Read(name, at, end)

Spec == Init /\ [][Next]_avars
=============================================================================
