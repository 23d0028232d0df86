------------------------------- MODULE MtdBytes -------------------------------
(***************************************************************************)
(* What MtdBase::write() and MtdBase::read() promise to the threads that   *)
(* call them: a write puts its bytes at their addresses from first to last *)
(* and reports how many it is sure of; it may have put some more when it   *)
(* breaks off; no other address is touched.  A read returns the contents   *)
(* of one moment or fails.                                                 *)
(***************************************************************************)
EXTENDS Integers

CONSTANTS
  Threads,    \* the threads that use the device
  Memories,   \* what the device may hold at first
  Writes,     \* what may be written: [offset, len, data]
  Reads       \* what may be read: [offset, len]

VARIABLES
  mem,        \* the memory
  call        \* what each thread is doing

bvars == <<mem, call>>

Idle == [op |-> "idle"]
Writing(r, done, broken) == [op |-> "write", req |-> r, done |-> done, broken |-> broken]
Reading(r, got) == [op |-> "read", req |-> r, got |-> got]
Nothing == <<>>

Snapshot(r) == [i \in 0 .. r.len - 1 |-> mem[r.offset + i]]

(* The memory with bytes from .. to - 1 of request r in place.             *)
Put(r, from, to) ==
  [ x \in DOMAIN mem |->
      IF x - r.offset \in from .. to - 1 THEN r.data[x - r.offset] ELSE mem[x] ]

Init ==
  /\ mem \in Memories
  /\ call = [t \in Threads |-> Idle]

Begin(t) ==
  /\ call[t] = Idle
  /\ \/ \E r \in Writes : call' = [call EXCEPT ![t] = Writing(r, 0, FALSE)]
     \/ \E r \in Reads : call' = [call EXCEPT ![t] = Reading(r, Nothing)]
  /\ UNCHANGED mem

Progress(t) ==
  /\ call[t].op = "write" /\ ~ call[t].broken
  /\ \E n \in call[t].done + 1 .. call[t].req.len :
       /\ mem' = Put(call[t].req, call[t].done, n)
       /\ call' = [call EXCEPT ![t].done = n]

Break(t) ==
  /\ call[t].op = "write" /\ ~ call[t].broken
  /\ \E n \in call[t].done .. call[t].req.len : mem' = Put(call[t].req, call[t].done, n)
  /\ call' = [call EXCEPT ![t].broken = TRUE]

Get(t) ==
  /\ call[t].op = "read" /\ call[t].got = Nothing
  /\ call' = [call EXCEPT ![t].got = Snapshot(call[t].req)]
  /\ UNCHANGED mem

Return(t) ==
  /\ \/ call[t].op = "write" /\ (call[t].broken \/ call[t].done = call[t].req.len)
     \/ call[t].op = "read"
  /\ call' = [call EXCEPT ![t] = Idle]
  /\ UNCHANGED mem

Next == \E t \in Threads : Begin(t) \/ Progress(t) \/ Break(t) \/ Get(t) \/ Return(t)

Spec == Init /\ [][Next]_bvars
=============================================================================
