------------------------------- MODULE MCMtdBus -------------------------------
(* Constant values for checking MtdBus with TLC.                           *)
EXTENDS MtdBus

(* Writes that fill one page, a part of one, and parts of three pages, and *)
(* reads across a page boundary.  Byte i of the first write is 1 + i, of   *)
(* the second 11 + i, and so on, so that no two agree.                     *)
Request(k, offset, len) ==
  [offset |-> offset, len |-> len, data |-> [i \in 0 .. len - 1 |-> 10 * k + 1 + i]]

EepromWrites == {Request(0, 1, 4), Request(1, 2, 1), Request(2, 2, 2)}
FramWrites == {Request(0, 1, 5), Request(1, 0, 4), Request(2, 5, 1)}

Unwritten == 0
MCByte == {Unwritten} \cup UNION {{r.data[i] : i \in DOMAIN r.data} : r \in Writes}

MCMemories == {[x \in 0 .. Capacity - 1 |-> Unwritten]}

MCReads == {[offset |-> 1, len |-> 2]}
=============================================================================
