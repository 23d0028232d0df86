-------------------------------- MODULE MtdBus --------------------------------
(***************************************************************************)
(* MtdBase::write() and read() of src/mtd_base.cpp over the I2C driver of  *)
(* src/mtd_24aa.cpp, called by several threads.  A write is cut into       *)
(* pieces, at page boundaries for an EEPROM and at the size of the driver  *)
(* buffer for an FRAM.  Each piece takes the mutex, fills the one buffer   *)
(* all threads share, sends it, waits until the chip has programmed it and *)
(* gives the mutex back, so that pieces of several threads interleave.     *)
(***************************************************************************)
EXTENDS Integers

CONSTANTS
  Threads,     \* the threads that use the device
  PageSize,    \* cfg.pagesize: bytes of a page, of the whole array for FRAM
  Pages,       \* cfg.pages: 1 for FRAM
  BufSize,     \* writebuf_size
  AddrLen,     \* cfg.addr_len: bytes of an address on the bus
  Byte,        \* values of a byte
  Memories,    \* what the chip may hold at first
  Writes,      \* the writes that are called: [offset, len, data]
  Reads,       \* the reads that are called: [offset, len]
  Free         \* the mutex belongs to nobody

Capacity == PageSize * Pages
Block == BufSize - AddrLen

(* Transfers a File makes: inside the device and not empty, as File::write  *)
(* and File::read return early on zero bytes.                              *)
InDevice(r) == r.offset \in Nat /\ r.len \in Nat \ {0} /\ r.offset + r.len <= Capacity

(* A page of an EEPROM and its address fit the buffer, as the comment on   *)
(* the constructor demands; an FRAM only needs room for the address.       *)
ASSUME ConfigAssumption ==
  /\ PageSize \in Nat \ {0} /\ Pages \in Nat \ {0}
  /\ BufSize \in Nat /\ AddrLen \in 1 .. 4 /\ AddrLen < BufSize
  /\ Pages > 1 => PageSize <= Block

ASSUME RequestAssumption ==
  /\ Free \notin Threads
  /\ Memories \subseteq [0 .. Capacity - 1 -> Byte]
  /\ \A r \in Writes : InDevice(r) /\ r.data \in [0 .. r.len - 1 -> Byte]
  /\ \A r \in Reads : InDevice(r)

VARIABLES
  mem,       \* the memory of the chip
  busy,      \* the chip is programming
  mutex,     \* the thread that holds MtdBase::mutex
  writebuf,  \* MtdBase::writebuf: an address and bytes behind it
  pc,        \* where each thread is
  call       \* per thread: the request, bytes written, outcome of the transfer

vars == <<mem, busy, mutex, writebuf, pc, call>>

Nothing == <<>>
NoCall == [op |-> "idle", req |-> Nothing, done |-> 0, ok |-> TRUE, got |-> Nothing]

Init ==
  /\ mem \in Memories
  /\ busy = FALSE
  /\ mutex = Free
  /\ writebuf = [addr |-> 0, len |-> 0, bytes |-> Nothing]
  /\ pc = [t \in Threads |-> "idle"]
  /\ call = [t \in Threads |-> NoCall]

-----------------------------------------------------------------------------
(* Splitting.                                                              *)

IsFram == Pages = 1
PageOf(a) == a \div PageSize

(* split_by_page(): to the end of the first page, then page by page.       *)
ByPage_NoHead(r, done) ==                 \* fault: whole pages from the start
  IF PageOf(r.offset) = PageOf(r.offset + r.len - 1) \/ r.len - done <= PageSize
    THEN r.len - done
    ELSE PageSize

ByPage(r, done) ==
  IF PageOf(r.offset) = PageOf(r.offset + r.len - 1) THEN r.len
  ELSE IF done = 0 THEN PageOf(r.offset) * PageSize + PageSize - r.offset
  ELSE IF r.len - done > PageSize THEN PageSize
  ELSE r.len - done

(* split_by_buffer(): big blocks, then the tail.                           *)
ByBuffer_NoTail(r, done) == Block         \* fault: the last block is not shortened

ByBuffer(r, done) == IF done < (r.len \div Block) * Block THEN Block ELSE r.len % Block

PieceLen(c) == IF IsFram THEN ByBuffer(c.req, c.done) ELSE ByPage(c.req, c.done)
PieceAt(c) == c.req.offset + c.done

-----------------------------------------------------------------------------
(* The chip: inside one write it counts addresses within the page.         *)

Cell(a, i) == (PageOf(a) * PageSize) + ((a + i) % PageSize)

Program(a, bytes, n) ==
  LET hits(x) == {i \in 0 .. n - 1 : Cell(a, i) = x}
  IN [ x \in DOMAIN mem |->
         IF hits(x) = {} THEN mem[x]
         ELSE bytes[CHOOSE i \in hits(x) : \A j \in hits(x) : j <= i] ]

-----------------------------------------------------------------------------
(* The steps of a thread.                                                  *)

At(t, label) == pc[t] = label
Goto(t, label) == pc' = [pc EXCEPT ![t] = label]

Call(t) ==
  /\ At(t, "idle")
  /\ \/ \E r \in Writes : call' = [call EXCEPT ![t] = [NoCall EXCEPT !.op = "write", !.req = r]]
     \/ \E r \in Reads : call' = [call EXCEPT ![t] = [NoCall EXCEPT !.op = "read", !.req = r]]
  /\ Goto(t, "piece")
  /\ UNCHANGED <<mem, busy, mutex, writebuf>>

MutexFree_Ignored == TRUE                 \* fault: built without mutual exclusion

MutexFree == mutex = Free

Acquire(t) ==
  /\ At(t, "piece") /\ MutexFree
  /\ mutex' = t
  /\ Goto(t, "locked")
  /\ UNCHANGED <<mem, busy, writebuf, call>>

(* addr2buf(), and for a write the memcpy() of i2c_write().                *)
FrameOf(c) ==
  IF c.op = "write"
    THEN [addr |-> PieceAt(c), len |-> PieceLen(c),
          bytes |-> [i \in 0 .. PieceLen(c) - 1 |-> c.req.data[c.done + i]]]
    ELSE [addr |-> c.req.offset, len |-> 0, bytes |-> Nothing]

Fill(t) ==
  /\ At(t, "locked")
  /\ writebuf' = FrameOf(call[t])
  /\ Goto(t, "filled")
  /\ UNCHANGED <<mem, busy, mutex, call>>

(* i2c_write(): everything is sent, or the transfer fails after some bytes. *)
(* A programming chip does not answer.                                     *)
SendWrite(t) ==
  /\ At(t, "filled") /\ call[t].op = "write"
  /\ \/ /\ ~ busy
        /\ \E n \in 0 .. writebuf.len, ok \in BOOLEAN :
             /\ ok => n = writebuf.len
             /\ mem' = Program(writebuf.addr, writebuf.bytes, n)
             /\ call' = [call EXCEPT ![t].ok = ok]
        /\ busy' = ~ IsFram
     \/ /\ busy
        /\ call' = [call EXCEPT ![t].ok = FALSE]
        /\ UNCHANGED <<mem, busy>>
  /\ Goto(t, "sent")
  /\ UNCHANGED <<mutex, writebuf>>

(* i2c_read(): the address goes out and all bytes come in, or it fails.    *)
SendRead(t) ==
  /\ At(t, "filled") /\ call[t].op = "read"
  /\ \/ /\ ~ busy
        /\ call' = [call EXCEPT ![t].got =
                      [i \in 0 .. call[t].req.len - 1 |-> mem[(writebuf.addr + i) % Capacity]]]
     \/ call' = [call EXCEPT ![t].ok = FALSE]
  /\ Goto(t, "waited")
  /\ UNCHANGED <<mem, busy, mutex, writebuf>>

(* wait_op_complete(): sleep for cfg.programtime, the worst case of the    *)
(* chip, which is ready when the thread wakes up.                          *)
StillBusy_NoSleep == busy                 \* fault: no sleep

StillBusy == FALSE

Wait(t) ==
  /\ At(t, "sent")
  /\ busy' = StillBusy
  /\ Goto(t, "waited")
  /\ UNCHANGED <<mem, mutex, writebuf, call>>

(* What bus_write() returns: the whole piece or nothing.                   *)
Taken(t) == IF call[t].ok THEN PieceLen(call[t]) ELSE 0

(* The call returns after a read, a failed piece and the last piece.       *)
Finished_Retry(t) ==                      \* fault: a failed piece is sent again for ever
  \/ call[t].op = "read"
  \/ call[t].done + Taken(t) = call[t].req.len

Finished_Late(t) ==                       \* fault: the count is tested one piece late
  \/ call[t].op = "read"
  \/ ~ call[t].ok
  \/ call[t].done >= call[t].req.len

Finished(t) ==
  \/ call[t].op = "read"
  \/ ~ call[t].ok
  \/ call[t].done + Taken(t) = call[t].req.len

(* release(), and the return to the loop that splits the write.            *)
Release(t) ==
  /\ At(t, "waited")
  /\ mutex' = Free
  /\ IF Finished(t)
       THEN Goto(t, "idle") /\ call' = [call EXCEPT ![t] = NoCall]
       ELSE Goto(t, "piece") /\ call' = [call EXCEPT ![t].done = @ + Taken(t), ![t].ok = TRUE]
  /\ UNCHANGED <<mem, busy, writebuf>>

Step(t) == Acquire(t) \/ Fill(t) \/ SendWrite(t) \/ SendRead(t) \/ Wait(t) \/ Release(t)

Next == \E t \in Threads : Call(t) \/ Step(t)

(* A thread that holds the mutex runs on; the mutex of the operating system *)
(* serves threads of one priority in the order they came.                  *)
Fairness == \A t \in Threads : WF_vars(Step(t)) /\ SF_vars(Acquire(t))

Spec == Init /\ [][Next]_vars /\ Fairness

-----------------------------------------------------------------------------
(* Properties.                                                             *)

Labels == {"idle", "piece", "locked", "filled", "sent", "waited"}

Frame == UNION { [addr: 0 .. Capacity - 1, len: {n}, bytes: [0 .. n - 1 -> Byte]] : n \in 0 .. Block }

CallRecord ==
  [ op:   {"idle", "write", "read"},
    req:  {Nothing} \cup Writes \cup Reads,
    done: Nat,
    ok:   BOOLEAN,
    got:  {Nothing} \cup UNION {[0 .. r.len - 1 -> Byte] : r \in Reads} ]

TypeOK ==
  /\ mem \in [0 .. Capacity - 1 -> Byte]
  /\ busy \in BOOLEAN
  /\ mutex \in Threads \cup {Free}
  /\ writebuf \in Frame
  /\ pc \in [Threads -> Labels]
  /\ call \in [Threads -> CallRecord]
  /\ \A t \in Threads :
       /\ pc[t] = "idle" <=> call[t] = NoCall
       /\ call[t].op = "write" => call[t].req \in Writes /\ call[t].done < call[t].req.len
       /\ call[t].op = "read" => call[t].req \in Reads

(* The assertions of fitted_write() and bus_write() hold for every piece:  *)
(* it is not empty, stays on the device and in one page, and fits the      *)
(* buffer behind the address.                                              *)
PieceFits ==
  \A t \in Threads : pc[t] # "idle" /\ call[t].op = "write" =>
    LET a == PieceAt(call[t])
        n == PieceLen(call[t])
    IN /\ n # 0
       /\ a + n <= Capacity
       /\ PageOf(a) = PageOf(a + n - 1)
       /\ n <= Block

(* The chip is ready whenever the mutex is free: no thread can find it     *)
(* programming the piece of another.                                       *)
ChipReady == mutex = Free => ~ busy

(* The calls of all threads together do what MtdBytes promises, whatever   *)
(* pieces interleave and wherever transfers fail.                          *)
Delivered(t) ==
  IF pc[t] \in {"sent", "waited"} THEN call[t].done + Taken(t) ELSE call[t].done

CallOf(t) ==
  CASE call[t].op = "idle"  -> [op |-> "idle"]
    [] call[t].op = "read"  -> [op |-> "read", req |-> call[t].req, got |-> call[t].got]
    [] call[t].op = "write" -> [op |-> "write", req |-> call[t].req,
                                done |-> Delivered(t), broken |-> ~ call[t].ok]

Bytes == INSTANCE MtdBytes WITH call <- [t \in Threads |-> CallOf(t)]

DeliversBytes == Bytes!Spec

(* Every call returns: no failure leaves the mutex locked.                 *)
CallsReturn == \A t \in Threads : pc[t] # "idle" ~> pc[t] = "idle"
=============================================================================
