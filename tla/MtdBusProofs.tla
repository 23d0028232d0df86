----------------------------- MODULE MtdBusProofs -----------------------------
(***************************************************************************)
(* Theorems about MtdBus for every geometry of the device, every number of *)
(* threads and every set of requests: pieces fit their page and the        *)
(* buffer, the mutex keeps threads apart, and the module implements        *)
(* MtdBytes.                                                               *)
(***************************************************************************)
EXTENDS MtdBus, TLAPS

-----------------------------------------------------------------------------
(* Arithmetic of pages and blocks.                                         *)

(* Multiplication keeps the order.                                         *)
LEMMA TimesMonotone ==
  ASSUME NEW j \in Nat, NEW k \in Nat, NEW m \in Nat, j <= k
  PROVE  j * m <= k * m
  OBVIOUS

LEMMA ModSmall ==
  ASSUME NEW m \in Nat, NEW n \in 0 .. m - 1
  PROVE  n % m = n
  OBVIOUS

(* An address lies in its page.                                            *)
LEMMA InPage ==
  ASSUME NEW a \in Nat
  PROVE  /\ PageOf(a) \in Nat
         /\ PageOf(a) * PageSize <= a
         /\ a < PageOf(a) * PageSize + PageSize
  BY ConfigAssumption DEF PageOf

(* Only one page contains an address.                                      *)
LEMMA PageUnique ==
  ASSUME NEW a \in Nat, NEW k \in Nat, k * PageSize <= a, a < k * PageSize + PageSize
  PROVE  PageOf(a) = k
<1> DEFINE q == PageOf(a)
<1>1. q \in Nat /\ q * PageSize <= a /\ a < q * PageSize + PageSize
  BY InPage
<1>2. PageSize \in Nat
  BY ConfigAssumption
<1> HIDE DEF q
<1>3. ~ q + 1 <= k
  <2> SUFFICES ASSUME q + 1 <= k PROVE FALSE
    OBVIOUS
  <2>1. (q + 1) * PageSize <= k * PageSize
    BY <1>1, <1>2, TimesMonotone
  <2> QED BY <2>1, <1>1, <1>2
<1>4. ~ k + 1 <= q
  <2> SUFFICES ASSUME k + 1 <= q PROVE FALSE
    OBVIOUS
  <2>1. (k + 1) * PageSize <= q * PageSize
    BY <1>1, <1>2, TimesMonotone
  <2> QED BY <2>1, <1>1, <1>2
<1> QED BY <1>1, <1>3, <1>4 DEF q

(* Within its page the chip counts addresses one by one.                   *)
LEMMA CellInPage ==
  ASSUME NEW a \in Nat, NEW n \in Nat, n # 0, PageOf(a) = PageOf(a + n - 1),
         NEW i \in 0 .. n - 1
  PROVE  Cell(a, i) = a + i
<1> DEFINE q == PageOf(a)
<1>1. q \in Nat /\ q * PageSize <= a /\ a + n - 1 < q * PageSize + PageSize
  <2>1. a + n - 1 \in Nat
    OBVIOUS
  <2> QED BY <2>1, InPage
<1>2. PageSize \in Nat /\ PageSize # 0
  BY ConfigAssumption
<1>3. a + i \in Nat /\ q * PageSize <= a + i /\ a + i < q * PageSize + PageSize
  BY <1>1, <1>2
<1>4. PageOf(a + i) = q
  BY <1>1, <1>3, PageUnique
<1>5. a + i = PageOf(a + i) * PageSize + ((a + i) % PageSize)
  BY <1>2, <1>3 DEF PageOf
<1> QED BY <1>4, <1>5 DEF Cell

-----------------------------------------------------------------------------
(* Splitting.                                                              *)

(* Where a write stands between two pieces: an FRAM write after whole      *)
(* blocks, an EEPROM write at its start or at the start of a later page.   *)
Position(r, d) ==
  IF IsFram THEN \E k \in Nat : d = k * Block
  ELSE \/ d = 0
       \/ /\ PageOf(r.offset) # PageOf(r.offset + r.len - 1)
          /\ \E k \in Nat : r.offset + d = k * PageSize

(* What the assertions of fitted_write() and bus_write() ask of a piece.   *)
Fits(r, d, n) ==
  /\ n \in 1 .. r.len - d
  /\ r.offset + d + n <= Capacity
  /\ PageOf(r.offset + d) = PageOf(r.offset + d + n - 1)
  /\ n <= Block

LEMMA CapacityNat ==
  /\ PageSize \in Nat \ {0} /\ Pages \in Nat \ {0}
  /\ Capacity \in Nat \ {0}
  /\ Block \in Nat \ {0}
  /\ IsFram => Capacity = PageSize
  /\ ~ IsFram => PageSize <= Block
<1>1. PageSize \in Nat \ {0} /\ Pages \in Nat \ {0}
  BY ConfigAssumption
<1>2. PageSize * 1 <= PageSize * Pages
  <2>1. 1 * PageSize <= Pages * PageSize
    BY <1>1, TimesMonotone
  <2> QED BY <2>1, <1>1
<1>3. Capacity \in Nat \ {0}
  BY <1>1, <1>2 DEF Capacity
<1> QED BY <1>1, <1>3, ConfigAssumption DEF Capacity, Block, IsFram

(* split_by_buffer() makes pieces that fit.                                *)
LEMMA BlockPiece ==
  ASSUME NEW r \in Writes, NEW d \in Nat, d < r.len, IsFram, Position(r, d)
  PROVE  /\ Fits(r, d, ByBuffer(r, d))
         /\ Position(r, d + ByBuffer(r, d)) \/ d + ByBuffer(r, d) = r.len
<1> DEFINE n == ByBuffer(r, d)
          q == r.len \div Block
<1>1. r.offset \in Nat /\ r.len \in Nat \ {0} /\ r.offset + r.len <= Capacity
  BY RequestAssumption DEF InDevice
<1>2. Block \in Nat \ {0} /\ PageSize \in Nat \ {0} /\ Capacity = PageSize
  BY CapacityNat
<1>3. PICK k \in Nat : d = k * Block
  BY DEF Position
<1>4. q \in Nat /\ r.len = q * Block + (r.len % Block) /\ r.len % Block \in 0 .. Block - 1
  BY <1>1, <1>2
<1> HIDE DEF q
<1>5. n = IF d < q * Block THEN Block ELSE r.len % Block
  BY DEF ByBuffer, q
<1> HIDE DEF n
<1>6. n \in 1 .. r.len - d /\ n <= Block /\ (Position(r, d + n) \/ d + n = r.len)
  <2>1. CASE d < q * Block
    <3>1. k + 1 <= q
      <4> SUFFICES ASSUME q <= k PROVE FALSE
        BY <1>4
      <4> QED BY <1>2, <1>3, <1>4, <2>1, TimesMonotone
    <3>2. (k + 1) * Block <= q * Block
      BY <3>1, <1>2, <1>4, TimesMonotone
    <3>3. d + Block = (k + 1) * Block
      BY <1>2, <1>3
    <3>4. n = Block
      BY <1>5, <2>1
    <3>5. q * Block \in Nat
      BY <1>2, <1>4
    <3>6. n \in 1 .. r.len - d
      BY <3>2, <3>3, <3>4, <3>5, <1>1, <1>2, <1>4
    <3>7. Position(r, d + n)
      BY <3>3, <3>4 DEF Position
    <3> QED BY <3>4, <3>6, <3>7, <1>2
  <2>2. CASE ~ d < q * Block
    <3>1. k <= q
      <4> SUFFICES ASSUME q + 1 <= k PROVE FALSE
        BY <1>4
      <4>1. (q + 1) * Block <= k * Block
        BY <1>2, <1>4, TimesMonotone
      <4>2. (q + 1) * Block = q * Block + Block
        BY <1>2, <1>4
      <4>3. q * Block \in Nat
        BY <1>2, <1>4
      <4> QED BY <4>1, <4>2, <4>3, <1>1, <1>2, <1>3, <1>4
    <3>2. k * Block <= q * Block
      BY <3>1, <1>2, <1>4, TimesMonotone
    <3>3. q * Block \in Nat
      BY <1>2, <1>4
    <3>4. d = q * Block
      BY <3>2, <3>3, <2>2, <1>3
    <3>5. n = r.len - d
      BY <3>3, <3>4, <1>4, <1>5, <2>2, <1>1
    <3> QED BY <3>4, <3>5, <1>1, <1>4, <1>5, <2>2, <1>2
  <2> QED BY <2>1, <2>2
<1>7. r.offset + d + n <= Capacity
  <2>1. n \in 1 .. r.len - d
    BY <1>6
  <2> QED BY <2>1, <1>1, <1>2
<1>8. PageOf(r.offset + d) = 0 /\ PageOf(r.offset + d + n - 1) = 0
  <2>1. r.offset + d \in Nat /\ r.offset + d + n - 1 \in Nat
    BY <1>1, <1>6
  <2>2. r.offset + d < PageSize /\ r.offset + d + n - 1 < PageSize
    BY <1>1, <1>2, <1>6, <1>7
  <2> QED BY <2>1, <2>2, <1>2, PageUnique
<1>9. n \in 1 .. r.len - d /\ n <= Block
  BY <1>6
<1> QED BY <1>6, <1>7, <1>8, <1>9 DEF Fits, n

(* split_by_page() makes pieces that fit.                                  *)
LEMMA PagePiece ==
  ASSUME NEW r \in Writes, NEW d \in Nat, d < r.len, ~ IsFram, Position(r, d)
  PROVE  /\ Fits(r, d, ByPage(r, d))
         /\ Position(r, d + ByPage(r, d)) \/ d + ByPage(r, d) = r.len
<1> DEFINE n == ByPage(r, d)
          q == PageOf(r.offset)
          last == r.offset + r.len - 1
<1>1. r.offset \in Nat /\ r.len \in Nat \ {0} /\ r.offset + r.len <= Capacity
  BY RequestAssumption DEF InDevice
<1>2. PageSize \in Nat \ {0} /\ PageSize <= Block /\ Capacity \in Nat /\ Block \in Nat
  BY CapacityNat
<1>3. q \in Nat /\ q * PageSize <= r.offset /\ r.offset < q * PageSize + PageSize
  BY <1>1, InPage
<1>4. q * PageSize \in Nat
  BY <1>2, <1>3
<1> SUFFICES /\ n \in 1 .. r.len - d
             /\ PageOf(r.offset + d) = PageOf(r.offset + d + n - 1)
             /\ n <= PageSize
             /\ Position(r, d + n) \/ d + n = r.len
  <2>1. ASSUME n \in 1 .. r.len - d, n <= PageSize
        PROVE  r.offset + d + n <= Capacity /\ n <= Block
    <3> HIDE DEF n
    <3> QED BY <2>1, <1>1, <1>2
  <2> QED BY <2>1 DEF Fits
<1>5. CASE q = PageOf(last)
  <2>1. n = r.len
    BY <1>5 DEF ByPage
  <2>2. d = 0
    BY <1>5 DEF Position
  <2>3. last \in Nat /\ last < q * PageSize + PageSize
    BY <1>1, <1>5, InPage
  <2>4. r.len <= PageSize
    BY <2>3, <1>1, <1>2, <1>3, <1>4
  <2>5. r.offset + d = r.offset /\ r.offset + d + r.len - 1 = last
    BY <2>2, <1>1
  <2> QED BY <2>1, <2>2, <2>4, <2>5, <1>1, <1>5
<1>6. CASE q # PageOf(last) /\ d = 0
  <2> DEFINE m == q * PageSize + PageSize - r.offset
  <2>1. n = m
    BY <1>6 DEF ByPage
  <2>2. m \in 1 .. PageSize
    BY <1>1, <1>2, <1>3, <1>4
  <2>3. m <= r.len
    <3> SUFFICES ASSUME r.len < m PROVE FALSE
      BY <1>1, <1>2, <1>4
    <3>1. last \in Nat /\ q * PageSize <= last /\ last < q * PageSize + PageSize
      BY <1>1, <1>2, <1>3, <1>4
    <3>2. PageOf(last) = q
      BY <3>1, <1>3, PageUnique
    <3> QED BY <3>2, <1>6
  <2>4. PageOf(r.offset + m - 1) = q
    <3>1. /\ r.offset + m - 1 \in Nat
          /\ q * PageSize <= r.offset + m - 1
          /\ r.offset + m - 1 < q * PageSize + PageSize
      BY <1>1, <1>2, <1>3, <1>4
    <3> QED BY <3>1, <1>3, PageUnique
  <2>5. r.offset + m = (q + 1) * PageSize
    BY <1>1, <1>2, <1>3, <1>4
  <2>6. Position(r, m)
    BY <2>5, <1>3, <1>6 DEF Position
  <2> HIDE DEF m
  <2>7. r.offset + d = r.offset /\ r.offset + d + m - 1 = r.offset + m - 1 /\ d + m = m
    BY <2>2, <1>1, <1>6
  <2>8. m \in 1 .. r.len - d
    BY <2>2, <2>3, <1>1, <1>6
  <2> QED BY <2>1, <2>2, <2>4, <2>6, <2>7, <2>8
<1>7. CASE q # PageOf(last) /\ d # 0
  <2>1. PICK k \in Nat : r.offset + d = k * PageSize
    BY <1>7 DEF Position
  <2>2. n = IF r.len - d > PageSize THEN PageSize ELSE r.len - d
    BY <1>7 DEF ByPage
  <2> HIDE DEF n
  <2>3. n \in 1 .. r.len - d /\ n <= PageSize
    BY <2>2, <1>1, <1>2
  <2>4. ASSUME NEW a \in Nat, k * PageSize <= a, a < k * PageSize + PageSize
        PROVE  PageOf(a) = k
    BY <2>4, PageUnique
  <2>5. PageOf(r.offset + d) = k
    <3>1. r.offset + d \in Nat /\ r.offset + d < k * PageSize + PageSize
      BY <2>1, <1>1, <1>2
    <3> QED BY <3>1, <2>1, <2>4, <1>1, <1>2
  <2>6. PageOf(r.offset + d + n - 1) = k
    <3>1. /\ r.offset + d + n - 1 \in Nat
          /\ k * PageSize <= r.offset + d + n - 1
          /\ r.offset + d + n - 1 < k * PageSize + PageSize
      BY <2>1, <2>3, <1>1, <1>2
    <3> QED BY <3>1, <2>4
  <2>7. Position(r, d + n) \/ d + n = r.len
    <3>1. CASE r.len - d > PageSize
      <4>1. r.offset + (d + n) = (k + 1) * PageSize
        BY <2>1, <2>2, <3>1, <1>1, <1>2
      <4> QED BY <4>1, <1>7 DEF Position
    <3>2. CASE ~ r.len - d > PageSize
      BY <3>2, <2>2, <1>1
    <3> QED BY <3>1, <3>2
  <2> QED BY <2>3, <2>5, <2>6, <2>7
<1> QED BY <1>5, <1>6, <1>7

LEMMA PieceOK ==
  ASSUME NEW c \in CallRecord, c.op = "write", c.req \in Writes,
         c.done < c.req.len, Position(c.req, c.done)
  PROVE  /\ Fits(c.req, c.done, PieceLen(c))
         /\ Position(c.req, c.done + PieceLen(c)) \/ c.done + PieceLen(c) = c.req.len
<1>1. c.done \in Nat
  BY DEF CallRecord
<1>2. CASE IsFram
  BY <1>1, <1>2, BlockPiece DEF PieceLen
<1>3. CASE ~ IsFram
  BY <1>1, <1>3, PagePiece DEF PieceLen
<1> QED BY <1>2, <1>3

-----------------------------------------------------------------------------
(* The inductive invariant.                                                *)

Held == {"locked", "filled", "sent", "waited"}

(* One thread: a write that is under way stands between two pieces, and no *)
(* piece starts after a failure.                                           *)
ThreadOK(label, c) ==
  /\ label \in Labels /\ c \in CallRecord
  /\ label = "idle" <=> c = NoCall
  /\ label # "idle" => c.op \in {"write", "read"}
  /\ c.op = "write" => /\ c.req \in Writes /\ c.got = Nothing
                       /\ c.done < c.req.len /\ Position(c.req, c.done)
  /\ c.op = "read" => c.req \in Reads
  /\ label \in {"piece", "locked", "filled"} => c.ok /\ c.got = Nothing

GlobalType ==
  /\ mem \in [0 .. Capacity - 1 -> Byte]
  /\ busy \in BOOLEAN
  /\ mutex \in Threads \cup {Free}
  /\ writebuf \in Frame

ThreadsOK ==
  /\ pc \in [Threads -> Labels]
  /\ call \in [Threads -> CallRecord]
  /\ \A t \in Threads : ThreadOK(pc[t], call[t])

(* The mutex keeps all other threads from the buffer and from the chip.    *)
Holds == \A t \in Threads : pc[t] \in Held <=> mutex = t
Programming == busy => \E t \in Threads : pc[t] = "sent"
Buffered == \A t \in Threads : pc[t] = "filled" => writebuf = FrameOf(call[t])

IInv == GlobalType /\ ThreadsOK /\ Holds /\ Programming /\ Buffered

LEMMA NothingType == Nothing \in [0 .. -1 -> Byte]
  BY DEF Nothing

LEMMA NoCallOK == ThreadOK("idle", NoCall)
  BY DEF ThreadOK, NoCall, CallRecord, Labels

LEMMA FrameType ==
  ASSUME NEW c \in CallRecord, NEW label, ThreadOK(label, c), label # "idle"
  PROVE  FrameOf(c) \in Frame
<1>1. CASE c.op = "write"
  <2> DEFINE n == PieceLen(c)
             f == [i \in 0 .. n - 1 |-> c.req.data[c.done + i]]
  <2>1. c.req \in Writes /\ Fits(c.req, c.done, n)
    BY <1>1, PieceOK DEF ThreadOK
  <2>2. c.done \in Nat /\ c.req.offset \in Nat /\ c.req.len \in Nat
        /\ c.req.data \in [0 .. c.req.len - 1 -> Byte]
    BY <2>1, RequestAssumption DEF CallRecord, InDevice
  <2> HIDE DEF n
  <2>3. n \in 0 .. Block /\ n \in 1 .. c.req.len - c.done
        /\ c.req.offset + c.done + n <= Capacity
    BY <2>1, CapacityNat DEF Fits
  <2>4. PieceAt(c) \in 0 .. Capacity - 1
    BY <2>2, <2>3, CapacityNat DEF PieceAt
  <2>5. f \in [0 .. n - 1 -> Byte]
    <3>1. ASSUME NEW i \in 0 .. n - 1 PROVE c.done + i \in 0 .. c.req.len - 1
      BY <2>2, <2>3
    <3>2. ASSUME NEW i \in 0 .. n - 1 PROVE c.req.data[c.done + i] \in Byte
      BY <3>1, <2>2
    <3> QED BY <3>2
  <2> HIDE DEF f
  <2>6. [addr |-> PieceAt(c), len |-> n, bytes |-> f]
           \in [addr: 0 .. Capacity - 1, len: {n}, bytes: [0 .. n - 1 -> Byte]]
    BY <2>4, <2>5
  <2>7. FrameOf(c) = [addr |-> PieceAt(c), len |-> n, bytes |-> f]
    BY <1>1 DEF FrameOf, n, f
  <2> QED BY <2>3, <2>6, <2>7 DEF Frame
<1>2. CASE c.op # "write"
  <2>1. c.req \in Reads
    BY <1>2 DEF ThreadOK
  <2>2. c.req.offset \in 0 .. Capacity - 1
    BY <2>1, RequestAssumption, CapacityNat DEF InDevice
  <2>3. [addr |-> c.req.offset, len |-> 0, bytes |-> Nothing]
           \in [addr: 0 .. Capacity - 1, len: {0}, bytes: [0 .. 0 - 1 -> Byte]]
    BY <2>2, NothingType
  <2>4. FrameOf(c) = [addr |-> c.req.offset, len |-> 0, bytes |-> Nothing]
    BY <1>2 DEF FrameOf
  <2>5. 0 \in 0 .. Block
    BY CapacityNat
  <2> QED BY <2>3, <2>4, <2>5 DEF Frame
<1> QED BY <1>1, <1>2

(* The invariant contains the type invariant, and gives both properties.   *)
LEMMA InvImplies == IInv => TypeOK /\ PieceFits /\ ChipReady
<1> SUFFICES ASSUME IInv PROVE TypeOK /\ PieceFits /\ ChipReady
  OBVIOUS
<1>1. TypeOK
  BY DEF IInv, GlobalType, ThreadsOK, ThreadOK, TypeOK
<1>2. PieceFits
  <2> SUFFICES ASSUME NEW t \in Threads, pc[t] # "idle", call[t].op = "write"
               PROVE  LET a == PieceAt(call[t])
                          n == PieceLen(call[t])
                      IN n # 0 /\ a + n <= Capacity /\ PageOf(a) = PageOf(a + n - 1) /\ n <= Block
    BY DEF PieceFits
  <2> DEFINE c == call[t]
  <2>1. /\ c \in CallRecord /\ c.req \in Writes /\ c.done < c.req.len
        /\ Position(c.req, c.done)
    BY DEF IInv, ThreadsOK, ThreadOK
  <2>2. Fits(c.req, c.done, PieceLen(c))
    BY <2>1, PieceOK
  <2> QED BY <2>2 DEF Fits, PieceAt
<1>3. ChipReady
  BY RequestAssumption DEF IInv, Programming, Holds, Held, ChipReady
<1> QED BY <1>1, <1>2, <1>3

-----------------------------------------------------------------------------
(* Steps.                                                                  *)

(* A piece within one page ends up byte by byte where it was sent.         *)
LEMMA Programmed ==
  ASSUME NEW a \in Nat, NEW n \in Nat, n # 0, PageOf(a) = PageOf(a + n - 1),
         NEW k \in 0 .. n, NEW bytes, DOMAIN mem = 0 .. Capacity - 1
  PROVE  Program(a, bytes, k) =
           [x \in DOMAIN mem |-> IF x - a \in 0 .. k - 1 THEN bytes[x - a] ELSE mem[x]]
<1> DEFINE hits(x) == {i \in 0 .. k - 1 : Cell(a, i) = x}
           value(x) == IF hits(x) = {} THEN mem[x]
                       ELSE bytes[CHOOSE i \in hits(x) : \A j \in hits(x) : j <= i]
<1>1. ASSUME NEW i \in 0 .. k - 1 PROVE Cell(a, i) = a + i
  <2>1. i \in 0 .. n - 1
    OBVIOUS
  <2> QED BY <2>1, CellInPage
<1>2. ASSUME NEW x \in DOMAIN mem
      PROVE  value(x) = IF x - a \in 0 .. k - 1 THEN bytes[x - a] ELSE mem[x]
  <2>1. x \in Int
    BY CapacityNat
  <2>2. CASE x - a \in 0 .. k - 1
    <3>1. hits(x) = {x - a}
      <4>1. ASSUME NEW i \in 0 .. k - 1 PROVE Cell(a, i) = x <=> i = x - a
        BY <1>1, <2>1
      <4> QED BY <4>1, <2>2
    <3> HIDE DEF hits
    <3>2. (CHOOSE i \in hits(x) : \A j \in hits(x) : j <= i) = x - a
      BY <3>1, <2>1
    <3> QED BY <3>1, <3>2, <2>2
  <2>3. CASE x - a \notin 0 .. k - 1
    <3>1. hits(x) = {}
      BY <1>1, <2>1, <2>3
    <3> QED BY <3>1, <2>3
  <2> QED BY <2>2, <2>3
<1>3. Program(a, bytes, k) = [x \in DOMAIN mem |-> value(x)]
  BY DEF Program
<1> HIDE DEF value
<1> QED BY <1>2, <1>3

(* A thread may move to another label with another record, and the others  *)
(* stay where they are.                                                    *)
LEMMA ThreadsStep ==
  ASSUME ThreadsOK, NEW t \in Threads, NEW label, NEW c, ThreadOK(label, c),
         pc' = [pc EXCEPT ![t] = label], call' = [call EXCEPT ![t] = c]
  PROVE  /\ ThreadsOK'
         /\ pc'[t] = label /\ call'[t] = c
         /\ \A u \in Threads \ {t} : pc'[u] = pc[u] /\ call'[u] = call[u]
<1>1. label \in Labels /\ c \in CallRecord
  BY DEF ThreadOK
<1>2. pc' \in [Threads -> Labels] /\ call' \in [Threads -> CallRecord]
  BY <1>1 DEF ThreadsOK
<1>3. pc'[t] = label /\ call'[t] = c
  BY DEF ThreadsOK
<1>4. \A u \in Threads \ {t} : pc'[u] = pc[u] /\ call'[u] = call[u]
  BY DEF ThreadsOK
<1>5. \A u \in Threads : ThreadOK(pc'[u], call'[u])
  BY <1>3, <1>4, Zenon DEF ThreadsOK
<1> QED BY <1>2, <1>3, <1>4, <1>5, Zenon DEF ThreadsOK

(* The thread that holds the mutex is the only one between Acquire and     *)
(* Release.                                                                *)
LEMMA HolderIsAlone ==
  ASSUME Holds, NEW t \in Threads, pc[t] \in Held, NEW u \in Threads \ {t}
  PROVE  mutex = t /\ pc[u] \notin Held
  BY DEF Holds

LEMMA CallStep ==
  ASSUME IInv, NEW t \in Threads, Call(t)
  PROVE  IInv'
<1>1. PICK c : /\ call' = [call EXCEPT ![t] = c]
               /\ \/ \E r \in Writes : c = [NoCall EXCEPT !.op = "write", !.req = r]
                  \/ \E r \in Reads : c = [NoCall EXCEPT !.op = "read", !.req = r]
  BY Zenon DEF Call
<1>2. ThreadOK("piece", c)
  <2>1. CASE \E r \in Writes : c = [NoCall EXCEPT !.op = "write", !.req = r]
    <3>1. PICK r \in Writes : c = [op |-> "write", req |-> r, done |-> 0, ok |-> TRUE, got |-> Nothing]
      BY <2>1 DEF NoCall
    <3>2. Position(r, 0) /\ 0 < r.len
      <4>1. 0 * Block = 0
        BY CapacityNat
      <4> QED BY <4>1, RequestAssumption DEF Position, InDevice
    <3> QED BY <3>1, <3>2 DEF ThreadOK, NoCall, CallRecord, Labels
  <2>2. CASE \E r \in Reads : c = [NoCall EXCEPT !.op = "read", !.req = r]
    <3>1. PICK r \in Reads : c = [op |-> "read", req |-> r, done |-> 0, ok |-> TRUE, got |-> Nothing]
      BY <2>2 DEF NoCall
    <3> QED BY <3>1 DEF ThreadOK, NoCall, CallRecord, Labels
  <2> QED BY <1>1, <2>1, <2>2
<1>3. pc[t] = "idle" /\ pc' = [pc EXCEPT ![t] = "piece"]
  BY DEF Call, At, Goto
<1>4. /\ ThreadsOK'
      /\ pc'[t] = "piece" /\ call'[t] = c
      /\ \A u \in Threads \ {t} : pc'[u] = pc[u] /\ call'[u] = call[u]
  BY <1>1, <1>2, <1>3, ThreadsStep, Zenon DEF IInv
<1>5. mem' = mem /\ busy' = busy /\ mutex' = mutex /\ writebuf' = writebuf
  BY DEF Call
<1>6. GlobalType'
  BY <1>5 DEF IInv, GlobalType
<1>7. Holds'
  BY <1>3, <1>4, <1>5 DEF IInv, Holds, Held
<1>8. Programming'
  BY <1>3, <1>4, <1>5 DEF IInv, Programming
<1>9. Buffered'
  BY <1>4, <1>5 DEF IInv, Buffered
<1> QED BY <1>4, <1>6, <1>7, <1>8, <1>9 DEF IInv

(* A step that leaves the record of its thread alone.                      *)
LEMMA LabelStep ==
  ASSUME IInv, NEW t \in Threads, NEW label, ThreadOK(label, call[t]),
         pc' = [pc EXCEPT ![t] = label], UNCHANGED call
  PROVE  /\ ThreadsOK'
         /\ pc'[t] = label
         /\ \A u \in Threads \ {t} : pc'[u] = pc[u]
<1>1. call' = [call EXCEPT ![t] = call[t]]
  BY DEF IInv, ThreadsOK
<1> QED BY <1>1, ThreadsStep DEF IInv

LEMMA AcquireStep ==
  ASSUME IInv, NEW t \in Threads, Acquire(t)
  PROVE  IInv'
<1>1. pc[t] = "piece" /\ pc' = [pc EXCEPT ![t] = "locked"] /\ UNCHANGED call
  BY DEF Acquire, At, Goto
<1>2. mutex = Free /\ mutex' = t /\ mem' = mem /\ busy' = busy /\ writebuf' = writebuf
  BY DEF Acquire, MutexFree
<1>3. ThreadOK("locked", call[t])
  BY <1>1 DEF IInv, ThreadsOK, ThreadOK, Labels
<1>4. ThreadsOK' /\ pc'[t] = "locked" /\ \A u \in Threads \ {t} : pc'[u] = pc[u]
  BY <1>1, <1>3, LabelStep
<1>5. GlobalType'
  BY <1>2 DEF IInv, GlobalType
<1>6. Holds'
  BY <1>2, <1>4, RequestAssumption DEF IInv, Holds, Held
<1>7. Programming'
  BY <1>1, <1>2, <1>4 DEF IInv, Programming
<1>8. Buffered'
  BY <1>1, <1>2, <1>4 DEF IInv, Buffered
<1> QED BY <1>4, <1>5, <1>6, <1>7, <1>8 DEF IInv

LEMMA FillStep ==
  ASSUME IInv, NEW t \in Threads, Fill(t)
  PROVE  IInv'
<1>1. pc[t] = "locked" /\ pc' = [pc EXCEPT ![t] = "filled"] /\ UNCHANGED call
  BY DEF Fill, At, Goto
<1>2. writebuf' = FrameOf(call[t]) /\ mem' = mem /\ busy' = busy /\ mutex' = mutex
  BY DEF Fill
<1>3. ThreadOK("locked", call[t])
  BY <1>1 DEF IInv, ThreadsOK
<1>4. ThreadOK("filled", call[t])
  BY <1>3 DEF ThreadOK, Labels
<1>5. ThreadsOK' /\ pc'[t] = "filled" /\ \A u \in Threads \ {t} : pc'[u] = pc[u]
  BY <1>1, <1>4, LabelStep
<1>6. GlobalType'
  <2>1. FrameOf(call[t]) \in Frame
    BY <1>3, FrameType DEF ThreadOK
  <2> QED BY <1>2, <2>1 DEF IInv, GlobalType
<1>7. Holds'
  BY <1>1, <1>2, <1>5 DEF IInv, Holds, Held
<1>8. Programming'
  BY <1>1, <1>2, <1>5 DEF IInv, Programming
<1>9. Buffered'
  <2>1. ASSUME NEW u \in Threads \ {t} PROVE pc'[u] # "filled"
    BY <2>1, <1>1, <1>5, HolderIsAlone DEF IInv, Held
  <2> QED BY <1>1, <1>2, <2>1 DEF Buffered
<1> QED BY <1>5, <1>6, <1>7, <1>8, <1>9 DEF IInv

LEMMA WaitStep ==
  ASSUME IInv, NEW t \in Threads, Wait(t)
  PROVE  IInv'
<1>1. pc[t] = "sent" /\ pc' = [pc EXCEPT ![t] = "waited"] /\ UNCHANGED call
  BY DEF Wait, At, Goto
<1>2. busy' = FALSE /\ mem' = mem /\ mutex' = mutex /\ writebuf' = writebuf
  BY DEF Wait, StillBusy
<1>3. ThreadOK("sent", call[t])
  BY <1>1 DEF IInv, ThreadsOK
<1>4. ThreadOK("waited", call[t])
  BY <1>3 DEF ThreadOK, Labels
<1>5. ThreadsOK' /\ pc'[t] = "waited" /\ \A u \in Threads \ {t} : pc'[u] = pc[u]
  BY <1>1, <1>4, LabelStep
<1>6. GlobalType'
  BY <1>2 DEF IInv, GlobalType
<1>7. Holds'
  BY <1>1, <1>2, <1>5 DEF IInv, Holds, Held
<1>8. Programming'
  BY <1>2 DEF Programming
<1>9. Buffered'
  BY <1>1, <1>2, <1>5 DEF IInv, Buffered
<1> QED BY <1>5, <1>6, <1>7, <1>8, <1>9 DEF IInv

(* What a thread sends are the bytes of its request at their addresses.    *)
LEMMA SentBytes ==
  ASSUME IInv, NEW t \in Threads, pc[t] = "filled", call[t].op = "write",
         NEW k \in 0 .. writebuf.len
  PROVE  LET r == call[t].req
             d == call[t].done
         IN /\ r \in Writes /\ d \in Nat
            /\ writebuf.len = PieceLen(call[t])
            /\ k \in 0 .. r.len - d
            /\ Program(writebuf.addr, writebuf.bytes, k) =
                 [x \in DOMAIN mem |->
                    IF x - r.offset \in d .. d + k - 1 THEN r.data[x - r.offset] ELSE mem[x]]
<1> DEFINE c == call[t]
          r == c.req
          d == c.done
          n == PieceLen(c)
          a == r.offset + d
          bytes == [i \in 0 .. n - 1 |-> r.data[d + i]]
<1>1. /\ c \in CallRecord /\ r \in Writes /\ d < r.len /\ Position(r, d) /\ c.op = "write"
  BY DEF IInv, ThreadsOK, ThreadOK
<1>2. Fits(r, d, n)
  BY <1>1, PieceOK
<1>3. d \in Nat /\ r.offset \in Nat /\ r.len \in Nat
  BY <1>1, RequestAssumption DEF CallRecord, InDevice
<1>4. writebuf = [addr |-> a, len |-> n, bytes |-> bytes]
  BY <1>1 DEF IInv, Buffered, FrameOf, PieceAt
<1> HIDE DEF r, d, n, bytes
<1>5. n \in 1 .. r.len - d /\ PageOf(a) = PageOf(a + n - 1) /\ a \in Nat /\ k \in 0 .. n
  BY <1>2, <1>3, <1>4 DEF Fits
<1>6. DOMAIN mem = 0 .. Capacity - 1
  BY DEF IInv, GlobalType
<1>7. Program(a, bytes, k) =
        [x \in DOMAIN mem |-> IF x - a \in 0 .. k - 1 THEN bytes[x - a] ELSE mem[x]]
  <2>1. n \in Nat /\ n # 0
    BY <1>3, <1>5
  <2> HIDE DEF a
  <2> QED BY <1>5, <1>6, <2>1, Programmed
<1>8. ASSUME NEW x \in DOMAIN mem
      PROVE  (IF x - a \in 0 .. k - 1 THEN bytes[x - a] ELSE mem[x]) =
             (IF x - r.offset \in d .. d + k - 1 THEN r.data[x - r.offset] ELSE mem[x])
  <2>1. x \in Int
    BY <1>6, CapacityNat
  <2>2. x - a \in 0 .. k - 1 <=> x - r.offset \in d .. d + k - 1
    BY <2>1, <1>3, <1>5
  <2>3. ASSUME x - a \in 0 .. k - 1 PROVE bytes[x - a] = r.data[x - r.offset]
    <3>1. x - a \in 0 .. n - 1 /\ d + (x - a) = x - r.offset
      BY <2>1, <2>3, <1>3, <1>5
    <3> QED BY <3>1 DEF bytes
  <2> QED BY <2>2, <2>3
<1>9. writebuf.addr = a /\ writebuf.bytes = bytes /\ writebuf.len = n
  BY <1>4
<1>10. k \in 0 .. r.len - d
  BY <1>3, <1>5
<1> HIDE DEF a
<1> QED BY <1>1, <1>3, <1>7, <1>8, <1>9, <1>10 DEF r, d, n

LEMMA SentType ==
  ASSUME IInv, NEW t \in Threads, pc[t] = "filled", call[t].op = "write",
         NEW k \in 0 .. writebuf.len
  PROVE  Program(writebuf.addr, writebuf.bytes, k) \in [0 .. Capacity - 1 -> Byte]
<1> DEFINE r == call[t].req
           d == call[t].done
<1>1. /\ r \in Writes /\ d \in Nat /\ k \in 0 .. r.len - d
      /\ Program(writebuf.addr, writebuf.bytes, k) =
           [x \in DOMAIN mem |->
              IF x - r.offset \in d .. d + k - 1 THEN r.data[x - r.offset] ELSE mem[x]]
  BY SentBytes
<1>2. r.len \in Nat /\ r.offset \in Nat /\ r.data \in [0 .. r.len - 1 -> Byte]
  BY <1>1, RequestAssumption DEF InDevice
<1>3. mem \in [0 .. Capacity - 1 -> Byte]
  BY DEF IInv, GlobalType
<1> HIDE DEF r, d
<1>4. ASSUME NEW x \in 0 .. Capacity - 1
      PROVE  (IF x - r.offset \in d .. d + k - 1 THEN r.data[x - r.offset] ELSE mem[x]) \in Byte
  <2>1. ASSUME x - r.offset \in d .. d + k - 1 PROVE x - r.offset \in 0 .. r.len - 1
    BY <2>1, <1>1, <1>2, CapacityNat
  <2> QED BY <2>1, <1>2, <1>3
<1> QED BY <1>1, <1>3, <1>4

LEMMA SendWriteStep ==
  ASSUME IInv, NEW t \in Threads, SendWrite(t)
  PROVE  IInv'
<1>1. /\ pc[t] = "filled" /\ pc' = [pc EXCEPT ![t] = "sent"]
      /\ call[t].op = "write" /\ mutex' = mutex /\ writebuf' = writebuf
  BY DEF SendWrite, At, Goto
<1>2. PICK ok \in BOOLEAN : call' = [call EXCEPT ![t].ok = ok]
  BY DEF SendWrite
<1> DEFINE c == [call[t] EXCEPT !.ok = ok]
<1>3. call' = [call EXCEPT ![t] = c]
  BY <1>2 DEF IInv, ThreadsOK
<1>4. ThreadOK("filled", call[t])
  BY <1>1 DEF IInv, ThreadsOK
<1>5. ThreadOK("sent", c)
  <2>1. call[t] \in CallRecord /\ call[t].op = "write"
    BY <1>1, <1>4 DEF ThreadOK
  <2>2. c \in CallRecord /\ c.op = "write" /\ c.req = call[t].req /\ c.done = call[t].done
        /\ c.got = call[t].got
    BY <2>1 DEF CallRecord
  <2>3. c # NoCall
    BY <2>2 DEF NoCall
  <2> HIDE DEF c
  <2> QED BY <1>1, <1>4, <2>2, <2>3 DEF ThreadOK, Labels
<1> HIDE DEF c
<1>6. ThreadsOK' /\ pc'[t] = "sent" /\ \A u \in Threads \ {t} : pc'[u] = pc[u] /\ call'[u] = call[u]
  BY <1>1, <1>3, <1>5, ThreadsStep, Zenon DEF IInv
<1>7. mem' \in [0 .. Capacity - 1 -> Byte]
  <2>1. CASE mem' = mem
    BY <2>1 DEF IInv, GlobalType
  <2>2. CASE \E n \in 0 .. writebuf.len : mem' = Program(writebuf.addr, writebuf.bytes, n)
    BY <2>2, <1>1, SentType
  <2> QED BY <2>1, <2>2, Zenon DEF SendWrite
<1>8. busy' \in BOOLEAN
  BY DEF SendWrite, IInv, GlobalType
<1>9. GlobalType'
  BY <1>1, <1>7, <1>8 DEF IInv, GlobalType
<1>10. Holds'
  BY <1>1, <1>6 DEF IInv, Holds, Held
<1>11. Programming'
  BY <1>6, Zenon DEF Programming
<1>12. Buffered'
  BY <1>1, <1>6 DEF IInv, Buffered
<1> QED BY <1>6, <1>9, <1>10, <1>11, <1>12 DEF IInv

(* What a read returns are the bytes of its request, in order.             *)
LEMMA ReadBytes ==
  ASSUME IInv, NEW t \in Threads, pc[t] = "filled", call[t].op = "read"
  PROVE  LET r == call[t].req
             got == [i \in 0 .. r.len - 1 |-> mem[(writebuf.addr + i) % Capacity]]
         IN /\ r \in Reads
            /\ got = [i \in 0 .. r.len - 1 |-> mem[r.offset + i]]
            /\ got \in [0 .. r.len - 1 -> Byte]
<1> DEFINE r == call[t].req
<1>1. r \in Reads
  BY DEF IInv, ThreadsOK, ThreadOK
<1>2. r.offset \in Nat /\ r.len \in Nat /\ r.offset + r.len <= Capacity
  BY <1>1, RequestAssumption DEF InDevice
<1>3. writebuf.addr = r.offset
  BY DEF IInv, Buffered, FrameOf
<1> HIDE DEF r
<1>4. ASSUME NEW i \in 0 .. r.len - 1
      PROVE  (r.offset + i) % Capacity = r.offset + i /\ r.offset + i \in 0 .. Capacity - 1
  <2>1. r.offset + i \in 0 .. Capacity - 1
    BY <1>2, CapacityNat
  <2> QED BY <2>1, CapacityNat, ModSmall
<1>5. ASSUME NEW i \in 0 .. r.len - 1 PROVE mem[r.offset + i] \in Byte
  BY <1>4 DEF IInv, GlobalType
<1> QED BY <1>1, <1>3, <1>4, <1>5 DEF r

LEMMA SendReadStep ==
  ASSUME IInv, NEW t \in Threads, SendRead(t)
  PROVE  IInv'
<1>1. /\ pc[t] = "filled" /\ pc' = [pc EXCEPT ![t] = "waited"] /\ call[t].op = "read"
      /\ mem' = mem /\ busy' = busy /\ mutex' = mutex /\ writebuf' = writebuf
  BY DEF SendRead, At, Goto
<1>2. ThreadOK("filled", call[t])
  BY <1>1 DEF IInv, ThreadsOK
<1>3. PICK c : call' = [call EXCEPT ![t] = c] /\ ThreadOK("waited", c)
  <2>1. call[t] \in CallRecord /\ call[t].op = "read" /\ call[t].req \in Reads
    BY <1>1, <1>2 DEF ThreadOK
  <2>2. CASE call' = [call EXCEPT ![t].ok = FALSE]
    <3> DEFINE c == [call[t] EXCEPT !.ok = FALSE]
    <3>1. c \in CallRecord /\ c.op = "read" /\ c.req = call[t].req
      BY <2>1 DEF CallRecord
    <3>2. c # NoCall
      BY <3>1 DEF NoCall
    <3>3. call' = [call EXCEPT ![t] = c]
      BY <2>2 DEF IInv, ThreadsOK
    <3> HIDE DEF c
    <3>4. ThreadOK("waited", c)
      BY <2>1, <3>1, <3>2 DEF ThreadOK, Labels
    <3> QED BY <3>3, <3>4
  <2>3. CASE call' = [call EXCEPT ![t].got =
                        [i \in 0 .. call[t].req.len - 1 |-> mem[(writebuf.addr + i) % Capacity]]]
    <3> DEFINE got == [i \in 0 .. call[t].req.len - 1 |-> mem[(writebuf.addr + i) % Capacity]]
               c == [call[t] EXCEPT !.got = got]
    <3>1. got \in UNION {[0 .. r.len - 1 -> Byte] : r \in Reads}
      BY <1>1, <2>1, ReadBytes
    <3>2. call' = [call EXCEPT ![t] = c]
      BY <2>3 DEF IInv, ThreadsOK
    <3> HIDE DEF got
    <3>3. c \in CallRecord /\ c.op = "read" /\ c.req = call[t].req
      BY <2>1, <3>1 DEF CallRecord
    <3>4. c # NoCall
      BY <3>3 DEF NoCall
    <3> HIDE DEF c
    <3>5. ThreadOK("waited", c)
      BY <2>1, <3>3, <3>4 DEF ThreadOK, Labels
    <3> QED BY <3>2, <3>5
  <2> QED BY <2>2, <2>3, Zenon DEF SendRead
<1>4. ThreadsOK' /\ pc'[t] = "waited" /\ \A u \in Threads \ {t} : pc'[u] = pc[u] /\ call'[u] = call[u]
  BY <1>1, <1>3, ThreadsStep, Zenon DEF IInv
<1>5. GlobalType'
  BY <1>1 DEF IInv, GlobalType
<1>6. Holds'
  BY <1>1, <1>4 DEF IInv, Holds, Held
<1>7. Programming'
  BY <1>1, <1>4 DEF IInv, Programming
<1>8. Buffered'
  BY <1>1, <1>4 DEF IInv, Buffered
<1> QED BY <1>4, <1>5, <1>6, <1>7, <1>8 DEF IInv

(* The record of a thread that has given the mutex back.                   *)
Released(t) ==
  IF Finished(t) THEN NoCall
  ELSE [call[t] EXCEPT !.done = @ + Taken(t), !.ok = TRUE]

(* A call goes on only after a whole piece, and not after the last one.    *)
LEMMA GoesOn ==
  ASSUME IInv, NEW t \in Threads, pc[t] = "waited", ~ Finished(t)
  PROVE  /\ call[t].op = "write" /\ call[t].ok /\ Taken(t) = PieceLen(call[t])
         /\ ThreadOK("piece", Released(t))
<1> DEFINE c == call[t]
           n == PieceLen(c)
           e == [c EXCEPT !.done = c.done + n, !.ok = TRUE]
<1>1. ThreadOK("waited", c)
  BY DEF IInv, ThreadsOK
<1>2. c.op = "write" /\ c.ok /\ Taken(t) = n /\ c.done + n # c.req.len
  BY <1>1 DEF Finished, Taken, ThreadOK
<1>3. /\ c \in CallRecord /\ c.req \in Writes /\ c.got = Nothing
      /\ c.done < c.req.len /\ Position(c.req, c.done)
  BY <1>1, <1>2 DEF ThreadOK
<1>4. Fits(c.req, c.done, n) /\ Position(c.req, c.done + n)
  BY <1>2, <1>3, PieceOK
<1>5. c.done \in Nat /\ c.req.len \in Nat
  BY <1>3, RequestAssumption DEF CallRecord, InDevice
<1>6. Released(t) = e
  BY <1>2 DEF Released
<1> HIDE DEF n
<1>7. n \in Nat /\ c.done + n < c.req.len
  BY <1>2, <1>4, <1>5 DEF Fits
<1>8. /\ e \in CallRecord /\ e.op = "write" /\ e.req = c.req /\ e.done = c.done + n
      /\ e.ok /\ e.got = Nothing
  <2>1. c.done + n \in Nat
    BY <1>5, <1>7
  <2> DEFINE m == c.done + n
  <2> HIDE DEF m
  <2>2. e = [c EXCEPT !.done = m, !.ok = TRUE]
    BY DEF m
  <2>3. e \in CallRecord
    BY <2>1, <2>2, <1>3 DEF CallRecord, m
  <2>4. e.op = c.op /\ e.req = c.req /\ e.done = m /\ e.ok /\ e.got = c.got
    BY <2>2, <1>3 DEF CallRecord
  <2> QED BY <2>3, <2>4, <1>2, <1>3 DEF m
<1>9. e # NoCall
  BY <1>8 DEF NoCall
<1> HIDE DEF e
<1>10. ThreadOK("piece", e)
  BY <1>3, <1>4, <1>7, <1>8, <1>9 DEF ThreadOK, Labels
<1> QED BY <1>2, <1>6, <1>10 DEF n

LEMMA ReleaseStep ==
  ASSUME IInv, NEW t \in Threads, Release(t)
  PROVE  IInv'
<1> DEFINE label == IF Finished(t) THEN "idle" ELSE "piece"
<1>1. /\ pc[t] = "waited" /\ mutex' = Free
      /\ mem' = mem /\ busy' = busy /\ writebuf' = writebuf
  BY DEF Release, At
<1>2. pc' = [pc EXCEPT ![t] = label]
  BY Zenon DEF Release, Goto
<1>3. call' = [call EXCEPT ![t] = Released(t)]
  <2>1. CASE Finished(t)
    BY <2>1, Zenon DEF Release, Released
  <2>2. CASE ~ Finished(t)
    <3>1. call' = [call EXCEPT ![t].done = @ + Taken(t), ![t].ok = TRUE]
      BY <2>2, Zenon DEF Release
    <3>2. Released(t) = [call[t] EXCEPT !.done = @ + Taken(t), !.ok = TRUE]
      BY <2>2 DEF Released
    <3> QED BY <3>1, <3>2 DEF IInv, ThreadsOK
  <2> QED BY <2>1, <2>2
<1>4. ThreadOK(label, Released(t))
  BY <1>1, GoesOn, NoCallOK DEF Released
<1>5. ThreadsOK' /\ pc'[t] = label /\ \A u \in Threads \ {t} : pc'[u] = pc[u] /\ call'[u] = call[u]
  BY <1>2, <1>3, <1>4, ThreadsStep, Zenon DEF IInv
<1>6. GlobalType'
  BY <1>1 DEF IInv, GlobalType
<1>7. Holds'
  <2>1. ASSUME NEW u \in Threads \ {t} PROVE pc'[u] \notin Held
    BY <2>1, <1>1, <1>5, HolderIsAlone DEF IInv, Held
  <2>2. pc'[t] \notin Held
    BY <1>5 DEF Held
  <2> QED BY <2>1, <2>2, <1>1, RequestAssumption DEF Holds
<1>8. Programming'
  BY <1>1, <1>5 DEF IInv, Programming
<1>9. Buffered'
  BY <1>1, <1>5 DEF IInv, Buffered
<1> QED BY <1>5, <1>6, <1>7, <1>8, <1>9 DEF IInv

-----------------------------------------------------------------------------
(* Theorems.                                                               *)

LEMMA InitInv == Init => IInv
<1> SUFFICES ASSUME Init PROVE IInv
  OBVIOUS
<1>1. writebuf \in Frame
  <2>1. 0 \in 0 .. Block /\ 0 \in 0 .. Capacity - 1
    BY CapacityNat
  <2>2. [addr |-> 0, len |-> 0, bytes |-> Nothing]
           \in [addr: 0 .. Capacity - 1, len: {0}, bytes: [0 .. 0 - 1 -> Byte]]
    BY <2>1, NothingType
  <2> QED BY <2>1, <2>2 DEF Init, Frame
<1>2. GlobalType
  BY <1>1, RequestAssumption DEF Init, GlobalType
<1>3. \A t \in Threads : pc[t] = "idle" /\ call[t] = NoCall
  BY DEF Init
<1>4. ThreadsOK
  <2>1. \A t \in Threads : ThreadOK(pc[t], call[t])
    BY <1>3, NoCallOK
  <2>2. "idle" \in Labels /\ NoCall \in CallRecord
    BY NoCallOK DEF ThreadOK
  <2> QED BY <2>1, <2>2 DEF Init, ThreadsOK
<1>5. Holds
  BY <1>3, RequestAssumption DEF Init, Holds, Held
<1>6. Programming /\ Buffered
  BY <1>3 DEF Init, Programming, Buffered
<1> QED BY <1>2, <1>4, <1>5, <1>6 DEF IInv

LEMMA StutterInv == IInv /\ UNCHANGED vars => IInv'
<1> SUFFICES ASSUME IInv, UNCHANGED vars PROVE IInv'
  OBVIOUS
<1>1. /\ mem' = mem /\ busy' = busy /\ mutex' = mutex /\ writebuf' = writebuf
      /\ pc' = pc /\ call' = call
  BY DEF vars
<1> QED BY <1>1 DEF IInv, GlobalType, ThreadsOK, Holds, Programming, Buffered

LEMMA NextInv == IInv /\ [Next]_vars => IInv'
<1> SUFFICES ASSUME IInv, [Next]_vars PROVE IInv'
  OBVIOUS
<1>1. CASE UNCHANGED vars
  BY <1>1, StutterInv
<1>2. CASE Next
  <2>1. PICK t \in Threads : Call(t) \/ Step(t)
    BY <1>2, Zenon DEF Next
  <2> QED BY <2>1, CallStep, AcquireStep, FillStep, SendWriteStep, SendReadStep, WaitStep,
             ReleaseStep, Zenon DEF Step
<1> QED BY <1>1, <1>2

(* The invariant holds in every behaviour of the drivers.                  *)
THEOREM Invariance == Spec => []IInv
<1> QED BY InitInv, NextInv, PTL DEF Spec

(* The state of the drivers keeps its types, and no write runs past its    *)
(* request.                                                                *)
THEOREM TypeCorrect == Spec => []TypeOK
<1> QED BY Invariance, InvImplies, PTL

(* The assertions of fitted_write() and bus_write() never fire, whatever   *)
(* the geometry, the size of the buffer and the request.                   *)
THEOREM PiecesFit == Spec => []PieceFits
<1> QED BY Invariance, InvImplies, PTL

(* No thread that takes the mutex finds the chip programming.              *)
THEOREM ChipIsReady == Spec => []ChipReady
<1> QED BY Invariance, InvImplies, PTL

-----------------------------------------------------------------------------
(* The drivers implement MtdBytes.                                         *)

(* CallOf(t), for a thread at a label with a record.                       *)
SureOf(label, c) ==
  IF label \in {"sent", "waited"} THEN c.done + (IF c.ok THEN PieceLen(c) ELSE 0) ELSE c.done

ImageOf(label, c) ==
  CASE c.op = "idle"  -> [op |-> "idle"]
    [] c.op = "read"  -> [op |-> "read", req |-> c.req, got |-> c.got]
    [] c.op = "write" -> [op |-> "write", req |-> c.req,
                          done |-> SureOf(label, c), broken |-> ~ c.ok]

Calls == [t \in Threads |-> CallOf(t)]

LEMMA CallsAre ==
  /\ Calls = [t \in Threads |-> ImageOf(pc[t], call[t])]
  /\ Calls' = [t \in Threads |-> ImageOf(pc'[t], call'[t])]
  BY DEF Calls, CallOf, Delivered, Taken, ImageOf, SureOf

LEMMA ImageOfRead ==
  ASSUME NEW label, NEW c, c.op = "read"
  PROVE  ImageOf(label, c) = [op |-> "read", req |-> c.req, got |-> c.got]
  BY DEF ImageOf

LEMMA ImageOfWrite ==
  ASSUME NEW label, NEW c, c.op = "write"
  PROVE  ImageOf(label, c) =
           [op |-> "write", req |-> c.req, done |-> SureOf(label, c), broken |-> ~ c.ok]
  BY DEF ImageOf

LEMMA ImageOfIdle ==
  ASSUME NEW label
  PROVE  ImageOf(label, NoCall) = [op |-> "idle"]
  BY DEF ImageOf, NoCall

(* A step of one thread changes the image of that thread alone.            *)
LEMMA CallsStep ==
  ASSUME NEW t \in Threads, \A u \in Threads \ {t} : pc'[u] = pc[u] /\ call'[u] = call[u]
  PROVE  /\ Calls' = [Calls EXCEPT ![t] = ImageOf(pc'[t], call'[t])]
         /\ Calls[t] = ImageOf(pc[t], call[t])
<1>1. ASSUME NEW u \in Threads \ {t}
      PROVE  ImageOf(pc'[u], call'[u]) = ImageOf(pc[u], call[u])
  OBVIOUS
<1> QED BY <1>1, CallsAre

LEMMA CallsSame ==
  ASSUME NEW t \in Threads, \A u \in Threads \ {t} : pc'[u] = pc[u] /\ call'[u] = call[u],
         ImageOf(pc'[t], call'[t]) = ImageOf(pc[t], call[t])
  PROVE  Calls' = Calls
<1>1. ASSUME NEW u \in Threads PROVE ImageOf(pc'[u], call'[u]) = ImageOf(pc[u], call[u])
  OBVIOUS
<1> QED BY <1>1, CallsAre

LEMMA BytesInit == Init => Bytes!Init
<1> SUFFICES ASSUME Init PROVE Bytes!Init
  OBVIOUS
<1>1. \A t \in Threads : ImageOf(pc[t], call[t]) = [op |-> "idle"]
  BY ImageOfIdle DEF Init
<1>2. Calls = [t \in Threads |-> [op |-> "idle"]]
  BY <1>1, CallsAre
<1>3. mem \in Memories
  BY DEF Init
<1> QED BY <1>2, <1>3 DEF Bytes!Init, Bytes!Idle, Calls

LEMMA CallBegins ==
  ASSUME IInv, NEW t \in Threads, Call(t)
  PROVE  Bytes!Begin(t)
<1>1. pc[t] = "idle" /\ pc' = [pc EXCEPT ![t] = "piece"] /\ mem' = mem
  BY DEF Call, At, Goto
<1>2. PICK c : /\ call' = [call EXCEPT ![t] = c]
               /\ \/ \E r \in Writes : c = [NoCall EXCEPT !.op = "write", !.req = r]
                  \/ \E r \in Reads : c = [NoCall EXCEPT !.op = "read", !.req = r]
  BY Zenon DEF Call
<1>3. /\ pc'[t] = "piece" /\ call'[t] = c /\ call[t] = NoCall
      /\ \A u \in Threads \ {t} : pc'[u] = pc[u] /\ call'[u] = call[u]
  BY <1>1, <1>2 DEF IInv, ThreadsOK, ThreadOK
<1>4. Calls' = [Calls EXCEPT ![t] = ImageOf("piece", c)] /\ Calls[t] = [op |-> "idle"]
  BY <1>3, CallsStep, ImageOfIdle
<1>5. \/ \E r \in Writes : ImageOf("piece", c) = Bytes!Writing(r, 0, FALSE)
      \/ \E r \in Reads : ImageOf("piece", c) = Bytes!Reading(r, Bytes!Nothing)
  <2>1. CASE \E r \in Writes : c = [NoCall EXCEPT !.op = "write", !.req = r]
    <3>1. PICK r \in Writes : c = [op |-> "write", req |-> r, done |-> 0, ok |-> TRUE, got |-> Nothing]
      BY <2>1 DEF NoCall
    <3>2. ImageOf("piece", c) = [op |-> "write", req |-> r, done |-> 0, broken |-> FALSE]
      <4>1. c.op = "write" /\ c.req = r /\ c.ok = TRUE /\ SureOf("piece", c) = 0
        BY <3>1 DEF SureOf
      <4>2. (~ c.ok) = FALSE
        BY <4>1, Zenon
      <4> QED BY <4>1, <4>2, ImageOfWrite, Zenon
    <3> QED BY <3>2 DEF Bytes!Writing
  <2>2. CASE \E r \in Reads : c = [NoCall EXCEPT !.op = "read", !.req = r]
    <3>1. PICK r \in Reads : c = [op |-> "read", req |-> r, done |-> 0, ok |-> TRUE, got |-> Nothing]
      BY <2>2 DEF NoCall
    <3>2. ImageOf("piece", c) = [op |-> "read", req |-> r, got |-> Nothing]
      BY <3>1, ImageOfRead
    <3> QED BY <3>2 DEF Bytes!Reading, Bytes!Nothing, Nothing
  <2> QED BY <1>2, <2>1, <2>2
<1> QED BY <1>1, <1>4, <1>5 DEF Bytes!Begin, Bytes!Idle, Calls

(* A thread that moves on without an outcome shows nothing.                *)
LEMMA QuietStep ==
  ASSUME IInv, NEW t \in Threads, Acquire(t) \/ Fill(t) \/ Wait(t)
  PROVE  mem' = mem /\ Calls' = Calls
<1>1. mem' = mem /\ call' = call
  BY DEF Acquire, Fill, Wait
<1>2. PICK l1 \in Labels, l2 \in Labels :
        /\ pc[t] = l1 /\ pc' = [pc EXCEPT ![t] = l2]
        /\ l1 \in {"sent", "waited"} <=> l2 \in {"sent", "waited"}
  <2>1. ASSUME Acquire(t) PROVE pc[t] = "piece" /\ pc' = [pc EXCEPT ![t] = "locked"]
    BY <2>1 DEF Acquire, At, Goto
  <2>2. ASSUME Fill(t) PROVE pc[t] = "locked" /\ pc' = [pc EXCEPT ![t] = "filled"]
    BY <2>2 DEF Fill, At, Goto
  <2>3. ASSUME Wait(t) PROVE pc[t] = "sent" /\ pc' = [pc EXCEPT ![t] = "waited"]
    BY <2>3 DEF Wait, At, Goto
  <2> QED BY <2>1, <2>2, <2>3 DEF Labels
<1>3. /\ pc'[t] = l2 /\ \A u \in Threads \ {t} : pc'[u] = pc[u]
  BY <1>2 DEF IInv, ThreadsOK
<1>4. ImageOf(l1, call[t]) = ImageOf(l2, call[t])
  BY <1>2 DEF ImageOf, SureOf
<1> QED BY <1>1, <1>2, <1>3, <1>4, CallsSame

(* A failed read shows nothing, a good one the memory of the moment.       *)
LEMMA ReadGets ==
  ASSUME IInv, NEW t \in Threads, SendRead(t)
  PROVE  (mem' = mem /\ Calls' = Calls) \/ Bytes!Get(t)
<1> DEFINE c == call[t]
<1>1. /\ pc[t] = "filled" /\ pc' = [pc EXCEPT ![t] = "waited"] /\ c.op = "read"
      /\ mem' = mem
  BY DEF SendRead, At, Goto
<1>2. c.got = Nothing /\ c \in CallRecord
  BY <1>1 DEF IInv, ThreadsOK, ThreadOK
<1>3. \A u \in Threads \ {t} : pc'[u] = pc[u] /\ call'[u] = call[u]
  BY <1>1 DEF SendRead, IInv, ThreadsOK
<1>4. pc'[t] = "waited"
  BY <1>1 DEF IInv, ThreadsOK
<1>5. CASE call' = [call EXCEPT ![t].ok = FALSE]
  <2>1. call'[t].op = "read" /\ call'[t].req = c.req /\ call'[t].got = c.got
    BY <1>1, <1>2, <1>5 DEF IInv, ThreadsOK, CallRecord
  <2>2. ImageOf("waited", call'[t]) = ImageOf("filled", c)
    BY <1>1, <2>1, ImageOfRead
  <2> QED BY <1>1, <1>3, <1>4, <2>2, CallsSame
<1>6. CASE call' = [call EXCEPT ![t].got =
                      [i \in 0 .. c.req.len - 1 |-> mem[(writebuf.addr + i) % Capacity]]]
  <2> DEFINE got == [i \in 0 .. c.req.len - 1 |-> mem[(writebuf.addr + i) % Capacity]]
  <2>1. got = [i \in 0 .. c.req.len - 1 |-> mem[c.req.offset + i]]
    BY <1>1, ReadBytes
  <2>2. call' = [call EXCEPT ![t].got = got]
    BY <1>6
  <2> HIDE DEF got
  <2>3. call'[t].op = "read" /\ call'[t].req = c.req /\ call'[t].got = got
    BY <1>1, <1>2, <2>2 DEF IInv, ThreadsOK, CallRecord
  <2>4. Calls' = [Calls EXCEPT ![t] = [op |-> "read", req |-> c.req, got |-> got]]
        /\ Calls[t] = [op |-> "read", req |-> c.req, got |-> Nothing]
    BY <1>1, <1>2, <1>3, <1>4, <2>3, CallsStep, ImageOfRead
  <2>5. Calls' = [Calls EXCEPT ![t].got = got]
    <3>1. [Calls[t] EXCEPT !.got = got] = [op |-> "read", req |-> c.req, got |-> got]
      BY <2>4
    <3>2. Calls' = [Calls EXCEPT ![t] = [Calls[t] EXCEPT !.got = got]]
      BY <2>4, <3>1
    <3> QED BY <3>2
  <2>6. /\ Calls[t].op = "read" /\ Calls[t].got = Bytes!Nothing
        /\ got = Bytes!Snapshot(Calls[t].req)
    BY <2>1, <2>4 DEF Nothing, Bytes!Nothing, Bytes!Snapshot
  <2> QED BY <1>1, <2>5, <2>6 DEF Bytes!Get, Calls
<1> QED BY <1>5, <1>6, Zenon DEF SendRead

(* The chip is ready when a thread sends.                                  *)
LEMMA ReadyToSend ==
  ASSUME IInv, NEW t \in Threads, pc[t] = "filled"
  PROVE  ~ busy
<1> SUFFICES ASSUME busy PROVE FALSE
  OBVIOUS
<1>1. PICK u \in Threads : pc[u] = "sent"
  BY Zenon DEF IInv, Programming
<1> QED BY <1>1, HolderIsAlone DEF IInv, Held

(* Release is invisible between two pieces and returns after the last.     *)
LEMMA ReleaseReturns ==
  ASSUME IInv, NEW t \in Threads, Release(t)
  PROVE  (mem' = mem /\ Calls' = Calls) \/ Bytes!Return(t)
<1> DEFINE c == call[t]
<1>1. pc[t] = "waited" /\ mem' = mem
  BY DEF Release, At
<1>2. c \in CallRecord /\ c.op \in {"write", "read"}
  BY <1>1 DEF IInv, ThreadsOK, ThreadOK
<1>3. CASE Finished(t)
  <2>1. pc' = [pc EXCEPT ![t] = "idle"] /\ call' = [call EXCEPT ![t] = NoCall]
    BY <1>3, Zenon DEF Release, Goto
  <2>2. /\ call'[t] = NoCall
        /\ \A u \in Threads \ {t} : pc'[u] = pc[u] /\ call'[u] = call[u]
    BY <2>1 DEF IInv, ThreadsOK
  <2>3. Calls' = [Calls EXCEPT ![t] = Bytes!Idle] /\ Calls[t] = ImageOf("waited", c)
    BY <1>1, <2>2, CallsStep, ImageOfIdle DEF Bytes!Idle
  <2>4. CASE c.op = "read"
    <3>1. Calls[t].op = "read"
      BY <2>3, <2>4, ImageOfRead
    <3> QED BY <1>1, <2>3, <3>1 DEF Bytes!Return, Calls
  <2>5. CASE c.op = "write"
    <3>1. ~ c.ok \/ c.done + Taken(t) = c.req.len
      BY <1>3, <2>5 DEF Finished
    <3>2. SureOf("waited", c) = c.done + Taken(t)
      BY DEF SureOf, Taken
    <3>3. Calls[t] = [op |-> "write", req |-> c.req,
                      done |-> SureOf("waited", c), broken |-> ~ c.ok]
      BY <2>3, <2>5, ImageOfWrite
    <3>4. /\ Calls[t].op = "write" /\ Calls[t].broken = ~ c.ok
          /\ Calls[t].done = SureOf("waited", c) /\ Calls[t].req = c.req
      BY <3>3
    <3>5. Calls[t].op = "write" /\ (Calls[t].broken \/ Calls[t].done = Calls[t].req.len)
      BY <3>1, <3>2, <3>4, Zenon
    <3> QED BY <1>1, <2>3, <3>5 DEF Bytes!Return, Calls
  <2> QED BY <1>2, <2>4, <2>5
<1>4. CASE ~ Finished(t)
  <2> DEFINE e == Released(t)
             n == PieceLen(c)
  <2>1. c.op = "write" /\ c.ok /\ Taken(t) = n
    BY <1>1, <1>4, GoesOn
  <2>2. /\ pc' = [pc EXCEPT ![t] = "piece"]
        /\ call' = [call EXCEPT ![t].done = @ + Taken(t), ![t].ok = TRUE]
    BY <1>4, Zenon DEF Release, Goto
  <2>3. /\ pc'[t] = "piece"
        /\ \A u \in Threads \ {t} : pc'[u] = pc[u] /\ call'[u] = call[u]
    BY <2>2 DEF IInv, ThreadsOK
  <2>4. /\ call'[t].op = "write" /\ call'[t].req = c.req /\ call'[t].done = c.done + n
        /\ call'[t].ok = TRUE
    BY <1>2, <2>1, <2>2 DEF IInv, ThreadsOK, CallRecord
  <2>5. SureOf("piece", call'[t]) = c.done + n /\ SureOf("waited", c) = c.done + n
    BY <2>1, <2>4 DEF SureOf
  <2>6. (~ call'[t].ok) = FALSE /\ (~ c.ok) = FALSE
    BY <2>1, <2>4, Zenon
  <2>7. ImageOf("piece", call'[t]) =
          [op |-> "write", req |-> c.req, done |-> c.done + n, broken |-> FALSE]
    BY <2>4, <2>5, <2>6, ImageOfWrite, Zenon
  <2>8. ImageOf("waited", c) =
          [op |-> "write", req |-> c.req, done |-> c.done + n, broken |-> FALSE]
    BY <2>1, <2>5, <2>6, ImageOfWrite, Zenon
  <2> QED BY <1>1, <2>3, <2>7, <2>8, CallsSame
<1> QED BY <1>3, <1>4

(* A piece that is sent makes the write progress, a failure breaks it off. *)
LEMMA WriteSends ==
  ASSUME IInv, NEW t \in Threads, SendWrite(t)
  PROVE  Bytes!Progress(t) \/ Bytes!Break(t)
<1> DEFINE c == call[t]
           r == c.req
           d == c.done
           m == PieceLen(c)
           w == [op |-> "write", req |-> r, done |-> d, broken |-> FALSE]
<1>1. pc[t] = "filled" /\ pc' = [pc EXCEPT ![t] = "sent"] /\ c.op = "write"
  BY DEF SendWrite, At, Goto
<1>2. c \in CallRecord /\ c.ok = TRUE
  BY <1>1 DEF IInv, ThreadsOK, ThreadOK, CallRecord
<1>3. PICK n \in 0 .. writebuf.len, ok \in BOOLEAN :
        /\ ok => n = writebuf.len
        /\ mem' = Program(writebuf.addr, writebuf.bytes, n)
        /\ call' = [call EXCEPT ![t].ok = ok]
  BY <1>1, ReadyToSend, Zenon DEF SendWrite
<1>4. /\ r \in Writes /\ d \in Nat /\ writebuf.len = m /\ n \in 0 .. r.len - d
      /\ Program(writebuf.addr, writebuf.bytes, n) =
           [x \in DOMAIN mem |->
              IF x - r.offset \in d .. d + n - 1 THEN r.data[x - r.offset] ELSE mem[x]]
  BY <1>1, SentBytes
<1>5. r.len \in Nat
  BY <1>4, RequestAssumption DEF InDevice
<1>6. mem' = Bytes!Put(r, d, d + n)
  BY <1>3, <1>4 DEF Bytes!Put
<1>7. /\ pc'[t] = "sent" /\ \A u \in Threads \ {t} : pc'[u] = pc[u] /\ call'[u] = call[u]
      /\ call'[t].op = "write" /\ call'[t].req = r /\ call'[t].done = d /\ call'[t].ok = ok
  BY <1>1, <1>2, <1>3 DEF IInv, ThreadsOK, CallRecord
<1>8. Calls' = [Calls EXCEPT ![t] = ImageOf("sent", call'[t])]
      /\ Calls[t] = ImageOf("filled", c)
  BY <1>1, <1>7, CallsStep
<1>9. Calls[t] = w
  <2>1. SureOf("filled", c) = d
    BY DEF SureOf
  <2>2. (~ c.ok) = FALSE
    BY <1>2, Zenon
  <2>3. c.op = "write"
    BY <1>1
  <2>4. ImageOf("filled", c) = [op |-> "write", req |-> r, done |-> d, broken |-> FALSE]
    BY <2>1, <2>2, <2>3, ImageOfWrite, Zenon
  <2> QED BY <1>8, <2>4, Zenon
<1>10. /\ Calls[t].op = "write" /\ Calls[t].broken = FALSE
       /\ Calls[t].req = r /\ Calls[t].done = d
  BY <1>9
<1>11. CASE ok = TRUE
  <2>1. n = m /\ PieceLen(call'[t]) = m
    <3>1. PieceLen(call'[t]) = m
      BY <1>7 DEF PieceLen
    <3> QED BY <1>3, <1>4, <1>11, <3>1
  <2>2. SureOf("sent", call'[t]) = d + n /\ (~ call'[t].ok) = FALSE
    <3>1. SureOf("sent", call'[t]) = d + n
      BY <1>7, <1>11, <2>1 DEF SureOf
    <3>2. (~ call'[t].ok) = FALSE
      BY <1>7, <1>11, Zenon
    <3> QED BY <3>1, <3>2
  <2>3. ImageOf("sent", call'[t]) = [op |-> "write", req |-> r, done |-> d + n, broken |-> FALSE]
    <3>1. call'[t].op = "write" /\ call'[t].req = r
      BY <1>7
    <3> QED BY <3>1, <2>2, ImageOfWrite, Zenon
  <2>4. Calls' = [Calls EXCEPT ![t].done = d + n]
    <3> DEFINE s == d + n
    <3>1. [Calls[t] EXCEPT !.done = s] = [op |-> "write", req |-> r, done |-> s, broken |-> FALSE]
      <4> DEFINE b == FALSE
      <4> HIDE DEF r, d, s, b
      <4>1. [[op |-> "write", req |-> r, done |-> d, broken |-> b] EXCEPT !.done = s]
              = [op |-> "write", req |-> r, done |-> s, broken |-> b]
        OBVIOUS
      <4> USE DEF b
      <4> QED BY <1>9, <4>1, Zenon
    <3>2. Calls' = [Calls EXCEPT ![t] = [Calls[t] EXCEPT !.done = s]]
      BY <1>8, <2>3, <3>1
    <3> QED BY <3>2
  <2>5. d + n \in d + 1 .. r.len
    <3>1. c.req \in Writes /\ c.done < c.req.len /\ Position(c.req, c.done)
      BY <1>1 DEF IInv, ThreadsOK, ThreadOK
    <3>2. m \in 1 .. r.len - d
      BY <1>1, <1>2, <3>1, PieceOK DEF Fits
    <3> QED BY <1>4, <1>5, <2>1, <3>2
  <2> QED BY <1>6, <1>10, <2>4, <2>5 DEF Bytes!Progress, Calls
<1>12. CASE ok = FALSE
  <2>1. SureOf("sent", call'[t]) = d
    BY <1>4, <1>7, <1>12 DEF SureOf
  <2>2. (~ call'[t].ok) = TRUE
    BY <1>7, <1>12, Zenon
  <2>3. ImageOf("sent", call'[t]) = [op |-> "write", req |-> r, done |-> d, broken |-> TRUE]
    BY <1>7, <2>1, <2>2, ImageOfWrite, Zenon
  <2>4. Calls' = [Calls EXCEPT ![t].broken = TRUE]
    <3>1. [Calls[t] EXCEPT !.broken = TRUE] = [op |-> "write", req |-> r, done |-> d, broken |-> TRUE]
      <4> DEFINE b == FALSE
                 e == TRUE
      <4> HIDE DEF r, d, b, e
      <4>1. [[op |-> "write", req |-> r, done |-> d, broken |-> b] EXCEPT !.broken = e]
              = [op |-> "write", req |-> r, done |-> d, broken |-> e]
        OBVIOUS
      <4> USE DEF b, e
      <4> QED BY <1>9, <4>1, Zenon
    <3>2. Calls' = [Calls EXCEPT ![t] = [Calls[t] EXCEPT !.broken = TRUE]]
      BY <1>8, <2>3, <3>1
    <3> QED BY <3>2
  <2>5. d + n \in d .. r.len
    BY <1>4, <1>5
  <2> QED BY <1>6, <1>10, <2>4, <2>5 DEF Bytes!Break, Calls
<1> QED BY <1>11, <1>12

LEMMA BytesNext == IInv /\ [Next]_vars => [Bytes!Next]_(Bytes!bvars)
<1> SUFFICES ASSUME IInv, [Next]_vars PROVE [Bytes!Next]_(Bytes!bvars)
  OBVIOUS
<1>1. ASSUME mem' = mem, Calls' = Calls PROVE UNCHANGED Bytes!bvars
  BY <1>1 DEF Bytes!bvars, Calls
<1>2. CASE UNCHANGED vars
  <2>1. mem' = mem /\ pc' = pc /\ call' = call
    BY <1>2 DEF vars
  <2>2. Calls' = Calls
    BY <2>1, CallsAre
  <2> QED BY <1>1, <2>1, <2>2
<1>3. CASE Next
  <2>1. PICK t \in Threads : Call(t) \/ Step(t)
    BY <1>3, Zenon DEF Next
  <2>2. \/ mem' = mem /\ Calls' = Calls
        \/ Bytes!Begin(t) \/ Bytes!Progress(t) \/ Bytes!Break(t) \/ Bytes!Get(t) \/ Bytes!Return(t)
    BY <2>1, CallBegins, QuietStep, ReadGets, WriteSends, ReleaseReturns, Zenon DEF Step
  <2> QED BY <1>1, <2>2, Zenon DEF Bytes!Next
<1> QED BY <1>2, <1>3

(* The drivers keep the promise of MtdBytes: however the pieces of several *)
(* threads interleave and wherever the bus fails, bytes end up at their    *)
(* addresses and the count returned is the count written.                  *)
THEOREM ImplementsBytes == Spec => DeliversBytes
<1> QED BY Invariance, BytesInit, BytesNext, PTL DEF Spec, DeliversBytes, Bytes!Spec
=============================================================================
