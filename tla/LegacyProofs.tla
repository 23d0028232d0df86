----------------------------- MODULE LegacyProofs -----------------------------
(***************************************************************************)
(* Theorems about LegacyEeprom, both legacy libraries, for every layout of *)
(* files, page size and EEPROM, checked by TLAPS.  One invariant carries   *)
(* them: what a write call in progress has sent and written relates to its *)
(* position, to the pages and to the bytes in place, and what mount() has  *)
(* reached relates to the table.                                           *)
(***************************************************************************)
EXTENDS LegacyEeprom, FiniteSetTheorems, WellFoundedInduction, TLAPS

-----------------------------------------------------------------------------
(* The invariant.                                                          *)

Active == {f \in Files : ~ Quiet(f)}
EndOfFile(f) == Start[f] + Size[f]

(* Only a system that is up has files and calls; mkfs() has written the    *)
(* records before the next one; what is mounted has all of them.           *)
BootInv ==
  /\ lib = "c" => At("up") /\ files_opened = 0
  /\ lib = "cpp" => files_opened = IF At("up") THEN 1 + Cardinality(opened) ELSE 0
  /\ ~ At("up") \/ ~ Running => opened = {}
  /\ At("record") => boot.next \in Files /\ 1 .. boot.next - 1 \subseteq toc
  /\ At("check") \/ At("load") \/ (lib = "cpp" /\ At("up")) => toc = Files
  /\ faults \in Nat /\ failed \in BOOLEAN

(* A write call c to file f of the library l between two of its pieces,    *)
(* position t, after a failed piece (bad) or none.                         *)
Done(c) == IF c.phase = "sent" THEN c.sent + PieceLen(c) ELSE c.sent

Boundary(a) == a = PageOf(a) * PageSize

CallSound(l, t, bad, f, c) ==
  /\ c.n > 0 /\ Start[f] <= c.from /\ c.from + c.n <= EndOfFile(f)
  /\ c.written < c.n /\ c.written <= c.sent /\ (c.sent = 0 => c.written = 0)
  /\ Start[f] + t = IF l = "c" THEN c.from + c.written ELSE c.from
  /\ c.sent # 0 => ~ OnePage(c) /\ Boundary(c.from + c.sent)
  /\ Done(c) <= MaxSent
  /\ ~ bad => c.written = c.sent /\ c.ok

(* What it has sent is in place in the EEPROM m.                           *)
InPlace(m, c) == \A a \in c.from .. c.from + Done(c) - 1 : m[a] = a

CallsInv ==
  \A f \in Active : /\ CallSound(lib, tip[f], failed, f, call[f])
                    /\ ~ failed => InPlace(mem, call[f])

(* C++: who holds the mutex has a piece in the chip, and nobody else has.  *)
MutexInv ==
  lib = "cpp" => /\ busy \in {Nobody, mutex}
                 /\ \A f \in Files : call[f].phase = "sent" => mutex = f

LegacyInv ==
  /\ TypeOK /\ BootInv /\ CallsInv /\ MutexInv
  /\ StaysInFile /\ HaltsOnlyOnFault /\ TipInside

-----------------------------------------------------------------------------
(* Pages.                                                                  *)

(* Multiplication keeps the order.                                         *)
LEMMA TimesMonotone ==
  ASSUME NEW j \in Nat, NEW k \in Nat, NEW m \in Nat, j <= k
  PROVE  j * m <= k * m
  OBVIOUS

LEMMA InPage ==
  ASSUME NEW a \in Nat
  PROVE  /\ PageOf(a) \in Nat
         /\ PageOf(a) * PageSize <= a
         /\ a < PageOf(a) * PageSize + PageSize
  BY LayoutAssumption DEF PageOf

LEMMA PageUnique ==
  ASSUME NEW a \in Nat, NEW k \in Nat, k * PageSize <= a, a < k * PageSize + PageSize
  PROVE  PageOf(a) = k
<1>. DEFINE q == PageOf(a)
<1>1. q \in Nat /\ q * PageSize <= a /\ a < q * PageSize + PageSize
  BY InPage
<1>2. PageSize \in Nat
  BY LayoutAssumption
<1>. HIDE DEF q
<1>3. ~ q + 1 <= k
  <2>1. q + 1 <= k => (q + 1) * PageSize <= k * PageSize
    BY <1>1, <1>2, TimesMonotone
  <2>. QED  BY <1>1, <1>2, <2>1
<1>4. ~ k + 1 <= q
  <2>1. k + 1 <= q => (k + 1) * PageSize <= q * PageSize
    BY <1>1, <1>2, TimesMonotone
  <2>. QED  BY <1>1, <1>2, <2>1
<1>. QED  BY <1>1, <1>3, <1>4 DEF q

LEMMA BoundaryTimes ==
  ASSUME NEW k \in Nat
  PROVE  k * PageSize \in Nat /\ Boundary(k * PageSize)
<1>1. k * PageSize \in Nat /\ PageSize \in Nat \ {0}
  BY LayoutAssumption
<1>. DEFINE a == k * PageSize
<1>2. a \in Nat /\ k * PageSize <= a /\ a < k * PageSize + PageSize
  BY <1>1
<1>. HIDE DEF a
<1>3. PageOf(a) = k
  BY <1>2, PageUnique
<1>. QED  BY <1>1, <1>3 DEF Boundary, a

(* What begins at a page boundary and is no longer than a page is in one.  *)
LEMMA PageFromBoundary ==
  ASSUME NEW a \in Nat, Boundary(a), NEW n \in 1 .. PageSize
  PROVE  PageOf(a) = PageOf(a + n - 1)
<1>1. PageOf(a) \in Nat /\ PageSize \in Nat /\ a = PageOf(a) * PageSize
  BY InPage, LayoutAssumption DEF Boundary
<1>. DEFINE b == a + n - 1
<1>2. b \in Nat /\ PageOf(a) * PageSize <= b /\ b < PageOf(a) * PageSize + PageSize
  BY <1>1
<1>. HIDE DEF b
<1>3. PageOf(b) = PageOf(a)
  BY <1>1, <1>2, PageUnique
<1>. QED  BY <1>3 DEF b

LEMMA NextBoundary ==
  ASSUME NEW a \in Nat, Boundary(a)
  PROVE  Boundary(a + PageSize)
<1>1. PageOf(a) \in Nat /\ PageSize \in Nat /\ a = PageOf(a) * PageSize
  BY InPage, LayoutAssumption DEF Boundary
<1>2. PICK k \in Nat : k = PageOf(a) + 1
  BY <1>1
<1>3. a + PageSize = k * PageSize
  BY <1>1, <1>2
<1>4. Boundary(k * PageSize)
  BY BoundaryTimes
<1>. QED  BY <1>3, <1>4, Zenon

(* The head of a write that does not fit its first page.                   *)
LEMMA HeadFits ==
  ASSUME NEW c \in CallRecord, c.n > 0, ~ OnePage(c)
  PROVE  /\ HeadLen(c) \in 1 .. c.n - 1
         /\ Boundary(c.from + HeadLen(c))
         /\ PageOf(c.from) = PageOf(c.from + HeadLen(c) - 1)
<1>1. c.from \in Nat /\ c.n \in Nat
  BY LayoutAssumption DEF CallRecord
<1>2. PICK q \in Nat : q = PageOf(c.from)
  BY <1>1, InPage
<1>3. PageSize \in Nat \ {0}
  BY LayoutAssumption
<1>4. PICK p \in Nat : p = q * PageSize
  BY <1>3
<1>5. PICK b \in Nat : b = (q + 1) * PageSize
  BY <1>3
<1>6. b = p + PageSize
  BY <1>3, <1>4, <1>5
<1>7. p <= c.from /\ c.from < b
  BY <1>1, <1>2, <1>4, <1>6, InPage
<1>8. ASSUME NEW a \in Nat, p <= a, a < b PROVE PageOf(a) = q
  BY <1>3, <1>4, <1>6, <1>8, PageUnique
<1>9. HeadLen(c) = b - c.from
  BY <1>2, <1>5 DEF HeadLen
<1>10. b <= c.from + c.n - 1
  <2>1. PICK last \in Nat : last = c.from + c.n - 1
    BY <1>1
  <2>2. PageOf(last) # q
    BY <1>2, <2>1 DEF OnePage
  <2>. QED  BY <1>1, <1>7, <1>8, <2>1, <2>2
<1>11. PageOf(b - 1) = q
  <2>1. b - 1 \in Nat /\ p <= b - 1 /\ b - 1 < b
    BY <1>3, <1>6, <1>7
  <2>. QED  BY <1>8, <2>1
<1>12. Boundary(b)
  <2>1. PICK k \in Nat : k = q + 1
    OBVIOUS
  <2>. QED  BY <1>5, <2>1, BoundaryTimes
<1>13. /\ c.from + HeadLen(c) = b
       /\ HeadLen(c) \in 1 .. c.n - 1
  BY <1>1, <1>7, <1>9, <1>10
<1>14. Boundary(c.from + HeadLen(c))
  BY <1>12, <1>13, Zenon
<1>15. PageOf(c.from + HeadLen(c) - 1) = q
  <2>1. c.from + HeadLen(c) - 1 = b - 1
    BY <1>1, <1>13
  <2>. QED  BY <1>11, <2>1, Zenon
<1>. QED  BY <1>2, <1>13, <1>14, <1>15, Zenon

-----------------------------------------------------------------------------
(* The pieces of a write.                                                  *)

(* Numbers of a call that is sound.                                        *)
LEMMA CallNumbers ==
  ASSUME NEW f \in Files, NEW c \in CallRecord
  PROVE  /\ c.n \in Nat /\ c.from \in Nat /\ c.sent \in Nat /\ c.written \in Nat
         /\ Start[f] \in Nat /\ Size[f] \in Nat /\ EndOfFile(f) \in Nat
         /\ EndOfFile(f) <= Capacity /\ Capacity \in Nat /\ PageSize \in Nat \ {0}
  BY LayoutAssumption DEF CallRecord, EndOfFile, BarriersFit

(* Every piece is part of what is left of the call; one that is not the    *)
(* last ends at a page boundary.                                           *)
LEMMA Piece ==
  ASSUME NEW f \in Files, NEW c \in CallRecord, NEW l, NEW t, NEW bad,
         CallSound(l, t, bad, f, c)
  PROVE  /\ PieceLen(c) \in 1 .. c.n - c.written
         /\ LastPiece(c) <=> PieceLen(c) = c.n - c.written
         /\ ~ LastPiece(c) => ~ OnePage(c) /\ Boundary(c.from + c.sent + PieceLen(c))
         /\ PageOf(c.from + c.sent) = PageOf(c.from + c.sent + PieceLen(c) - 1)
<1>1. /\ c.n \in Nat /\ c.from \in Nat /\ c.sent \in Nat /\ c.written \in Nat
      /\ PageSize \in Nat \ {0}
  BY CallNumbers
<1>2. /\ c.n > 0 /\ c.written < c.n /\ (c.sent = 0 => c.written = 0)
      /\ c.sent # 0 => ~ OnePage(c) /\ Boundary(c.from + c.sent)
  BY DEF CallSound
<1>3. CASE c.sent = 0
  <2>1. c.written = 0 /\ c.from + c.sent = c.from
    BY <1>1, <1>2, <1>3
  <2>2. CASE OnePage(c)
    <3>1. PieceLen(c) = c.n /\ LastPiece(c) /\ PageOf(c.from) = PageOf(c.from + c.n - 1)
      BY <2>2 DEF PieceLen, LastPiece, OnePage
    <3>. QED  BY <1>1, <1>2, <2>1, <3>1
  <2>3. CASE ~ OnePage(c)
    <3>1. PieceLen(c) = HeadLen(c) /\ ~ LastPiece(c)
      BY <1>1, <1>3, <2>3 DEF PieceLen, LastPiece
    <3>2. /\ HeadLen(c) \in 1 .. c.n - 1
          /\ Boundary(c.from + HeadLen(c))
          /\ PageOf(c.from) = PageOf(c.from + HeadLen(c) - 1)
      BY <1>2, <2>3, HeadFits
    <3>. QED  BY <1>1, <1>2, <2>1, <2>3, <3>1, <3>2
  <2>. QED  BY <2>2, <2>3
<1>4. CASE c.sent # 0
  <2>1. ~ OnePage(c) /\ Boundary(c.from + c.sent) /\ c.from + c.sent \in Nat
    BY <1>1, <1>2, <1>4
  <2>2. /\ PieceLen(c) = IF c.n - c.written > PageSize THEN PageSize ELSE c.n - c.written
        /\ LastPiece(c) <=> c.n - c.written <= PageSize
    BY <1>1, <1>4, <2>1 DEF PieceLen, LastPiece
  <2>3. PieceLen(c) \in 1 .. PageSize /\ PieceLen(c) \in 1 .. c.n - c.written
    BY <1>1, <1>2, <2>2
  <2>4. PICK a \in Nat : a = c.from + c.sent
    BY <2>1
  <2>5. PageOf(a) = PageOf(a + PieceLen(c) - 1)
    BY <2>1, <2>3, <2>4, PageFromBoundary
  <2>6. ~ LastPiece(c) => PieceLen(c) = PageSize /\ Boundary(a + PageSize)
    BY <1>1, <2>1, <2>2, <2>4, NextBoundary
  <2>. QED  BY <1>1, <2>1, <2>2, <2>3, <2>4, <2>5, <2>6
<1>. QED  BY <1>3, <1>4

-----------------------------------------------------------------------------
(* Files.                                                                  *)

(* Induction over the natural numbers, as the least-number principle.      *)
LEMMA LeastNumber ==
  ASSUME NEW T, T \subseteq Nat, T # {}
  PROVE  \E x \in T : \A y \in T : x <= y
<1>. DEFINE R == OpToRel(<, Nat)
<1>1. IsWellFoundedOn(R, Nat)
  BY NatLessThanWellFounded
<1>2. \A x, y \in Nat : y < x => <<y, x>> \in R
  BY DEF OpToRel
<1>. HIDE DEF R
<1>3. PICK x \in T : \A y \in T : ~ (<<y, x>> \in R)
  BY <1>1, WFMin
<1>4. ASSUME NEW y \in T PROVE x <= y
  <2>1. x \in Nat /\ y \in Nat
    OBVIOUS
  <2>2. ~ (y < x)
    BY <1>2, <1>3, <2>1, Zenon
  <2>. QED  BY <2>1, <2>2
<1>. QED  BY <1>4

(* The layout checks neighbours, and so keeps all files apart.             *)
LEMMA FilesApart ==
  ASSUME NEW f \in Files, NEW g \in Files, f < g
  PROVE  EndOfFile(f) <= Start[g]
<1>. DEFINE Bad == {h \in Files : f < h /\ ~ (EndOfFile(f) <= Start[h])}
<1>1. SUFFICES ASSUME Bad # {} PROVE FALSE
  OBVIOUS
<1>2. PICK h \in Bad : \A k \in Bad : h <= k
  <2>1. Bad \subseteq Nat
    BY DEF Files
  <2>. HIDE DEF Bad
  <2>. QED  BY <1>1, <2>1, LeastNumber
<1>3. h \in Files /\ f < h /\ ~ (EndOfFile(f) <= Start[h])
  OBVIOUS
<1>4. h - 1 \in Files /\ h # 1 /\ h \in Int /\ f \in Int
  BY <1>3, LayoutAssumption DEF Files
<1>5. EndOfFile(h - 1) <= Start[h]
  BY <1>3, <1>4, LayoutAssumption DEF TableFits, Overlap, EndOfFile
<1>6. h - 1 \notin Bad
  <2>. HIDE DEF Bad
  <2>. QED  BY <1>2, <1>4
<1>7. f = h - 1 \/ EndOfFile(f) <= Start[h - 1]
  BY <1>3, <1>4, <1>6
<1>8. Start[h - 1] <= EndOfFile(h - 1) /\ \A k \in Files : Start[k] \in Nat /\ EndOfFile(k) \in Nat
  BY <1>4, LayoutAssumption DEF EndOfFile
<1>. QED  BY <1>3, <1>4, <1>5, <1>7, <1>8

InFile(f, a) == a \in Start[f] .. EndOfFile(f) - 1

LEMMA FileUnique ==
  ASSUME NEW f \in Files, NEW g \in Files, NEW a, InFile(f, a), InFile(g, a)
  PROVE  f = g
<1>1. f \in Int /\ g \in Int
  BY DEF Files
<1>2. a \in Int /\ \A h \in Files : Start[h] \in Nat /\ EndOfFile(h) \in Nat
  BY LayoutAssumption DEF EndOfFile, InFile
<1>3. f < g => EndOfFile(f) <= Start[g]
  BY FilesApart
<1>4. g < f => EndOfFile(g) <= Start[f]
  BY FilesApart
<1>. QED  BY <1>1, <1>2, <1>3, <1>4 DEF InFile

LEMMA FileIs ==
  ASSUME NEW f \in Files, NEW a, InFile(f, a)
  PROVE  FileOf(a) = f
<1>1. \A g \in Files : InFile(g, a) <=> a \in Start[g] .. Start[g] + Size[g] - 1
  BY LayoutAssumption DEF InFile, EndOfFile
<1>2. FileOf(a) \in Files /\ InFile(FileOf(a), a)
  BY <1>1 DEF FileOf
<1>. QED  BY <1>2, FileUnique

-----------------------------------------------------------------------------
(* What the steps of a write do to its call.                               *)

LEMMA CallBegun ==
  ASSUME NEW f \in Files, NEW l, NEW bad, NEW t \in Nat, NEW n \in Nat \ {0}, t + n <= Size[f],
         NEW c, c = [Idle EXCEPT !.n = n, !.from = Start[f] + t, !.phase = "ready"]
  PROVE  c \in CallRecord /\ CallSound(l, t, bad, f, c) /\ \A m : InPlace(m, c)
<1>1. /\ c.n = n /\ c.from = Start[f] + t /\ c.sent = 0 /\ c.written = 0
      /\ c.phase = "ready" /\ c.ok = TRUE
      /\ c = [n |-> n, from |-> Start[f] + t, sent |-> 0, written |-> 0, phase |-> "ready", ok |-> TRUE]
  BY DEF Idle
<1>2. /\ Start[f] \in Nat /\ Size[f] \in Nat /\ Start[f] + Size[f] <= Capacity /\ Capacity \in Nat
      /\ MaxSent \in Nat
  BY LayoutAssumption DEF BarriersFit
<1>3. c \in CallRecord
  <2>1. n \in 0 .. Capacity /\ Start[f] + t \in 0 .. Capacity /\ 0 \in 0 .. MaxSent /\ 0 \in 0 .. Capacity
    BY <1>2
  <2>. QED  BY <1>1, <2>1 DEF CallRecord
<1>4. Done(c) = 0
  BY <1>1 DEF Done
<1>5. CallSound(l, t, bad, f, c)
  BY <1>1, <1>2, <1>4 DEF CallSound, EndOfFile
<1>6. c.from .. c.from + Done(c) - 1 = {}
  BY <1>1, <1>2, <1>4
<1>. QED  BY <1>3, <1>5, <1>6 DEF InPlace

LEMMA CallSent ==
  ASSUME NEW f \in Files, NEW c \in CallRecord, NEW l, NEW t, NEW bad \in BOOLEAN, NEW b \in BOOLEAN,
         CallSound(l, t, bad, f, c), bad => b, NEW s, s = c.sent + PieceLen(c), s <= MaxSent,
         NEW d, d.n = c.n, d.from = c.from, d.sent = c.sent, d.written = c.written,
         d.phase = "sent", ~ b => d.ok
  PROVE  CallSound(l, t, b, f, d) /\ Done(d) = s
<1>1. PieceLen(d) = PieceLen(c) /\ OnePage(d) = OnePage(c)
  BY DEF PieceLen, OnePage, HeadLen
<1>2. Done(d) = s
  BY <1>1 DEF Done
<1>3. ~ b => ~ bad
  OBVIOUS
<1>. QED  BY <1>1, <1>2, <1>3 DEF CallSound

LEMMA CallWoken ==
  ASSUME NEW f \in Files, NEW c \in CallRecord, NEW l, NEW t \in Nat, NEW bad,
         CallSound(l, t, bad, f, c), c.phase = "sent", ~ LastPiece(c),
         NEW w, w = c.written + (IF c.ok THEN PieceLen(c) ELSE 0),
         NEW s, s = c.sent + PieceLen(c),
         NEW d, d.n = c.n, d.from = c.from, d.sent = s, d.written = w, d.phase = "ready", d.ok = c.ok,
         NEW u, Start[f] + u = IF l = "c" THEN c.from + w ELSE c.from
  PROVE  /\ CallSound(l, u, bad, f, d) /\ Done(d) = Done(c)
         /\ w \in 0 .. Capacity /\ s \in 0 .. MaxSent
<1>1. /\ c.n \in Nat /\ c.from \in Nat /\ c.sent \in Nat /\ c.written \in Nat
      /\ Capacity \in Nat /\ c.n <= Capacity /\ MaxSent \in Nat
  BY CallNumbers, LayoutAssumption DEF CallRecord
<1>2. /\ PieceLen(c) \in 1 .. c.n - c.written /\ PieceLen(c) # c.n - c.written
      /\ ~ OnePage(c) /\ Boundary(c.from + c.sent + PieceLen(c))
  BY Piece
<1>3. c.sent + PieceLen(c) <= MaxSent /\ c.written < c.n /\ c.written <= c.sent
  BY DEF CallSound, Done
<1>4. w \in Nat /\ w < c.n /\ w <= c.sent + PieceLen(c)
  BY <1>1, <1>2, <1>3
<1>5. d.sent = c.sent + PieceLen(c)
  OBVIOUS
<1>6. w \in 0 .. Capacity /\ s \in 0 .. MaxSent
  BY <1>1, <1>2, <1>3, <1>4
<1>7. OnePage(d) = OnePage(c) /\ Done(d) = c.sent + PieceLen(c)
  BY <1>5 DEF OnePage, Done
<1>8. Boundary(d.from + d.sent)
  <2>1. d.from + d.sent = c.from + c.sent + PieceLen(c)
    BY <1>1, <1>2, <1>5
  <2>. QED  BY <1>2, <2>1
<1>9. ~ bad => w = c.sent + PieceLen(c) /\ c.ok
  BY DEF CallSound
<1>10. c.n > 0 /\ Start[f] <= c.from /\ c.from + c.n <= EndOfFile(f)
  BY DEF CallSound
<1>11. d.sent = 0 => d.written = 0
  BY <1>1, <1>2, <1>5
<1>12. Done(d) = Done(c)
  BY <1>7 DEF Done
<1>. QED
  BY <1>2, <1>3, <1>4, <1>5, <1>6, <1>7, <1>8, <1>9, <1>10, <1>11, <1>12 DEF CallSound

-----------------------------------------------------------------------------
(* What a step that leaves its variables alone keeps.                      *)

LEMMA BootKept ==
  ASSUME BootInv, UNCHANGED <<lib, boot, opened, files_opened, toc, halt>>,
         faults' \in Nat, failed' \in BOOLEAN
  PROVE  BootInv'
  BY DEF BootInv, At, Running

LEMMA HaltsKept ==
  ASSUME HaltsOnlyOnFault, faults \in Nat, UNCHANGED halt,
         failed' = failed \/ failed' = TRUE, faults' = faults \/ faults' = faults + 1
  PROVE  HaltsOnlyOnFault'
<1>1. faults > 0 => faults' > 0
  OBVIOUS
<1>. QED  BY <1>1, Zenon DEF HaltsOnlyOnFault

LEMMA StaysKept ==
  ASSUME StaysInFile, UNCHANGED <<lib, mem>>, failed' = failed \/ failed' = TRUE
  PROVE  StaysInFile'
  BY DEF StaysInFile

LEMMA CallsKept ==
  ASSUME CallsInv, UNCHANGED <<lib, mem, call, failed>>, \A f \in Active : tip'[f] = tip[f]
  PROVE  CallsInv'
  BY DEF CallsInv, Active, Quiet

LEMMA MutexKept ==
  ASSUME MutexInv, UNCHANGED <<lib, busy, mutex, call>>
  PROVE  MutexInv'
  BY DEF MutexInv

LEMMA NoCalls ==
  ASSUME TypeOK, opened = {}
  PROVE  Active = {}
  BY DEF TypeOK, Active, Quiet

LEMMA CallsOver ==
  ASSUME Active' = {}
  PROVE  CallsInv'
  BY DEF CallsInv

-----------------------------------------------------------------------------
(* Power: the constructors, halts and restarts.                            *)

LEMMA IdleRecord == Idle \in CallRecord /\ Idle.phase = "idle"
  BY LayoutAssumption DEF Idle, CallRecord

LEMMA OldByte == Old \in -FileCnt .. Capacity - 1
<1>1. 1 \in Files
  BY LayoutAssumption DEF Files
<1>. QED  BY <1>1, LayoutAssumption DEF Old, BarriersFit

LEMMA OldMemory ==
  [a \in 0 .. Capacity - 1 |-> Old] \in [0 .. Capacity - 1 -> -FileCnt .. Capacity - 1]
  BY OldByte

LEMMA PowerUpInv ==
  ASSUME LegacyInv, PowerUp, UNCHANGED <<lib, toc, failed>>,
         mem' = mem \/ mem' = [a \in DOMAIN mem |-> Old],
         faults' \in Nat, HaltsOnlyOnFault'
  PROVE  LegacyInv'
<1>1. TypeOK /\ BootInv /\ StaysInFile
  BY DEF LegacyInv
<1>2. /\ busy' = 0 /\ mutex' = 0 /\ opened' = {} /\ files_opened' = 0
      /\ tip' = [f \in Files |-> 0] /\ call' = [f \in Files |-> Idle]
      /\ boot' = [step |-> IF lib = "c" THEN "up" ELSE "down", next |-> 0]
  BY DEF PowerUp, Goto, Nobody
<1>3. mem' \in [0 .. Capacity - 1 -> -FileCnt .. Capacity - 1]
  BY <1>1, OldMemory DEF TypeOK
<1>4. \A f \in Files : call'[f] = Idle /\ call'[f].phase = "idle"
  BY <1>2, IdleRecord
<1>5. TypeOK'
  <2>1. call' \in [Files -> CallRecord]
    BY <1>2, IdleRecord
  <2>2. 0 \in 0 .. FileCnt /\ 0 \in 0 .. FileCnt + 1
    BY LayoutAssumption
  <2>3. lib' \in {"c", "cpp"} /\ toc' \subseteq Files
    BY <1>1 DEF TypeOK
  <2>. QED  BY <1>2, <1>3, <1>4, <2>1, <2>2, <2>3 DEF TypeOK
<1>6. BootInv'
  <2>1. boot'.step = IF lib' = "c" THEN "up" ELSE "down"
    BY <1>2
  <2>. QED  BY <1>1, <1>2, <2>1 DEF BootInv, At, Running, TypeOK
<1>7. CallsInv'
  <2>1. Active' = {}
    BY <1>4 DEF Active, Quiet
  <2>. QED  BY <2>1, CallsOver
<1>8. MutexInv'
  BY <1>2, <1>4 DEF MutexInv, Nobody
<1>9. StaysInFile'
  <2>1. CASE mem' = mem
    BY <1>1, <2>1, StaysKept
  <2>2. CASE mem' = [a \in DOMAIN mem |-> Old]
    BY <2>2 DEF StaysInFile
  <2>. QED  BY <2>1, <2>2
<1>10. TipInside'
  BY <1>2, LayoutAssumption DEF TipInside
<1>. QED  BY <1>5, <1>6, <1>7, <1>8, <1>9, <1>10 DEF LegacyInv

(* Halts that are the fault of the caller.                                 *)
Misuse(why) == why \in {"misuse", "stack overflow"}

LEMMA HaltInv ==
  ASSUME LegacyInv, NEW why, Halt(why), UNCHANGED failed, faults' = faults \/ faults' = faults + 1,
         Misuse(why) \/ faults' > 0 \/ failed
  PROVE  LegacyInv'
<1>1. faults \in Nat
  BY DEF LegacyInv, BootInv
<1>2. HaltsOnlyOnFault'
  BY Zenon DEF Halt, HaltsOnlyOnFault, Misuse
<1>3. PowerUp /\ UNCHANGED <<lib, toc, failed>> /\ mem' = mem
  BY DEF Halt, rom
<1>4. faults' \in Nat
  BY <1>1
<1>. QED  BY <1>2, <1>3, <1>4, PowerUpInv

LEMMA RestartInv ==
  ASSUME LegacyInv, Restart
  PROVE  LegacyInv'
<1>1. HaltsOnlyOnFault' /\ faults' \in Nat
  BY DEF Restart, HaltsOnlyOnFault, LegacyInv, BootInv
<1>. QED  BY <1>1, PowerUpInv DEF Restart

LEMMA InitInv == Init => LegacyInv
<1>. SUFFICES ASSUME Init PROVE LegacyInv
  OBVIOUS
<1>1. /\ lib \in {"c", "cpp"} /\ mem = [a \in 0 .. Capacity - 1 |-> Old] /\ toc = {}
      /\ busy = 0 /\ mutex = 0
      /\ boot = [step |-> IF lib = "c" THEN "up" ELSE "down", next |-> 0]
      /\ opened = {} /\ files_opened = 0 /\ tip = [f \in Files |-> 0]
      /\ call = [f \in Files |-> Idle] /\ faults = 0 /\ failed = FALSE
  BY Zenon DEF Init, Nobody
<1>2. \A f \in Files : call[f] = Idle /\ call[f].phase = "idle"
  BY <1>1, IdleRecord
<1>3. TypeOK
  <2>1. call \in [Files -> CallRecord]
    BY <1>1, IdleRecord
  <2>2. 0 \in 0 .. FileCnt /\ 0 \in 0 .. FileCnt + 1
    BY LayoutAssumption
  <2>. QED  BY <1>1, <1>2, <2>1, <2>2, OldMemory DEF TypeOK
<1>4. BootInv
  BY <1>1 DEF BootInv, At
<1>5. CallsInv
  BY <1>2 DEF CallsInv, Active, Quiet
<1>6. MutexInv
  BY <1>1, <1>2 DEF MutexInv, Nobody
<1>7. StaysInFile
  BY <1>1 DEF StaysInFile
<1>8. HaltsOnlyOnFault
  BY Zenon DEF HaltsOnlyOnFault, Init
<1>9. TipInside
  BY <1>1, LayoutAssumption DEF TipInside
<1>. QED  BY <1>3, <1>4, <1>5, <1>6, <1>7, <1>8, <1>9 DEF LegacyInv

-----------------------------------------------------------------------------
(* mount(), with fsck() and mkfs() inside, and umount().                   *)

BootSteps == {"down", "erase", "record", "check", "load", "up"}

(* A step of a system without open files.                                  *)
LEMMA BootMove ==
  ASSUME LegacyInv, opened = {},
         UNCHANGED <<lib, busy, mutex, opened, tip, call, failed, halt>>,
         mem' \in [0 .. Capacity - 1 -> -FileCnt .. Capacity - 1],
         \A a \in 0 .. Capacity - 1 : mem'[a] \in {mem[a], Old},
         faults' = faults \/ faults' = faults + 1,
         toc' \subseteq Files, boot'.step \in BootSteps, files_opened' \in 0 .. FileCnt + 1, BootInv'
  PROVE  LegacyInv'
<1>1. TypeOK /\ CallsInv /\ MutexInv /\ StaysInFile /\ HaltsOnlyOnFault /\ TipInside /\ faults \in Nat
  BY DEF LegacyInv, BootInv
<1>2. TypeOK'
  BY <1>1 DEF TypeOK, BootSteps
<1>3. CallsInv'
  <2>1. Active' = {}
    BY <1>1, NoCalls DEF Active, Quiet
  <2>. QED  BY <2>1, CallsOver
<1>4. MutexInv'
  BY <1>1, MutexKept
<1>5. StaysInFile'
  <2>1. DOMAIN mem' = DOMAIN mem /\ DOMAIN mem = 0 .. Capacity - 1
    BY <1>1 DEF TypeOK
  <2>. QED  BY <1>1, <2>1 DEF StaysInFile
<1>6. HaltsOnlyOnFault'
  BY <1>1, HaltsKept, Zenon
<1>7. TipInside'
  BY <1>1 DEF TipInside
<1>. QED  BY <1>2, <1>3, <1>4, <1>5, <1>6, <1>7 DEF LegacyInv

(* The memory and the counters of a boot step that does not write.         *)
LEMMA BootStay ==
  ASSUME LegacyInv
  PROVE  /\ mem \in [0 .. Capacity - 1 -> -FileCnt .. Capacity - 1]
         /\ \A a \in 0 .. Capacity - 1 : mem[a] \in {mem[a], Old}
         /\ toc \subseteq Files /\ files_opened \in 0 .. FileCnt + 1
         /\ faults \in Nat /\ failed \in BOOLEAN /\ lib \in {"c", "cpp"} /\ BootInv
         /\ \A i \in Nat : i > FileCnt => Files \subseteq 1 .. i - 1
  BY LayoutAssumption DEF LegacyInv, TypeOK, BootInv, Files

LEMMA SpoiledCounts ==
  ASSUME LegacyInv, Spoiled
  PROVE  faults' = faults + 1 /\ faults' > 0
  BY BootStay DEF Spoiled

LEMMA MountInv ==
  ASSUME LegacyInv, Mount
  PROVE  LegacyInv'
<1>. DEFINE Goes == /\ At("down")
                    /\ Goto(IF FsckOk THEN "load" ELSE "erase", 0)
                    /\ Healthy /\ UNCHANGED <<lib, rom, busy, mutex, files, call, halt>>
            Misused == Halt("misuse") /\ Healthy
            Breaks == Spoiled /\ Halt("MTD broken")
<1>0. /\ lib = "cpp" /\ UNCHANGED failed
      /\ Misused \/ Goes \/ Breaks
  BY Zenon DEF Mount
<1>1. CASE Misused
  <2>1. Misuse("misuse")
    BY Zenon DEF Misuse
  <2>. QED  BY <1>0, <1>1, <2>1, HaltInv, Zenon DEF Healthy
<1>2. CASE Goes
  <2>. HIDE DEF Misused, Breaks
  <2>1. opened = {}
    BY <1>2 DEF LegacyInv, BootInv, At
  <2>2. /\ boot' = [step |-> IF FsckOk THEN "load" ELSE "erase", next |-> 0]
        /\ UNCHANGED <<lib, mem, toc, busy, mutex, opened, files_opened, tip, call, halt, failed, faults>>
    BY <1>0, <1>2 DEF Goto, Healthy, rom, files
  <2>3. BootInv'
    BY <1>0, <1>2, <2>1, <2>2, BootStay DEF BootInv, At, FsckOk
  <2>4. boot'.step \in BootSteps
    BY <2>2 DEF BootSteps
  <2>. QED  BY <2>1, <2>2, <2>3, <2>4, BootStay, BootMove
<1>3. CASE Breaks
  <2>1. faults' = faults + 1 /\ faults' > 0
    BY <1>3, SpoiledCounts, Zenon
  <2>. QED  BY <1>0, <1>3, <2>1, HaltInv, Zenon
<1>. QED  BY <1>0, <1>1, <1>2, <1>3

LEMMA EraseInv ==
  ASSUME LegacyInv, Erase
  PROVE  LegacyInv'
<1>0. /\ At("erase") /\ UNCHANGED <<lib, busy, mutex, opened, files_opened, tip, call, failed, halt>>
      /\ faults' = faults \/ faults' = faults + 1
  BY DEF Erase, files, Healthy, Spoiled
<1>1. opened = {} /\ lib = "cpp"
  BY <1>0, BootStay DEF BootInv, At
<1>2. /\ toc' \subseteq Files /\ faults' \in Nat
      /\ mem' = mem \/ mem' = [a \in DOMAIN mem |-> IF PageOf(a) = boot.next THEN Old ELSE mem[a]]
      /\ boot'.step = "erase" \/ (boot'.step = "record" /\ boot'.next = 1)
  <2>1. toc' \in {toc, {}}
    BY DEF Erase
  <2>. QED  BY <1>0, <2>1, BootStay DEF Erase, Goto
<1>3. /\ mem' \in [0 .. Capacity - 1 -> -FileCnt .. Capacity - 1]
      /\ \A a \in 0 .. Capacity - 1 : mem'[a] \in {mem[a], Old}
  BY <1>2, OldByte, BootStay
<1>4. boot'.step \in BootSteps
  BY <1>2 DEF BootSteps
<1>5. BootInv'
  <2>1. 1 \in Files /\ 1 .. 1 - 1 = {}
    BY LayoutAssumption DEF Files
  <2>. QED  BY <1>0, <1>1, <1>2, <2>1, BootStay DEF BootInv, At
<1>. QED  BY <1>0, <1>1, <1>2, <1>3, <1>4, <1>5, BootStay, BootMove

LEMMA RecordInv ==
  ASSUME LegacyInv, Record
  PROVE  LegacyInv'
<1>. DEFINE Goes == /\ toc' = toc \cup {boot.next}
                    /\ IF boot.next = FileCnt THEN Goto("check", 0) ELSE Goto("record", boot.next + 1)
                    /\ Healthy /\ UNCHANGED <<lib, mem, busy, mutex, files, call, halt>>
            Breaks == Spoiled /\ Halt("MTD broken")
<1>0. At("record") /\ UNCHANGED failed /\ (Goes \/ Breaks)
  BY Zenon DEF Record
<1>1. CASE Goes
  <2>. HIDE DEF Breaks
  <2>1. opened = {} /\ lib = "cpp" /\ boot.next \in Files /\ 1 .. boot.next - 1 \subseteq toc
    BY <1>0, BootStay DEF BootInv, At
  <2>2. /\ UNCHANGED <<lib, mem, busy, mutex, opened, files_opened, tip, call, halt, failed, faults>>
        /\ toc' = toc \cup {boot.next}
        /\ boot'.step = IF boot.next = FileCnt THEN "check" ELSE "record"
        /\ boot'.next = IF boot.next = FileCnt THEN 0 ELSE boot.next + 1
    BY <1>0, <1>1 DEF Healthy, files, Goto
  <2>3. toc' \subseteq Files
    BY <2>1, <2>2, BootStay
  <2>4. 1 .. boot.next \subseteq toc'
    BY <2>1, <2>2, LayoutAssumption DEF Files
  <2>5. boot.next = FileCnt => toc' = Files
    BY <2>3, <2>4 DEF Files
  <2>6. boot.next # FileCnt => boot'.next \in Files /\ 1 .. boot'.next - 1 \subseteq toc'
    BY <2>1, <2>2, <2>4, LayoutAssumption DEF Files
  <2>7. BootInv'
    BY <1>0, <2>1, <2>2, <2>4, <2>5, <2>6, BootStay DEF BootInv, At
  <2>8. boot'.step \in BootSteps
    BY <2>2 DEF BootSteps
  <2>. QED  BY <2>1, <2>2, <2>3, <2>7, <2>8, BootStay, BootMove
<1>2. CASE Breaks
  <2>1. faults' = faults + 1 /\ faults' > 0
    BY <1>2, SpoiledCounts, Zenon
  <2>. QED  BY <1>0, <1>2, <2>1, HaltInv, Zenon
<1>. QED  BY <1>0, <1>1, <1>2

LEMMA LoadInv ==
  ASSUME LegacyInv, Load
  PROVE  LegacyInv'
<1>. DEFINE Fails == At("check") /\ ~ FsckOk
            Goes == /\ Goto("up", 0)
                    /\ files_opened' = 1
                    /\ Healthy /\ UNCHANGED <<lib, rom, busy, mutex, opened, tip, call, halt>>
            Breaks == Spoiled /\ Halt("MTD broken")
<1>0. (At("check") \/ At("load")) /\ UNCHANGED failed /\ (Fails \/ Goes \/ Breaks)
  BY Zenon DEF Load
<1>1. toc = Files /\ opened = {} /\ lib = "cpp"
  BY <1>0, BootStay DEF BootInv, At
<1>2. ~ Fails
  BY <1>1 DEF FsckOk
<1>3. CASE Goes
  <2>. HIDE DEF Breaks, Fails
  <2>1. /\ UNCHANGED <<lib, mem, toc, busy, mutex, opened, tip, call, halt, failed, faults>>
        /\ files_opened' = 1 /\ boot'.step = "up"
    BY <1>0, <1>3 DEF Healthy, rom, Goto
  <2>2. 1 + Cardinality({}) = 1
    BY FS_EmptySet
  <2>3. BootInv'
    BY <1>1, <2>1, <2>2, BootStay DEF BootInv, At
  <2>4. boot'.step \in BootSteps /\ files_opened' \in 0 .. FileCnt + 1
    BY <2>1, LayoutAssumption DEF BootSteps
  <2>. QED  BY <1>1, <2>1, <2>3, <2>4, BootStay, BootMove
<1>4. CASE Breaks
  <2>1. faults' = faults + 1 /\ faults' > 0
    BY <1>4, SpoiledCounts, Zenon
  <2>. QED  BY <1>0, <1>4, <2>1, HaltInv, Zenon
<1>. QED  BY <1>0, <1>2, <1>3, <1>4

LEMMA OpenedFinite ==
  ASSUME NEW S, S \subseteq Files
  PROVE  /\ IsFiniteSet(S) /\ Cardinality(S) \in 0 .. FileCnt
         /\ Cardinality(S) = 0 <=> S = {}
<1>1. IsFiniteSet(Files) /\ Cardinality(Files) = FileCnt
  BY FS_Interval, LayoutAssumption DEF Files
<1>2. IsFiniteSet(S) /\ Cardinality(S) <= Cardinality(Files)
  BY <1>1, FS_Subset
<1>3. Cardinality(S) \in Nat
  BY <1>2, FS_CardinalityType
<1>. QED  BY <1>1, <1>2, <1>3, FS_EmptySet, LayoutAssumption

LEMMA UmountInv ==
  ASSUME LegacyInv, Umount
  PROVE  LegacyInv'
<1>. DEFINE Misused == Halt("misuse") /\ UNCHANGED <<faults, failed>>
            Goes == /\ ~ (files_opened > 1)
                    /\ files_opened' = 0
                    /\ Goto("down", 0)
                    /\ UNCHANGED <<lib, rom, busy, mutex, opened, tip, call, faults, failed, halt>>
<1>0. lib = "cpp" /\ At("up") /\ (Misused \/ Goes)
  BY Zenon DEF Umount, Up
<1>1. CASE Misused
  <2>1. Misuse("misuse")
    BY Zenon DEF Misuse
  <2>. QED  BY <1>1, <2>1, HaltInv, Zenon
<1>2. CASE Goes
  <2>. HIDE DEF Misused
  <2>1. Cardinality(opened) \in 0 .. FileCnt /\ (Cardinality(opened) = 0 <=> opened = {})
    BY OpenedFinite DEF LegacyInv, TypeOK
  <2>2. opened = {}
    BY <1>0, <1>2, <2>1, BootStay DEF BootInv
  <2>3. /\ UNCHANGED <<lib, mem, toc, busy, mutex, opened, tip, call, halt, failed, faults>>
        /\ files_opened' = 0 /\ boot'.step = "down"
    BY <1>2 DEF rom, Goto
  <2>4. BootInv'
    BY <1>0, <2>2, <2>3, BootStay DEF BootInv, At
  <2>5. boot'.step \in BootSteps /\ files_opened' \in 0 .. FileCnt + 1
    BY <2>3, LayoutAssumption DEF BootSteps
  <2>. QED  BY <2>2, <2>3, <2>4, <2>5, BootStay, BootMove
<1>. QED  BY <1>0, <1>1, <1>2

-----------------------------------------------------------------------------
(* Calls on a file that has no write in progress.                          *)

LEMMA FileMove ==
  ASSUME LegacyInv, Up, NEW f \in Files, f \notin Active,
         UNCHANGED <<lib, mem, toc, busy, mutex, boot, call, failed, halt>>,
         faults' = faults \/ faults' = faults + 1,
         NEW t \in 0 .. Size[f], tip' = [tip EXCEPT ![f] = t],
         opened' \subseteq Files, opened \ {f} \subseteq opened',
         files_opened' = IF lib = "cpp" THEN 1 + Cardinality(opened') ELSE files_opened
  PROVE  LegacyInv'
<1>1. TypeOK /\ BootInv /\ CallsInv /\ MutexInv /\ StaysInFile /\ HaltsOnlyOnFault /\ TipInside
  BY DEF LegacyInv
<1>2. faults \in Nat /\ faults' \in Nat
  BY <1>1 DEF BootInv
<1>3. t \in Nat /\ tip' \in [Files -> Nat] /\ tip'[f] = t /\ \A g \in Files \ {f} : tip'[g] = tip[g]
  BY <1>1, LayoutAssumption DEF TypeOK
<1>4. files_opened' \in 0 .. FileCnt + 1
  <2>1. Cardinality(opened') \in 0 .. FileCnt
    BY OpenedFinite
  <2>. QED  BY <1>1, <2>1, LayoutAssumption DEF TypeOK
<1>5. TypeOK'
  <2>1. \A g \in Files : call[g].phase # "idle" => g \in opened /\ g # f
    BY <1>1 DEF TypeOK, Active, Quiet
  <2>. QED  BY <1>1, <1>3, <1>4, <2>1 DEF TypeOK
<1>6. BootInv'
  BY <1>1, <1>2 DEF BootInv, At, Up, Running
<1>7. CallsInv'
  <2>1. \A g \in Active : g \in Files \ {f}
    BY DEF Active
  <2>. QED  BY <1>1, <1>3, <2>1, CallsKept
<1>8. MutexInv' /\ StaysInFile' /\ HaltsOnlyOnFault'
  <2>1. failed' = failed
    OBVIOUS
  <2>. QED  BY <1>1, <1>2, <2>1, MutexKept, StaysKept, HaltsKept, Zenon
<1>9. TipInside'
  BY <1>1, <1>3 DEF TipInside
<1>. QED  BY <1>5, <1>6, <1>7, <1>8, <1>9 DEF LegacyInv

LEMMA OpenInv ==
  ASSUME CountFits, LegacyInv, NEW f \in Files, Open(f)
  PROVE  LegacyInv'
<1>. DEFINE Goes == /\ opened' = opened \cup {f}
                    /\ files_opened' = CountAfterOpen
                    /\ tip' = [tip EXCEPT ![f] = 0]
                    /\ Healthy /\ UNCHANGED <<lib, rom, busy, mutex, boot, call, halt>>
            Breaks == Spoiled /\ Halt("MTD broken")
<1>0. Up /\ f \notin opened /\ UNCHANGED failed /\ (Goes \/ Breaks)
  BY Zenon DEF Open
<1>1. CASE Goes
  <2>. HIDE DEF Breaks
  <2>1. opened \subseteq Files /\ opened' = opened \cup {f}
    BY <1>1 DEF LegacyInv, TypeOK
  <2>2. Cardinality(opened') = Cardinality(opened) + 1
    BY <1>0, <2>1, OpenedFinite, FS_AddElement
  <2>3. Cardinality(opened') \in 0 .. FileCnt /\ Cardinality(opened) \in 0 .. FileCnt
    BY <2>1, OpenedFinite
  <2>4. lib = "cpp" => files_opened = 1 + Cardinality(opened)
    BY <1>0, BootStay DEF BootInv, Up
  <2>5. files_opened' = IF lib = "cpp" THEN 1 + Cardinality(opened') ELSE files_opened
    <3>1. files_opened' = IF lib = "cpp" THEN (files_opened + 1) % 256 ELSE files_opened
      BY <1>1 DEF CountAfterOpen
    <3>. QED  BY <2>2, <2>3, <2>4, <3>1, LayoutAssumption DEF CountFits
  <2>6. f \notin Active
    BY <1>0 DEF LegacyInv, TypeOK, Active, Quiet
  <2>7. /\ UNCHANGED <<lib, mem, toc, busy, mutex, boot, call, failed, halt>>
        /\ faults' = faults /\ 0 \in 0 .. Size[f] /\ tip' = [tip EXCEPT ![f] = 0]
    BY <1>0, <1>1, LayoutAssumption DEF rom, Healthy
  <2>. QED  BY <1>0, <2>1, <2>5, <2>6, <2>7, FileMove
<1>2. CASE Breaks
  <2>1. faults' = faults + 1 /\ faults' > 0
    BY <1>2, SpoiledCounts, Zenon
  <2>. QED  BY <1>0, <1>2, <2>1, HaltInv, Zenon
<1>. QED  BY <1>0, <1>1, <1>2

LEMMA CloseInv ==
  ASSUME CountFits, LegacyInv, NEW f \in Files, Close(f)
  PROVE  LegacyInv'
<1>1. /\ Up /\ f \in opened /\ f \notin Active /\ opened' = opened \ {f}
      /\ files_opened' = CountAfterClose
      /\ tip' = [tip EXCEPT ![f] = 0] /\ 0 \in 0 .. Size[f]
      /\ UNCHANGED <<lib, mem, toc, busy, mutex, boot, call, faults, failed, halt>>
  BY LayoutAssumption DEF Close, rom, Active
<1>2. opened \subseteq Files
  BY DEF LegacyInv, TypeOK
<1>3. Cardinality(opened') = Cardinality(opened) - 1
  BY <1>1, <1>2, OpenedFinite, FS_RemoveElement
<1>4. Cardinality(opened') \in 0 .. FileCnt /\ Cardinality(opened) \in 0 .. FileCnt
  BY <1>1, <1>2, OpenedFinite
<1>5. lib = "cpp" => files_opened = 1 + Cardinality(opened)
  BY <1>1, BootStay DEF BootInv, Up
<1>6. files_opened' = IF lib = "cpp" THEN 1 + Cardinality(opened') ELSE files_opened
  <2>1. files_opened' = IF lib = "cpp" THEN (files_opened - 1) % 256 ELSE files_opened
    BY <1>1 DEF CountAfterClose
  <2>. QED  BY <1>3, <1>4, <1>5, <2>1, LayoutAssumption DEF CountFits
<1>. QED  BY <1>1, <1>2, <1>6, FileMove

(* A call that moves the position only.                                    *)
LEMMA TipMove ==
  ASSUME LegacyInv, Up, NEW f \in Files, Quiet(f),
         UNCHANGED <<lib, rom, busy, mutex, boot, opened, files_opened, call, failed, halt>>,
         faults' = faults \/ faults' = faults + 1,
         NEW t \in 0 .. Size[f], tip' = [tip EXCEPT ![f] = t]
  PROVE  LegacyInv'
<1>1. f \notin Active /\ opened' \subseteq Files /\ opened \ {f} \subseteq opened'
  BY DEF LegacyInv, TypeOK, Active
<1>2. files_opened' = IF lib = "cpp" THEN 1 + Cardinality(opened') ELSE files_opened
  BY DEF LegacyInv, BootInv, Up
<1>3. UNCHANGED <<lib, mem, toc, busy, mutex, boot, call, failed, halt>>
  BY DEF rom
<1>. QED  BY <1>1, <1>2, <1>3, FileMove

LEMMA SoughtInside ==
  ASSUME NEW f \in Files, tip[f] \in 0 .. Size[f], NEW offset \in Nat
  PROVE  Sought(f, offset) \in 0 .. Size[f]
  BY LayoutAssumption DEF Sought, Lseek, SetPosition

LEMMA SeekInv ==
  ASSUME LegacyInv, NEW f \in Files, NEW offset \in 0 .. Size[f] + 1, Seek(f, offset)
  PROVE  LegacyInv'
<1>1. tip[f] \in 0 .. Size[f] /\ offset \in Nat
  BY LayoutAssumption DEF LegacyInv, TipInside
<1>2. Sought(f, offset) \in 0 .. Size[f]
  BY <1>1, SoughtInside
<1>. QED  BY <1>2, TipMove DEF Seek

LEMMA ClampInside ==
  ASSUME LegacyInv, NEW f \in Files, NEW n \in Lengths, Clamp(f, n) > 0
  PROVE  /\ tip[f] \in Nat /\ Size[f] \in Nat
         /\ Clamp(f, n) \in Nat \ {0} /\ tip[f] + Clamp(f, n) <= Size[f]
<1>1. tip[f] \in 0 .. Size[f] /\ Size[f] \in Nat /\ n \in Nat
  BY LayoutAssumption DEF LegacyInv, TipInside
<1>. QED  BY <1>1 DEF Clamp

LEMMA AfterInside ==
  ASSUME NEW f \in Files, tip[f] \in Nat, Size[f] \in Nat, NEW m \in Nat \ {0},
         tip[f] + m <= Size[f], ~ Endless(f, m), lib \in {"c", "cpp"}, NEW ok \in BOOLEAN
  PROVE  After(f, m, ok) \in 0 .. Size[f]
<1>1. CASE ~ Single(f, m)
  BY <1>1 DEF After, AfterC, AfterCpp, Lseek
<1>2. CASE Single(f, m) /\ ~ Last(f)
  <2>1. Read2(f) <= Size[f] /\ Read2(f) \in Nat
    BY <1>2 DEF Read2, Last
  <2>. QED  BY <1>2, <2>1 DEF After, AfterC, AfterCpp, Lseek
<1>3. CASE Single(f, m) /\ Last(f)
  <2>1. lib = "cpp" => tip[f] # 0
    BY <1>3 DEF Endless, Last
  <2>. QED  BY <1>3, <2>1 DEF After, AfterC, AfterCpp
<1>. QED  BY <1>1, <1>2, <1>3

LEMMA ReadInv ==
  ASSUME LegacyInv, NEW f \in Files, NEW n \in Lengths, Read(f, n)
  PROVE  LegacyInv'
<1>. DEFINE m == Clamp(f, n)
            Goes == /\ \/ tip' = [tip EXCEPT ![f] = After(f, m, Answers)] /\ Healthy
                       \/ tip' = [tip EXCEPT ![f] = After(f, m, FALSE)] /\ Spoiled
                    /\ UNCHANGED <<lib, rom, busy, mutex, boot, opened, files_opened, call, halt>>
            Misused == Halt("stack overflow") /\ Healthy
<1>0. /\ Up /\ Quiet(f) /\ UNCHANGED failed /\ m > 0
      /\ \/ Endless(f, m) /\ Misused
         \/ ~ Endless(f, m) /\ Goes
  BY Zenon DEF Read
<1>1. CASE Endless(f, m) /\ Misused
  <2>1. Misuse("stack overflow")
    BY Zenon DEF Misuse
  <2>. QED  BY <1>0, <1>1, <2>1, HaltInv, Zenon DEF Healthy
<1>2. CASE ~ Endless(f, m) /\ Goes
  <2>. HIDE DEF Misused
  <2>1. /\ tip[f] \in Nat /\ Size[f] \in Nat /\ m \in Nat \ {0} /\ tip[f] + m <= Size[f]
    BY <1>0, ClampInside
  <2>. HIDE DEF m
  <2>2. lib \in {"c", "cpp"} /\ Answers \in BOOLEAN /\ FALSE \in BOOLEAN
    BY BootStay DEF Answers
  <2>3. After(f, m, Answers) \in 0 .. Size[f] /\ After(f, m, FALSE) \in 0 .. Size[f]
    BY <1>2, <2>1, <2>2, AfterInside
  <2>4. faults' = faults \/ faults' = faults + 1
    BY <1>2 DEF Healthy, Spoiled
  <2>. QED  BY <1>0, <1>2, <2>3, <2>4, TipMove
<1>. QED  BY <1>0, <1>1, <1>2

-----------------------------------------------------------------------------
(* The write calls.                                                        *)

LEMMA CallOf ==
  ASSUME LegacyInv, NEW f \in Active
  PROVE  /\ f \in Files /\ f \in opened /\ call[f] \in CallRecord /\ call[f].phase # "idle"
         /\ CallSound(lib, tip[f], failed, f, call[f])
         /\ ~ failed => InPlace(mem, call[f])
         /\ tip[f] \in Nat /\ tip[f] <= Size[f]
         /\ failed \in BOOLEAN /\ lib \in {"c", "cpp"}
  BY LayoutAssumption DEF LegacyInv, TypeOK, Active, Quiet, CallsInv, TipInside, BootInv

(* What has been sent of a call whose pieces all went well lies in the     *)
(* range of the call, and that in the file.                                *)
LEMMA SentInCall ==
  ASSUME NEW f \in Files, NEW c \in CallRecord, NEW l, NEW t, CallSound(l, t, FALSE, f, c),
         NEW a \in c.from .. c.from + Done(c) - 1
  PROVE  a \in c.from .. c.from + c.n - 1 /\ InFile(f, a) /\ a \in 0 .. Capacity - 1
<1>1. /\ c.n \in Nat /\ c.from \in Nat /\ c.sent \in Nat /\ c.written \in Nat
      /\ Start[f] \in Nat /\ EndOfFile(f) \in Nat /\ EndOfFile(f) <= Capacity /\ Capacity \in Nat
  BY CallNumbers
<1>2. c.written = c.sent /\ Start[f] <= c.from /\ c.from + c.n <= EndOfFile(f) /\ c.written < c.n
  BY DEF CallSound
<1>3. PieceLen(c) \in 1 .. c.n - c.written
  BY Piece
<1>4. Done(c) \in Nat /\ Done(c) <= c.n
  BY <1>1, <1>2, <1>3 DEF Done
<1>. QED  BY <1>1, <1>2, <1>4 DEF InFile

LEMMA SoundAnyway ==
  ASSUME NEW f, NEW c, NEW l, NEW t, NEW bad \in BOOLEAN, NEW b \in BOOLEAN,
         bad => b, CallSound(l, t, bad, f, c)
  PROVE  CallSound(l, t, b, f, c)
  BY DEF CallSound

(* A step that changes the call of one file.                               *)
LEMMA OneCall ==
  ASSUME LegacyInv, NEW f \in Files, NEW d \in CallRecord, call' = [call EXCEPT ![f] = d],
         UNCHANGED lib, failed' = failed \/ failed' = TRUE,
         \A g \in Files \ {f} : tip'[g] = tip[g],
         d.phase # "idle" => /\ CallSound(lib, tip'[f], failed', f, d)
                             /\ ~ failed' => InPlace(mem', d),
         \A g \in Active \ {f} : ~ failed' => InPlace(mem', call[g])
  PROVE  CallsInv' /\ call' \in [Files -> CallRecord]
<1>1. call \in [Files -> CallRecord] /\ failed \in BOOLEAN
  BY DEF LegacyInv, TypeOK, BootInv
<1>2. /\ call' \in [Files -> CallRecord]
      /\ call'[f] = d /\ \A g \in Files \ {f} : call'[g] = call[g]
  BY <1>1
<1>3. failed' \in BOOLEAN /\ (failed => failed')
  BY <1>1
<1>4. ASSUME NEW g \in Active'
      PROVE  /\ CallSound(lib', tip'[g], failed', g, call'[g])
             /\ ~ failed' => InPlace(mem', call'[g])
  <2>1. g \in Files /\ call'[g].phase # "idle"
    BY DEF Active, Quiet
  <2>2. CASE g = f
    BY <1>2, <2>1, <2>2
  <2>3. CASE g # f
    <3>1. g \in Active \ {f} /\ call'[g] = call[g] /\ tip'[g] = tip[g]
      BY <1>2, <2>1, <2>3 DEF Active, Quiet
    <3>2. CallSound(lib, tip[g], failed, g, call[g])
      BY <3>1, CallOf
    <3>3. CallSound(lib, tip[g], failed', g, call[g])
      BY <1>1, <1>3, <3>2, SoundAnyway
    <3>. QED  BY <3>1, <3>3
  <2>. QED  BY <2>2, <2>3
<1>. QED  BY <1>2, <1>4 DEF CallsInv

LEMMA WriteInv ==
  ASSUME LegacyInv, NEW f \in Files, NEW n \in Lengths, Write(f, n)
  PROVE  LegacyInv'
<1>. DEFINE m == Clamp(f, n)
            from == Start[f] + tip[f]
            c == [Idle EXCEPT !.n = m, !.from = from, !.phase = "ready"]
            Goes == /\ call' = [call EXCEPT ![f] = c]
                    /\ mem' = [a \in DOMAIN mem |-> IF Underway(a, f) THEN mem[a] ELSE Old]
                    /\ UNCHANGED <<lib, toc, busy, mutex, boot, files, halt>>
            Overflows == lib = "cpp" /\ tip[f] + m > Size[f]
<1>0. /\ Up /\ f \in opened /\ Quiet(f) /\ UNCHANGED <<faults, failed>> /\ m > 0
      /\ Overflows \/ Goes
  BY Zenon DEF Write
<1>1. tip[f] \in Nat /\ Size[f] \in Nat /\ m \in Nat \ {0} /\ tip[f] + m <= Size[f]
  BY <1>0, ClampInside
<1>2. ~ Overflows
  BY <1>1
<1>3. Goes
  BY <1>0, <1>2
<1>. HIDE DEF m, Overflows
<1>4. c \in CallRecord /\ CallSound(lib, tip[f], failed, f, c) /\ InPlace(mem', c)
  BY <1>1, CallBegun
<1>5. c.phase = "ready"
  BY DEF Idle
<1>6. /\ UNCHANGED <<lib, toc, busy, mutex, boot, opened, files_opened, tip, halt, faults, failed>>
      /\ call' = [call EXCEPT ![f] = c]
      /\ mem' = [a \in DOMAIN mem |-> IF Underway(a, f) THEN mem[a] ELSE Old]
  BY <1>0, <1>3 DEF files
<1>. HIDE DEF Goes, c
<1>7. TypeOK /\ BootInv /\ MutexInv /\ StaysInFile /\ HaltsOnlyOnFault /\ TipInside
  BY DEF LegacyInv
<1>8. DOMAIN mem = 0 .. Capacity - 1 /\ mem \in [0 .. Capacity - 1 -> -FileCnt .. Capacity - 1]
  BY <1>7 DEF TypeOK
<1>9. ASSUME NEW g \in Active \ {f}, ~ failed' PROVE InPlace(mem', call[g])
  <2>1. /\ g \in Files /\ call[g] \in CallRecord /\ CallSound(lib, tip[g], FALSE, g, call[g])
        /\ InPlace(mem, call[g]) /\ ~ Quiet(g)
    BY <1>6, <1>9, CallOf DEF Active
  <2>2. ASSUME NEW a \in call[g].from .. call[g].from + Done(call[g]) - 1 PROVE mem'[a] = a
    <3>1. a \in call[g].from .. call[g].from + call[g].n - 1 /\ a \in 0 .. Capacity - 1
      BY <2>1, <2>2, SentInCall
    <3>2. Underway(a, f)
      BY <2>1, <3>1 DEF Underway
    <3>. QED  BY <1>6, <1>8, <2>1, <2>2, <3>1, <3>2 DEF InPlace
  <2>. QED  BY <2>2 DEF InPlace
<1>10. CallsInv' /\ call' \in [Files -> CallRecord]
  BY <1>4, <1>5, <1>6, <1>9, OneCall
<1>11. \A a \in 0 .. Capacity - 1 : mem'[a] \in {mem[a], Old}
  BY <1>6, <1>8
<1>12. mem' \in [0 .. Capacity - 1 -> -FileCnt .. Capacity - 1]
  BY <1>6, <1>8, OldByte
<1>13. call'[f] = c /\ \A g \in Files \ {f} : call'[g] = call[g]
  BY <1>6, <1>7 DEF TypeOK
<1>14. TypeOK'
  <2>1. c.written < c.n
    BY <1>4 DEF CallSound
  <2>. QED  BY <1>0, <1>6, <1>7, <1>10, <1>12, <1>13, <2>1 DEF TypeOK
<1>15. BootInv'
  BY <1>6, <1>7, BootKept DEF BootInv
<1>16. MutexInv'
  BY <1>5, <1>6, <1>7, <1>13 DEF MutexInv
<1>17. StaysInFile'
  <2>1. DOMAIN mem' = DOMAIN mem
    BY <1>6
  <2>. QED  BY <1>6, <1>7, <1>8, <1>11, <2>1 DEF StaysInFile
<1>18. HaltsOnlyOnFault' /\ TipInside'
  BY <1>6, <1>7, Zenon DEF HaltsOnlyOnFault, TipInside
<1>. QED  BY <1>10, <1>14, <1>15, <1>16, <1>17, <1>18 DEF LegacyInv

LEMMA ChipDoneInv ==
  ASSUME LegacyInv, ChipDone
  PROVE  LegacyInv'
<1>1. /\ busy' = Nobody /\ Nobody \in 0 .. FileCnt
      /\ UNCHANGED <<lib, mem, toc, mutex, boot, opened, files_opened, tip, call, faults, failed, halt>>
  BY LayoutAssumption DEF ChipDone, rom, files, Nobody
<1>2. TypeOK /\ BootInv /\ CallsInv /\ MutexInv /\ StaysInFile /\ HaltsOnlyOnFault /\ TipInside
  BY DEF LegacyInv
<1>3. TypeOK'
  BY <1>1, <1>2 DEF TypeOK
<1>4. BootInv' /\ CallsInv' /\ StaysInFile'
  BY <1>1, <1>2, BootKept, CallsKept, StaysKept DEF BootInv
<1>5. MutexInv'
  BY <1>1, <1>2 DEF MutexInv
<1>6. HaltsOnlyOnFault' /\ TipInside'
  BY <1>1, <1>2, Zenon DEF HaltsOnlyOnFault, TipInside
<1>. QED  BY <1>3, <1>4, <1>5, <1>6 DEF LegacyInv

(* The driver asserts that a piece fits a page of the device.  As long as  *)
(* no piece has failed, it does.                                           *)
LEMMA PieceFits ==
  ASSUME LegacyInv, NEW f \in Active, ~ failed
  PROVE  ~ OutOfDevice(f, PieceLen(call[f])) /\ InOnePage(f, PieceLen(call[f]))
<1>. DEFINE c == call[f]
<1>1. f \in Files /\ c \in CallRecord /\ CallSound(lib, tip[f], failed, f, c)
      /\ tip[f] \in Nat /\ lib \in {"c", "cpp"}
  BY CallOf
<1>. HIDE DEF c
<1>2. /\ c.n \in Nat /\ c.from \in Nat /\ c.sent \in Nat /\ c.written \in Nat
      /\ Start[f] \in Nat /\ Size[f] \in Nat /\ EndOfFile(f) \in Nat
      /\ EndOfFile(f) <= Capacity /\ Capacity \in Nat
  BY <1>1, CallNumbers
<1>3. /\ c.written = c.sent /\ Start[f] <= c.from /\ c.from + c.n <= EndOfFile(f)
      /\ Start[f] + tip[f] = IF lib = "c" THEN c.from + c.written ELSE c.from
  BY <1>1 DEF CallSound
<1>4. PICK n : n = PieceLen(c)
  OBVIOUS
<1>5. n \in 1 .. c.n - c.written /\ PageOf(c.from + c.sent) = PageOf(c.from + c.sent + n - 1)
  BY <1>1, <1>4, Piece
<1>6. PieceAt(f) = c.from + c.sent
  BY <1>1, <1>2, <1>3 DEF PieceAt, c
<1>7. ~ OutOfDevice(f, n)
  <2>1. lib = "c" => tip[f] + n <= Capacity
    BY <1>1, <1>2, <1>3, <1>5
  <2>2. PieceAt(f) + n <= Capacity /\ PieceAt(f) + n \in Nat
    BY <1>2, <1>3, <1>5, <1>6
  <2>. QED  BY <1>1, <1>2, <1>5, <2>1, <2>2 DEF OutOfDevice
<1>8. InOnePage(f, n)
  BY <1>5, <1>6 DEF InOnePage
<1>. QED  BY <1>4, <1>7, <1>8 DEF c

(* Where a piece goes: C keeps to the file whatever failed, C++ as long as *)
(* nothing did.                                                            *)
LEMMA PieceInFile ==
  ASSUME LegacyInv, NEW f \in Active, lib = "c" \/ ~ failed,
         NEW a \in PieceAt(f) .. PieceAt(f) + PieceLen(call[f]) - 1
  PROVE  InFile(f, a) /\ a \in Int
<1>. DEFINE c == call[f]
<1>1. f \in Files /\ c \in CallRecord /\ CallSound(lib, tip[f], failed, f, c)
      /\ tip[f] \in Nat /\ lib \in {"c", "cpp"}
  BY CallOf
<1>. HIDE DEF c
<1>2. /\ c.n \in Nat /\ c.from \in Nat /\ c.sent \in Nat /\ c.written \in Nat
      /\ Start[f] \in Nat /\ Size[f] \in Nat /\ EndOfFile(f) \in Nat
  BY <1>1, CallNumbers
<1>3. /\ lib = "cpp" => c.written = c.sent
      /\ Start[f] <= c.from /\ c.from + c.n <= EndOfFile(f)
      /\ Start[f] + tip[f] = IF lib = "c" THEN c.from + c.written ELSE c.from
  BY <1>1 DEF CallSound
<1>4. PICK n : n = PieceLen(c)
  OBVIOUS
<1>5. n \in 1 .. c.n - c.written
  BY <1>1, <1>4, Piece
<1>6. PieceAt(f) = c.from + c.written
  BY <1>1, <1>2, <1>3 DEF PieceAt, c
<1>7. a \in PieceAt(f) .. PieceAt(f) + n - 1
  BY <1>4 DEF c
<1>. QED  BY <1>2, <1>3, <1>5, <1>6, <1>7 DEF InFile

(* What a piece puts there is a byte of the caller, or one from behind its *)
(* buffer.                                                                 *)
LEMMA PayloadIs ==
  ASSUME LegacyInv, NEW f \in Active, NEW i \in Nat
  PROVE  /\ Payload(f, i) \in -FileCnt .. Capacity - 1
         /\ Writer(Payload(f, i)) = f
<1>. DEFINE c == call[f]
<1>1. f \in Files /\ c \in CallRecord /\ CallSound(lib, tip[f], failed, f, c)
  BY CallOf
<1>. HIDE DEF c
<1>2. /\ c.n \in Nat /\ c.from \in Nat /\ c.sent \in Nat
      /\ Start[f] \in Nat /\ EndOfFile(f) \in Nat /\ EndOfFile(f) <= Capacity /\ Capacity \in Nat
      /\ f \in 1 .. FileCnt /\ FileCnt \in Nat
  BY <1>1, CallNumbers, LayoutAssumption DEF Files
<1>3. Start[f] <= c.from /\ c.from + c.n <= EndOfFile(f) /\ c.n > 0
  BY <1>1 DEF CallSound
<1>4. CASE c.sent + i < c.n
  <2>1. PICK v : v = c.from + c.sent + i
    OBVIOUS
  <2>2. Payload(f, i) = v
    BY <1>4, <2>1 DEF Payload, c
  <2>3. v \in Nat /\ v < c.from + c.n /\ v >= c.from
    BY <1>2, <1>4, <2>1
  <2>4. InFile(f, v) /\ v \in -FileCnt .. Capacity - 1
    BY <1>2, <1>3, <2>3 DEF InFile
  <2>5. FileOf(v) = f
    BY <1>1, <2>4, FileIs
  <2>. QED  BY <2>2, <2>3, <2>4, <2>5 DEF Writer
<1>5. CASE ~ c.sent + i < c.n
  <2>1. Payload(f, i) = -f
    BY <1>5 DEF Payload, c
  <2>2. -f \in -FileCnt .. Capacity - 1 /\ -f < 0 /\ -(-f) = f
    BY <1>2, <1>3
  <2>. QED  BY <2>1, <2>2 DEF Writer
<1>. QED  BY <1>4, <1>5

LEMMA StoreType ==
  ASSUME LegacyInv, NEW f \in Active, NEW k
  PROVE  /\ Store(f, k) \in [0 .. Capacity - 1 -> -FileCnt .. Capacity - 1]
         /\ DOMAIN Store(f, k) = DOMAIN mem
<1>1. mem \in [0 .. Capacity - 1 -> -FileCnt .. Capacity - 1]
  BY DEF LegacyInv, TypeOK
<1>2. PieceAt(f) \in Nat
  BY CallOf, CallNumbers DEF PieceAt
<1>3. ASSUME NEW a \in 0 .. Capacity - 1, a \in PieceAt(f) .. PieceAt(f) + k - 1
      PROVE  Payload(f, a - PieceAt(f)) \in -FileCnt .. Capacity - 1
  <2>1. a - PieceAt(f) \in Nat
    BY <1>2, <1>3, LayoutAssumption
  <2>. QED  BY <2>1, PayloadIs
<1>. QED  BY <1>1, <1>3 DEF Store

(* Every cell the piece changes is in the file and holds a byte of it.     *)
LEMMA StoreStays ==
  ASSUME LegacyInv, NEW f \in Active, lib = "c" \/ ~ failed,
         NEW k \in 0 .. PieceLen(call[f]), NEW a \in DOMAIN mem, Store(f, k)[a] # Old
  PROVE  Writer(Store(f, k)[a]) = FileOf(a)
<1>1. f \in Files /\ PieceAt(f) \in Nat /\ PieceLen(call[f]) \in Nat
  <2>1. PieceLen(call[f]) \in 1 .. call[f].n - call[f].written
    BY CallOf, Piece
  <2>. QED  BY <2>1, CallOf, CallNumbers DEF PieceAt
<1>2. CASE a \in PieceAt(f) .. PieceAt(f) + k - 1
  <2>1. a \in PieceAt(f) .. PieceAt(f) + PieceLen(call[f]) - 1 /\ a - PieceAt(f) \in Nat
    BY <1>1, <1>2
  <2>2. FileOf(a) = f
    BY <1>1, <2>1, PieceInFile, FileIs
  <2>3. Store(f, k)[a] = Payload(f, a - PieceAt(f))
    BY <1>2 DEF Store
  <2>. QED  BY <2>1, <2>2, <2>3, PayloadIs
<1>3. CASE a \notin PieceAt(f) .. PieceAt(f) + k - 1
  BY <1>3 DEF Store, LegacyInv, StaysInFile
<1>. QED  BY <1>2, <1>3

(* A piece that went well is in place, and so is all that was before.      *)
LEMMA PieceStored ==
  ASSUME LegacyInv, NEW f \in Active, ~ failed, call[f].phase = "ready",
         NEW a \in call[f].from .. call[f].from + (call[f].sent + PieceLen(call[f])) - 1
  PROVE  Store(f, PieceLen(call[f]))[a] = a
<1>. DEFINE c == call[f]
<1>1. f \in Files /\ c \in CallRecord /\ CallSound(lib, tip[f], FALSE, f, c)
      /\ InPlace(mem, c) /\ lib \in {"c", "cpp"}
  BY CallOf
<1>2. DOMAIN mem = 0 .. Capacity - 1
  BY DEF LegacyInv, TypeOK
<1>3. c.phase = "ready" /\ Done(c) = c.sent
  BY DEF Done
<1>. HIDE DEF c
<1>4. /\ c.n \in Nat /\ c.from \in Nat /\ c.sent \in Nat /\ c.written \in Nat
      /\ Start[f] \in Nat /\ EndOfFile(f) \in Nat /\ EndOfFile(f) <= Capacity /\ Capacity \in Nat
  BY <1>1, CallNumbers
<1>5. /\ c.written = c.sent
      /\ Start[f] + tip[f] = IF lib = "c" THEN c.from + c.written ELSE c.from
  BY <1>1 DEF CallSound
<1>6. PICK n : n = PieceLen(c)
  OBVIOUS
<1>7. n \in 1 .. c.n - c.written
  BY <1>1, <1>6, Piece
<1>8. PICK p : p = PieceAt(f)
  OBVIOUS
<1>9. p = c.from + c.sent
  BY <1>1, <1>5, <1>8 DEF PieceAt, c
<1>10. a \in c.from .. c.from + (c.sent + n) - 1
  BY <1>6 DEF c
<1>11. CASE a \in p .. p + n - 1
  <2>1. a \in PieceAt(f) .. PieceAt(f) + PieceLen(call[f]) - 1
    BY <1>6, <1>8, <1>11 DEF c
  <2>2. InFile(f, a)
    BY <2>1, PieceInFile
  <2>3. a \in DOMAIN mem
    BY <1>2, <1>4, <2>2 DEF InFile
  <2>4. Store(f, PieceLen(call[f]))[a] = Payload(f, a - p)
    BY <1>8, <2>1, <2>3 DEF Store
  <2>5. c.sent + (a - p) < c.n /\ c.from + c.sent + (a - p) = a
    BY <1>4, <1>5, <1>7, <1>9, <1>11
  <2>. QED  BY <2>4, <2>5 DEF Payload, c
<1>12. CASE a \notin p .. p + n - 1
  <2>1. a \in c.from .. c.from + Done(c) - 1
    BY <1>3, <1>4, <1>7, <1>9, <1>10, <1>12
  <2>2. a \in DOMAIN mem
    BY <1>1, <1>2, <2>1, SentInCall
  <2>3. mem[a] = a
    BY <1>1, <2>1 DEF InPlace
  <2>4. a \notin PieceAt(f) .. PieceAt(f) + PieceLen(call[f]) - 1
    BY <1>6, <1>8, <1>12 DEF c
  <2>. QED  BY <2>2, <2>3, <2>4 DEF Store
<1>. QED  BY <1>11, <1>12

(* It does not touch what the other calls have in place.                   *)
LEMMA OthersStored ==
  ASSUME LegacyInv, NEW f \in Active, ~ failed, NEW g \in Active \ {f}
  PROVE  InPlace(Store(f, PieceLen(call[f])), call[g])
<1>1. /\ f \in Files /\ g \in Files /\ call[g] \in CallRecord
      /\ CallSound(lib, tip[g], FALSE, g, call[g]) /\ InPlace(mem, call[g])
  BY CallOf
<1>2. DOMAIN mem = 0 .. Capacity - 1
  BY DEF LegacyInv, TypeOK
<1>3. ASSUME NEW a \in call[g].from .. call[g].from + Done(call[g]) - 1
      PROVE  Store(f, PieceLen(call[f]))[a] = a
  <2>1. InFile(g, a) /\ a \in DOMAIN mem /\ mem[a] = a
    BY <1>1, <1>2, SentInCall DEF InPlace
  <2>2. a \notin PieceAt(f) .. PieceAt(f) + PieceLen(call[f]) - 1
    BY <1>1, <2>1, PieceInFile, FileUnique
  <2>. QED  BY <2>1, <2>2 DEF Store
<1>. QED  BY <1>3 DEF InPlace

LEMMA TransferInv ==
  ASSUME LegacyInv, Up, NEW f \in Active, call[f].phase = "ready", mutex = Nobody,
         call[f].sent + PieceLen(call[f]) <= MaxSent,
         Transfer(f, PieceLen(call[f])), mutex' = Holder(f),
         UNCHANGED <<lib, toc, boot, files, halt>>
  PROVE  LegacyInv'
<1>. DEFINE c == call[f]
            n == PieceLen(c)
<1>1. /\ f \in Files /\ f \in opened /\ c \in CallRecord
      /\ CallSound(lib, tip[f], failed, f, c) /\ failed \in BOOLEAN /\ lib \in {"c", "cpp"}
  BY CallOf
<1>2. TypeOK /\ BootInv /\ CallsInv /\ MutexInv /\ StaysInFile /\ HaltsOnlyOnFault /\ TipInside
      /\ faults \in Nat
  BY DEF LegacyInv, BootInv
<1>3. n \in Nat
  BY <1>1, Piece, CallNumbers
<1>4. /\ UNCHANGED <<lib, toc, boot, opened, files_opened, tip, halt>>
      /\ mutex = 0 /\ mutex' = IF lib = "cpp" THEN f ELSE 0
  BY DEF files, Holder, Nobody
<1>5. PICK ok \in BOOLEAN, k \in 0 .. n :
        /\ call' = [call EXCEPT ![f] = [c EXCEPT !.phase = "sent", !.ok = ok]]
        /\ \/ mem' = Store(f, k) /\ busy' \in {0, f}
           \/ mem' = mem /\ busy' = busy /\ busy # 0 /\ ~ ok
        /\ ok => k = n /\ failed' = failed
        /\ ~ ok => failed' = TRUE
        /\ faults' = faults \/ faults' = faults + 1
  <2>1. call[f] = c /\ call \in [Files -> CallRecord]
    BY <1>2 DEF TypeOK
  <2>. HIDE DEF n, c
  <2>2. n \in 0 .. n /\ 0 \in 0 .. n
    BY <1>3
  <2>3. PieceLen(call[f]) = n
    BY <2>1 DEF n
  <2>4. CASE /\ Answers
             /\ mem' = Store(f, n) /\ busy' = f
             /\ call' = [call EXCEPT ![f].phase = "sent", ![f].ok = TRUE]
             /\ Healthy /\ UNCHANGED failed
    <3>1. call' = [call EXCEPT ![f] = [c EXCEPT !.phase = "sent", !.ok = TRUE]]
      BY <1>1, <2>1, <2>4
    <3>. QED  BY <2>2, <2>4, <3>1 DEF Healthy
  <2>5. ASSUME /\ Answers /\ Spoiled
               /\ \E k \in 0 .. n : mem' = Store(f, k) /\ busy' = IF k = 0 THEN Nobody ELSE f
               /\ call' = [call EXCEPT ![f].phase = "sent", ![f].ok = FALSE]
               /\ failed' = TRUE
        PROVE  \E ok \in BOOLEAN, k \in 0 .. n :
                 /\ call' = [call EXCEPT ![f] = [c EXCEPT !.phase = "sent", !.ok = ok]]
                 /\ \/ mem' = Store(f, k) /\ busy' \in {0, f}
                    \/ mem' = mem /\ busy' = busy /\ busy # 0 /\ ~ ok
                 /\ ok => k = n /\ failed' = failed
                 /\ ~ ok => failed' = TRUE
                 /\ faults' = faults \/ faults' = faults + 1
    <3>1. PICK k \in 0 .. n : mem' = Store(f, k) /\ busy' = IF k = 0 THEN Nobody ELSE f
      BY <2>5
    <3>2. call' = [call EXCEPT ![f] = [c EXCEPT !.phase = "sent", !.ok = FALSE]]
      BY <1>1, <2>1, <2>5
    <3>3. busy' \in {0, f} /\ faults' = faults + 1 /\ failed' = TRUE
      BY <2>5, <3>1 DEF Nobody, Spoiled
    <3>. QED  BY <3>1, <3>2, <3>3
  <2>6. CASE /\ ~ Answers
             /\ call' = [call EXCEPT ![f].phase = "sent", ![f].ok = FALSE]
             /\ Healthy /\ failed' = TRUE /\ UNCHANGED <<mem, busy>>
    <3>1. call' = [call EXCEPT ![f] = [c EXCEPT !.phase = "sent", !.ok = FALSE]]
      BY <1>1, <2>1, <2>6
    <3>2. busy # 0
      BY <2>6 DEF Answers, Nobody
    <3>. QED  BY <2>2, <2>6, <3>1, <3>2 DEF Healthy
  <2>7. Transfer(f, n)
    BY <2>3
  <2>. QED  BY <2>4, <2>5, <2>6, <2>7 DEF Transfer
<1>6. PICK d : d = [c EXCEPT !.phase = "sent", !.ok = ok]
  OBVIOUS
<1>7. failed' \in BOOLEAN /\ (failed' = failed \/ failed' = TRUE) /\ (failed => failed')
      /\ (~ failed' => ok /\ ~ failed)
  <2>1. CASE ok
    <3>1. failed' = failed
      BY <1>5, <2>1
    <3>. QED  BY <1>1, <2>1, <3>1
  <2>2. CASE ~ ok
    <3>1. failed' = TRUE
      BY <1>5, <2>2
    <3>. QED  BY <3>1
  <2>. QED  BY <2>1, <2>2
<1>8. /\ d \in CallRecord /\ CallSound(lib, tip[f], failed', f, d)
      /\ Done(d) = c.sent + n /\ d.from = c.from
  <2>1. PICK s : s = c.sent + PieceLen(c)
    OBVIOUS
  <2>2. s <= MaxSent
    BY <2>1
  <2>3. PICK b \in BOOLEAN : b = failed'
    BY <1>7
  <2>. HIDE DEF c
  <2>4. PICK bad \in BOOLEAN : bad = failed /\ CallSound(lib, tip[f], bad, f, c)
    BY <1>1
  <2>5. (bad => b) /\ (~ b => ok)
    BY <1>7, <2>3, <2>4
  <2>6. PICK t : t = tip[f] /\ CallSound(lib, t, bad, f, c)
    BY <2>4
  <2>7. /\ d \in CallRecord /\ d.n = c.n /\ d.from = c.from /\ d.sent = c.sent
        /\ d.written = c.written /\ d.phase = "sent" /\ d.ok = ok
    BY <1>1, <1>6 DEF CallRecord
  <2>8. CallSound(lib, t, b, f, d) /\ Done(d) = s
    BY <1>1, <2>1, <2>2, <2>5, <2>6, <2>7, CallSent
  <2>. QED  BY <2>1, <2>3, <2>6, <2>7, <2>8
<1>9. d.phase = "sent" /\ d.written = c.written /\ d.n = c.n
  BY <1>1, <1>6 DEF CallRecord
<1>10. call' = [call EXCEPT ![f] = d]
  BY <1>5, <1>6
<1>11. mem' \in [0 .. Capacity - 1 -> -FileCnt .. Capacity - 1]
  BY <1>2, <1>5, StoreType DEF TypeOK
<1>12. ~ failed' => mem' = Store(f, n) /\ ~ failed
  BY <1>5, <1>7
<1>13. ~ failed' => InPlace(mem', d)
  <2>1. ASSUME ~ failed', NEW a \in d.from .. d.from + Done(d) - 1 PROVE mem'[a] = a
    <3>1. a \in c.from .. c.from + (c.sent + n) - 1
      BY <1>8
    <3>. QED  BY <1>12, <2>1, <3>1, PieceStored
  <2>. QED  BY <2>1 DEF InPlace
<1>14. \A g \in Active \ {f} : ~ failed' => InPlace(mem', call[g])
  BY <1>12, OthersStored
<1>. HIDE DEF c, n
<1>15. CallsInv' /\ call' \in [Files -> CallRecord]
  BY <1>1, <1>4, <1>7, <1>8, <1>10, <1>13, <1>14, OneCall
<1>16. call'[f] = d /\ \A g \in Files \ {f} : call'[g] = call[g]
  BY <1>1, <1>2, <1>10 DEF TypeOK
<1>17. busy' \in 0 .. FileCnt /\ mutex' \in 0 .. FileCnt
  <2>1. f \in 0 .. FileCnt /\ 0 \in 0 .. FileCnt
    BY <1>1, LayoutAssumption DEF Files
  <2>. QED  BY <1>2, <1>4, <1>5, <2>1 DEF TypeOK
<1>18. TypeOK'
  <2>1. d.written < d.n
    BY <1>8 DEF CallSound
  <2>. QED  BY <1>1, <1>2, <1>4, <1>11, <1>15, <1>16, <1>17, <2>1 DEF TypeOK
<1>19. BootInv'
  BY <1>2, <1>4, <1>5, <1>7, BootKept
<1>20. MutexInv'
  <2>1. lib = "cpp" => /\ busy = 0 /\ mutex' = f
                       /\ \A g \in Files : call[g].phase # "sent"
    BY <1>2, <1>4, LayoutAssumption DEF MutexInv, Nobody, Files
  <2>. QED  BY <1>4, <1>5, <1>16, <2>1 DEF MutexInv, Nobody
<1>21. StaysInFile'
  <2>1. CASE mem' = mem
    BY <1>2, <1>4, <1>7, <2>1, StaysKept
  <2>2. CASE mem' = Store(f, k)
    <3>1. k \in 0 .. PieceLen(call[f])
      BY <1>5 DEF n, c
    <3>2. DOMAIN mem' = DOMAIN mem
      BY <2>2, StoreType
    <3>3. SUFFICES ASSUME lib = "c" \/ ~ failed', NEW a \in DOMAIN mem', mem'[a] # Old
                   PROVE  Writer(mem'[a]) = FileOf(a)
      BY <1>4 DEF StaysInFile
    <3>4. lib = "c" \/ ~ failed
      BY <1>7, <3>3
    <3>. QED  BY <2>2, <3>1, <3>2, <3>3, <3>4, StoreStays
  <2>. QED  BY <1>5, <2>1, <2>2
<1>22. HaltsOnlyOnFault'
  BY <1>2, <1>4, <1>5, <1>7, HaltsKept
<1>23. TipInside'
  BY <1>2, <1>4 DEF TipInside
<1>. QED  BY <1>15, <1>18, <1>19, <1>20, <1>21, <1>22, <1>23 DEF LegacyInv

LEMMA SendInv ==
  ASSUME LegacyInv, NEW f \in Files, Send(f)
  PROVE  LegacyInv'
<1>. DEFINE n == PieceLen(call[f])
            Goes == /\ Transfer(f, n)
                    /\ mutex' = Holder(f)
                    /\ UNCHANGED <<lib, toc, boot, files, halt>>
            Halts(why) == Halt(why) /\ UNCHANGED <<faults, failed>>
            Out == "Transaction out of device bounds"
            Across == "Data can not be fitted in single page"
<1>0. /\ Up /\ call[f].phase = "ready" /\ mutex = Nobody /\ call[f].sent + n <= MaxSent
      /\ \/ OutOfDevice(f, n) /\ Halts(Out)
         \/ ~ InOnePage(f, n) /\ Halts(Across)
         \/ Goes
  BY Zenon DEF Send
<1>. HIDE DEF Out, Across
<1>1. f \in Active
  BY <1>0 DEF Active, Quiet
<1>2. CASE Goes
  BY <1>0, <1>1, <1>2, TransferInv
<1>3. ASSUME NEW why, Halts(why), OutOfDevice(f, n) \/ ~ InOnePage(f, n)
      PROVE  LegacyInv'
  <2>1. failed
    BY <1>1, <1>3, PieceFits, Zenon
  <2>. QED  BY <1>3, <2>1, HaltInv, Zenon
<1>. QED  BY <1>0, <1>2, <1>3, Zenon

(* Where a piece leaves the position: in C behind what was taken of it,    *)
(* and no seek is ever cut at the end of the file; in C++ where it was,    *)
(* until the call returns.                                                 *)
LEMMA TipAfter ==
  ASSUME LegacyInv, NEW f \in Active
  PROVE  /\ TipAfterPiece(f) \in 0 .. Size[f] /\ TipAfterWrite(f) \in 0 .. Size[f]
         /\ Start[f] + TipAfterPiece(f) =
              IF lib = "c" THEN call[f].from + WrittenBy(f) ELSE call[f].from
         /\ WrittenBy(f) = call[f].written + (IF call[f].ok THEN PieceLen(call[f]) ELSE 0)
<1>. DEFINE c == call[f]
<1>1. f \in Files /\ c \in CallRecord /\ CallSound(lib, tip[f], failed, f, c)
      /\ tip[f] \in Nat /\ tip[f] <= Size[f] /\ lib \in {"c", "cpp"}
  BY CallOf
<1>. HIDE DEF c
<1>2. /\ c.n \in Nat /\ c.from \in Nat /\ c.sent \in Nat /\ c.written \in Nat
      /\ Start[f] \in Nat /\ Size[f] \in Nat /\ EndOfFile(f) = Start[f] + Size[f]
  BY <1>1, CallNumbers DEF EndOfFile
<1>3. /\ Start[f] <= c.from /\ c.from + c.n <= EndOfFile(f) /\ c.written < c.n
      /\ Start[f] + tip[f] = IF lib = "c" THEN c.from + c.written ELSE c.from
  BY <1>1 DEF CallSound
<1>4. PICK taken : taken = Taken(f)
  OBVIOUS
<1>5. taken = (IF c.ok THEN PieceLen(c) ELSE 0) /\ taken \in 0 .. c.n - c.written
  <2>1. PieceLen(c) \in 1 .. c.n - c.written
    BY <1>1, Piece
  <2>. QED  BY <1>2, <1>3, <1>4, <2>1 DEF Taken, c
<1>6. WrittenBy(f) = c.written + taken
  BY <1>4 DEF WrittenBy, c
<1>7. TipAfterPiece(f) = IF lib = "c" THEN tip[f] + taken ELSE tip[f]
  <2>1. lib = "c" => ~ tip[f] + taken > Size[f]
    BY <1>1, <1>2, <1>3, <1>5
  <2>. QED  BY <1>4, <2>1 DEF TipAfterPiece, Lseek
<1>8. TipAfterWrite(f) = IF lib = "c" THEN tip[f] + taken ELSE tip[f] + (c.written + taken)
  BY <1>6, <1>7 DEF TipAfterWrite
<1>. QED  BY <1>1, <1>2, <1>3, <1>5, <1>6, <1>7, <1>8 DEF c

LEMMA WakeInv ==
  ASSUME LegacyInv, NEW f \in Files, Wake(f)
  PROVE  LegacyInv'
<1>. DEFINE c == call[f]
<1>1. /\ Up /\ c.phase = "sent"
      /\ busy' = IF busy = f THEN 0 ELSE busy
      /\ mutex' = IF mutex = f THEN 0 ELSE mutex
      /\ UNCHANGED <<lib, mem, toc, boot, opened, files_opened, faults, failed, halt>>
  BY DEF Wake, Unlocked, Nobody, rom
<1>2. f \in Active
  BY <1>1 DEF Active, Quiet
<1>3. /\ f \in opened /\ c \in CallRecord /\ CallSound(lib, tip[f], failed, f, c)
      /\ (~ failed => InPlace(mem, c)) /\ tip[f] \in Nat /\ lib \in {"c", "cpp"}
  BY <1>2, CallOf
<1>4. TypeOK /\ BootInv /\ CallsInv /\ MutexInv /\ StaysInFile /\ HaltsOnlyOnFault /\ TipInside
  BY DEF LegacyInv
<1>5. PICK d \in CallRecord, t \in 0 .. Size[f] :
        /\ call' = [call EXCEPT ![f] = d] /\ tip' = [tip EXCEPT ![f] = t]
        /\ d.phase # "sent"
        /\ d.phase # "idle" => /\ CallSound(lib, t, failed, f, d)
                               /\ Done(d) = Done(c) /\ d.from = c.from
  <2>1. /\ TipAfterPiece(f) \in 0 .. Size[f] /\ TipAfterWrite(f) \in 0 .. Size[f]
        /\ Start[f] + TipAfterPiece(f) = IF lib = "c" THEN c.from + WrittenBy(f) ELSE c.from
        /\ WrittenBy(f) = c.written + (IF c.ok THEN PieceLen(c) ELSE 0)
    BY <1>2, TipAfter
  <2>2. CASE LastPiece(c)
    <3>1. call' = [call EXCEPT ![f] = Idle] /\ tip' = [tip EXCEPT ![f] = TipAfterWrite(f)]
      BY <2>2 DEF Wake
    <3>2. Idle \in CallRecord /\ Idle.phase = "idle"
      BY IdleRecord
    <3>. HIDE DEF c
    <3>. QED  BY <2>1, <3>1, <3>2
  <2>3. CASE ~ LastPiece(c)
    <3>1. PICK w : w = WrittenBy(f)
      OBVIOUS
    <3>2. PICK d : d = [c EXCEPT !.phase = "ready", !.written = w, !.sent = c.sent + PieceLen(c)]
      OBVIOUS
    <3>3. PICK t, s : t = TipAfterPiece(f) /\ s = c.sent + PieceLen(c)
      OBVIOUS
    <3>4. call' = [call EXCEPT ![f] = d] /\ tip' = [tip EXCEPT ![f] = t]
      <4>1. /\ call' = [call EXCEPT ![f].phase = "ready", ![f].written = WrittenBy(f),
                                    ![f].sent = @ + PieceLen(call[f])]
            /\ tip' = [tip EXCEPT ![f] = TipAfterPiece(f)]
        BY <2>3 DEF Wake
      <4>2. call \in [Files -> CallRecord]
        BY <1>4 DEF TypeOK
      <4>. QED  BY <1>3, <3>1, <3>2, <3>3, <4>1, <4>2
    <3>. HIDE DEF c
    <3>5. /\ d.n = c.n /\ d.from = c.from /\ d.sent = s /\ d.written = w
          /\ d.phase = "ready" /\ d.ok = c.ok
      BY <1>3, <3>2, <3>3 DEF CallRecord
    <3>6. /\ CallSound(lib, t, failed, f, d) /\ Done(d) = Done(c)
          /\ w \in 0 .. Capacity /\ s \in 0 .. MaxSent
      BY <1>1, <1>3, <2>1, <2>3, <3>1, <3>3, <3>5, CallWoken
    <3>7. d \in CallRecord
      BY <1>3, <3>2, <3>3, <3>6 DEF CallRecord
    <3>. QED  BY <2>1, <3>3, <3>4, <3>5, <3>6, <3>7
  <2>. QED  BY <2>2, <2>3
<1>6. tip'[f] = t /\ tip' \in [Files -> Nat] /\ \A g \in Files \ {f} : tip'[g] = tip[g]
  BY <1>4, <1>5, LayoutAssumption DEF TypeOK
<1>. HIDE DEF c
<1>7. d.phase # "idle" /\ ~ failed' => InPlace(mem', d)
  BY <1>1, <1>3, <1>5 DEF InPlace
<1>8. \A g \in Active \ {f} : ~ failed' => InPlace(mem', call[g])
  BY <1>1, CallOf
<1>9. CallsInv' /\ call' \in [Files -> CallRecord]
  <2>1. d.phase # "idle" => /\ CallSound(lib, tip'[f], failed', f, d)
                            /\ ~ failed' => InPlace(mem', d)
    BY <1>1, <1>5, <1>6, <1>7
  <2>2. UNCHANGED lib /\ failed' = failed
    BY <1>1
  <2>. QED  BY <1>5, <1>6, <1>8, <2>1, <2>2, OneCall
<1>10. call'[f] = d /\ \A g \in Files \ {f} : call'[g] = call[g]
  BY <1>4, <1>5 DEF TypeOK
<1>11. TypeOK'
  <2>1. busy' \in 0 .. FileCnt /\ mutex' \in 0 .. FileCnt
    BY <1>1, <1>4, LayoutAssumption DEF TypeOK
  <2>2. d.phase # "idle" => d.written < d.n
    BY <1>5 DEF CallSound
  <2>. QED  BY <1>1, <1>3, <1>4, <1>6, <1>9, <1>10, <2>1, <2>2 DEF TypeOK
<1>12. BootInv'
  BY <1>1, <1>4, BootKept DEF BootInv
<1>13. MutexInv'
  <2>1. lib = "cpp" => mutex = f /\ busy \in {0, f} /\ \A g \in Files \ {f} : call[g].phase # "sent"
    BY <1>1, <1>4 DEF MutexInv, Nobody, c
  <2>. QED  BY <1>1, <1>5, <1>10, <2>1 DEF MutexInv, Nobody
<1>14. StaysInFile' /\ HaltsOnlyOnFault'
  <2>1. UNCHANGED <<lib, mem>> /\ failed' = failed /\ faults' = faults /\ faults \in Nat /\ UNCHANGED halt
    BY <1>1, <1>4 DEF BootInv
  <2>. QED  BY <1>4, <2>1, StaysKept, HaltsKept
<1>15. TipInside'
  BY <1>4, <1>5, <1>6 DEF TipInside
<1>. QED  BY <1>9, <1>11, <1>12, <1>13, <1>14, <1>15 DEF LegacyInv

-----------------------------------------------------------------------------
(* Every step keeps the invariant.                                         *)

LEMMA NextInv == CountFits /\ LegacyInv /\ Next => LegacyInv'
<1>. SUFFICES ASSUME CountFits, LegacyInv, Next PROVE LegacyInv'
  OBVIOUS
<1>1. ASSUME Mount \/ Erase \/ Record \/ Load \/ Umount PROVE LegacyInv'
  BY <1>1, MountInv, EraseInv, RecordInv, LoadInv, UmountInv, Zenon
<1>2. ASSUME NEW f \in Files, Open(f) \/ Close(f) \/ Step(f) PROVE LegacyInv'
  BY <1>2, OpenInv, CloseInv, SendInv, WakeInv, Zenon DEF Step
<1>3. ASSUME NEW f \in Files, NEW offset \in 0 .. Size[f] + 1, Seek(f, offset) PROVE LegacyInv'
  BY <1>3, SeekInv, Zenon
<1>4. ASSUME NEW f \in Files, NEW n \in Lengths, Read(f, n) \/ Write(f, n) PROVE LegacyInv'
  BY <1>4, ReadInv, WriteInv, Zenon
<1>5. ASSUME ChipDone \/ Restart PROVE LegacyInv'
  BY <1>5, ChipDoneInv, RestartInv, Zenon
<1>. QED  BY <1>1, <1>2, <1>3, <1>4, <1>5, Zenon DEF Next

LEMMA StutterInv == LegacyInv /\ UNCHANGED vars => LegacyInv'
<1>. SUFFICES ASSUME LegacyInv, UNCHANGED vars PROVE LegacyInv'
  OBVIOUS
<1>1. UNCHANGED <<lib, mem, toc, busy, mutex, boot, opened, files_opened, tip, call, faults, failed, halt>>
  BY DEF vars, rom, files
<1>2. TypeOK /\ BootInv /\ CallsInv /\ MutexInv /\ StaysInFile /\ HaltsOnlyOnFault /\ TipInside
  BY DEF LegacyInv
<1>3. faults \in Nat /\ failed \in BOOLEAN
  BY <1>2 DEF BootInv
<1>4. TypeOK' /\ TipInside'
  BY <1>1, <1>2 DEF TypeOK, TipInside
<1>5. BootInv' /\ CallsInv' /\ MutexInv' /\ StaysInFile' /\ HaltsOnlyOnFault'
  <2>1. faults' \in Nat /\ failed' \in BOOLEAN /\ failed' = failed /\ faults' = faults
    BY <1>1, <1>3
  <2>. QED  BY <1>1, <1>2, <1>3, <2>1, BootKept, CallsKept, MutexKept, StaysKept, HaltsKept
<1>. QED  BY <1>4, <1>5 DEF LegacyInv

LEMMA StepInv == CountFits /\ LegacyInv /\ [Next]_vars => LegacyInv'
  BY NextInv, StutterInv, Zenon

(* What a reader may rely on, read off the invariant.                      *)
LEMMA InvReads == LegacyInv => ReadyWhenFree /\ MountedIsWhole
<1>. SUFFICES ASSUME LegacyInv PROVE ReadyWhenFree /\ MountedIsWhole
  OBVIOUS
<1>1. TypeOK /\ BootInv /\ MutexInv
  BY DEF LegacyInv
<1>2. ReadyWhenFree
  BY <1>1 DEF MutexInv, ReadyWhenFree
<1>3. MountedIsWhole
  BY <1>1 DEF BootInv, MountedIsWhole, TypeOK
<1>. QED  BY <1>2, <1>3

-----------------------------------------------------------------------------
(* What a write returns.                                                   *)

LEMMA HaltCloses ==
  ASSUME NEW why, Halt(why)
  PROVE  opened' = {}
  BY DEF Halt, PowerUp

(* A write returns when its thread wakes up from the last piece; all other *)
(* ends of it close the file.                                              *)
LEMMA ReturnsByWaking ==
  ASSUME LegacyInv, [Next]_vars, NEW f \in Files, call[f].phase = "sent", Quiet(f)', f \in opened'
  PROVE  Wake(f)
<1>. DEFINE Keeps == opened' = {} \/ call' = call
<1>1. call \in [Files -> CallRecord] /\ ~ Keeps
  BY DEF LegacyInv, TypeOK, Quiet
<1>. HIDE DEF Keeps
<1>2. ASSUME Mount \/ Erase \/ Record \/ Load \/ Umount PROVE Keeps
  BY <1>2, HaltCloses, Zenon DEF Keeps, Mount, Erase, Record, Load, Umount
<1>3. ASSUME NEW g \in Files, Open(g) \/ Close(g) PROVE Keeps
  BY <1>3, HaltCloses, Zenon DEF Keeps, Open, Close
<1>4. ASSUME NEW g \in Files, NEW offset, Seek(g, offset) PROVE Keeps
  BY <1>4, Zenon DEF Keeps, Seek
<1>5. ASSUME NEW g \in Files, NEW n, Read(g, n) PROVE Keeps
  BY <1>5, HaltCloses, Zenon DEF Keeps, Read
<1>6. ASSUME NEW g \in Files, NEW n, Write(g, n) PROVE g # f /\ (opened' = {} \/ call'[f] = call[f])
  <2>1. Quiet(g) /\ ((\E why : Halt(why)) \/ \E d : call' = [call EXCEPT ![g] = d])
    BY <1>6, Zenon DEF Write
  <2>. QED  BY <1>1, <2>1, HaltCloses DEF Quiet
<1>7. ASSUME NEW g \in Files, Send(g) PROVE g # f /\ (opened' = {} \/ call'[f] = call[f])
  <2>1. call[g].phase = "ready" /\ ((\E why : Halt(why)) \/ Transfer(g, PieceLen(call[g])))
    BY <1>7, Zenon DEF Send
  <2>. QED  BY <1>1, <2>1, HaltCloses DEF Transfer
<1>8. ASSUME NEW g \in Files, g # f, Wake(g) PROVE call'[f] = call[f]
  BY <1>1, <1>8 DEF Wake
<1>9. ASSUME ChipDone \/ Restart \/ UNCHANGED vars PROVE Keeps
  BY <1>9 DEF Keeps, ChipDone, Restart, PowerUp, vars
<1>10. call[f].phase # call'[f].phase /\ opened' # {}
  BY DEF Quiet
<1>. QED
  BY <1>1, <1>2, <1>3, <1>4, <1>5, <1>6, <1>7, <1>8, <1>9, <1>10, Zenon DEF Next, Step

LEMMA WakeStores ==
  ASSUME LegacyInv, NEW f \in Files, Wake(f), LastPiece(call[f]), ~ failed'
  PROVE  /\ WrittenBy(f) = call[f].n
         /\ \A a \in call[f].from .. call[f].from + call[f].n - 1 : mem'[a] = a
<1>. DEFINE c == call[f]
<1>1. c.phase = "sent" /\ mem' = mem /\ ~ failed
  BY DEF Wake, rom
<1>2. f \in Active
  BY <1>1 DEF Active, Quiet
<1>3. /\ c \in CallRecord /\ CallSound(lib, tip[f], FALSE, f, c) /\ InPlace(mem, c)
      /\ WrittenBy(f) = c.written + (IF c.ok THEN PieceLen(c) ELSE 0)
  BY <1>1, <1>2, CallOf, TipAfter
<1>. HIDE DEF c
<1>4. c.n \in Nat /\ c.sent \in Nat /\ c.written \in Nat /\ PieceLen(c) = c.n - c.written
  BY <1>3, CallNumbers, Piece DEF c
<1>5. c.written = c.sent /\ c.ok
  BY <1>3 DEF CallSound
<1>6. Done(c) = c.n /\ WrittenBy(f) = c.n
  BY <1>1, <1>3, <1>4, <1>5 DEF Done
<1>. QED  BY <1>1, <1>3, <1>6 DEF InPlace, c

LEMMA StepStores ==
  ASSUME LegacyInv, [Next]_vars
  PROVE  [ \A f \in Files :
             call[f].phase = "sent" /\ Quiet(f)' /\ LastPiece(call[f]) /\ ~ failed' /\ f \in opened' =>
               /\ WrittenBy(f) = call[f].n
               /\ \A a \in call[f].from .. call[f].from + call[f].n - 1 : mem'[a] = a ]_vars
  BY ReturnsByWaking, WakeStores, Zenon

-----------------------------------------------------------------------------
(* The theorems, for firmware whose files an 8-bit count can count.        *)

LEMMA LegacyInvariant == CountFits => (Spec => []LegacyInv)
<1>. SUFFICES ASSUME CountFits PROVE Spec => []LegacyInv
  OBVIOUS
<1>1. LegacyInv /\ [Next]_vars => LegacyInv'
  BY StepInv
<1>. QED  BY <1>1, InitInv, PTL DEF Spec

(* Every state of either library is well typed: positions, counts of bytes *)
(* and the count of open files stay in their ranges, and only open files   *)
(* have writes.                                                            *)
THEOREM LegacyTypeCorrect == CountFits => (Spec => []TypeOK)
<1>. SUFFICES ASSUME CountFits PROVE Spec => []TypeOK
  OBVIOUS
<1>1. LegacyInv => TypeOK
  BY DEF LegacyInv
<1>. QED  BY <1>1, LegacyInvariant, PTL

(* However writes are cut into pages and threads alternate, no byte lands  *)
(* outside of the file it was written to: in C whatever fails, in C++ as   *)
(* long as no piece has failed.                                            *)
THEOREM WritesStayInFile == CountFits => (Spec => []StaysInFile)
<1>. SUFFICES ASSUME CountFits PROVE Spec => []StaysInFile
  OBVIOUS
<1>1. LegacyInv => StaysInFile
  BY DEF LegacyInv
<1>. QED  BY <1>1, LegacyInvariant, PTL

(* No assertion of the drivers or of mount() fires unless a transfer was   *)
(* spoiled: every piece fits a page of the device, and mkfs() leaves what  *)
(* fsck() accepts.                                                         *)
THEOREM DriversKeepRunning == CountFits => (Spec => []HaltsOnlyOnFault)
<1>. SUFFICES ASSUME CountFits PROVE Spec => []HaltsOnlyOnFault
  OBVIOUS
<1>1. LegacyInv => HaltsOnlyOnFault
  BY DEF LegacyInv
<1>. QED  BY <1>1, LegacyInvariant, PTL

(* The position never leaves the file, through writes whose pieces fail in *)
(* between and through the reads of a single byte.                         *)
THEOREM PositionsStayInside == CountFits => (Spec => []TipInside)
<1>. SUFFICES ASSUME CountFits PROVE Spec => []TipInside
  OBVIOUS
<1>1. LegacyInv => TipInside
  BY DEF LegacyInv
<1>. QED  BY <1>1, LegacyInvariant, PTL

(* EepromMtd of C++ keeps its mutex while the chip programs: who gets it   *)
(* finds the chip ready.                                                   *)
THEOREM MutexCoversProgramming == CountFits => (Spec => []ReadyWhenFree)
<1>. SUFFICES ASSUME CountFits PROVE Spec => []ReadyWhenFree
  OBVIOUS
<1>. QED  BY InvReads, LegacyInvariant, PTL

(* mount() of C++ ends with the whole table stored, though mkfs() does not *)
(* look at what massErase() returns and may be cut off anywhere.           *)
THEOREM MountsTheWholeTable == CountFits => (Spec => []MountedIsWhole)
<1>. SUFFICES ASSUME CountFits PROVE Spec => []MountedIsWhole
  OBVIOUS
<1>. QED  BY InvReads, LegacyInvariant, PTL

(* As long as no piece fails, a write returns the length it was given, and *)
(* all of it is in place, whatever the other threads wrote meanwhile.      *)
THEOREM WritesStoreWhatTheyReturn == CountFits => (Spec => StoresWhatItReturns)
<1>. SUFFICES ASSUME CountFits PROVE Spec => StoresWhatItReturns
  OBVIOUS
<1>. QED  BY StepStores, LegacyInvariant, PTL DEF Spec, StoresWhatItReturns
=============================================================================
