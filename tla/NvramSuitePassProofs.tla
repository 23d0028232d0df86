-------------------------- MODULE NvramSuitePassProofs --------------------------
(***************************************************************************)
(* On the right chip the suite passes, whatever its context, if the device *)
(* suits its tests and no transfer breaks off.  If transfers do break off, *)
(* on whatever chip, a suite that passed has lost none but those it may    *)
(* lose; checked by TLAPS.                                                 *)
(***************************************************************************)
EXTENDS NvramSuiteProofs, NvramFsProofs

-----------------------------------------------------------------------------
(* Transfers that go through on the right chip.                            *)

LEMMA WholeStore ==
  ASSUME SuitePlace, AsConfigured, DOMAIN mem = 0 .. Capacity - 1,
         NEW data, NEW at \in Nat, NEW n \in Nat, at + n <= Capacity, Store(data, at, n)
  PROVE  /\ \A x \in 0 .. Capacity - 1 :
              mem'[x] = IF x \in at .. at + n - 1 THEN data[x - at] ELSE mem[x]
         /\ at >= SuperSize => media' = media
         /\ media = Unformatted => media' = Unformatted
<1>0. Capacity \in Nat /\ SuperSize \in Nat
  BY SizesAssumption
<1>1. ASSUME NEW i \in 0 .. n - 1 PROVE Cell(at, i) = at + i
  BY <1>0, RightCell
<1>2. ASSUME NEW x \in 0 .. Capacity - 1, ~ x \in at .. at + n - 1
      PROVE  mem'[x] = mem[x]
  <2>1. SentTo(at, n, x) = {}
    BY <1>0, <1>1, <1>2 DEF SentTo
  <2>. QED  BY <2>1, StoreMeans
<1>3. ASSUME NEW x \in 0 .. Capacity - 1, x \in at .. at + n - 1
      PROVE  mem'[x] = data[x - at]
  <2>1. PICK k \in 0 .. n - 1 : k = x - at
    <3>1. x - at \in 0 .. n - 1
      BY <1>0, <1>3
    <3>. QED  BY <3>1
  <2>2. k \in SentTo(at, n, x)
    BY <1>0, <1>1, <2>1 DEF SentTo
  <2>3. \A j \in SentTo(at, n, x) : j = k
    BY <1>0, <1>1, <2>1 DEF SentTo
  <2>. QED  BY <2>1, <2>2, <2>3, StoreMeans
<1>4. ASSUME at >= SuperSize PROVE media' = media
  <2>. DEFINE sent == {[i |-> i, cell |-> Cell(at, i)] : i \in 0 .. n - 1}
  <2>1. media' = IF \E s \in sent : s.cell < SuperSize THEN Unformatted ELSE media
    BY DEF Store
  <2>2. \A s \in sent : ~ s.cell < SuperSize
    BY <1>0, <1>1, <1>4
  <2>. QED  BY <2>1, <2>2
<1>5. media = Unformatted => media' = Unformatted
  BY DEF Store
<1>. QED  BY <1>2, <1>3, <1>4, <1>5

LEMMA WholeLoad ==
  ASSUME SuitePlace, AsConfigured, NEW at \in Nat, NEW n \in Nat, NEW x \in 0 .. n - 1,
         at + x < Capacity
  PROVE  Loaded(at, n)[x] = mem[at + x]
<1>1. PICK a \in Nat : a = at + x /\ a < Capacity
  OBVIOUS
<1>2. a % Capacity = a
  <2>1. a = 0 * Capacity + a /\ a \in 0 .. Capacity - 1 /\ Capacity \in Nat \ {0}
    BY <1>1, Sizes DEF SuitePlace
  <2>. QED  BY <2>1, DivUnique
<1>. QED  BY <1>1, <1>2 DEF Loaded, AsConfigured

(* A step of the suite in which nothing breaks off.                        *)
Right ==
  /\ SuitePlace /\ AsConfigured
  /\ DOMAIN mem = 0 .. Capacity - 1 /\ DOMAIN filebuf = 0 .. Capacity - 1 /\ DOMAIN fat = Slots
GoodStep == Right /\ SuiteNext /\ More /\ lost = {} /\ lost' = {}

LEMMA GoesOn ==
  ASSUME GoodStep
  PROVE  pc' = pc + 1 /\ ctx' = ctx /\ chip' = chip /\ pc \in 1 .. Len(Steps)
<1>1. Onward
  BY DEF GoodStep, SuiteNext, WriteStep, ReadStep, FsStep, DfStep, CtorStep, SeekStep,
     NvramSetStep, CompareStep, PutStep, GetStep, Return
<1>. QED  BY <1>1 DEF Onward, GoodStep, More, Right, SuitePlace

LEMMA DoneRange ==
  ASSUME NEW n \in Nat, NEW done \in Done(n)
  PROVE  done \in 0 .. n
  BY SuiteAssumption DEF Done

LEMMA NothingLost ==
  ASSUME GoodStep, NEW n \in Nat, NEW done \in Done(n), Broke(done, n)
  PROVE  done = n
<1>1. ~ (done < n)
  BY Zenon DEF Broke, GoodStep
<1>. QED  BY <1>1, DoneRange

LEMMA RawWrite ==
  ASSUME GoodStep, It.op = "write", It.at \in Nat, It.n \in Nat, It.at + It.n <= Capacity
  PROVE  /\ \A x \in 0 .. Capacity - 1 :
              mem'[x] = IF x \in It.at .. It.at + It.n - 1 THEN It.data[x - It.at] ELSE mem[x]
         /\ media = Unformatted => media' = Unformatted
         /\ verdict' = "running" /\ UNCHANGED <<ram, last, df>>
<1>1. WriteStep
  BY DueWrite DEF GoodStep
<1>2. PICK done \in Done(It.n) :
         /\ Store(It.data, It.at, done) /\ Broke(done, It.n)
         /\ Check(It.at + It.n <= Capacity /\ (It.checked => done = It.n))
  BY <1>1 DEF WriteStep
<1>3. done = It.n
  BY <1>2, NothingLost
<1>4. UNCHANGED <<ram, last, df>>
  BY <1>1 DEF WriteStep
<1>. QED  BY <1>2, <1>3, <1>4, WholeStore, ZenonT(40) DEF Check, GoodStep, Right

LEMMA RawRead ==
  ASSUME GoodStep, It.op = "read", It.at \in Nat, It.n \in Nat, It.cmp \in 0 .. It.n,
         It.at + It.cmp <= Capacity,
         \A x \in 0 .. It.cmp - 1 : mem[It.at + x] = It.ref[x]
  PROVE  verdict' = "running" /\ UNCHANGED <<vars, mem, df>>
<1>1. ReadStep
  BY DueRead DEF GoodStep
<1>2. PICK done \in Done(It.n) :
         Broke(done, It.n) /\ Check(done = It.n /\ Same(Loaded(It.at, It.n), It.ref, It.cmp))
  BY <1>1 DEF ReadStep
<1>3. done = It.n
  BY <1>2, NothingLost
<1>4. ASSUME NEW x \in 0 .. It.cmp - 1
      PROVE  Loaded(It.at, It.n)[x] = It.ref[x]
  <2>1. x \in 0 .. It.n - 1 /\ It.at + x < Capacity
    BY SizesAssumption
  <2>. QED  BY <2>1, WholeLoad DEF GoodStep, Right
<1>5. Same(Loaded(It.at, It.n), It.ref, It.cmp)
  BY <1>4 DEF Same
<1>. QED  BY <1>1, <1>2, <1>3, <1>5 DEF Check, ReadStep

LEMMA DueRest ==
  ASSUME SuiteNext, More
  PROVE  (It.op = "set" => NvramSetStep) /\ (It.op = "compare" => CompareStep)
  BY DEF SuiteNext, WriteStep, ReadStep, FsStep, DfStep, CtorStep, SeekStep, NvramSetStep,
         CompareStep, PutStep, GetStep, Return, Now

(* A piece of the nvramset() that is ignored: none before it broke off.    *)
LEMMA RawSet ==
  ASSUME GoodStep, It.op = "set", It.at \in Nat, It.n \in Nat, It.at + It.n <= Capacity
  PROVE  /\ media = Unformatted => media' = Unformatted
         /\ verdict' = "running" /\ UNCHANGED ram
<1>1. NvramSetStep
  BY DueRest DEF GoodStep
<1>2. ~ SetReturned
  BY DEF SetReturned, GoodStep
<1>3. PICK done \in Done(It.n) :
         Store(It.data, It.at, done) /\ Broke(done, It.n) /\ Check(It.at + It.n <= Capacity)
  BY <1>1, <1>2 DEF NvramSetStep
<1>4. media = Unformatted => media' = Unformatted
  BY <1>3 DEF Store
<1>5. verdict' = "running" /\ UNCHANGED ram
  BY <1>1, <1>3 DEF Check, NvramSetStep
<1>. QED  BY <1>4, <1>5

(* The read whose count nobody looks at.                                   *)
LEMMA RawCompare ==
  ASSUME GoodStep, It.op = "compare", It.at \in Nat, It.n \in Nat, It.cmp \in 0 .. It.n,
         It.at + It.n <= Capacity,
         \A x \in 0 .. It.cmp - 1 : mem[It.at + x] = It.ref[x]
  PROVE  verdict' = "running" /\ UNCHANGED <<vars, mem, df>>
<1>1. CompareStep
  BY DueRest DEF GoodStep
<1>2. PICK done \in Done(It.n) :
         /\ filebuf' = [x \in DOMAIN filebuf |-> IF x < done THEN Loaded(It.at, It.n)[x] ELSE filebuf[x]]
         /\ Broke(done, It.n) /\ Check(Same(filebuf', It.ref, It.cmp))
  BY <1>1 DEF CompareStep
<1>3. done = It.n
  BY <1>2, NothingLost
<1>4. ASSUME NEW x \in 0 .. It.cmp - 1
      PROVE  filebuf'[x] = It.ref[x]
  <2>1. x \in 0 .. It.n - 1 /\ It.at + x < Capacity /\ x \in 0 .. Capacity - 1 /\ x < It.n
    BY SizesAssumption
  <2>2. filebuf'[x] = Loaded(It.at, It.n)[x]
    BY <1>2, <1>3, <2>1 DEF GoodStep, Right
  <2>. QED  BY <2>1, <2>2, WholeLoad DEF GoodStep, Right
<1>5. Same(filebuf', It.ref, It.cmp)
  BY <1>4 DEF Same
<1>. QED  BY <1>1, <1>2, <1>5 DEF Check, CompareStep

-----------------------------------------------------------------------------
(* Scripts of raw transfers: every byte a read compares is the one the     *)
(* latest write to its address put there.                                  *)

Covers(call, x) == call.op = "write" /\ x \in call.at .. call.at + call.n - 1

(* Of the calls before p, w is the latest that writes address x.           *)
Latest(s, w, p, x) ==
  /\ w \in 1 .. p - 1 /\ Covers(s[w], x)
  /\ \A j \in w + 1 .. p - 1 : ~ Covers(s[j], x)

Gives(s, w, p, x, byte) == Latest(s, w, p, x) /\ s[w].data[x - s[w].at] = byte

Transfer(call) ==
  /\ call.at \in Nat /\ call.n \in Nat
  /\ \/ call.op = "write" /\ call.at + call.n <= Capacity
     \/ call.op = "read" /\ call.cmp \in 0 .. call.n /\ call.at + call.cmp <= Capacity

ReadsLatest(s, p) ==
  s[p].op = "read" =>
    \A x \in 0 .. s[p].cmp - 1 : \E w \in 1 .. p - 1 : Gives(s, w, p, s[p].at + x, s[p].ref[x])

Plain(s) == \A p \in 1 .. Len(s) : Transfer(s[p]) /\ ReadsLatest(s, p)
Raw(s) == IsSeq(s) /\ Plain(s)

LEMMA RawInARow ==
  ASSUME NEW s, NEW t, Raw(s), Raw(t)
  PROVE  Raw(s \o t)
<1>. DEFINE r == s \o t
<1>1. /\ IsSeq(r) /\ Len(r) = Len(s) + Len(t) /\ Len(s) \in Nat /\ Len(t) \in Nat
      /\ \A i \in 1 .. Len(s) : r[i] = s[i]
      /\ \A i \in 1 .. Len(t) : r[Len(s) + i] = t[i]
  BY InARow, LengthIsNat DEF Raw
<1>. HIDE DEF r
<1>. SUFFICES ASSUME NEW p \in 1 .. Len(r) PROVE Transfer(r[p]) /\ ReadsLatest(r, p)
  BY <1>1 DEF Raw, Plain, r
<1>2. CASE p <= Len(s)
  <2>1. r[p] = s[p] /\ Transfer(s[p]) /\ ReadsLatest(s, p)
    BY <1>1, <1>2 DEF Raw, Plain
  <2>2. ASSUME NEW w \in 1 .. p - 1, NEW x, NEW byte, Gives(s, w, p, x, byte)
        PROVE  Gives(r, w, p, x, byte)
    <3>1. \A j \in 1 .. p - 1 : r[j] = s[j]
      BY <1>1, <1>2
    <3>2. \A j \in w + 1 .. p - 1 : r[j] = s[j]
      BY <3>1
    <3>. QED  BY <2>2, <3>1, <3>2 DEF Gives, Latest
  <2>. QED  BY <2>1, <2>2 DEF ReadsLatest
<1>3. CASE p > Len(s)
  <2>1. PICK q \in 1 .. Len(t) : p = Len(s) + q
    <3>1. p - Len(s) \in 1 .. Len(t) /\ p = Len(s) + (p - Len(s))
      BY <1>1, <1>3
    <3>. QED  BY <3>1
  <2>2. r[p] = t[q] /\ Transfer(t[q]) /\ ReadsLatest(t, q)
    BY <1>1, <2>1 DEF Raw, Plain
  <2>3. ASSUME NEW w \in 1 .. q - 1, NEW x, NEW byte, Gives(t, w, q, x, byte)
        PROVE  Len(s) + w \in 1 .. p - 1 /\ Gives(r, Len(s) + w, p, x, byte)
    <3>1. PICK v \in 1 .. p - 1 : v = Len(s) + w
      BY <1>1, <2>1
    <3>2. r[v] = t[w]
      BY <1>1, <2>1, <3>1
    <3>3. ASSUME NEW j \in v + 1 .. p - 1 PROVE ~ Covers(r[j], x)
      <4>1. PICK i \in w + 1 .. q - 1 : j = Len(s) + i
        <5>1. j - Len(s) \in w + 1 .. q - 1 /\ j = Len(s) + (j - Len(s))
          BY <1>1, <2>1, <3>1
        <5>. QED  BY <5>1
      <4>2. r[j] = t[i]
        BY <1>1, <2>1, <4>1
      <4>. QED  BY <2>3, <4>2 DEF Gives, Latest
    <3>. QED  BY <2>3, <3>1, <3>2, <3>3 DEF Gives, Latest
  <2>4. ASSUME r[p].op = "read", NEW x \in 0 .. r[p].cmp - 1
        PROVE  \E w \in 1 .. p - 1 : Gives(r, w, p, r[p].at + x, r[p].ref[x])
    <3>1. PICK w \in 1 .. q - 1 : Gives(t, w, q, t[q].at + x, t[q].ref[x])
      BY <2>2, <2>4 DEF ReadsLatest
    <3>. QED  BY <2>2, <2>3, <3>1
  <2>. QED  BY <2>2, <2>4 DEF ReadsLatest
<1>. QED  BY <1>1, <1>2, <1>3

LEMMA CommonSeq ==
  ASSUME NEW s, NEW a, NEW b, NEW d, IsSeq(s), IsSeq(a), IsSeq(b), IsSeq(d)
  PROVE  \E U : s \in Seq(U) /\ a \in Seq(U) /\ b \in Seq(U) /\ d \in Seq(U)
<1>1. PICK S : s \in Seq(S)
  BY DEF IsSeq
<1>2. PICK A : a \in Seq(A)
  BY DEF IsSeq
<1>3. PICK B : b \in Seq(B)
  BY DEF IsSeq
<1>4. PICK D : d \in Seq(D)
  BY DEF IsSeq
<1>5. PICK U : U = S \cup A \cup B \cup D
  OBVIOUS
<1>6. s \in Seq(U) /\ a \in Seq(U) /\ b \in Seq(U) /\ d \in Seq(U)
  BY <1>1, <1>2, <1>3, <1>4, <1>5, SeqMonotonic
<1>. QED  BY <1>6

(* Three scripts in a row behind a fourth.                                 *)
LEMMA RawThenThree ==
  ASSUME NEW s, NEW a, NEW b, NEW d, Raw(s), Raw(a \o b \o d), IsSeq(a), IsSeq(b), IsSeq(d)
  PROVE  Raw(s \o a \o b \o d)
<1>1. PICK U : s \in Seq(U) /\ a \in Seq(U) /\ b \in Seq(U) /\ d \in Seq(U)
  BY CommonSeq DEF Raw
<1>2. PICK t \in Seq(U) : t = a \o b
  <2>1. a \o b \in Seq(U)
    BY <1>1
  <2>. QED  BY <2>1, Zenon
<1>3. (s \o a) \o b = s \o t
  BY <1>1, <1>2
<1>4. (s \o t) \o d = s \o (t \o d)
  BY <1>1, <1>2
<1>. QED  BY <1>2, <1>3, <1>4, RawInARow

LEMMA CallFields ==
  /\ \A data, n, at : /\ MtdWrite(data, n, at).op = "write" /\ MtdWrite(data, n, at).data = data
                      /\ MtdWrite(data, n, at).n = n /\ MtdWrite(data, n, at).at = at
                      /\ MtdWrite(data, n, at).checked = TRUE
  /\ \A n, at, ref, cmp : /\ MtdRead(n, at, ref, cmp).op = "read" /\ MtdRead(n, at, ref, cmp).n = n
                          /\ MtdRead(n, at, ref, cmp).at = at /\ MtdRead(n, at, ref, cmp).ref = ref
                          /\ MtdRead(n, at, ref, cmp).cmp = cmp
  BY DEF MtdWrite, MtdRead

-----------------------------------------------------------------------------
(* The tests of full_write_erase(), write_align_check() and                *)
(* write_misalign_check() read what they wrote.                            *)

LEMMA PatternBytes ==
  ASSUME NEW x \in 0 .. Capacity - 1
  PROVE  /\ \A byte : Fill(byte)[x] = byte
         /\ \A byte, at, n, inner :
              Patch(byte, at, n, inner)[x] = IF x \in at .. at + n - 1 THEN inner ELSE byte
  BY DEF Fill, Patch

(* r is s and then t, of n and m calls.                                    *)
Joined(s, t, r, n, m) ==
  /\ IsSeq(r) /\ Len(r) = n + m
  /\ \A i \in 1 .. n : r[i] = s[i]
  /\ \A i \in n + 1 .. n + m : r[i] = t[i - n]

LEMMA InARowJoined ==
  ASSUME NEW s, NEW t, IsSeq(s), IsSeq(t)
  PROVE  Joined(s, t, s \o t, Len(s), Len(t))
<1>1. PICK r : r = s \o t
  OBVIOUS
<1>2. PICK n \in Nat, m \in Nat : n = Len(s) /\ m = Len(t)
  BY LengthIsNat
<1>3. /\ IsSeq(s \o t) /\ Len(s \o t) = Len(s) + Len(t)
      /\ \A i \in 1 .. Len(s) : (s \o t)[i] = s[i]
      /\ \A i \in 1 .. Len(t) : (s \o t)[Len(s) + i] = t[i]
  BY InARow
<1>4. /\ IsSeq(r) /\ Len(r) = n + m
      /\ \A i \in 1 .. n : r[i] = s[i]
      /\ \A i \in 1 .. m : r[n + i] = t[i]
  BY <1>1, <1>2, <1>3, Zenon
<1>5. ASSUME NEW i \in n + 1 .. n + m PROVE r[i] = t[i - n]
  <2>1. PICK j \in 1 .. m : j = i - n /\ i = n + j
    <3>1. i - n \in 1 .. m /\ i = n + (i - n)
      OBVIOUS
    <3>. QED  BY <3>1
  <2>. QED  BY <1>4, <2>1
<1>6. Joined(s, t, r, n, m)
  BY <1>4, <1>5 DEF Joined
<1>. QED  BY <1>1, <1>2, <1>6

LEMMA PageBounds ==
  ASSUME NEW c \in Contexts, NEW page \in 0 .. c.pages - 1
  PROVE  /\ page * c.pagesize \in Nat /\ page * c.pagesize + c.pagesize <= Capacity
         /\ (page + 1) * c.pagesize = page * c.pagesize + c.pagesize
<1>1. PICK ps \in Nat, n \in Nat : ps = c.pagesize /\ n = c.pages /\ n * ps = Capacity
  <2>1. c.pages * c.pagesize = c.pagesize * c.pages
    BY Sizes
  <2>. QED  BY <2>1, Sizes
<1>2. page + 1 \in Nat /\ page + 1 <= n
  BY <1>1
<1>3. (page + 1) * ps <= n * ps
  BY <1>1, <1>2, TimesMonotone
<1>4. (page + 1) * ps = page * ps + ps /\ page * ps \in Nat
  <2>1. page \in Nat /\ ps \in Nat
    BY <1>1
  <2>. QED  BY <2>1
<1>. QED  BY <1>1, <1>3, <1>4

LEMMA RawAlign ==
  ASSUME NEW c \in Contexts, NEW page \in 0 .. c.pages - 1, NEW pattern
  PROVE  Raw(Align(c, pattern, page))
<1>1. PICK at \in Nat, ps \in Nat : at = page * c.pagesize /\ ps = c.pagesize /\ at + ps <= Capacity
  BY PageBounds, Sizes
<1>2. PICK s : s = Align(c, pattern, page)
  OBVIOUS
<1>3. /\ IsSeq(s) /\ Len(s) = 2
      /\ s[1] = MtdWrite(Fill(pattern), ps, at) /\ s[2] = MtdRead(ps, at, Fill(pattern), ps)
  BY <1>1, <1>2, PairIsSeq DEF Align
<1>4. /\ s[1].op = "write" /\ s[1].data = Fill(pattern) /\ s[1].n = ps /\ s[1].at = at
      /\ s[2].op = "read" /\ s[2].n = ps /\ s[2].at = at /\ s[2].ref = Fill(pattern) /\ s[2].cmp = ps
  BY <1>3, CallFields
<1>5. Transfer(s[1]) /\ Transfer(s[2]) /\ ReadsLatest(s, 1)
  BY <1>1, <1>4 DEF Transfer, ReadsLatest
<1>6. ASSUME NEW x \in 0 .. ps - 1
      PROVE  Gives(s, 1, 2, at + x, Fill(pattern)[x])
  <2>1. (at + x) - at = x
    BY <1>1
  <2>2. Covers(s[1], at + x)
    BY <1>1, <1>4 DEF Covers
  <2>. QED  BY <1>4, <2>1, <2>2 DEF Gives, Latest
<1>7. ReadsLatest(s, 2)
  BY <1>4, <1>6 DEF ReadsLatest
<1>. QED  BY <1>2, <1>3, <1>5, <1>7 DEF Raw, Plain

(* Two neighbour pages are written, in either order, and the first of them *)
(* is compared.                                                            *)
LEMMA RawOverlap ==
  ASSUME NEW c \in Contexts, NEW page \in Nat, page + 1 \in 0 .. c.pages - 1,
         NEW p1, NEW p2
  PROVE  /\ Raw(Align(c, p1, page) \o Align(c, p2, page + 1) \o Overlap(c, p1, p2, page))
         /\ Raw(Align(c, p2, page + 1) \o Align(c, p1, page) \o Overlap(c, p1, p2, page))
<1>1. PICK at \in Nat, ps \in Nat :
         at = page * c.pagesize /\ ps = c.pagesize /\ (page + 1) * c.pagesize = at + ps
         /\ at + ps <= Capacity /\ 2 * c.pagesize = 2 * ps
  <2>1. page \in 0 .. c.pages - 1
    BY Sizes
  <2>. QED  BY <2>1, PageBounds, Sizes
<1>2. PICK a : a = Align(c, p1, page)
  OBVIOUS
<1>3. PICK b : b = Align(c, p2, page + 1)
  OBVIOUS
<1>4. PICK o : o = Overlap(c, p1, p2, page)
  OBVIOUS
<1>5. /\ Raw(a) /\ Raw(b) /\ IsSeq(o) /\ Len(a) = 2 /\ Len(b) = 2 /\ Len(o) = 1
      /\ a[1] = MtdWrite(Fill(p1), ps, at) /\ a[2] = MtdRead(ps, at, Fill(p1), ps)
      /\ b[1] = MtdWrite(Fill(p2), ps, at + ps) /\ b[2] = MtdRead(ps, at + ps, Fill(p2), ps)
      /\ o[1] = MtdRead(2 * ps, at, Patch(p1, ps, ps, p2), ps)
  <2>1. page \in 0 .. c.pages - 1
    BY Sizes
  <2>. QED  BY <1>1, <1>2, <1>3, <1>4, <2>1, RawAlign, PairIsSeq, ShortTuples DEF Align, Overlap
<1>6. ASSUME NEW s, Raw(s), Len(s) = 4, NEW w \in {1, 3},
             s[w] = a[1], \A j \in w + 1 .. 4 : s[j] \in {a[2], b[1], b[2]},
             NEW r, r = s \o o
      PROVE  Raw(r)
  <2>2. /\ IsSeq(r) /\ Len(r) = 5 /\ \A j \in 1 .. 4 : r[j] = s[j]
        /\ r[5] = o[1]
    <3>1. Joined(s, o, r, 4, 1)
      BY <1>5, <1>6, InARowJoined DEF Raw
    <3>. QED  BY <3>1 DEF Joined
  <2>3. ASSUME NEW p \in 1 .. 4 PROVE Transfer(r[p]) /\ ReadsLatest(r, p)
    <3>1. Transfer(s[p]) /\ ReadsLatest(s, p) /\ r[p] = s[p]
      BY <1>6, <2>2 DEF Raw, Plain
    <3>2. \A v \in 1 .. p - 1 : r[v] = s[v]
      BY <2>2
    <3>3. \A v \in 1 .. p - 1 : \A x, byte : Gives(s, v, p, x, byte) => Gives(r, v, p, x, byte)
      BY <2>2, <3>2 DEF Gives, Latest
    <3>. QED  BY <3>1, <3>3 DEF ReadsLatest
  <2>4. /\ r[5].op = "read" /\ r[5].at = at /\ r[5].n = 2 * ps /\ r[5].cmp = ps
        /\ r[5].ref = Patch(p1, ps, ps, p2)
        /\ r[w].op = "write" /\ r[w].at = at /\ r[w].n = ps /\ r[w].data = Fill(p1)
    BY <1>5, <1>6, <2>2, CallFields, SMTT(30)
  <2>5. Transfer(r[5])
    BY <1>1, <2>4 DEF Transfer
  <2>6. ASSUME NEW x \in 0 .. ps - 1
        PROVE  Gives(r, w, 5, at + x, r[5].ref[x])
    <3>1. x \in 0 .. Capacity - 1 /\ (at + x) - at = x /\ ~ x \in ps .. ps + ps - 1
      BY <1>1, SizesAssumption
    <3>2. r[w].data[(at + x) - at] = r[5].ref[x]
      <4>1. Fill(p1)[x] = p1 /\ Patch(p1, ps, ps, p2)[x] = p1
        BY <3>1, PatternBytes
      <4>. QED  BY <2>4, <3>1, <4>1
    <3>3. Covers(r[w], at + x)
      BY <1>1, <2>4 DEF Covers
    <3>4. ASSUME NEW j \in w + 1 .. 4 PROVE ~ Covers(r[j], at + x)
      <4>1. r[j] \in {a[2], b[1], b[2]}
        BY <1>6, <2>2
      <4>2. a[2].op = "read" /\ b[2].op = "read" /\ b[1].at = at + ps
        BY <1>5, CallFields
      <4>. QED  BY <1>1, <4>1, <4>2 DEF Covers
    <3>5. w \in 1 .. 5 - 1 /\ w + 1 .. 5 - 1 = w + 1 .. 4
      OBVIOUS
    <3>6. Latest(r, w, 5, at + x)
      BY <3>3, <3>4, <3>5 DEF Latest
    <3>. QED  BY <2>4, <3>2, <3>6 DEF Gives
  <2>7. ReadsLatest(r, 5)
    BY <2>4, <2>6 DEF ReadsLatest
  <2>8. Plain(r)
    BY <2>2, <2>3, <2>5, <2>7 DEF Plain
  <2>. QED  BY <2>2, <2>8 DEF Raw
<1>7. Raw(a \o b \o o)
  <2>1. PICK s, r : s = a \o b /\ r = s \o o
    OBVIOUS
  <2>2. Raw(s) /\ Len(s) = 4 /\ s[1] = a[1] /\ s[2] = a[2] /\ s[3] = b[1] /\ s[4] = b[2]
    <3>1. Joined(a, b, s, 2, 2)
      BY <1>5, <2>1, InARowJoined DEF Raw
    <3>2. Raw(s)
      BY <1>5, <2>1, RawInARow
    <3>. QED  BY <3>1, <3>2 DEF Joined
  <2>3. \A j \in 1 + 1 .. 4 : s[j] \in {a[2], b[1], b[2]}
    BY <2>2
  <2>4. Raw(r)
    BY <1>6, <2>1, <2>2, <2>3
  <2>. QED  BY <2>1, <2>4
<1>8. Raw(b \o a \o o)
  <2>1. PICK s, r : s = b \o a /\ r = s \o o
    OBVIOUS
  <2>2. Raw(s) /\ Len(s) = 4 /\ s[1] = b[1] /\ s[2] = b[2] /\ s[3] = a[1] /\ s[4] = a[2]
    <3>1. Joined(b, a, s, 2, 2)
      BY <1>5, <2>1, InARowJoined DEF Raw
    <3>2. Raw(s)
      BY <1>5, <2>1, RawInARow
    <3>. QED  BY <3>1, <3>2 DEF Joined
  <2>3. \A j \in 3 + 1 .. 4 : s[j] \in {a[2], b[1], b[2]}
    BY <2>2
  <2>4. Raw(r)
    BY <1>6, <2>1, <2>2, <2>3
  <2>. QED  BY <2>1, <2>4
<1>. QED  BY <1>2, <1>3, <1>4, <1>7, <1>8

-----------------------------------------------------------------------------
LEMMA RawAlignCheck ==
  ASSUME NEW c \in Contexts, Paged(c)
  PROVE  Raw(AlignCheck(c))
<1>. DEFINE end == c.pages - 1
<1>1. end \in Nat \ {0}
  BY Sizes DEF Paged
<1>2. {0, 1, end - 1, end} \subseteq 0 .. c.pages - 1 /\ 0 + 1 = 1 /\ (end - 1) + 1 = end
      /\ end - 1 \in Nat
  BY <1>1, Sizes
<1>. DEFINE each(page) == Align(c, 0, page) \o Align(c, 85, page) \o Align(c, 170, page) \o Align(c, 255, page)
<1>3. ASSUME NEW page \in {0, 1, end - 1, end}
      PROVE  Raw(each(page)) /\ \A p : Raw(Align(c, p, page))
  <2>1. \A p : Raw(Align(c, p, page))
    BY <1>2, RawAlign
  <2>. QED  BY <2>1, RawInARow
<1>. HIDE DEF each, end
<1>4. ASSUME NEW s, Raw(s), NEW page \in {0, end - 1}, NEW p1, NEW p2
      PROVE  /\ Raw(s \o Align(c, p1, page) \o Align(c, p2, page + 1) \o Overlap(c, p1, p2, page))
             /\ Raw(s \o Align(c, p2, page + 1) \o Align(c, p1, page) \o Overlap(c, p1, p2, page))
  <2>1. page \in Nat /\ page + 1 \in 0 .. c.pages - 1
    BY <1>2, Sizes
  <2>2. IsSeq(Align(c, p1, page)) /\ IsSeq(Align(c, p2, page + 1)) /\ IsSeq(Overlap(c, p1, p2, page))
    BY AlignIsSeq
  <2>. QED  BY <1>4, <2>1, <2>2, RawOverlap, RawThenThree
<1>. DEFINE s1 == Align(c, 170, 0) \o Align(c, 0, 0) \o Align(c, 85, 0) \o Align(c, 255, 0) \o each(1)
            s2 == s1 \o Align(c, 0, 0) \o Align(c, 85, 1) \o Overlap(c, 0, 85, 0)
            s3 == s2 \o Align(c, 170, 1) \o Align(c, 85, 0) \o Overlap(c, 85, 170, 0)
            s4 == s3 \o each(end) \o each(end - 1)
            s5 == s4 \o Align(c, 85, end - 1) \o Align(c, 0, end) \o Overlap(c, 85, 0, end - 1)
            s6 == s5 \o Align(c, 170, end - 1) \o Align(c, 85, end) \o Overlap(c, 170, 85, end - 1)
<1>5. Raw(s1)
  BY <1>3, RawInARow
<1>. HIDE DEF s1
<1>6. Raw(s2)
  BY <1>2, <1>4, <1>5
<1>. HIDE DEF s2
<1>7. Raw(s3)
  BY <1>2, <1>4, <1>6
<1>. HIDE DEF s3
<1>8. Raw(s4)
  BY <1>3, <1>7, RawInARow
<1>. HIDE DEF s4
<1>9. Raw(s5)
  BY <1>2, <1>4, <1>8
<1>. HIDE DEF s5
<1>10. Raw(s6)
  BY <1>2, <1>4, <1>9
<1>. HIDE DEF s6
<1>. QED  BY <1>10 DEF AlignCheck, each, end, s1, s2, s3, s4, s5, s6

(* The two loops of full_write_erase(): what rand() returned is read back. *)
LEMMA RawLoops ==
  ASSUME NEW c \in Contexts
  PROVE  Raw(FillRandom(c) \o ReadBack(c))
<1>1. PICK len \in Nat \ {0}, n \in Nat : len = c.len /\ n = Runs(c)
  BY Sizes, LoopsAreSeqs
<1>2. PICK r : r = FillRandom(c) \o ReadBack(c)
  OBVIOUS
<1>3. Joined(FillRandom(c), ReadBack(c), r, n, n)
  BY <1>1, <1>2, LoopsAreSeqs, InARowJoined
<1>4. \A k \in 0 .. n - 1 : k * len \in Nat /\ k * len + len <= Capacity
  BY <1>1, RunBounds
<1>5. ASSUME NEW k \in 0 .. n - 1, NEW i, i = k + 1
      PROVE  /\ r[i] = MtdWrite(RandomPart(c, k), len, k * len)
             /\ r[n + i] = MtdRead(len, k * len, RandomPart(c, k), len)
  <2>1. i \in 1 .. n /\ i - 1 = k
    BY <1>5
  <2>2. FillRandom(c)[i] = MtdWrite(RandomPart(c, k), len, k * len)
    BY <1>1, <2>1 DEF FillRandom
  <2>3. ReadBack(c)[i] = MtdRead(len, k * len, RandomPart(c, k), len)
    BY <1>1, <2>1 DEF ReadBack
  <2>4. r[i] = FillRandom(c)[i]
    BY <1>3, <2>1 DEF Joined
  <2>5. n + i \in n + 1 .. n + n /\ (n + i) - n = i
    BY <2>1
  <2>6. r[n + i] = ReadBack(c)[i]
    BY <1>3, <2>5 DEF Joined
  <2>. QED  BY <2>2, <2>3, <2>4, <2>6
<1>6. ASSUME NEW p \in 1 .. n PROVE Transfer(r[p]) /\ ReadsLatest(r, p)
  <2>1. PICK k \in 0 .. n - 1 : p = k + 1
    <3>1. p - 1 \in 0 .. n - 1 /\ p = (p - 1) + 1
      OBVIOUS
    <3>. QED  BY <3>1
  <2>2. PICK at \in Nat : at = k * len /\ at + len <= Capacity
    BY <1>4
  <2>3. r[p].op = "write" /\ r[p].n = len /\ r[p].at = at
    <3>1. r[p] = MtdWrite(RandomPart(c, k), len, at)
      BY <1>5, <2>1, <2>2
    <3>. QED  BY <3>1, CallFields
  <2>. QED  BY <2>2, <2>3 DEF Transfer, ReadsLatest
<1>7. ASSUME NEW p \in n + 1 .. n + n PROVE Transfer(r[p]) /\ ReadsLatest(r, p)
  <2>1. PICK k \in 0 .. n - 1 : p = n + (k + 1)
    <3>1. (p - n) - 1 \in 0 .. n - 1 /\ p = n + (((p - n) - 1) + 1)
      OBVIOUS
    <3>. QED  BY <3>1
  <2>2. PICK at \in Nat : at = k * len /\ at + len <= Capacity
    BY <1>4
  <2>3. r[p].op = "read" /\ r[p].n = len /\ r[p].at = at /\ r[p].cmp = len /\ r[p].ref = RandomPart(c, k)
    BY <1>5, <2>1, <2>2, CallFields
  <2>4. Transfer(r[p])
    BY <2>2, <2>3 DEF Transfer
  <2>5. PICK w \in 1 .. p - 1 : w = k + 1
    <3>1. k + 1 \in 1 .. p - 1
      BY <2>1
    <3>. QED  BY <3>1
  <2>6. r[w].op = "write" /\ r[w].n = len /\ r[w].at = at /\ r[w].data = RandomPart(c, k)
    BY <1>5, <2>2, <2>5, CallFields
  <2>7. ASSUME NEW x \in 0 .. len - 1 PROVE Gives(r, w, p, at + x, r[p].ref[x])
    <3>1. (at + x) - at = x
      BY <2>2
    <3>2. Covers(r[w], at + x)
      BY <2>2, <2>6 DEF Covers
    <3>3. ASSUME NEW j \in w + 1 .. p - 1 PROVE ~ Covers(r[j], at + x)
      <4>1. CASE j <= n
        <5>1. PICK i \in k + 1 .. n - 1 : j = i + 1
          <6>1. j - 1 \in k + 1 .. n - 1 /\ j = (j - 1) + 1
            BY <2>5, <4>1
          <6>. QED  BY <6>1
        <5>2. i \in 0 .. n - 1 /\ k + 1 <= i /\ k + 1 \in Nat
          BY <5>1
        <5>3. r[j].at = i * len
          <6>1. r[j] = MtdWrite(RandomPart(c, i), len, i * len)
            BY <1>5, <5>1, <5>2
          <6>. QED  BY <6>1, CallFields
        <5>4. (k + 1) * len <= i * len
          BY <5>2, TimesMonotone
        <5>5. (k + 1) * len = k * len + len
          OBVIOUS
        <5>6. i * len \in Nat
          BY <5>2
        <5>7. at + x < i * len
          BY <2>2, <5>4, <5>5, <5>6
        <5>. QED  BY <2>2, <5>3, <5>6, <5>7 DEF Covers
      <4>2. CASE j > n
        <5>1. PICK i \in 0 .. n - 1 : j = n + (i + 1)
          <6>1. (j - n) - 1 \in 0 .. n - 1 /\ j = n + (((j - n) - 1) + 1)
            BY <2>1, <4>2
          <6>. QED  BY <6>1
        <5>2. PICK q : q = i + 1
          OBVIOUS
        <5>3. r[n + q] = MtdRead(len, i * len, RandomPart(c, i), len)
          BY <1>5, <5>2
        <5>4. r[j].op = "read"
          BY <5>1, <5>2, <5>3, CallFields
        <5>. QED  BY <5>4 DEF Covers
      <4>. QED  BY <4>1, <4>2
    <3>. QED  BY <2>3, <2>6, <3>1, <3>2, <3>3 DEF Gives, Latest
  <2>. QED  BY <2>3, <2>4, <2>7 DEF ReadsLatest
<1>8. Len(r) = n + n /\ IsSeq(r)
  BY <1>3 DEF Joined
<1>. QED  BY <1>2, <1>6, <1>7, <1>8 DEF Raw, Plain

-----------------------------------------------------------------------------
(* nvramset() erases every byte that is then checked.                      *)
LEMMA RawErase ==
  ASSUME WholeChunks, NEW c \in Contexts
  PROVE  Raw(NvramSet(c) \o CheckErased(c))
<1>1. PICK size \in Nat \ {0}, n \in Nat :
         size = SetSize(c) /\ n = Len(NvramSet(c)) /\ n * size = Capacity
  BY WholeSets
<1>2. PICK len \in Nat \ {0}, m \in Nat : len = c.len /\ m = Runs(c) /\ m = Len(CheckErased(c))
  <2>1. c.len \in Nat \ {0} /\ Runs(c) \in Nat
    BY Sizes, LoopsAreSeqs
  <2>2. Len(CheckErased(c)) = Runs(c)
    BY CheckErasedIsSeq DEF Runs
  <2>. QED  BY <2>1, <2>2
<1>3. PICK r : r = NvramSet(c) \o CheckErased(c)
  OBVIOUS
<1>4. Joined(NvramSet(c), CheckErased(c), r, n, m)
  BY <1>1, <1>2, <1>3, NvramSetIsSeq, CheckErasedIsSeq, InARowJoined
<1>5. Capacity \in Nat
  BY Sizes
<1>6. ASSUME NEW k \in 0 .. n - 1, NEW p, p = k + 1
      PROVE  /\ r[p].op = "write" /\ r[p].n = size /\ r[p].at = k * size /\ r[p].data = Fill(255)
             /\ k * size \in Nat /\ k * size + size <= Capacity
  <2>1. p \in 1 .. n /\ p - 1 = k
    BY <1>6
  <2>2. r[p] = MtdWrite(Fill(255), size, k * size)
    BY <1>1, <1>4, <2>1, NvramSetIsSeq, SMTT(30) DEF Joined
  <2>3. k + 1 \in Nat /\ k + 1 <= n
    OBVIOUS
  <2>4. (k + 1) * size <= n * size
    BY <2>3, TimesMonotone
  <2>5. (k + 1) * size = k * size + size /\ k * size \in Nat
    OBVIOUS
  <2>. QED  BY <1>1, <2>2, <2>4, <2>5, CallFields
<1>7. ASSUME NEW p \in 1 .. n PROVE Transfer(r[p]) /\ ReadsLatest(r, p)
  <2>1. PICK k \in 0 .. n - 1 : p = k + 1
    <3>1. p - 1 \in 0 .. n - 1 /\ p = (p - 1) + 1
      OBVIOUS
    <3>. QED  BY <3>1
  <2>2. PICK at \in Nat : at = k * size /\ at + size <= Capacity /\ r[p].at = at
    BY <1>6, <2>1
  <2>3. r[p].op = "write" /\ r[p].n = size
    BY <1>6, <2>1
  <2>. QED  BY <2>2, <2>3 DEF Transfer, ReadsLatest
<1>8. ASSUME NEW p \in n + 1 .. n + m PROVE Transfer(r[p]) /\ ReadsLatest(r, p)
  <2>1. PICK k \in 0 .. m - 1 : p = n + (k + 1)
    <3>1. (p - n) - 1 \in 0 .. m - 1 /\ p = n + (((p - n) - 1) + 1)
      OBVIOUS
    <3>. QED  BY <3>1
  <2>2. PICK at \in Nat : at = k * len /\ at + len <= Capacity
    BY <1>2, RunBounds
  <2>3. r[p] = MtdRead(len, at, Fill(255), len)
    <3>1. PICK i \in 1 .. m : i = k + 1 /\ i - 1 = k
      <4>1. k + 1 \in 1 .. m /\ (k + 1) - 1 = k
        OBVIOUS
      <4>. QED  BY <4>1
    <3>2. CheckErased(c)[i] = MtdRead(len, at, Fill(255), len)
      BY <1>2, <2>2, <3>1, CheckErasedIsSeq
    <3>3. p \in n + 1 .. n + m /\ p - n = i
      BY <2>1, <3>1
    <3>. QED  BY <1>4, <3>2, <3>3 DEF Joined
  <2>4. r[p].op = "read" /\ r[p].n = len /\ r[p].at = at /\ r[p].cmp = len /\ r[p].ref = Fill(255)
    BY <2>3, CallFields
  <2>5. Transfer(r[p])
    BY <2>2, <2>4 DEF Transfer
  <2>6. ASSUME NEW x \in 0 .. len - 1
        PROVE  \E w \in 1 .. p - 1 : Gives(r, w, p, at + x, r[p].ref[x])
    <3>1. PICK a \in Nat : a = at + x /\ a < Capacity /\ x \in 0 .. Capacity - 1
      BY <1>5, <2>2
    <3>2. PICK q \in Nat, b \in Nat, s \in 0 .. size - 1 :
             q = a \div size /\ s = a % size /\ b = q * size /\ a = b + s
      BY <3>1, Division, Zenon
    <3>3. q \in 0 .. n - 1
      <4>1. ASSUME n <= q PROVE FALSE
        <5>1. n * size <= q * size
          BY <4>1, TimesMonotone
        <5>2. Capacity <= b
          BY <1>1, <3>2, <5>1
        <5>. QED  BY <1>5, <3>1, <3>2, <5>2
      <4>. QED  BY <4>1
    <3>4. PICK w \in 1 .. p - 1 : w = q + 1
      <4>1. q + 1 \in 1 .. p - 1
        BY <2>1, <3>3
      <4>. QED  BY <4>1
    <3>5. r[w].op = "write" /\ r[w].n = size /\ r[w].at = b /\ r[w].data = Fill(255)
      BY <1>6, <3>2, <3>3, <3>4
    <3>6. Covers(r[w], a)
      <4>1. a = b + s
        BY <3>2, Zenon
      <4>2. a \in b .. b + size - 1
        BY <4>1
      <4>. QED  BY <3>5, <4>2 DEF Covers
    <3>7. r[w].data[a - r[w].at] = r[p].ref[x]
      <4>1. PICK y \in 0 .. Capacity - 1 : y = a - b
        <5>1. a - b \in 0 .. Capacity - 1
          BY <1>5, <3>1, <3>2
        <5>. QED  BY <5>1
      <4>2. Fill(255)[y] = 255 /\ Fill(255)[x] = 255
        BY <3>1, PatternBytes
      <4>. QED  BY <2>4, <3>5, <4>1, <4>2
    <3>8. ASSUME NEW j \in w + 1 .. p - 1 PROVE ~ Covers(r[j], a)
      <4>1. CASE j <= n
        <5>1. PICK i \in 0 .. n - 1 : j = i + 1 /\ i > q
          <6>1. j - 1 \in 0 .. n - 1 /\ j = (j - 1) + 1 /\ j - 1 > q
            BY <3>4, <4>1
          <6>. QED  BY <6>1
        <5>2. PICK d \in Nat : d = i * size /\ r[j].at = d
          BY <1>6, <5>1
        <5>3. q + 1 \in Nat /\ q + 1 <= i
          BY <5>1
        <5>4. (q + 1) * size <= i * size
          BY <5>3, TimesMonotone
        <5>5. (q + 1) * size = q * size + size
          OBVIOUS
        <5>6. a < d
          BY <3>2, <5>2, <5>4, <5>5
        <5>. QED  BY <5>2, <5>6 DEF Covers
      <4>2. CASE j > n
        <5>1. PICK i \in 1 .. m : j = n + i
          <6>1. j - n \in 1 .. m /\ j = n + (j - n)
            BY <2>1, <4>2
          <6>. QED  BY <6>1
        <5>2. r[j] = CheckErased(c)[i]
          <6>1. j \in n + 1 .. n + m /\ j - n = i
            BY <5>1
          <6>. QED  BY <1>4, <6>1 DEF Joined
        <5>3. r[j].op = "read"
          <6>1. r[j] = MtdRead(c.len, (i - 1) * c.len, Fill(255), c.len)
            BY <1>2, <5>1, <5>2, CheckErasedIsSeq
          <6>. QED  BY <6>1, CallFields
        <5>. QED  BY <5>3 DEF Covers
      <4>. QED  BY <4>1, <4>2
    <3>. QED  BY <3>1, <3>4, <3>6, <3>7, <3>8 DEF Gives, Latest
  <2>. QED  BY <2>4, <2>5, <2>6 DEF ReadsLatest
<1>9. Len(r) = n + m /\ IsSeq(r)
  BY <1>4 DEF Joined
<1>. QED  BY <1>3, <1>7, <1>8, <1>9 DEF Raw, Plain

(* A row of misaligned writes: each is compared with the memory around it. *)
LEMMA RawMisalignRow ==
  ASSUME NEW c \in Contexts, c.len = Capacity, NEW n \in Nat, NEW offsets \in Seq(Int),
         \A q \in 1 .. Len(offsets) : offsets[q] \in Nat /\ offsets[q] + n <= Capacity
  PROVE  Raw(MisalignRow(c, n, offsets))
<1>1. IsSeq(offsets) /\ Len(offsets) \in Nat
  BY LenProperties DEF IsSeq
<1>2. PICK r : r = MisalignRow(c, n, offsets)
  OBVIOUS
<1>3. PICK len \in Nat, m \in Nat : len = Capacity /\ m = Len(offsets) /\ IsSeq(r) /\ Len(r) = 3 * m
  BY <1>1, <1>2, MisalignRowIsSeq, SizesAssumption
<1>4. ASSUME NEW p \in 1 .. 3 * m
      PROVE  \E q \in 1 .. m, k \in 1 .. 3 : p = 3 * (q - 1) + k
  <2>1. PICK d \in 0 .. m - 1, e \in 0 .. 2 : p - 1 = 3 * d + e
    <3>1. (p - 1) \div 3 \in 0 .. m - 1 /\ (p - 1) % 3 \in 0 .. 2
          /\ p - 1 = 3 * ((p - 1) \div 3) + ((p - 1) % 3)
      OBVIOUS
    <3>. QED  BY <3>1, Zenon
  <2>2. d + 1 \in 1 .. m /\ e + 1 \in 1 .. 3 /\ p = 3 * ((d + 1) - 1) + (e + 1)
    BY <2>1
  <2>. QED  BY <2>2, Zenon
<1>5. ASSUME NEW q \in 1 .. m, NEW k \in 1 .. 3, NEW p, p = 3 * (q - 1) + k
      PROVE  r[p] = Misalign(c, offsets[q], n)[k]
  <2>1. p \in 1 .. 3 * m /\ (p + 2) \div 3 = q /\ ((p - 1) % 3) + 1 = k
    BY <1>5
  <2>. QED  BY <1>2, <1>3, <2>1 DEF MisalignRow
<1>6. ASSUME NEW off
      PROVE  /\ Misalign(c, off, n)[1] = MtdWrite(Fill(232), len, 0)
             /\ Misalign(c, off, n)[2] = MtdWrite(Fill(23), n, off)
             /\ Misalign(c, off, n)[3] = [ MtdRead(len, 0, Patch(232, off, n, 23), len)
                                             EXCEPT !.buf = Larger(len, off + n) ]
  BY <1>3 DEF Misalign
<1>7. ASSUME NEW p \in 1 .. 3 * m PROVE Transfer(r[p]) /\ ReadsLatest(r, p)
  <2>1. PICK q \in 1 .. m, k \in 1 .. 3 : p = 3 * (q - 1) + k
    BY <1>4
  <2>2. PICK off \in Nat : off = offsets[q] /\ off + n <= len
    BY <1>3
  <2>3. PICK b \in Nat : b = 3 * (q - 1)
    OBVIOUS
  <2>4. r[b + 1] = MtdWrite(Fill(232), len, 0)
    <3>1. b + 1 = 3 * (q - 1) + 1 /\ 1 \in 1 .. 3
      BY <2>3
    <3>2. r[b + 1] = Misalign(c, offsets[q], n)[1]
      BY <1>5, <3>1, ZenonT(40)
    <3>. QED  BY <1>6, <2>2, <3>2, Zenon
  <2>5. r[b + 2] = MtdWrite(Fill(23), n, off)
    <3>1. b + 2 = 3 * (q - 1) + 2 /\ 2 \in 1 .. 3
      BY <2>3
    <3>2. r[b + 2] = Misalign(c, offsets[q], n)[2]
      BY <1>5, <3>1, ZenonT(40)
    <3>. QED  BY <1>6, <2>2, <3>2, Zenon
  <2>6. r[b + 3] = [ MtdRead(len, 0, Patch(232, off, n, 23), len) EXCEPT !.buf = Larger(len, off + n) ]
    <3>1. b + 3 = 3 * (q - 1) + 3 /\ 3 \in 1 .. 3
      BY <2>3
    <3>2. r[b + 3] = Misalign(c, offsets[q], n)[3]
      BY <1>5, <3>1, ZenonT(40)
    <3>. QED  BY <1>6, <2>2, <3>2, Zenon
  <2>7. /\ r[b + 1].op = "write" /\ r[b + 1].n = len /\ r[b + 1].at = 0 /\ r[b + 1].data = Fill(232)
        /\ r[b + 2].op = "write" /\ r[b + 2].n = n /\ r[b + 2].at = off /\ r[b + 2].data = Fill(23)
    BY <2>4, <2>5, CallFields
  <2>8. /\ r[b + 3].op = "read" /\ r[b + 3].n = len /\ r[b + 3].at = 0 /\ r[b + 3].cmp = len
        /\ r[b + 3].ref = Patch(232, off, n, 23)
    BY <2>6 DEF MtdRead
  <2>9. CASE p \in {b + 1, b + 2}
    <3>1. CASE p = b + 1
      <4>1. r[p].op = "write" /\ r[p].n = len /\ r[p].at = 0
        BY <2>7, <3>1
      <4>. QED  BY <1>3, <4>1 DEF Transfer, ReadsLatest
    <3>2. CASE p = b + 2
      <4>1. r[p].op = "write" /\ r[p].n = n /\ r[p].at = off
        BY <2>7, <3>2
      <4>. QED  BY <1>3, <2>2, <4>1 DEF Transfer, ReadsLatest
    <3>. QED  BY <2>9, <3>1, <3>2
  <2>10. CASE p = b + 3
    <3>1. Transfer(r[p])
      BY <1>3, <2>8, <2>10, SMTT(30) DEF Transfer
    <3>2. ASSUME NEW x \in 0 .. len - 1
          PROVE  \E w \in 1 .. p - 1 : Gives(r, w, p, 0 + x, r[p].ref[x])
      <4>1. PICK y \in 0 .. Capacity - 1 : y = x /\ 0 + x = y
        BY <1>3
      <4>2. r[p].ref[x] = IF y \in off .. off + n - 1 THEN 23 ELSE 232
        BY <2>8, <2>10, <4>1, PatternBytes
      <4>3. CASE y \in off .. off + n - 1
        <5>1. Latest(r, b + 2, p, y)
          <6>1. b + 2 \in 1 .. p - 1 /\ \A j \in (b + 2) + 1 .. p - 1 : FALSE
            BY <2>10
          <6>. QED  BY <2>7, <4>3, <6>1 DEF Latest, Covers
        <5>2. PICK z \in 0 .. Capacity - 1 : z = y - off
          <6>1. y - off \in 0 .. Capacity - 1
            BY <1>3, <4>3
          <6>. QED  BY <6>1
        <5>3. r[b + 2].data[y - r[b + 2].at] = 23
          BY <2>7, <5>2, PatternBytes
        <5>. QED  BY <4>1, <4>2, <4>3, <5>1, <5>3 DEF Gives, Latest
      <4>4. CASE ~ y \in off .. off + n - 1
        <5>1. Latest(r, b + 1, p, y)
          <6>1. b + 1 \in 1 .. p - 1 /\ \A j \in (b + 1) + 1 .. p - 1 : j = b + 2
            BY <2>10
          <6>2. y \in 0 .. 0 + len - 1
            BY <4>1
          <6>. QED  BY <2>7, <4>4, <6>1, <6>2 DEF Latest, Covers
        <5>2. y - 0 = y
          BY <4>1
        <5>3. r[b + 1].data[y - r[b + 1].at] = 232
          BY <2>7, <4>1, <5>2, PatternBytes
        <5>. QED  BY <4>1, <4>2, <4>4, <5>1, <5>3 DEF Gives, Latest
      <4>. QED  BY <4>3, <4>4
    <3>. QED  BY <2>8, <2>10, <3>1, <3>2 DEF ReadsLatest
  <2>. QED  BY <2>1, <2>3, <2>9, <2>10
<1>. QED  BY <1>2, <1>3, <1>7 DEF Raw, Plain

-----------------------------------------------------------------------------
LEMMA RawMisalignCheck ==
  ASSUME NEW c \in Contexts, Paged(c), c.len = Capacity, 2 * c.pagesize + 5 <= Capacity
  PROVE  Raw(MisalignCheck(c))
<1>1. PICK ps \in Nat : ps = c.pagesize /\ ps > 2
  BY Sizes
<1>2. PICK end \in Nat : end = LastPage(c) /\ end + ps = Capacity
  BY <1>1, LastPageEnds
<1>3. Capacity \in Nat /\ 2 * ps + 5 <= Capacity
  BY <1>1, Sizes
<1>4. Raw(MisalignRow(c, c.pagesize + 1, Places1(c)))
  <2>1. Places1(c) \in Seq(Int) /\ Len(Places1(c)) = 10
    BY PlacesAreSeqs, <1>1, <1>2 DEF Places1
  <2>2. PICK n \in Nat : n = ps + 1
    BY <1>1
  <2>3. n = c.pagesize + 1
    BY <1>1, <2>2
  <2>4. \A q \in 1 .. 10 : Places1(c)[q] \in Nat /\ Places1(c)[q] + n <= Capacity
    BY <1>1, <1>2, <1>3, <2>2 DEF Places1
  <2>. QED  BY <2>1, <2>3, <2>4, RawMisalignRow
<1>5. Raw(MisalignRow(c, c.pagesize + 2, Places2(c)))
  <2>1. Places2(c) \in Seq(Int) /\ Len(Places2(c)) = 12
    BY PlacesAreSeqs, <1>1, <1>2 DEF Places2
  <2>2. PICK n \in Nat : n = ps + 2
    BY <1>1
  <2>3. n = c.pagesize + 2
    BY <1>1, <2>2
  <2>4. \A q \in 1 .. 12 : Places2(c)[q] \in Nat /\ Places2(c)[q] + n <= Capacity
    BY <1>1, <1>2, <1>3, <2>2 DEF Places2
  <2>. QED  BY <2>1, <2>3, <2>4, RawMisalignRow
<1>6. Raw(MisalignRow(c, 2 * c.pagesize + 1, Places3(c)))
  <2>1. Places3(c) \in Seq(Int) /\ Len(Places3(c)) = 5
    BY PlacesAreSeqs, <1>1, <1>2 DEF Places3
  <2>2. PICK n \in Nat : n = 2 * ps + 1
    BY <1>1
  <2>3. n = 2 * c.pagesize + 1
    BY <1>1, <2>2
  <2>4. \A q \in 1 .. 5 : Places3(c)[q] \in Nat /\ Places3(c)[q] + n <= Capacity
    BY <1>1, <1>2, <1>3, <2>2 DEF Places3
  <2>. QED  BY <2>1, <2>3, <2>4, RawMisalignRow
<1>7. Raw(MisalignRow(c, c.pagesize - 1, Places4(c)))
  <2>1. Places4(c) \in Seq(Int) /\ Len(Places4(c)) = 6
    BY PlacesAreSeqs, <1>1, <1>2 DEF Places4
  <2>2. PICK n \in Nat : n = ps - 1
    BY <1>1
  <2>3. n = c.pagesize - 1
    BY <1>1, <2>2
  <2>4. \A q \in 1 .. 6 : Places4(c)[q] \in Nat /\ Places4(c)[q] + n <= Capacity
    BY <1>1, <1>2, <1>3, <2>2 DEF Places4
  <2>. QED  BY <2>1, <2>3, <2>4, RawMisalignRow
<1>8. Raw(MisalignRow(c, 2 * c.pagesize - 1, Places5(c)))
  <2>1. Places5(c) \in Seq(Int) /\ Len(Places5(c)) = 6
    BY PlacesAreSeqs, <1>1, <1>2 DEF Places5
  <2>2. PICK n \in Nat : n = 2 * ps - 1
    BY <1>1
  <2>3. n = 2 * c.pagesize - 1
    BY <1>1, <2>2
  <2>4. \A q \in 1 .. 6 : Places5(c)[q] \in Nat /\ Places5(c)[q] + n <= Capacity
    BY <1>1, <1>2, <1>3, <2>2 DEF Places5
  <2>. QED  BY <2>1, <2>3, <2>4, RawMisalignRow
<1>. QED  BY <1>4, <1>5, <1>6, <1>7, <1>8, MisalignCheckIs, RawInARow

(* The first part of the suite.                                            *)
RawCalls(c) == FullWriteErase(c) \o Extras(c)

LEMMA RawPart ==
  ASSUME BuffersSuffice, WholeChunks, NEW c \in Contexts
  PROVE  Raw(RawCalls(c))
<1>1. Raw(FullWriteErase(c))
  <2>. DEFINE first == FillRandom(c) \o ReadBack(c)
              second == NvramSet(c) \o CheckErased(c)
  <2>1. Raw(first) /\ Raw(second)
    BY RawLoops, RawErase
  <2>2. PICK S : first \in Seq(S)
    BY <2>1 DEF Raw, IsSeq
  <2>3. PICK N : NvramSet(c) \in Seq(N)
    BY NvramSetIsSeq DEF IsSeq
  <2>4. PICK E : CheckErased(c) \in Seq(E)
    BY CheckErasedIsSeq DEF IsSeq
  <2>. HIDE DEF first
  <2>5. PICK U : U = S \cup N \cup E
    OBVIOUS
  <2>6. first \in Seq(U) /\ NvramSet(c) \in Seq(U) /\ CheckErased(c) \in Seq(U)
    BY <2>2, <2>3, <2>4, <2>5, SeqMonotonic
  <2>7. first \o NvramSet(c) \o CheckErased(c) = first \o second
    BY <2>6
  <2>8. Raw(first \o second)
    BY <2>1, RawInARow
  <2>. QED  BY <2>7, <2>8, FullWriteEraseIs DEF first
<1>2. Raw(Extras(c))
  <2>1. CASE Paged(c)
    BY <2>1, RawAlignCheck, RawMisalignCheck, RawInARow DEF Extras, BuffersSuffice
  <2>2. CASE ~ Paged(c)
    BY <2>2, ShortTuples DEF Extras, Raw, Plain
  <2>. QED  BY <2>1, <2>2
<1>. QED  BY <1>1, <1>2, RawInARow DEF RawCalls

-----------------------------------------------------------------------------
(* While they run, the memory holds what the latest writes put there.      *)
RawMemory ==
  pc <= Len(RawCalls(ctx)) =>
    \A w \in 1 .. pc - 1, x \in 0 .. Capacity - 1 :
      Latest(RawCalls(ctx), w, pc, x) => mem[x] = RawCalls(ctx)[w].data[x - RawCalls(ctx)[w].at]

LEMMA InsideRange ==
  ASSUME NEW a \in Nat, NEW n \in Nat, NEW c \in Nat, a + n <= c, NEW x \in 0 .. n - 1
  PROVE  a + x \in 0 .. c - 1
  OBVIOUS

LEMMA RawStep ==
  ASSUME BuffersSuffice, WholeChunks, GoodStep, RawMemory, pc <= Len(RawCalls(ctx)),
         It = RawCalls(ctx)[pc]
  PROVE  /\ RawMemory' /\ verdict' = "running" /\ UNCHANGED <<ram, last>>
         /\ media = Unformatted => media' = Unformatted
<1>1. PICK s : s = RawCalls(ctx)
  OBVIOUS
<1>2. Raw(s) /\ Len(s) \in Nat /\ pc \in 1 .. Len(s) /\ ctx' = ctx /\ pc' = pc + 1
  BY <1>1, RawPart, GoesOn, LengthIsNat DEF GoodStep, Right, SuitePlace, Raw
<1>3. It = s[pc] /\ Transfer(It) /\ ReadsLatest(s, pc)
  BY <1>1, <1>2 DEF Raw, Plain
<1>4. \A w \in 1 .. pc - 1, x \in 0 .. Capacity - 1 :
         Latest(s, w, pc, x) => mem[x] = s[w].data[x - s[w].at]
  BY <1>1, <1>2 DEF RawMemory
<1>5. SUFFICES /\ \A w \in 1 .. pc, x \in 0 .. Capacity - 1 :
                    Latest(s, w, pc + 1, x) => mem'[x] = s[w].data[x - s[w].at]
               /\ verdict' = "running" /\ UNCHANGED <<ram, last>>
               /\ media = Unformatted => media' = Unformatted
  <2>1. (pc + 1) - 1 = pc
    BY <1>2
  <2>. QED  BY <1>1, <1>2, <2>1 DEF RawMemory
<1>6. CASE It.op = "write"
  <2>1. /\ \A x \in 0 .. Capacity - 1 :
              mem'[x] = IF x \in It.at .. It.at + It.n - 1 THEN It.data[x - It.at] ELSE mem[x]
        /\ media = Unformatted => media' = Unformatted
        /\ verdict' = "running" /\ UNCHANGED <<ram, last>>
    BY <1>3, <1>6, RawWrite DEF Transfer
  <2>2. ASSUME NEW w \in 1 .. pc, NEW x \in 0 .. Capacity - 1, Latest(s, w, pc + 1, x)
        PROVE  mem'[x] = s[w].data[x - s[w].at]
    <3>1. CASE w = pc
      <4>1. x \in It.at .. It.at + It.n - 1
        BY <1>3, <2>2, <3>1 DEF Latest, Covers
      <4>. QED  BY <1>3, <2>1, <3>1, <4>1
    <3>2. CASE w # pc
      <4>1. w \in 1 .. pc - 1 /\ pc \in w + 1 .. (pc + 1) - 1 /\ w + 1 .. pc - 1 \subseteq w + 1 .. (pc + 1) - 1
        BY <1>2, <3>2
      <4>2. ~ Covers(It, x) /\ Latest(s, w, pc, x)
        BY <1>3, <2>2, <4>1 DEF Latest
      <4>3. mem'[x] = mem[x]
        BY <1>6, <2>1, <4>2 DEF Covers
      <4>. QED  BY <1>4, <4>1, <4>2, <4>3
    <3>. QED  BY <3>1, <3>2
  <2>. QED  BY <2>1, <2>2
<1>7. CASE It.op = "read"
  <2>1. It.at \in Nat /\ It.n \in Nat /\ It.cmp \in 0 .. It.n /\ It.at + It.cmp <= Capacity
    BY <1>3, <1>7 DEF Transfer
  <2>2. ASSUME NEW x \in 0 .. It.cmp - 1 PROVE mem[It.at + x] = It.ref[x]
    <3>1. PICK w \in 1 .. pc - 1 : Gives(s, w, pc, It.at + x, It.ref[x])
      BY <1>3, <1>7 DEF ReadsLatest
    <3>2. PICK y \in 0 .. Capacity - 1 : y = It.at + x
      <4>1. PICK at \in Nat, cmp \in Nat : at = It.at /\ cmp = It.cmp /\ at + cmp <= Capacity
        BY <2>1, SizesAssumption
      <4>2. x \in 0 .. cmp - 1 /\ Capacity \in Nat
        BY <4>1, SizesAssumption
      <4>3. at + x \in 0 .. Capacity - 1
        BY <4>1, <4>2, InsideRange, Zenon
      <4>. QED  BY <4>1, <4>3
    <3>3. Gives(s, w, pc, y, It.ref[x])
      BY <3>1, <3>2, Zenon
    <3>4. Latest(s, w, pc, y) /\ s[w].data[y - s[w].at] = It.ref[x]
      BY <3>3 DEF Gives
    <3>5. mem[y] = It.ref[x]
      BY <1>4, <3>4
    <3>. QED  BY <3>2, <3>5
  <2>3. verdict' = "running" /\ UNCHANGED <<vars, mem>>
    BY <1>7, <2>1, <2>2, RawRead
  <2>4. ASSUME NEW w \in 1 .. pc, NEW x \in 0 .. Capacity - 1, Latest(s, w, pc + 1, x)
        PROVE  w \in 1 .. pc - 1 /\ Latest(s, w, pc, x)
    <3>1. w # pc
      BY <1>3, <1>7, <2>4 DEF Latest, Covers
    <3>2. w \in 1 .. pc - 1 /\ w + 1 .. pc - 1 \subseteq w + 1 .. (pc + 1) - 1
      BY <1>2, <3>1
    <3>. QED  BY <2>4, <3>2 DEF Latest
  <2>. QED  BY <1>4, <2>3, <2>4 DEF vars, ram
<1>. QED  BY <1>3, <1>6, <1>7 DEF Transfer

-----------------------------------------------------------------------------
(* Calls on files while nothing breaks off.                                *)

LEMMA DueOther ==
  ASSUME SuiteNext, More
  PROVE  /\ It.op = "put" => PutStep
         /\ It.op = "get" => GetStep
         /\ It.op = "seek" => SeekStep
         /\ It.op = "ctor" => CtorStep
         /\ It.op \in {"df", "df2"} => DfStep
         /\ It.op \in {"new", "mount", "fsck", "mkfs", "umount", "create", "open", "close"} => FsStep
  BY DEF SuiteNext, WriteStep, ReadStep, FsStep, DfStep, CtorStep, SeekStep, NvramSetStep,
         CompareStep, PutStep, GetStep, Return, Now

At(s, z, t) == [mtd |-> TRUE, start |-> s, size |-> z, tip |-> t]
(* The call that is due is about n bytes.                                 *)
AsksFor(n) == It.n = n
OnlyHandle(i) == \A j \in Slots : HandleOf(j) => j = i

LEMMA Clamped ==
  ASSUME NEW s, NEW z \in Nat, NEW t \in Nat, NEW n \in Nat, t + n <= z
  PROVE  ClampSize(At(s, z, t), n) = n
  BY DEF ClampSize, At

LEMMA TipSet ==
  ASSUME NEW s, NEW z, NEW t, NEW u
  PROVE  [At(s, z, t) EXCEPT !.tip = u] = At(s, z, u)
<1>1. PICK h : h = At(s, z, t)
  OBVIOUS
<1>2. PICK g : g = [h EXCEPT !.tip = u]
  OBVIOUS
<1>3. g = At(s, z, u)
  BY <1>1, <1>2 DEF At
<1>. QED  BY <1>1, <1>2, <1>3

LEMMA Moved ==
  ASSUME NEW s, NEW z, NEW t \in Nat, NEW n \in Nat, NEW u \in Nat, u = t + n, u < U16,
         NEW i \in Slots, fat[i] = At(s, z, t), Move(i, n)
  PROVE  fat' = [fat EXCEPT ![i] = At(s, z, u)]
<1>1. U16 \in Nat
  BY SizesAssumption
<1>2. u % U16 = u
  BY <1>1
<1>3. fat' = [fat EXCEPT ![i] = [fat[i] EXCEPT !.tip = (fat[i].tip + n) % U16]]
  BY DEF Move
<1>4. fat[i].tip = t
  BY DEF At
<1>5. [fat[i] EXCEPT !.tip = u] = At(s, z, u)
  BY TipSet
<1>. QED  BY <1>2, <1>3, <1>4, <1>5

LEMMA PutWhole ==
  ASSUME GoodStep, It.op = "put", NEW i \in Slots, OnlyHandle(i),
         NEW s \in Nat, NEW z \in Nat, NEW t \in Nat, NEW n \in Nat, AsksFor(n),
         fat[i] = At(s, z, t), t + n <= z, z < U16, s + t + n <= Capacity
  PROVE  /\ \A x \in 0 .. Capacity - 1 :
              mem'[x] = IF x \in (s + t) .. (s + t) + n - 1 THEN It.data[x - (s + t)] ELSE mem[x]
         /\ fat' = [fat EXCEPT ![i] = At(s, z, t + n)]
         /\ s >= SuperSize => media' = media
         /\ media = Unformatted => media' = Unformatted
         /\ verdict' = "running" /\ UNCHANGED <<files_opened, super_open, df>>
<1>1. PutStep
  BY DueOther DEF GoodStep
<1>2. PICK j \in Slots :
         /\ HandleOf(j)
         /\ \E done \in Done(ClampSize(fat[j], n)) :
              /\ Store(It.data, Address(fat[j]), done)
              /\ Broke(done, ClampSize(fat[j], n))
              /\ Move(j, done)
              /\ Check(It.checked => done = n)
  BY <1>1, Zenon DEF PutStep, AsksFor
<1>3. j = i
  BY <1>2 DEF OnlyHandle
<1>4. ClampSize(fat[i], n) = n
  BY Clamped
<1>5. PICK done \in Done(n) :
         /\ Store(It.data, Address(fat[i]), done) /\ Broke(done, n) /\ Move(i, done)
         /\ Check(It.checked => done = n)
  BY <1>2, <1>3, <1>4
<1>6. done = n
  BY <1>5, NothingLost
<1>7. PICK at \in Nat : at = s + t /\ Address(fat[i]) = at /\ at + n <= Capacity
  BY DEF Address, At
<1>14. Address(fat[i]) = at
  BY <1>7
<1>15. at + n <= Capacity
  BY <1>7
<1>8. PICK u \in Nat : u = t + n /\ u < U16 /\ Move(i, n)
  <2>1. t + n \in Nat /\ t + n < U16 /\ Move(i, n)
    BY <1>5, <1>6, SizesAssumption
  <2>. QED  BY <2>1
<1>9. fat' = [fat EXCEPT ![i] = At(s, z, t + n)]
  BY <1>8, Moved
<1>10. /\ \A x \in 0 .. Capacity - 1 :
              mem'[x] = IF x \in at .. at + n - 1 THEN It.data[x - at] ELSE mem[x]
       /\ at >= SuperSize => media' = media
       /\ media = Unformatted => media' = Unformatted
  <2>1. PICK data : data = It.data
    OBVIOUS
  <2>2. Store(data, at, n)
    BY <1>5, <1>6, <1>14, <2>1
  <2>3. SuitePlace /\ AsConfigured /\ DOMAIN mem = 0 .. Capacity - 1
    BY DEF GoodStep, Right
  <2>4. /\ \A x \in 0 .. Capacity - 1 :
              mem'[x] = IF x \in at .. at + n - 1 THEN data[x - at] ELSE mem[x]
        /\ at >= SuperSize => media' = media
        /\ media = Unformatted => media' = Unformatted
    BY <1>15, <2>2, <2>3, WholeStore
  <2>. QED  BY <2>1, <2>4
<1>11. verdict' = "running"
  BY <1>5, <1>6 DEF Check
<1>12. UNCHANGED <<files_opened, super_open, df>>
  BY <1>1 DEF PutStep
<1>13. s >= SuperSize => at >= SuperSize
  BY <1>7, SizesAssumption
<1>. QED  BY <1>7, <1>9, <1>10, <1>11, <1>12, <1>13

LEMMA GetWhole ==
  ASSUME GoodStep, It.op = "get", NEW i \in Slots, OnlyHandle(i),
         NEW s \in Nat, NEW z \in Nat, NEW t \in Nat, NEW n \in Nat, AsksFor(n),
         fat[i] = At(s, z, t), t + n <= z, z < U16, s + t + n <= Capacity,
         \A x \in 0 .. n - 1 : mem[(s + t) + x] = It.data[x]
  PROVE  /\ fat' = [fat EXCEPT ![i] = At(s, z, t + n)]
         /\ verdict' = "running" /\ UNCHANGED <<mem, media, files_opened, super_open, df>>
<1>1. GetStep
  BY DueOther DEF GoodStep
<1>2. PICK j \in Slots :
         /\ HandleOf(j)
         /\ \E done \in Done(ClampSize(fat[j], n)) :
              /\ Broke(done, ClampSize(fat[j], n))
              /\ Move(j, done)
              /\ Check(done = n /\ Same(Loaded(Address(fat[j]), ClampSize(fat[j], n)), It.data,
                                        ClampSize(fat[j], n)))
  BY <1>1, Zenon DEF GetStep, AsksFor
<1>3. j = i
  BY <1>2 DEF OnlyHandle
<1>4. ClampSize(fat[i], n) = n
  BY Clamped
<1>5. PICK done \in Done(n) :
         /\ Broke(done, n) /\ Move(i, done)
         /\ Check(done = n /\ Same(Loaded(Address(fat[i]), n), It.data, n))
  BY <1>2, <1>3, <1>4
<1>6. done = n
  BY <1>5, NothingLost
<1>7. PICK at \in Nat : at = s + t /\ Address(fat[i]) = at /\ at + n <= Capacity
  BY DEF Address, At
<1>14. Address(fat[i]) = at
  BY <1>7
<1>15. at + n <= Capacity
  BY <1>7
<1>8. PICK u \in Nat : u = t + n /\ u < U16 /\ Move(i, n)
  <2>1. t + n \in Nat /\ t + n < U16 /\ Move(i, n)
    BY <1>5, <1>6, SizesAssumption
  <2>. QED  BY <2>1
<1>9. fat' = [fat EXCEPT ![i] = At(s, z, t + n)]
  BY <1>8, Moved
<1>10. Same(Loaded(at, n), It.data, n)
  <2>1. ASSUME NEW x \in 0 .. n - 1 PROVE Loaded(at, n)[x] = It.data[x]
    <3>1. at + x < Capacity
      BY <1>7, SizesAssumption
    <3>2. SuitePlace /\ AsConfigured
      BY DEF GoodStep, Right
    <3>3. Loaded(at, n)[x] = mem[at + x]
      BY <3>1, <3>2, WholeLoad
    <3>. QED  BY <1>7, <3>3
  <2>. QED  BY <2>1 DEF Same
<1>11. verdict' = "running"
  BY <1>5, <1>6, <1>7, <1>10 DEF Check
<1>12. UNCHANGED <<mem, media, files_opened, super_open, df>>
  BY <1>1 DEF GetStep
<1>. QED  BY <1>9, <1>11, <1>12

LEMMA SeekWhole ==
  ASSUME GoodStep, It.op = "seek", NEW i \in Slots, OnlyHandle(i),
         NEW s, NEW z \in Nat \ {0}, NEW t, fat[i] = At(s, z, t)
  PROVE  /\ fat' = [fat EXCEPT ![i] = At(s, z, 0)]
         /\ verdict' = "running" /\ UNCHANGED <<mem, media, files_opened, super_open, df>>
<1>1. SeekStep
  BY DueOther DEF GoodStep
<1>2. PICK j \in Slots : HandleOf(j) /\ SetPosition(j, 0)
  BY <1>1 DEF SeekStep
<1>3. j = i
  BY <1>2 DEF OnlyHandle
<1>4. fat[i].mtd = TRUE /\ ~ (0 >= fat[i].size)
  BY DEF At
<1>5. /\ fat' = [fat EXCEPT ![i].tip = 0]
      /\ UNCHANGED <<media, files_opened, super_open>>
  BY <1>2, <1>3, <1>4, Zenon DEF SetPosition
<1>6. [fat[i] EXCEPT !.tip = 0] = At(s, z, 0)
  BY TipSet
<1>7. verdict' = "running" /\ UNCHANGED <<mem, df>>
  BY <1>1 DEF SeekStep, GoodStep, More
<1>. QED  BY <1>5, <1>6, <1>7

-----------------------------------------------------------------------------
(* file_test() on a file of z bytes that begins at s.                      *)

(* The memory holds a word of n bytes d bytes behind s.                    *)
Holds(s, d, word, n) == \A x \in 0 .. n - 1 : mem[(s + d) + x] = word[x + 1]

(* The call that is due writes such a word, or compares one.               *)
PutsWord(word, n) == It.op = "put" /\ It.n = n /\ \A x \in 0 .. n - 1 : It.data[x] = word[x + 1]
GetsWord(word, n) == It.op = "get" /\ It.n = n /\ \A x \in 0 .. n - 1 : It.data[x] = word[x + 1]

(* What a call on handle i leaves alone.                                   *)
Elsewhere(i, s) ==
  /\ DOMAIN fat' = Slots /\ \A j \in Slots \ {i} : fat'[j] = fat[j]
  /\ verdict' = "running" /\ UNCHANGED <<files_opened, super_open, df>>
  /\ s >= SuperSize => media' = media
  /\ media = Unformatted => media' = Unformatted

(* Words that stay: those before position t, or all.                       *)
KeepsBelow(s, t) ==
  \A d, m \in Nat : \A w : d + m <= t /\ Holds(s, d, w, m) => Holds(s, d, w, m)'
KeepsWords(s) == \A d, m \in Nat : \A w : Holds(s, d, w, m) => Holds(s, d, w, m)'

LEMMA PutWord ==
  ASSUME GoodStep, NEW i \in Slots, OnlyHandle(i), NEW word, NEW n \in Nat, PutsWord(word, n),
         NEW s \in Nat, NEW z \in Nat, NEW t \in Nat, NEW u \in Nat, u = t + n,
         fat[i] = At(s, z, t), u <= z, z < U16, s + z <= Capacity
  PROVE  /\ fat'[i] = At(s, z, u) /\ Elsewhere(i, s)
         /\ Holds(s, t, word, n)'
         /\ KeepsBelow(s, t)
<1>0. Capacity \in Nat
  BY SizesAssumption
<1>1. It.op = "put" /\ AsksFor(n) /\ \A x \in 0 .. n - 1 : It.data[x] = word[x + 1]
  BY DEF PutsWord, AsksFor
<1>2. /\ \A x \in 0 .. Capacity - 1 :
              mem'[x] = IF x \in (s + t) .. (s + t) + n - 1 THEN It.data[x - (s + t)] ELSE mem[x]
      /\ fat' = [fat EXCEPT ![i] = At(s, z, t + n)]
      /\ s >= SuperSize => media' = media
      /\ media = Unformatted => media' = Unformatted
      /\ verdict' = "running" /\ UNCHANGED <<files_opened, super_open, df>>
  <2>1. t + n <= z /\ s + t + n <= Capacity
    BY <1>0
  <2>. QED  BY <1>1, <2>1, PutWhole
<1>3. fat'[i] = At(s, z, u) /\ Elsewhere(i, s)
  <2>1. DOMAIN fat = Slots
    BY DEF GoodStep, Right
  <2>2. fat' = [fat EXCEPT ![i] = At(s, z, u)]
    BY <1>2
  <2>3. fat'[i] = At(s, z, u) /\ DOMAIN fat' = Slots /\ \A j \in Slots \ {i} : fat'[j] = fat[j]
    BY <2>1, <2>2
  <2>. QED  BY <1>2, <2>3 DEF Elsewhere
<1>4. Holds(s, t, word, n)'
  <2>. SUFFICES ASSUME NEW x \in 0 .. n - 1 PROVE mem'[(s + t) + x] = word[x + 1]
    BY DEF Holds
  <2>1. PICK y \in 0 .. Capacity - 1 : y = (s + t) + x
    <3>1. (s + t) + x \in 0 .. Capacity - 1
      BY <1>0
    <3>. QED  BY <3>1
  <2>2. y \in (s + t) .. (s + t) + n - 1 /\ y - (s + t) = x
    BY <2>1
  <2>3. mem'[y] = It.data[x]
    BY <1>2, <2>2
  <2>. QED  BY <1>1, <2>1, <2>3
<1>5. ASSUME NEW d \in Nat, NEW m \in Nat, NEW w, d + m <= t, Holds(s, d, w, m)
      PROVE  Holds(s, d, w, m)'
  <2>. SUFFICES ASSUME NEW x \in 0 .. m - 1 PROVE mem'[(s + d) + x] = w[x + 1]
    BY DEF Holds
  <2>1. PICK y \in 0 .. Capacity - 1 : y = (s + d) + x
    <3>1. (s + d) + x \in 0 .. Capacity - 1
      BY <1>0, <1>5
    <3>. QED  BY <3>1
  <2>2. ~ y \in (s + t) .. (s + t) + n - 1
    BY <1>5, <2>1
  <2>3. mem'[y] = mem[y]
    BY <1>2, <2>2
  <2>. QED  BY <1>5, <2>1, <2>3 DEF Holds
<1>6. KeepsBelow(s, t)
  BY <1>5 DEF KeepsBelow
<1>. QED  BY <1>3, <1>4, <1>6

LEMMA GetWord ==
  ASSUME GoodStep, NEW i \in Slots, OnlyHandle(i), NEW word, NEW n \in Nat, GetsWord(word, n),
         NEW s \in Nat, NEW z \in Nat, NEW t \in Nat, NEW u \in Nat, u = t + n,
         fat[i] = At(s, z, t), u <= z, z < U16, s + z <= Capacity, Holds(s, t, word, n)
  PROVE  /\ fat'[i] = At(s, z, u) /\ Elsewhere(i, s)
         /\ KeepsWords(s)
<1>1. It.op = "get" /\ AsksFor(n) /\ \A x \in 0 .. n - 1 : It.data[x] = word[x + 1]
  BY DEF GetsWord, AsksFor
<1>2. \A x \in 0 .. n - 1 : mem[(s + t) + x] = It.data[x]
  BY <1>1 DEF Holds
<1>3. /\ fat' = [fat EXCEPT ![i] = At(s, z, t + n)]
      /\ verdict' = "running" /\ UNCHANGED <<mem, media, files_opened, super_open, df>>
  <2>1. t + n <= z /\ s + t + n <= Capacity
    BY SizesAssumption
  <2>. QED  BY <1>1, <1>2, <2>1, GetWhole
<1>4. fat'[i] = At(s, z, u) /\ Elsewhere(i, s)
  <2>1. DOMAIN fat = Slots
    BY DEF GoodStep, Right
  <2>2. fat' = [fat EXCEPT ![i] = At(s, z, u)]
    BY <1>3
  <2>3. fat'[i] = At(s, z, u) /\ DOMAIN fat' = Slots /\ \A j \in Slots \ {i} : fat'[j] = fat[j]
    BY <2>1, <2>2
  <2>. QED  BY <1>3, <2>3 DEF Elsewhere
<1>5. ASSUME NEW d \in Nat, NEW m \in Nat, NEW w, Holds(s, d, w, m)
      PROVE  Holds(s, d, w, m)'
  BY <1>3, <1>5 DEF Holds
<1>6. KeepsWords(s)
  BY <1>5 DEF KeepsWords
<1>. QED  BY <1>4, <1>6

LEMMA SeekStart ==
  ASSUME GoodStep, NEW i \in Slots, OnlyHandle(i), It.op = "seek",
         NEW s \in Nat, NEW z \in Nat \ {0}, NEW t, fat[i] = At(s, z, t)
  PROVE  /\ fat'[i] = At(s, z, 0) /\ Elsewhere(i, s)
         /\ KeepsWords(s)
<1>1. /\ fat' = [fat EXCEPT ![i] = At(s, z, 0)]
      /\ verdict' = "running" /\ UNCHANGED <<mem, media, files_opened, super_open, df>>
  BY SeekWhole
<1>2. fat'[i] = At(s, z, 0) /\ Elsewhere(i, s)
  <2>1. DOMAIN fat = Slots
    BY DEF GoodStep, Right
  <2>2. fat'[i] = At(s, z, 0) /\ DOMAIN fat' = Slots /\ \A j \in Slots \ {i} : fat'[j] = fat[j]
    BY <1>1, <2>1
  <2>. QED  BY <1>1, <2>2 DEF Elsewhere
<1>3. ASSUME NEW d \in Nat, NEW m \in Nat, NEW w, Holds(s, d, w, m)
      PROVE  Holds(s, d, w, m)'
  BY <1>1, <1>3 DEF Holds
<1>4. KeepsWords(s)
  BY <1>3 DEF KeepsWords
<1>. QED  BY <1>2, <1>4

(* Position and words of the file before call k + 1 of file_test().        *)
TipAt == <<0, 2, 6, 14, 0, 2, 6, 14, 0, 8, 12, 14, 0, 8, 12, 14>>

FileTestAt(k, i, s, z) ==
  /\ IF k = 0 THEN \E t : fat[i] = At(s, z, t) ELSE fat[i] = At(s, z, TipAt[k])
  /\ k \in 2 .. 5 => Holds(s, 0, U16Word, 2)
  /\ k \in 3 .. 6 => Holds(s, 2, U32Word, 4)
  /\ k \in 4 .. 7 => Holds(s, 6, U64Word, 8)
  /\ k \in 10 .. 13 => Holds(s, 0, U64Word, 8)
  /\ k \in 11 .. 14 => Holds(s, 8, U32Word, 4)
  /\ k \in 12 .. 15 => Holds(s, 12, U16Word, 2)

LEMMA WordCalls ==
  ASSUME NEW name, NEW word, NEW n \in Nat, Len(word) = n
  PROVE  /\ It = Put(name, word) => PutsWord(word, n)
         /\ It = Get(name, word) => GetsWord(word, n)
<1>1. ASSUME It = Put(name, word) PROVE PutsWord(word, n)
  BY <1>1 DEF Put, PutsWord
<1>2. ASSUME It = Get(name, word) PROVE GetsWord(word, n)
  <2>1. PICK put : put = Put(name, word)
    OBVIOUS
  <2>2. put.n = n /\ \A x \in 0 .. n - 1 : put.data[x] = word[x + 1]
    BY <2>1 DEF Put
  <2>3. It.op = "get" /\ It.n = put.n /\ It.data = put.data
    BY <1>2, <2>1 DEF Get, Put
  <2>. QED  BY <2>2, <2>3 DEF GetsWord
<1>. QED  BY <1>1, <1>2

LEMMA WordLengths == Len(U16Word) = 2 /\ Len(U32Word) = 4 /\ Len(U64Word) = 8
  BY DEF U16Word, U32Word, U64Word

-----------------------------------------------------------------------------
LEMMA FileTestCalls ==
  ASSUME NEW name, NEW k \in 0 .. 15, It = FileTest(name)[k + 1]
  PROVE  /\ k \in {0, 4, 8, 12} => It.op = "seek"
         /\ k \in {1, 11} => PutsWord(U16Word, 2)
         /\ k \in {2, 10} => PutsWord(U32Word, 4)
         /\ k \in {3, 9} => PutsWord(U64Word, 8)
         /\ k \in {5, 15} => GetsWord(U16Word, 2)
         /\ k \in {6, 14} => GetsWord(U32Word, 4)
         /\ k \in {7, 13} => GetsWord(U64Word, 8)
         /\ It.name = name
<1>1. /\ k \in {0, 4, 8, 12} => It = Seek(name)
      /\ k \in {1, 11} => It = Put(name, U16Word)
      /\ k \in {2, 10} => It = Put(name, U32Word)
      /\ k \in {3, 9} => It = Put(name, U64Word)
      /\ k \in {5, 15} => It = Get(name, U16Word)
      /\ k \in {6, 14} => It = Get(name, U32Word)
      /\ k \in {7, 13} => It = Get(name, U64Word)
  BY DEF FileTest
<1>2. Seek(name).op = "seek" /\ Seek(name).name = name
  BY DEF Seek
<1>3. ASSUME NEW word PROVE Put(name, word).name = name /\ Get(name, word).name = name
  <2>1. PICK put : put = Put(name, word)
    OBVIOUS
  <2>. QED  BY <2>1 DEF Put, Get
<1>4. /\ It = Put(name, U16Word) => PutsWord(U16Word, 2)
      /\ It = Get(name, U16Word) => GetsWord(U16Word, 2)
  BY WordCalls, WordLengths
<1>5. /\ It = Put(name, U32Word) => PutsWord(U32Word, 4)
      /\ It = Get(name, U32Word) => GetsWord(U32Word, 4)
  BY WordCalls, WordLengths
<1>6. /\ It = Put(name, U64Word) => PutsWord(U64Word, 8)
      /\ It = Get(name, U64Word) => GetsWord(U64Word, 8)
  BY WordCalls, WordLengths
<1>7. It.name = name
  BY <1>1, <1>2, <1>3
<1>. QED  BY <1>1, <1>2, <1>4, <1>5, <1>6, <1>7

LEMMA FileTestStep ==
  ASSUME GoodStep, NEW i \in Slots, OnlyHandle(i), NEW name, NEW k \in 0 .. 15,
         It = FileTest(name)[k + 1],
         NEW s \in Nat, NEW z \in Nat, z >= 14, z < U16, s + z <= Capacity, FileTestAt(k, i, s, z)
  PROVE  FileTestAt(k + 1, i, s, z)' /\ Elsewhere(i, s)
<1>1. CASE k = 0
  <2>1. PICK t : fat[i] = At(s, z, t)
    BY <1>1 DEF FileTestAt
  <2>2. /\ fat'[i] = At(s, z, 0) /\ Elsewhere(i, s)
        /\ KeepsWords(s)
    BY <1>1, <2>1, FileTestCalls, SeekStart
  <2>. QED  BY <1>1, <2>2 DEF FileTestAt, TipAt, KeepsWords
<1>2. CASE k = 1
  <2>1. fat[i] = At(s, z, 0)
    BY <1>2 DEF FileTestAt, TipAt
  <2>2. PutsWord(U16Word, 2)
    BY <1>2, FileTestCalls
  <2>3. /\ fat'[i] = At(s, z, 2) /\ Elsewhere(i, s) /\ Holds(s, 0, U16Word, 2)'
        /\ KeepsBelow(s, 0)
    <3>1. PICK t \in Nat, n \in Nat, u \in Nat : t = 0 /\ n = 2 /\ u = 2 /\ u = t + n /\ u <= z
      OBVIOUS
    <3>2. fat[i] = At(s, z, t)
      BY <2>1, <3>1, Zenon
    <3>3. PutsWord(U16Word, n)
      BY <2>2, <3>1, Zenon
    <3>4. fat'[i] = At(s, z, u) /\ Elsewhere(i, s) /\ Holds(s, t, U16Word, n)' /\ KeepsBelow(s, t)
      BY <3>1, <3>2, <3>3, PutWord
    <3>. QED  BY <3>1, <3>4
  <2>. QED  BY <1>2, <2>3 DEF FileTestAt, TipAt, KeepsBelow
<1>3. CASE k = 2
  <2>1. fat[i] = At(s, z, 2)
    BY <1>3 DEF FileTestAt, TipAt
  <2>2. PutsWord(U32Word, 4)
    BY <1>3, FileTestCalls
  <2>3. /\ fat'[i] = At(s, z, 6) /\ Elsewhere(i, s) /\ Holds(s, 2, U32Word, 4)'
        /\ KeepsBelow(s, 2)
    <3>1. PICK t \in Nat, n \in Nat, u \in Nat : t = 2 /\ n = 4 /\ u = 6 /\ u = t + n /\ u <= z
      OBVIOUS
    <3>2. fat[i] = At(s, z, t)
      BY <2>1, <3>1, Zenon
    <3>3. PutsWord(U32Word, n)
      BY <2>2, <3>1, Zenon
    <3>4. fat'[i] = At(s, z, u) /\ Elsewhere(i, s) /\ Holds(s, t, U32Word, n)' /\ KeepsBelow(s, t)
      BY <3>1, <3>2, <3>3, PutWord
    <3>. QED  BY <3>1, <3>4
  <2>. QED  BY <1>3, <2>3 DEF FileTestAt, TipAt, KeepsBelow
<1>4. CASE k = 3
  <2>1. fat[i] = At(s, z, 6)
    BY <1>4 DEF FileTestAt, TipAt
  <2>2. PutsWord(U64Word, 8)
    BY <1>4, FileTestCalls
  <2>3. /\ fat'[i] = At(s, z, 14) /\ Elsewhere(i, s) /\ Holds(s, 6, U64Word, 8)'
        /\ KeepsBelow(s, 6)
    <3>1. PICK t \in Nat, n \in Nat, u \in Nat : t = 6 /\ n = 8 /\ u = 14 /\ u = t + n /\ u <= z
      OBVIOUS
    <3>2. fat[i] = At(s, z, t)
      BY <2>1, <3>1, Zenon
    <3>3. PutsWord(U64Word, n)
      BY <2>2, <3>1, Zenon
    <3>4. fat'[i] = At(s, z, u) /\ Elsewhere(i, s) /\ Holds(s, t, U64Word, n)' /\ KeepsBelow(s, t)
      BY <3>1, <3>2, <3>3, PutWord
    <3>. QED  BY <3>1, <3>4
  <2>. QED  BY <1>4, <2>3 DEF FileTestAt, TipAt, KeepsBelow
<1>5. CASE k = 4
  <2>1. PICK t : fat[i] = At(s, z, t)
    BY <1>5 DEF FileTestAt
  <2>2. /\ fat'[i] = At(s, z, 0) /\ Elsewhere(i, s)
        /\ KeepsWords(s)
    BY <1>5, <2>1, FileTestCalls, SeekStart
  <2>. QED  BY <1>5, <2>2 DEF FileTestAt, TipAt, KeepsWords
<1>6. CASE k = 5
  <2>1. fat[i] = At(s, z, 0) /\ Holds(s, 0, U16Word, 2)
    BY <1>6 DEF FileTestAt, TipAt
  <2>2. GetsWord(U16Word, 2)
    BY <1>6, FileTestCalls
  <2>3. /\ fat'[i] = At(s, z, 2) /\ Elsewhere(i, s)
        /\ KeepsWords(s)
    <3>1. PICK t \in Nat, n \in Nat, u \in Nat : t = 0 /\ n = 2 /\ u = 2 /\ u = t + n /\ u <= z
      OBVIOUS
    <3>2. fat[i] = At(s, z, t)
      BY <2>1, <3>1, Zenon
    <3>3. GetsWord(U16Word, n)
      BY <2>2, <3>1, Zenon
    <3>4. Holds(s, t, U16Word, n)
      BY <2>1, <3>1, Zenon
    <3>5. fat'[i] = At(s, z, u) /\ Elsewhere(i, s) /\ KeepsWords(s)
      BY <3>1, <3>2, <3>3, <3>4, GetWord
    <3>. QED  BY <3>1, <3>5
  <2>. QED  BY <1>6, <2>3 DEF FileTestAt, TipAt, KeepsWords
<1>7. CASE k = 6
  <2>1. fat[i] = At(s, z, 2) /\ Holds(s, 2, U32Word, 4)
    BY <1>7 DEF FileTestAt, TipAt
  <2>2. GetsWord(U32Word, 4)
    BY <1>7, FileTestCalls
  <2>3. /\ fat'[i] = At(s, z, 6) /\ Elsewhere(i, s)
        /\ KeepsWords(s)
    <3>1. PICK t \in Nat, n \in Nat, u \in Nat : t = 2 /\ n = 4 /\ u = 6 /\ u = t + n /\ u <= z
      OBVIOUS
    <3>2. fat[i] = At(s, z, t)
      BY <2>1, <3>1, Zenon
    <3>3. GetsWord(U32Word, n)
      BY <2>2, <3>1, Zenon
    <3>4. Holds(s, t, U32Word, n)
      BY <2>1, <3>1, Zenon
    <3>5. fat'[i] = At(s, z, u) /\ Elsewhere(i, s) /\ KeepsWords(s)
      BY <3>1, <3>2, <3>3, <3>4, GetWord
    <3>. QED  BY <3>1, <3>5
  <2>. QED  BY <1>7, <2>3 DEF FileTestAt, TipAt, KeepsWords
<1>8. CASE k = 7
  <2>1. fat[i] = At(s, z, 6) /\ Holds(s, 6, U64Word, 8)
    BY <1>8 DEF FileTestAt, TipAt
  <2>2. GetsWord(U64Word, 8)
    BY <1>8, FileTestCalls
  <2>3. /\ fat'[i] = At(s, z, 14) /\ Elsewhere(i, s)
        /\ KeepsWords(s)
    <3>1. PICK t \in Nat, n \in Nat, u \in Nat : t = 6 /\ n = 8 /\ u = 14 /\ u = t + n /\ u <= z
      OBVIOUS
    <3>2. fat[i] = At(s, z, t)
      BY <2>1, <3>1, Zenon
    <3>3. GetsWord(U64Word, n)
      BY <2>2, <3>1, Zenon
    <3>4. Holds(s, t, U64Word, n)
      BY <2>1, <3>1, Zenon
    <3>5. fat'[i] = At(s, z, u) /\ Elsewhere(i, s) /\ KeepsWords(s)
      BY <3>1, <3>2, <3>3, <3>4, GetWord
    <3>. QED  BY <3>1, <3>5
  <2>. QED  BY <1>8, <2>3 DEF FileTestAt, TipAt, KeepsWords
<1>9. CASE k = 8
  <2>1. PICK t : fat[i] = At(s, z, t)
    BY <1>9 DEF FileTestAt
  <2>2. /\ fat'[i] = At(s, z, 0) /\ Elsewhere(i, s)
        /\ KeepsWords(s)
    BY <1>9, <2>1, FileTestCalls, SeekStart
  <2>. QED  BY <1>9, <2>2 DEF FileTestAt, TipAt, KeepsWords
<1>10. CASE k = 9
  <2>1. fat[i] = At(s, z, 0)
    BY <1>10 DEF FileTestAt, TipAt
  <2>2. PutsWord(U64Word, 8)
    BY <1>10, FileTestCalls
  <2>3. /\ fat'[i] = At(s, z, 8) /\ Elsewhere(i, s) /\ Holds(s, 0, U64Word, 8)'
        /\ KeepsBelow(s, 0)
    <3>1. PICK t \in Nat, n \in Nat, u \in Nat : t = 0 /\ n = 8 /\ u = 8 /\ u = t + n /\ u <= z
      OBVIOUS
    <3>2. fat[i] = At(s, z, t)
      BY <2>1, <3>1, Zenon
    <3>3. PutsWord(U64Word, n)
      BY <2>2, <3>1, Zenon
    <3>4. fat'[i] = At(s, z, u) /\ Elsewhere(i, s) /\ Holds(s, t, U64Word, n)' /\ KeepsBelow(s, t)
      BY <3>1, <3>2, <3>3, PutWord
    <3>. QED  BY <3>1, <3>4
  <2>. QED  BY <1>10, <2>3 DEF FileTestAt, TipAt, KeepsBelow
<1>11. CASE k = 10
  <2>1. fat[i] = At(s, z, 8)
    BY <1>11 DEF FileTestAt, TipAt
  <2>2. PutsWord(U32Word, 4)
    BY <1>11, FileTestCalls
  <2>3. /\ fat'[i] = At(s, z, 12) /\ Elsewhere(i, s) /\ Holds(s, 8, U32Word, 4)'
        /\ KeepsBelow(s, 8)
    <3>1. PICK t \in Nat, n \in Nat, u \in Nat : t = 8 /\ n = 4 /\ u = 12 /\ u = t + n /\ u <= z
      OBVIOUS
    <3>2. fat[i] = At(s, z, t)
      BY <2>1, <3>1, Zenon
    <3>3. PutsWord(U32Word, n)
      BY <2>2, <3>1, Zenon
    <3>4. fat'[i] = At(s, z, u) /\ Elsewhere(i, s) /\ Holds(s, t, U32Word, n)' /\ KeepsBelow(s, t)
      BY <3>1, <3>2, <3>3, PutWord
    <3>. QED  BY <3>1, <3>4
  <2>. QED  BY <1>11, <2>3 DEF FileTestAt, TipAt, KeepsBelow
<1>12. CASE k = 11
  <2>1. fat[i] = At(s, z, 12)
    BY <1>12 DEF FileTestAt, TipAt
  <2>2. PutsWord(U16Word, 2)
    BY <1>12, FileTestCalls
  <2>3. /\ fat'[i] = At(s, z, 14) /\ Elsewhere(i, s) /\ Holds(s, 12, U16Word, 2)'
        /\ KeepsBelow(s, 12)
    <3>1. PICK t \in Nat, n \in Nat, u \in Nat : t = 12 /\ n = 2 /\ u = 14 /\ u = t + n /\ u <= z
      OBVIOUS
    <3>2. fat[i] = At(s, z, t)
      BY <2>1, <3>1, Zenon
    <3>3. PutsWord(U16Word, n)
      BY <2>2, <3>1, Zenon
    <3>4. fat'[i] = At(s, z, u) /\ Elsewhere(i, s) /\ Holds(s, t, U16Word, n)' /\ KeepsBelow(s, t)
      BY <3>1, <3>2, <3>3, PutWord
    <3>. QED  BY <3>1, <3>4
  <2>. QED  BY <1>12, <2>3 DEF FileTestAt, TipAt, KeepsBelow
<1>13. CASE k = 12
  <2>1. PICK t : fat[i] = At(s, z, t)
    BY <1>13 DEF FileTestAt
  <2>2. /\ fat'[i] = At(s, z, 0) /\ Elsewhere(i, s)
        /\ KeepsWords(s)
    BY <1>13, <2>1, FileTestCalls, SeekStart
  <2>. QED  BY <1>13, <2>2 DEF FileTestAt, TipAt, KeepsWords
<1>14. CASE k = 13
  <2>1. fat[i] = At(s, z, 0) /\ Holds(s, 0, U64Word, 8)
    BY <1>14 DEF FileTestAt, TipAt
  <2>2. GetsWord(U64Word, 8)
    BY <1>14, FileTestCalls
  <2>3. /\ fat'[i] = At(s, z, 8) /\ Elsewhere(i, s)
        /\ KeepsWords(s)
    <3>1. PICK t \in Nat, n \in Nat, u \in Nat : t = 0 /\ n = 8 /\ u = 8 /\ u = t + n /\ u <= z
      OBVIOUS
    <3>2. fat[i] = At(s, z, t)
      BY <2>1, <3>1, Zenon
    <3>3. GetsWord(U64Word, n)
      BY <2>2, <3>1, Zenon
    <3>4. Holds(s, t, U64Word, n)
      BY <2>1, <3>1, Zenon
    <3>5. fat'[i] = At(s, z, u) /\ Elsewhere(i, s) /\ KeepsWords(s)
      BY <3>1, <3>2, <3>3, <3>4, GetWord
    <3>. QED  BY <3>1, <3>5
  <2>. QED  BY <1>14, <2>3 DEF FileTestAt, TipAt, KeepsWords
<1>15. CASE k = 14
  <2>1. fat[i] = At(s, z, 8) /\ Holds(s, 8, U32Word, 4)
    BY <1>15 DEF FileTestAt, TipAt
  <2>2. GetsWord(U32Word, 4)
    BY <1>15, FileTestCalls
  <2>3. /\ fat'[i] = At(s, z, 12) /\ Elsewhere(i, s)
        /\ KeepsWords(s)
    <3>1. PICK t \in Nat, n \in Nat, u \in Nat : t = 8 /\ n = 4 /\ u = 12 /\ u = t + n /\ u <= z
      OBVIOUS
    <3>2. fat[i] = At(s, z, t)
      BY <2>1, <3>1, Zenon
    <3>3. GetsWord(U32Word, n)
      BY <2>2, <3>1, Zenon
    <3>4. Holds(s, t, U32Word, n)
      BY <2>1, <3>1, Zenon
    <3>5. fat'[i] = At(s, z, u) /\ Elsewhere(i, s) /\ KeepsWords(s)
      BY <3>1, <3>2, <3>3, <3>4, GetWord
    <3>. QED  BY <3>1, <3>5
  <2>4. Holds(s, 12, U16Word, 2)
    BY <1>15 DEF FileTestAt
  <2>5. Holds(s, 12, U16Word, 2)'
    BY <2>3, <2>4 DEF KeepsWords
  <2>6. k + 1 = 15 /\ TipAt[15] = 12
    BY <1>15 DEF TipAt
  <2>7. fat'[i] = At(s, z, TipAt[15])
    BY <2>3, <2>6
  <2>8. FileTestAt(15, i, s, z)'
    BY <2>5, <2>7 DEF FileTestAt
  <2>. QED  BY <2>3, <2>6, <2>8
<1>16. CASE k = 15
  <2>1. fat[i] = At(s, z, 12) /\ Holds(s, 12, U16Word, 2)
    BY <1>16 DEF FileTestAt, TipAt
  <2>2. GetsWord(U16Word, 2)
    BY <1>16, FileTestCalls
  <2>3. /\ fat'[i] = At(s, z, 14) /\ Elsewhere(i, s)
        /\ KeepsWords(s)
    <3>1. PICK t \in Nat, n \in Nat, u \in Nat : t = 12 /\ n = 2 /\ u = 14 /\ u = t + n /\ u <= z
      OBVIOUS
    <3>2. fat[i] = At(s, z, t)
      BY <2>1, <3>1, Zenon
    <3>3. GetsWord(U16Word, n)
      BY <2>2, <3>1, Zenon
    <3>4. Holds(s, t, U16Word, n)
      BY <2>1, <3>1, Zenon
    <3>5. fat'[i] = At(s, z, u) /\ Elsewhere(i, s) /\ KeepsWords(s)
      BY <3>1, <3>2, <3>3, <3>4, GetWord
    <3>. QED  BY <3>1, <3>5
  <2>. QED  BY <1>16, <2>3 DEF FileTestAt, TipAt, KeepsWords
<1>. QED  BY <1>1, <1>2, <1>3, <1>4, <1>5, <1>6, <1>7, <1>8, <1>9, <1>10, <1>11, <1>12, <1>13, <1>14, <1>15, <1>16

-----------------------------------------------------------------------------
(* The tests with a File of their own, outside of any store.               *)
Blank == files_opened = 0 /\ super_open = FALSE /\ media = Unformatted

LEMMA CtorWhole ==
  ASSUME GoodStep, It.op = "ctor", NEW s \in Nat, s < U16, NEW z \in Nat, z < U16,
         It.start = s, It.size = z
  PROVE  /\ fat'[0] = At(s, z, 0) /\ DOMAIN fat' = Slots /\ verdict' = "running"
         /\ UNCHANGED <<mem, media, files_opened, super_open>>
<1>1. CtorStep
  BY DueOther DEF GoodStep
<1>2. s % U16 = s /\ z % U16 = z
  BY SizesAssumption
<1>3. 0 \in Slots /\ DOMAIN fat = Slots
  BY SizesAssumption DEF Slots, GoodStep, Right
<1>4. fat' = [fat EXCEPT ![0] = [mtd |-> TRUE, start |-> s, size |-> z, tip |-> 0]]
  BY <1>1, <1>2 DEF CtorStep
<1>5. [mtd |-> TRUE, start |-> s, size |-> z, tip |-> 0] = At(s, z, 0)
  BY DEF At
<1>6. fat'[0] = At(s, z, 0) /\ DOMAIN fat' = Slots
  BY <1>3, <1>4, <1>5
<1>7. UNCHANGED <<mem, media, files_opened, super_open, verdict>>
  BY <1>1 DEF CtorStep
<1>. QED  BY <1>6, <1>7 DEF GoodStep, More

(* Where addres_translate_test() stands before call k + 1 with n bytes.    *)
Translating(k, n) ==
  /\ k >= 1 => \A x \in 0 .. ctx.len - 1 :
                 mem[x] = IF k >= 3 /\ x \in TestOffset .. TestOffset + n - 1 THEN 85 ELSE 255
  /\ k = 2 => fat[0] = At(TestOffset, 2 * n, 0)

LEMMA TranslateCalls ==
  ASSUME NEW c \in Contexts, NEW n \in Nat, NEW k \in 0 .. 3, It = AddressTranslate(c, n)[k + 1]
  PROVE  /\ k = 0 => It.op = "write" /\ It.at = 0 /\ It.n = c.len /\ It.data = Fill(255)
         /\ k = 1 => It.op = "ctor" /\ It.start = TestOffset /\ It.size = 2 * n
         /\ k = 2 => /\ It.op = "put" /\ It.n = n /\ It.name = Local
                     /\ \A x \in 0 .. n - 1 : It.data[x] = 85
         /\ k = 3 => /\ It.op = "compare" /\ It.at = 0 /\ It.n = c.len /\ It.cmp = c.len
                     /\ It.ref = Patch(255, TestOffset, n, 85)
<1>1. PICK word : word = [x \in 1 .. n |-> 85]
  OBVIOUS
<1>2. Len(word) = n
  BY <1>1, FunctionIsSeq
<1>3. CASE k = 0
  <2>1. PICK call : call = MtdWrite(Fill(255), c.len, 0)
    OBVIOUS
  <2>2. It = [call EXCEPT !.checked = FALSE]
    BY <1>3, <2>1 DEF AddressTranslate, Unchecked
  <2>3. call.op = "write" /\ call.at = 0 /\ call.n = c.len /\ call.data = Fill(255)
    BY <2>1, CallFields
  <2>4. It.op = call.op /\ It.at = call.at /\ It.n = call.n /\ It.data = call.data
    BY <2>1, <2>2 DEF MtdWrite
  <2>. QED  BY <1>3, <2>3, <2>4
<1>4. CASE k = 1
  BY <1>4 DEF AddressTranslate, Ctor
<1>5. CASE k = 2
  <2>1. PICK call : call = Put(Local, word)
    OBVIOUS
  <2>2. It = [call EXCEPT !.checked = FALSE, !.buf = n]
    BY <1>1, <1>5, <2>1 DEF AddressTranslate
  <2>3. call.op = "put" /\ call.n = n /\ call.name = Local
    BY <1>2, <2>1 DEF Put
  <2>4. \A x \in 0 .. n - 1 : call.data[x] = 85
    BY <1>1, <1>2, <2>1 DEF Put
  <2>5. It.op = call.op /\ It.n = call.n /\ It.name = call.name /\ It.data = call.data
    BY <2>1, <2>2 DEF Put
  <2>. QED  BY <1>5, <2>3, <2>4, <2>5
<1>6. CASE k = 3
  <2>1. PICK call : call = MtdRead(c.len, 0, Patch(255, TestOffset, n, 85), c.len)
    OBVIOUS
  <2>2. It = [Uncounted(call) EXCEPT !.buf = Larger(c.len, TestOffset + n)]
    BY <1>6, <2>1 DEF AddressTranslate
  <2>3. call.at = 0 /\ call.n = c.len /\ call.cmp = c.len /\ call.ref = Patch(255, TestOffset, n, 85)
    BY <2>1, CallFields
  <2>4. /\ It.op = "compare" /\ It.at = call.at /\ It.n = call.n /\ It.cmp = call.cmp
        /\ It.ref = call.ref
    BY <2>1, <2>2 DEF MtdRead, Uncounted
  <2>. QED  BY <1>6, <2>3, <2>4
<1>. QED  BY <1>3, <1>4, <1>5, <1>6

LEMMA LenInside ==
  ASSUME NEW c \in Contexts
  PROVE  c.len \in Nat /\ c.len <= Capacity
<1>1. PICK len \in Nat \ {0} : len = c.len
  BY Sizes
<1>2. Capacity \in Nat \ {0} /\ Capacity % len = 0
  BY <1>1, Sizes
<1>3. ~ Capacity < len
  <2>. SUFFICES ASSUME Capacity < len PROVE FALSE
    OBVIOUS
  <2>1. Capacity = 0 * len + Capacity /\ Capacity \in 0 .. len - 1
    BY <1>2
  <2>2. Capacity % len = Capacity
    BY <1>2, <2>1, DivUnique
  <2>. QED  BY <1>2, <2>2
<1>. QED  BY <1>1, <1>2, <1>3

LEMMA TranslateStep ==
  ASSUME SmallDevice, GoodStep, Blank, NEW n \in Nat, 2 * n < U16, TestOffset + n <= ctx.len,
         NEW k \in 0 .. 3, It = AddressTranslate(ctx, n)[k + 1], Translating(k, n)
  PROVE  /\ k < 3 => Translating(k + 1, n)'
         /\ Blank' /\ DOMAIN fat' = Slots /\ verdict' = "running"
<1>1. ctx \in Contexts /\ ctx' = ctx /\ DOMAIN fat = Slots /\ 0 \in Slots
  BY GoesOn, SizesAssumption DEF GoodStep, Right, SuitePlace, Slots
<1>2. PICK len \in Nat : len = ctx.len /\ len <= Capacity /\ TestOffset + n <= len
  <2>1. ctx.len \in Nat /\ ctx.len <= Capacity
    BY <1>1, LenInside
  <2>. QED  BY <2>1
<1>3. Capacity \in Nat /\ TestOffset \in Nat /\ U16 \in Nat
  BY <1>1, Sizes, SizesAssumption
<1>4. CASE k = 0
  <2>1. It.op = "write" /\ It.at = 0 /\ It.n = len /\ It.data = Fill(255)
    BY <1>1, <1>2, <1>4, TranslateCalls
  <2>2. /\ \A x \in 0 .. Capacity - 1 :
              mem'[x] = IF x \in It.at .. It.at + It.n - 1 THEN It.data[x - It.at] ELSE mem[x]
        /\ media = Unformatted => media' = Unformatted
        /\ verdict' = "running" /\ UNCHANGED ram
    <3>1. It.at \in Nat /\ It.n \in Nat /\ It.at + It.n <= Capacity
      BY <1>2, <1>3, <2>1
    <3>. QED  BY <2>1, <3>1, RawWrite
  <2>3. ASSUME NEW x \in 0 .. len - 1 PROVE mem'[x] = 255
    <3>1. x \in 0 .. Capacity - 1 /\ x \in 0 .. 0 + len - 1 /\ x - 0 = x
      BY <1>2, <1>3
    <3>2. Fill(255)[x] = 255
      BY <3>1 DEF Fill
    <3>. QED  BY <2>1, <2>2, <3>1, <3>2
  <2>. QED  BY <1>1, <1>2, <1>4, <2>2, <2>3 DEF Translating, Blank, ram
<1>5. CASE k = 1
  <2>1. PICK z \in Nat : z = 2 * n /\ z < U16
    OBVIOUS
  <2>2. It.op = "ctor" /\ It.start = TestOffset /\ It.size = z /\ TestOffset < U16
    BY <1>1, <1>2, <1>3, <1>5, <2>1, TranslateCalls DEF SmallDevice
  <2>3. /\ fat'[0] = At(TestOffset, z, 0) /\ DOMAIN fat' = Slots /\ verdict' = "running"
        /\ UNCHANGED <<mem, media, files_opened, super_open>>
    BY <1>3, <2>1, <2>2, CtorWhole
  <2>. QED  BY <1>1, <1>5, <2>1, <2>3 DEF Translating, Blank
<1>6. CASE k = 2
  <2>1. PICK z \in Nat : z = 2 * n /\ z < U16
    OBVIOUS
  <2>2. fat[0] = At(TestOffset, z, 0)
    BY <1>6, <2>1 DEF Translating
  <2>3. It.op = "put" /\ AsksFor(n) /\ It.name = Local /\ \A x \in 0 .. n - 1 : It.data[x] = 85
    BY <1>1, <1>6, TranslateCalls DEF AsksFor
  <2>4. OnlyHandle(0)
    BY <2>3 DEF OnlyHandle, HandleOf
  <2>5. 0 + n <= z /\ TestOffset + 0 + n <= Capacity
    BY <1>2, <1>3, <2>1
  <2>6. /\ \A x \in 0 .. Capacity - 1 :
              mem'[x] = IF x \in (TestOffset + 0) .. (TestOffset + 0) + n - 1
                          THEN It.data[x - (TestOffset + 0)] ELSE mem[x]
        /\ fat' = [fat EXCEPT ![0] = At(TestOffset, z, 0 + n)]
        /\ media = Unformatted => media' = Unformatted
        /\ verdict' = "running" /\ UNCHANGED <<files_opened, super_open>>
    BY <1>1, <1>3, <2>1, <2>2, <2>3, <2>4, <2>5, PutWhole
  <2>7. DOMAIN fat' = Slots
    BY <1>1, <2>6
  <2>8. ASSUME NEW x \in 0 .. len - 1
        PROVE  mem'[x] = IF x \in TestOffset .. TestOffset + n - 1 THEN 85 ELSE 255
    <3>1. x \in 0 .. Capacity - 1 /\ TestOffset + 0 = TestOffset
      BY <1>2, <1>3
    <3>2. mem[x] = 255
      BY <1>2, <1>6 DEF Translating
    <3>3. CASE x \in TestOffset .. TestOffset + n - 1
      <4>1. x - TestOffset \in 0 .. n - 1
        BY <1>3, <3>3
      <4>. QED  BY <2>3, <2>6, <3>1, <3>3, <4>1
    <3>4. CASE ~ x \in TestOffset .. TestOffset + n - 1
      BY <2>6, <3>1, <3>2, <3>4
    <3>. QED  BY <3>3, <3>4
  <2>. QED  BY <1>1, <1>2, <1>6, <2>6, <2>7, <2>8 DEF Translating, Blank
<1>7. CASE k = 3
  <2>1. /\ It.op = "compare" /\ It.at = 0 /\ It.n = len /\ It.cmp = len
        /\ It.ref = Patch(255, TestOffset, n, 85)
    BY <1>1, <1>2, <1>7, TranslateCalls
  <2>2. ASSUME NEW x \in 0 .. It.cmp - 1 PROVE mem[It.at + x] = It.ref[x]
    <3>1. x \in 0 .. len - 1 /\ x \in 0 .. Capacity - 1 /\ It.at + x = x
      BY <1>2, <1>3, <2>1
    <3>2. mem[x] = IF x \in TestOffset .. TestOffset + n - 1 THEN 85 ELSE 255
      BY <1>2, <1>7, <3>1 DEF Translating
    <3>3. Patch(255, TestOffset, n, 85)[x] = IF x \in TestOffset .. TestOffset + n - 1 THEN 85 ELSE 255
      BY <3>1 DEF Patch
    <3>. QED  BY <2>1, <3>1, <3>2, <3>3
  <2>3. It.at \in Nat /\ It.n \in Nat /\ It.cmp \in 0 .. It.n /\ It.at + It.n <= Capacity
    BY <1>2, <1>3, <2>1
  <2>4. verdict' = "running" /\ UNCHANGED vars
    BY <2>1, <2>2, <2>3, RawCompare
  <2>. QED  BY <1>1, <1>7, <2>4 DEF Blank, vars
<1>. QED  BY <1>4, <1>5, <1>6, <1>7

-----------------------------------------------------------------------------
LEMMA LocalOnly == ASSUME It.name = Local PROVE OnlyHandle(0)
  BY DEF OnlyHandle, HandleOf

(* file_put_test() before call k + 1.                                      *)
Putting(k) == Blank /\ (k >= 1 => FileTestAt(k - 1, 0, 0, Capacity))

LEMMA PuttingStep ==
  ASSUME DeviceSuits, GoodStep, NEW k \in 0 .. 16, Putting(k),
         It = IF k = 0 THEN Ctor(0, Capacity) ELSE FileTest(Local)[k]
  PROVE  Putting(k + 1)' /\ DOMAIN fat' = Slots /\ verdict' = "running"
<1>1. Capacity \in Nat /\ Capacity < U16 /\ Capacity >= 14 /\ 0 \in Slots
  <2>1. SuperSize \in Nat /\ BigFile \in Nat /\ SmallFile \in Nat /\ MaxFileCnt \in Nat /\ Capacity \in Nat
    BY SizesAssumption, SuiteAssumption
  <2>. QED  BY <2>1 DEF DeviceSuits, SmallDevice, Slots
<1>2. CASE k = 0
  <2>1. It.op = "ctor" /\ It.start = 0 /\ It.size = Capacity
    BY <1>2 DEF Ctor
  <2>2. 0 < U16
    BY <1>1, SizesAssumption
  <2>3. /\ fat'[0] = At(0, Capacity, 0) /\ DOMAIN fat' = Slots /\ verdict' = "running"
        /\ UNCHANGED <<mem, media, files_opened, super_open>>
    BY <1>1, <2>1, <2>2, CtorWhole
  <2>4. FileTestAt(0, 0, 0, Capacity)'
    BY <2>3 DEF FileTestAt
  <2>. QED  BY <1>2, <2>3, <2>4 DEF Putting, Blank
<1>3. CASE k >= 1
  <2>1. PICK j \in 0 .. 15 : k = j + 1 /\ k - 1 = j /\ (k + 1) - 1 = j + 1
    <3>1. k - 1 \in 0 .. 15
      BY <1>3
    <3>. QED  BY <3>1
  <2>2. It = FileTest(Local)[j + 1] /\ FileTestAt(j, 0, 0, Capacity)
    BY <1>3, <2>1 DEF Putting
  <2>3. OnlyHandle(0)
    BY <2>2, FileTestCalls, LocalOnly
  <2>4. FileTestAt(j + 1, 0, 0, Capacity)' /\ Elsewhere(0, 0)
    BY <1>1, <2>2, <2>3, FileTestStep
  <2>. QED  BY <2>1, <2>4 DEF Putting, Elsewhere, Blank
<1>. QED  BY <1>2, <1>3

-----------------------------------------------------------------------------
(* Calls on the file system.                                               *)
LEMMA FsDue ==
  ASSUME GoodStep,
         It.op \in {"new", "mount", "fsck", "mkfs", "umount", "create", "open", "close"}
  PROVE  /\ It.op = "new" => Restart
         /\ It.op = "mount" => Mount
         /\ It.op = "fsck" => Fsck
         /\ It.op = "mkfs" => Mkfs
         /\ It.op = "umount" => Umount
         /\ It.op = "create" => Create(It.name, It.size)
         /\ It.op = "open" => Open(It.name)
         /\ It.op = "close" => \E i \in Slots : FoundAt(media, It.name, i) /\ Close(i)
         /\ last'.ret \in It.want => verdict' = "running"
         /\ UNCHANGED <<mem, df>>
<1>1. FsStep
  BY DueOther DEF GoodStep
<1>. QED  BY <1>1 DEF FsStep, Now, Check

LEMMA NewFs ==
  ASSUME GoodStep, It = FsCall("new", {"void"})
  PROVE  /\ files_opened' = 0 /\ super_open' = FALSE /\ fat' = [i \in Slots |-> Closed]
         /\ verdict' = "running" /\ UNCHANGED <<media, mem, df>>
<1>1. It.op = "new" /\ It.want = {"void"}
  BY DEF FsCall
<1>2. Restart /\ (last'.ret \in It.want => verdict' = "running") /\ UNCHANGED <<mem, df>>
  BY <1>1, FsDue
<1>3. last'.ret = "void"
  BY <1>2 DEF Restart, Returns
<1>4. verdict' = "running"
  BY <1>1, <1>2, <1>3
<1>. QED  BY <1>2, <1>4 DEF Restart

(* The store of the suite with its first n files.                          *)
StartOf(k) == SuperSize + (IF k = 0 THEN 0 ELSE IF k = 1 THEN BigFile ELSE IF k = 2 THEN BigFile + SmallFile
                                                                           ELSE BigFile + 2 * SmallFile)
SizeOf(k) == IF k = 0 THEN BigFile ELSE SmallFile
ItemOf(k) == [name |-> TestName[k], start |-> StartOf(k), size |-> SizeOf(k)]
StoreOf(n) ==
  [magic |-> TRUE, cnt |-> n, toc |-> [k \in Slots |-> IF k < n THEN ItemOf(k) ELSE EmptyItem], sealed |-> TRUE]

LEMMA Suits ==
  ASSUME DeviceSuits
  PROVE  /\ Slots = 0 .. 2 /\ U8 \in Nat /\ U8 > 4 /\ U16 \in Nat /\ Capacity \in Nat /\ Capacity < U16
         /\ SuperSize \in Nat /\ BigFile \in Nat /\ SmallFile \in Nat /\ BigFile >= 14 /\ SmallFile >= 14
         /\ SuperSize + BigFile + 2 * SmallFile < Capacity
         /\ \A k \in 0 .. 3 : StartOf(k) \in Nat /\ StartOf(k) >= SuperSize /\ StartOf(k) < Capacity
         /\ \A k \in 0 .. 2 : SizeOf(k) \in Nat /\ SizeOf(k) >= 14 /\ StartOf(k) + SizeOf(k) = StartOf(k + 1)
<1>1. U8 \in Nat /\ U16 \in Nat /\ Capacity \in Nat /\ SuperSize \in Nat /\ BigFile \in Nat /\ SmallFile \in Nat
  BY SizesAssumption, SuiteAssumption
<1>2. MaxFileCnt = 3 /\ 4 < U8 /\ Capacity < U16
  BY DEF DeviceSuits, FitsCounter, SmallDevice
<1>3. BigFile >= 14 /\ SmallFile >= 14 /\ SuperSize + BigFile + 2 * SmallFile < Capacity
  BY DEF DeviceSuits
<1>. QED  BY <1>1, <1>2, <1>3 DEF Slots, StartOf, SizeOf

LEMMA NamesDiffer ==
  ASSUME DeviceSuits, NEW j \in 0 .. 3, NEW k \in 0 .. 3
  PROVE  /\ TestName[j] \in AlnumNames \ LongNames /\ TestName[j] # NoName
         /\ TestName[j] = TestName[k] => j = k
  BY SuiteAssumption, NamesAssumption DEF DeviceSuits

LEMMA StorePasses ==
  ASSUME DeviceSuits, NEW n \in 0 .. 3
  PROVE  FsckOk(StoreOf(n))
<1>1. PICK m : m = StoreOf(n)
  OBVIOUS
<1>2. m.magic = TRUE /\ m.cnt = n /\ m.sealed = TRUE /\ \A k \in 0 .. n - 1 : m.toc[k] = ItemOf(k)
  BY <1>1, Suits DEF StoreOf
<1>3. ASSUME NEW k \in 0 .. n - 1
      PROVE  CheckName(m.toc[k].name) /\ End(m.toc[k]) < Capacity /\ m.toc[k].start >= SuperSize
  <2>1. k \in 0 .. 2 /\ k + 1 \in 0 .. 3
    OBVIOUS
  <2>2. StartOf(k) + SizeOf(k) < Capacity /\ StartOf(k) >= SuperSize
    BY <2>1, Suits
  <2>3. m.toc[k].name = TestName[k] /\ m.toc[k].start = StartOf(k) /\ m.toc[k].size = SizeOf(k)
    <3>1. PICK item : item = m.toc[k] /\ item = ItemOf(k)
      BY <1>2
    <3>2. item.name = TestName[k] /\ item.start = StartOf(k) /\ item.size = SizeOf(k)
      BY <3>1 DEF ItemOf
    <3>. QED  BY <3>1, <3>2
  <2>. QED  BY <2>1, <2>2, <2>3, NamesDiffer DEF CheckName, End
<1>4. m.cnt <= MaxFileCnt
  BY <1>2 DEF DeviceSuits
<1>. QED  BY <1>1, <1>2, <1>3, <1>4 DEF FsckOk, Formatted, Files

LEMMA StoreFinds ==
  ASSUME DeviceSuits, NEW n \in 0 .. 3, NEW k \in 0 .. 3
  PROVE  /\ \A i \in Slots : FoundAt(StoreOf(n), TestName[k], i) <=> i = k /\ k < n
         /\ k >= n => Absent(StoreOf(n), TestName[k])
         /\ k < n => k \in Slots /\ ~ Absent(StoreOf(n), TestName[k]) /\ StoreOf(n).toc[k] = ItemOf(k)
<1>1. PICK m : m = StoreOf(n)
  OBVIOUS
<1>2. \A i \in Slots : m.toc[i].name = IF i < n THEN TestName[i] ELSE NoName
  BY <1>1 DEF StoreOf, ItemOf, EmptyItem
<1>3. \A i \in Slots : m.toc[i].name = TestName[k] <=> i = k /\ k < n
  BY <1>2, Suits, NamesDiffer
<1>4. k < n => k \in Slots
  BY Suits
<1>5. \A i \in Slots : FoundAt(m, TestName[k], i) <=> i = k /\ k < n
  BY <1>3, Suits DEF FoundAt
<1>6. k < n => m.toc[k] = ItemOf(k)
  BY <1>1, <1>4 DEF StoreOf
<1>. QED  BY <1>1, <1>3, <1>4, <1>5, <1>6 DEF Absent

(* mkfs_and_mount_test() after nvramset(), before call k + 1.              *)
Mounting(k) ==
  IF k <= 2 THEN Blank
  ELSE media = StoreOf(0) /\ (k <= 4 => files_opened = 0 /\ super_open = FALSE)

LEMMA MountingStep ==
  ASSUME DeviceSuits, GoodStep, NEW k \in 0 .. 4, Mounting(k), It = MountCalls[k + 1]
  PROVE  Mounting(k + 1)' /\ UNCHANGED fat /\ verdict' = "running"
<1>1. ~ FsckOk(Unformatted) /\ FsckOk(StoreOf(0)) /\ Fresh = StoreOf(0)
  <2>1. ~ FsckOk(Unformatted)
    BY DEF FsckOk, Formatted, Unformatted
  <2>2. \A i \in Slots : ~ i < 0
    BY Suits
  <2>3. Fresh = StoreOf(0)
    BY <2>2 DEF Fresh, StoreOf, EmptyTable
  <2>. QED  BY <2>1, <2>3, StorePasses
<1>2. /\ k = 0 => It.op = "mount" /\ It.want = {"FAILED"}
      /\ k = 1 => It.op = "fsck" /\ It.want = {"FAILED"}
      /\ k = 2 => It.op = "mkfs" /\ It.want = {"SUCCESS"}
      /\ k = 3 => It.op = "fsck" /\ It.want = {"SUCCESS"}
      /\ k = 4 => It.op = "mount" /\ It.want = {"SUCCESS"}
  BY DEF MountCalls, FsCall
<1>3. files_opened = 0 /\ super_open = FALSE /\ Idle /\ media = IF k <= 2 THEN Unformatted ELSE StoreOf(0)
  BY DEF Mounting, Blank, Idle
<1>4. CASE k = 0
  <2>1. Mount /\ (last'.ret = "FAILED" => verdict' = "running")
    BY <1>2, <1>4, FsDue
  <2>2. Nothing("mount", "FAILED")
    BY <1>1, <1>3, <1>4, <2>1 DEF Mount
  <2>. QED  BY <1>3, <1>4, <2>1, <2>2 DEF Nothing, Returns, ram, Mounting, Blank
<1>5. CASE k = 1
  <2>1. Fsck /\ (last'.ret = "FAILED" => verdict' = "running")
    BY <1>2, <1>5, FsDue
  <2>2. Nothing("fsck", "FAILED")
    BY <1>1, <1>3, <1>5, <2>1 DEF Fsck
  <2>. QED  BY <1>3, <1>5, <2>1, <2>2 DEF Nothing, Returns, ram, Mounting, Blank
<1>6. CASE k = 2
  <2>1. Mkfs /\ (last'.ret = "SUCCESS" => verdict' = "running")
    BY <1>2, <1>6, FsDue
  <2>2. media' = Fresh /\ Returns("mkfs", "SUCCESS") /\ UNCHANGED ram
    BY <1>1, <1>3, <1>6, <2>1 DEF Mkfs
  <2>. QED  BY <1>1, <1>3, <1>6, <2>1, <2>2 DEF Returns, ram, Mounting
<1>7. CASE k = 3
  <2>1. Fsck /\ (last'.ret = "SUCCESS" => verdict' = "running")
    BY <1>2, <1>7, FsDue
  <2>2. Nothing("fsck", "SUCCESS")
    BY <1>1, <1>3, <1>7, <2>1 DEF Fsck
  <2>. QED  BY <1>3, <1>7, <2>1, <2>2 DEF Nothing, Returns, ram, Mounting
<1>8. CASE k = 4
  <2>1. Mount /\ (last'.ret = "SUCCESS" => verdict' = "running")
    BY <1>2, <1>8, FsDue
  <2>2. Returns("mount", "SUCCESS") /\ UNCHANGED <<media, fat>>
    BY <1>1, <1>3, <1>8, <2>1 DEF Mount, Nothing, ram
  <2>. QED  BY <1>3, <1>8, <2>1, <2>2 DEF Returns, Mounting
<1>. QED  BY <1>4, <1>5, <1>6, <1>7, <1>8

-----------------------------------------------------------------------------
(* file_creation_test(): a mounted store with n files, those of open open. *)
One(b) == IF b THEN 1 ELSE 0
Count(open) == 1 + One(0 \in open) + One(1 \in open) + One(2 \in open)
OpenFile(i) == \E t : fat[i] = At(StartOf(i), SizeOf(i), t)
Opens(n, open) ==
  /\ media = StoreOf(n) /\ super_open = TRUE /\ files_opened = Count(open)
  /\ open \subseteq 0 .. n - 1
  /\ \A i \in Slots : IF i \in open THEN OpenFile(i) ELSE fat[i] = Closed

LEMMA Counts ==
  ASSUME NEW open, NEW k \in 0 .. 2
  PROVE  /\ Count(open) \in 1 .. 4
         /\ k \notin open => Count(open \cup {k}) = Count(open) + 1 /\ Count(open) <= 3
         /\ k \in open => Count(open \ {k}) = Count(open) - 1 /\ Count(open) > 1
         /\ Count({}) = 1
  BY DEF Count, One

LEMMA StoreDf ==
  ASSUME DeviceSuits, NEW n \in 0 .. 3
  PROVE  /\ Df(StoreOf(n)) = Capacity - StartOf(n)
         /\ n > 0 => End(StoreOf(n).toc[n - 1]) = StartOf(n)
<1>1. PICK m : m = StoreOf(n)
  OBVIOUS
<1>2. m.cnt = n
  BY <1>1 DEF StoreOf
<1>3. CASE n = 0
  BY <1>1, <1>2, <1>3, Suits DEF Df, StartOf
<1>4. CASE n > 0
  <2>1. PICK k \in 0 .. 2 : k = n - 1 /\ k + 1 = n /\ k < n
    <3>1. n - 1 \in 0 .. 2
      BY <1>4
    <3>. QED  BY <3>1
  <2>2. m.toc[k] = ItemOf(k)
    BY <1>1, <2>1, Suits DEF StoreOf
  <2>3. End(ItemOf(k)) = StartOf(k) + SizeOf(k)
    <3>1. PICK item : item = ItemOf(k)
      OBVIOUS
    <3>. QED  BY <3>1 DEF ItemOf, End
  <2>4. End(m.toc[n - 1]) = StartOf(n)
    BY <2>1, <2>2, <2>3, Suits
  <2>. QED  BY <1>1, <1>2, <1>4, <2>4 DEF Df
<1>. QED  BY <1>3, <1>4

LEMMA StoreGrows ==
  ASSUME DeviceSuits, NEW k \in 0 .. 2
  PROVE  /\ NewItem(StoreOf(k), TestName[k], SizeOf(k)) = ItemOf(k)
         /\ Seal(WriteTocItem(StoreOf(k), ItemOf(k), k)) = StoreOf(k + 1)
         /\ End(ItemOf(k)) <= Capacity
<1>1. PICK m : m = StoreOf(k)
  OBVIOUS
<1>2. m.cnt = k
  BY <1>1 DEF StoreOf
<1>3. (IF m.cnt # 0 THEN End(m.toc[m.cnt - 1]) % U16 ELSE SuperSize) = StartOf(k)
  <2>1. CASE k = 0
    BY <1>2, <2>1, Suits DEF StartOf
  <2>2. CASE k # 0
    <3>1. End(m.toc[k - 1]) = StartOf(k) /\ k # 0
      BY <1>1, <2>2, StoreDf
    <3>2. PICK a : a = StartOf(k)
      OBVIOUS
    <3>3. a \in Nat /\ a < U16 /\ U16 \in Nat
      BY <3>2, Suits
    <3>4. a % U16 = a
      BY <3>3
    <3>. QED  BY <1>2, <3>1, <3>2, <3>4
  <2>. QED  BY <2>1, <2>2
<1>4. SizeOf(k) % U16 = SizeOf(k)
  <2>1. PICK a : a = SizeOf(k)
    OBVIOUS
  <2>2. StartOf(k) \in Nat /\ a \in Nat /\ StartOf(k) + a = StartOf(k + 1) /\ StartOf(k + 1) < Capacity
    BY <2>1, Suits
  <2>3. a \in Nat /\ a < U16 /\ U16 \in Nat
    BY <2>2, Suits
  <2>. QED  BY <2>1, <2>3
<1>5. NewItem(StoreOf(k), TestName[k], SizeOf(k)) = ItemOf(k)
  BY <1>1, <1>3, <1>4 DEF NewItem, ItemOf
<1>6. End(ItemOf(k)) <= Capacity
  <2>1. PICK item : item = ItemOf(k)
    OBVIOUS
  <2>2. End(item) = StartOf(k + 1)
    BY <2>1, Suits DEF ItemOf, End
  <2>3. StartOf(k + 1) < Capacity /\ StartOf(k + 1) \in Nat
    BY Suits
  <2>. QED  BY <2>1, <2>2, <2>3, Suits
<1>7. Seal(WriteTocItem(StoreOf(k), ItemOf(k), k)) = StoreOf(k + 1)
  <2>1. PICK item : item = ItemOf(k)
    OBVIOUS
  <2>2. (k + 1) % U8 = k + 1
    BY Suits
  <2>3. PICK toc : toc = [j \in Slots |-> IF j < k THEN ItemOf(j) ELSE EmptyItem]
    OBVIOUS
  <2>4. m = [magic |-> TRUE, cnt |-> k, toc |-> toc, sealed |-> TRUE]
    BY <1>1, <2>3 DEF StoreOf
  <2>5. PICK toc2 : toc2 = [toc EXCEPT ![k] = item]
    OBVIOUS
  <2>6. toc2 = [j \in Slots |-> IF j < k + 1 THEN ItemOf(j) ELSE EmptyItem]
    <3>1. \A j \in Slots : (j < k + 1) <=> (j < k \/ j = k)
      BY Suits
    <3>. QED  BY <2>1, <2>3, <2>5, <3>1
  <2>7. WriteTocItem(m, item, k) = [magic |-> TRUE, cnt |-> k + 1, toc |-> toc2, sealed |-> FALSE]
    <3>1. m.toc = toc
      BY <2>4
    <3>2. WriteTocItem(m, item, k) = [m EXCEPT !.toc = toc2, !.cnt = k + 1, !.sealed = FALSE]
      BY <2>2, <2>5, <3>1 DEF WriteTocItem
    <3>3. PICK w : w = [m EXCEPT !.toc = toc2, !.cnt = k + 1, !.sealed = FALSE]
      OBVIOUS
    <3>4. w = [magic |-> TRUE, cnt |-> k + 1, toc |-> toc2, sealed |-> FALSE]
      BY <2>4, <3>3
    <3>. QED  BY <3>2, <3>3, <3>4
  <2>8. Seal(WriteTocItem(m, item, k)) = [magic |-> TRUE, cnt |-> k + 1, toc |-> toc2, sealed |-> TRUE]
    <3>1. PICK w : w = [magic |-> TRUE, cnt |-> k + 1, toc |-> toc2, sealed |-> FALSE]
      OBVIOUS
    <3>2. PICK v : v = [w EXCEPT !.sealed = TRUE]
      OBVIOUS
    <3>3. v = [magic |-> TRUE, cnt |-> k + 1, toc |-> toc2, sealed |-> TRUE]
      BY <3>1, <3>2
    <3>4. Seal(WriteTocItem(m, item, k)) = v
      BY <2>7, <3>1, <3>2 DEF Seal
    <3>. QED  BY <3>3, <3>4
  <2>. QED  BY <1>1, <2>1, <2>6, <2>8 DEF StoreOf
<1>. QED  BY <1>5, <1>6, <1>7

LEMMA ClosedOpens ==
  ASSUME NEW k
  PROVE  Opened(Closed, ItemOf(k)) = At(StartOf(k), SizeOf(k), 0) /\ Closed.mtd = FALSE
<1>1. PICK item : item = ItemOf(k)
  OBVIOUS
<1>2. item.start = StartOf(k) /\ item.size = SizeOf(k)
  BY <1>1 DEF ItemOf
<1>3. PICK h : h = Closed
  OBVIOUS
<1>4. Opened(h, item) = At(StartOf(k), SizeOf(k), 0) /\ h.mtd = FALSE
  <2>1. PICK s, z : s = StartOf(k) /\ z = SizeOf(k)
    OBVIOUS
  <2>2. PICK g : g = [h EXCEPT !.mtd = TRUE, !.start = s, !.size = z]
    OBVIOUS
  <2>3. h = [mtd |-> FALSE, start |-> 0, size |-> 0, tip |-> 0]
    BY <1>3 DEF Closed
  <2>4. g = At(s, z, 0)
    BY <2>2, <2>3 DEF At
  <2>5. Opened(h, item) = g
    BY <1>2, <2>1, <2>2 DEF Opened
  <2>. QED  BY <2>1, <2>3, <2>4, <2>5
<1>. QED  BY <1>1, <1>3, <1>4

(* What opening file k does.                                               *)
LEMMA OpeningFile ==
  ASSUME DeviceSuits, NEW n \in 0 .. 3, NEW k \in 0 .. 2, k < n, NEW open, open \subseteq 0 .. n - 1, k \notin open,
         DOMAIN fat = Slots, super_open = TRUE, files_opened = Count(open),
         \A i \in Slots : IF i \in open THEN OpenFile(i) ELSE fat[i] = Closed,
         NEW call, OpenOn(call, StoreOf(n), TestName[k]), media' = StoreOf(n)
  PROVE  /\ Opens(n, open \cup {k})' /\ last'.ret = "file" /\ DOMAIN fat' = Slots
         /\ \A j \in Slots \ {k} : fat'[j] = fat[j]
<1>1. ~ Absent(StoreOf(n), TestName[k]) /\ k \in Slots /\ StoreOf(n).toc[k] = ItemOf(k)
  BY StoreFinds
<1>2. fat[k] = Closed /\ ~ fat[k].mtd
  BY <1>1, ClosedOpens
<1>3. /\ fat' = [fat EXCEPT ![k] = Opened(fat[k], StoreOf(n).toc[k])]
      /\ files_opened' = (files_opened + 1) % U8
      /\ Returns(call, "file")
      /\ UNCHANGED super_open
  <2>1. PICK id \in Slots :
          /\ FoundAt(StoreOf(n), TestName[k], id)
          /\ \/ /\ fat[id].mtd
                /\ Returns(call, "nullptr")
                /\ UNCHANGED ram
             \/ /\ ~ fat[id].mtd
                /\ fat' = [fat EXCEPT ![id] = Opened(fat[id], StoreOf(n).toc[id])]
                /\ files_opened' = (files_opened + 1) % U8
                /\ Returns(call, "file")
                /\ UNCHANGED super_open
    BY <1>1, Zenon DEF OpenOn
  <2>2. id = k
    BY <2>1, StoreFinds
  <2>. QED  BY <1>2, <2>1, <2>2
<1>4. fat' = [fat EXCEPT ![k] = At(StartOf(k), SizeOf(k), 0)]
  BY <1>1, <1>2, <1>3, ClosedOpens
<1>5. files_opened' = Count(open \cup {k})
  <2>1. PICK a \in 1 .. 3 : a = Count(open) /\ Count(open \cup {k}) = a + 1
    <3>1. Count(open) \in 1 .. 4 /\ Count(open) <= 3 /\ Count(open \cup {k}) = Count(open) + 1
      BY Counts, Zenon
    <3>. QED  BY <3>1
  <2>2. (a + 1) % U8 = a + 1
    BY Suits
  <2>. QED  BY <1>3, <2>1, <2>2
<1>6. /\ DOMAIN fat' = Slots /\ fat'[k] = At(StartOf(k), SizeOf(k), 0)
      /\ \A j \in Slots \ {k} : fat'[j] = fat[j]
  BY <1>1, <1>4
<1>7. \A i \in Slots : IF i \in open \cup {k} THEN OpenFile(i)' ELSE fat'[i] = Closed
  BY <1>6 DEF OpenFile
<1>8. open \cup {k} \subseteq 0 .. n - 1
  OBVIOUS
<1>. QED  BY <1>3, <1>5, <1>6, <1>7, <1>8 DEF Opens, Returns

-----------------------------------------------------------------------------
LEMMA OpensMounted == ASSUME NEW n, NEW open, Opens(n, open) PROVE Mounted
<1>1. Count(open) \in 1 .. 4 /\ files_opened = Count(open)
  BY Counts, 0 \in 0 .. 2, Zenon DEF Opens
<1>. QED  BY <1>1 DEF Mounted

LEMMA CreateFields ==
  ASSUME NEW k \in 0 .. 3, NEW want, It = Creates(k, want)
  PROVE  It.op = "create" /\ It.name = TestName[k] /\ It.size = SizeOf(k) /\ It.want = {want}
  BY DEF Creates, FileCall, SizeOf

LEMMA CreateFile ==
  ASSUME DeviceSuits, GoodStep, NEW k \in 0 .. 2, NEW open, Opens(k, open), It = Creates(k, "file")
  PROVE  Opens(k + 1, open \cup {k})' /\ DOMAIN fat' = Slots /\ verdict' = "running" /\ UNCHANGED <<mem, df>>
<1>1. It.op = "create" /\ It.name = TestName[k] /\ It.size = SizeOf(k) /\ It.want = {"file"}
  BY CreateFields
<1>2. Create(TestName[k], SizeOf(k)) /\ (last'.ret \in It.want => verdict' = "running") /\ UNCHANGED <<mem, df>>
  BY <1>1, FsDue
<1>3. /\ media = StoreOf(k) /\ super_open = TRUE /\ files_opened = Count(open) /\ open \subseteq 0 .. k - 1
      /\ \A i \in Slots : IF i \in open THEN OpenFile(i) ELSE fat[i] = Closed
  BY DEF Opens
<1>4. ~ Refused(media, TestName[k], SizeOf(k))
  <2>1. media.cnt = k
    BY <1>3 DEF StoreOf
  <2>2. ~ SizeOf(k) = 0
    BY Suits
  <2>3. ~ k = MaxFileCnt
    BY DEF DeviceSuits
  <2>4. Absent(media, TestName[k])
    BY <1>3, StoreFinds
  <2>5. TestName[k] \notin LongNames
    BY NamesDiffer
  <2>6. ~ End(NewItem(media, TestName[k], SizeOf(k))) > Capacity
    <3>1. NewItem(media, TestName[k], SizeOf(k)) = ItemOf(k) /\ End(ItemOf(k)) <= Capacity
      BY <1>3, StoreGrows
    <3>2. PICK a : a = End(ItemOf(k))
      OBVIOUS
    <3>3. a \in Int
      <4>1. PICK item : item = ItemOf(k)
        OBVIOUS
      <4>. QED  BY <3>2, <4>1, Suits DEF ItemOf, End
    <3>. QED  BY <3>1, <3>2, <3>3, Suits
  <2>. QED  BY <2>1, <2>2, <2>3, <2>4, <2>5, <2>6 DEF Refused
<1>5. /\ media' = Seal(WriteTocItem(media, NewItem(media, TestName[k], SizeOf(k)), media.cnt))
      /\ OpenOn("create", media', TestName[k])
  BY <1>2, <1>4, OpensMounted DEF Create
<1>6. media' = StoreOf(k + 1)
  <2>1. media.cnt = k
    BY <1>3 DEF StoreOf
  <2>. QED  BY <1>3, <1>5, <2>1, StoreGrows
<1>7. /\ Opens(k + 1, open \cup {k})' /\ last'.ret = "file" /\ DOMAIN fat' = Slots
  <2>1. PICK n \in 0 .. 3 : n = k + 1
    OBVIOUS
  <2>2. k < n /\ open \subseteq 0 .. n - 1 /\ k \notin open
    BY <1>3, <2>1
  <2>3. media' = StoreOf(n) /\ OpenOn("create", StoreOf(n), TestName[k])
    BY <1>5, <1>6, <2>1
  <2>4. Opens(n, open \cup {k})' /\ last'.ret = "file" /\ DOMAIN fat' = Slots
    BY <1>3, <2>2, <2>3, OpeningFile DEF GoodStep, Right
  <2>. QED  BY <2>1, <2>4
<1>. QED  BY <1>1, <1>2, <1>7

(* A call that changes no file.                                            *)
NothingDone == UNCHANGED <<mem, df, media, ram>> /\ verdict' = "running"

LEMMA KeepsOpens ==
  ASSUME NEW n, NEW open, Opens(n, open), NothingDone
  PROVE  Opens(n, open)' /\ UNCHANGED <<mem, df>> /\ verdict' = "running"
  BY DEF Opens, OpenFile, NothingDone, ram

LEMMA CreateRefused ==
  ASSUME DeviceSuits, GoodStep, NEW n \in 1 .. 3, NEW k \in {0, 3}, k = 3 => n = 3,
         NEW open, Opens(n, open), It = Creates(k, "nullptr")
  PROVE  NothingDone
<1>1. It.op = "create" /\ It.name = TestName[k] /\ It.size = SizeOf(k) /\ It.want = {"nullptr"}
  BY CreateFields
<1>2. Create(TestName[k], SizeOf(k)) /\ (last'.ret \in It.want => verdict' = "running") /\ UNCHANGED <<mem, df>>
  BY <1>1, FsDue
<1>3. media = StoreOf(n)
  BY DEF Opens
<1>4. Refused(media, TestName[k], SizeOf(k))
  <2>1. CASE k = 0
    <3>1. ~ Absent(media, TestName[k])
      BY <1>3, <2>1, StoreFinds
    <3>. QED  BY <3>1 DEF Refused
  <2>2. CASE k = 3
    <3>1. media.cnt = MaxFileCnt
      BY <1>3, <2>2 DEF StoreOf, DeviceSuits
    <3>. QED  BY <3>1 DEF Refused
  <2>. QED  BY <2>1, <2>2
<1>5. Nothing("create", "nullptr")
  BY <1>2, <1>4, OpensMounted DEF Create
<1>. QED  BY <1>1, <1>2, <1>5 DEF Nothing, Returns, NothingDone

LEMMA CloseFile ==
  ASSUME DeviceSuits, GoodStep, NEW n \in 0 .. 3, NEW k \in 0 .. 2, NEW open, Opens(n, open), k \in open,
         It = Closes(k)
  PROVE  Opens(n, open \ {k})' /\ DOMAIN fat' = Slots /\ verdict' = "running" /\ UNCHANGED <<mem, df>>
<1>1. It.op = "close" /\ It.name = TestName[k] /\ It.want = {"void"}
  BY DEF Closes, FileCall
<1>2. /\ \E i \in Slots : FoundAt(media, TestName[k], i) /\ Close(i)
      /\ last'.ret \in It.want => verdict' = "running"
      /\ UNCHANGED <<mem, df>>
  BY <1>1, FsDue
<1>3. /\ media = StoreOf(n) /\ super_open = TRUE /\ files_opened = Count(open) /\ open \subseteq 0 .. n - 1
      /\ \A i \in Slots : IF i \in open THEN OpenFile(i) ELSE fat[i] = Closed
  BY DEF Opens
<1>4. Close(k) /\ k \in Slots
  BY <1>2, <1>3, Suits, StoreFinds
<1>5. Count(open) > 1 /\ Count(open \ {k}) = Count(open) - 1 /\ Count(open) \in 1 .. 4
  BY Counts
<1>6. fat[k].mtd
  <2>1. PICK t : fat[k] = At(StartOf(k), SizeOf(k), t)
    BY <1>3, <1>4 DEF OpenFile
  <2>. QED  BY <2>1 DEF At
<1>7. ~ CloseIgnored(k)
  <2>1. ~ files_opened <= 1
    BY <1>3, <1>5
  <2>. QED  BY <1>6, <2>1 DEF CloseIgnored
<1>8. /\ fat' = [fat EXCEPT ![k] = Closed]
      /\ files_opened' = files_opened - 1
      /\ Returns("close", "void")
      /\ UNCHANGED <<media, super_open>>
  BY <1>4, <1>7, OpensMounted DEF Close
<1>9. DOMAIN fat = Slots
  BY DEF GoodStep, Right
<1>10. DOMAIN fat' = Slots /\ fat'[k] = Closed /\ \A j \in Slots \ {k} : fat'[j] = fat[j]
  BY <1>4, <1>8, <1>9
<1>11. \A i \in Slots : IF i \in open \ {k} THEN OpenFile(i)' ELSE fat'[i] = Closed
  BY <1>3, <1>10 DEF OpenFile
<1>12. Opens(n, open \ {k})'
  BY <1>3, <1>5, <1>8, <1>11 DEF Opens
<1>. QED  BY <1>1, <1>2, <1>8, <1>10, <1>12 DEF Returns

LEMMA OpenAgain ==
  ASSUME DeviceSuits, GoodStep, NEW n \in 1 .. 3, NEW open, Opens(n, open), 0 \notin open,
         It = FileCall("open", TestName[0], 0, {"file"})
  PROVE  Opens(n, open \cup {0})' /\ DOMAIN fat' = Slots /\ verdict' = "running" /\ UNCHANGED <<mem, df>>
<1>1. It.op = "open" /\ It.name = TestName[0] /\ It.want = {"file"}
  BY DEF FileCall
<1>2. Open(TestName[0]) /\ (last'.ret \in It.want => verdict' = "running") /\ UNCHANGED <<mem, df>>
  BY <1>1, FsDue
<1>3. /\ media = StoreOf(n) /\ super_open = TRUE /\ files_opened = Count(open) /\ open \subseteq 0 .. n - 1
      /\ \A i \in Slots : IF i \in open THEN OpenFile(i) ELSE fat[i] = Closed
  BY DEF Opens
<1>4. OpenOn("open", media, TestName[0]) /\ media' = media
  BY <1>2, OpensMounted DEF Open
<1>5. Opens(n, open \cup {0})' /\ last'.ret = "file" /\ DOMAIN fat' = Slots
  <2>1. PICK k \in 0 .. 2 : k = 0 /\ k < n /\ k \notin open
    <3>1. 0 \in 0 .. 2 /\ 0 < n
      OBVIOUS
    <3>. QED  BY <3>1
  <2>2. OpenOn("open", StoreOf(n), TestName[k]) /\ media' = StoreOf(n)
    BY <1>3, <1>4, <2>1
  <2>3. Opens(n, open \cup {k})' /\ last'.ret = "file" /\ DOMAIN fat' = Slots
    <3>1. n \in 0 .. 3 /\ DOMAIN fat = Slots
      BY DEF GoodStep, Right
    <3>2. k < n /\ k \notin open
      BY <2>1
    <3>. QED  BY <1>3, <2>2, <3>1, <3>2, OpeningFile, Zenon
  <2>. QED  BY <2>1, <2>3
<1>. QED  BY <1>1, <1>2, <1>5

LEMMA MountStore ==
  ASSUME DeviceSuits, GoodStep, It = FsCall("mount", Outcomes),
         media = StoreOf(0), files_opened = 0, super_open = FALSE, fat = [i \in Slots |-> Closed]
  PROVE  Opens(0, {})' /\ DOMAIN fat' = Slots /\ verdict' = "running" /\ UNCHANGED <<mem, df>>
<1>1. It.op = "mount" /\ It.want = Outcomes
  BY DEF FsCall
<1>2. Mount /\ (last'.ret \in It.want => verdict' = "running") /\ UNCHANGED <<mem, df>>
  BY <1>1, FsDue
<1>3. FsckOk(media) /\ Idle
  BY StorePasses DEF Idle
<1>4. super_open' = TRUE /\ files_opened' = 1 /\ Returns("mount", "SUCCESS") /\ UNCHANGED <<media, fat>>
  BY <1>2, <1>3 DEF Mount, Idle
<1>5. \A i \in Slots : fat'[i] = Closed
  BY <1>4
<1>6. Opens(0, {})'
  <2>1. Count({}) = 1
    BY Counts, 0 \in 0 .. 2, Zenon
  <2>. QED  BY <1>4, <1>5, <2>1 DEF Opens
<1>. QED  BY <1>1, <1>2, <1>4, <1>6 DEF Returns, Outcomes

Noted == df = Capacity - SuperSize

LEMMA DfNoted ==
  ASSUME DeviceSuits, GoodStep, It = NoteDf, NEW open, Opens(0, open)
  PROVE  Noted' /\ Opens(0, open)' /\ UNCHANGED <<fat, mem>> /\ verdict' = "running"
<1>1. It.op = "df"
  BY DEF NoteDf
<1>2. DfStep
  BY <1>1, DueOther DEF GoodStep
<1>3. df' = Df(media) /\ UNCHANGED <<verdict, vars, mem>>
  BY <1>1, <1>2 DEF DfStep, Now
<1>4. media = StoreOf(0) /\ StartOf(0) = SuperSize
  BY Suits DEF Opens, StartOf
<1>5. Noted'
  BY <1>3, <1>4, StoreDf DEF Noted
<1>6. UNCHANGED <<media, files_opened, super_open, fat, mem>> /\ verdict' = "running"
  BY <1>3 DEF vars, GoodStep, More
<1>7. Opens(0, open)'
  BY <1>6 DEF Opens, OpenFile
<1>. QED  BY <1>5, <1>6, <1>7

LEMMA DfTaken ==
  ASSUME DeviceSuits, GoodStep, NEW n \in 0 .. 3, NEW open, Opens(n, open), Noted,
         NEW taken \in Nat, StartOf(n) = SuperSize + taken, It = CheckDf(taken)
  PROVE  NothingDone
<1>1. It.op = "df2" /\ It.taken = taken
  BY DEF CheckDf
<1>2. DfStep
  BY <1>1, DueOther DEF GoodStep
<1>3. UNCHANGED <<df, vars, mem>> /\ Check(Df(media) = df - taken)
  BY <1>1, <1>2 DEF DfStep, Now
<1>4. Df(media) = Capacity - StartOf(n)
  BY StoreDf DEF Opens
<1>5. Df(media) = df - taken
  BY <1>4, Suits DEF Noted
<1>. QED  BY <1>3, <1>5 DEF Check, NothingDone, vars, ram

LEMMA Looking ==
  ASSUME GoodStep, It = Look(ctx)
  PROVE  NothingDone
<1>1. It.op = "read" /\ It.at = 0 /\ It.n = ctx.len /\ It.cmp = 0
  BY CallFields DEF Look
<1>2. PICK len \in Nat : len = ctx.len /\ len <= Capacity
  BY LenInside DEF GoodStep, Right, SuitePlace
<1>3. \A x \in 0 .. It.cmp - 1 : mem[It.at + x] = It.ref[x]
  BY <1>1
<1>4. verdict' = "running" /\ UNCHANGED <<vars, mem, df>>
  BY <1>1, <1>2, <1>3, SizesAssumption, RawRead
<1>. QED  BY <1>4 DEF NothingDone, vars, ram

-----------------------------------------------------------------------------
(* file_creation_test() before call k + 1 of its parts.                    *)
Starting(k) ==
  /\ k <= 1 => media = StoreOf(0)
  /\ k = 1 => files_opened = 0 /\ super_open = FALSE /\ fat = [i \in Slots |-> Closed]
  /\ k \in 2 .. 3 => Opens(0, {})
  /\ k >= 4 => Opens(1, {0})
  /\ k >= 3 => Noted

LEMMA SomeSets == {} \cup {0} = {0} /\ {0} \ {0} = {} /\ {} \cup {1} = {1} /\ {1} \cup {2} = {1, 2}
                  /\ {1, 2} \ {1} = {2} /\ {2} \ {2} = {}
  OBVIOUS

LEMMA StartingStep ==
  ASSUME DeviceSuits, GoodStep, NEW k \in 0 .. 5, Starting(k), It = CreationStart(ctx)[k + 1]
  PROVE  Starting(k + 1)' /\ DOMAIN fat' = Slots /\ verdict' = "running"
<1>1. /\ k = 0 => It = FsCall("new", {"void"})
      /\ k = 1 => It = FsCall("mount", Outcomes)
      /\ k = 2 => It = NoteDf
      /\ k = 3 => It = Creates(0, "file")
      /\ k = 4 => It = CheckDf(BigFile)
      /\ k = 5 => It = Look(ctx)
  BY DEF CreationStart
<1>2. DOMAIN fat = Slots
  BY DEF GoodStep, Right
<1>3. CASE k = 0
  <2>1. /\ files_opened' = 0 /\ super_open' = FALSE /\ fat' = [i \in Slots |-> Closed]
        /\ verdict' = "running" /\ UNCHANGED media
    BY <1>1, <1>3, NewFs
  <2>. QED  BY <1>3, <2>1 DEF Starting
<1>4. CASE k = 1
  <2>1. Opens(0, {})' /\ DOMAIN fat' = Slots /\ verdict' = "running"
    <3>1. /\ media = StoreOf(0) /\ files_opened = 0 /\ super_open = FALSE
          /\ fat = [i \in Slots |-> Closed] /\ It = FsCall("mount", Outcomes)
      BY <1>1, <1>4 DEF Starting
    <3>. QED  BY <3>1, MountStore, Zenon
  <2>. QED  BY <1>4, <2>1 DEF Starting
<1>5. CASE k = 2
  <2>1. Noted' /\ Opens(0, {})' /\ UNCHANGED fat /\ verdict' = "running"
    BY <1>1, <1>5, DfNoted DEF Starting
  <2>. QED  BY <1>2, <1>5, <2>1 DEF Starting
<1>6. CASE k = 3
  <2>1. PICK j \in 0 .. 2 : j = 0
    OBVIOUS
  <2>2. Opens(j, {}) /\ Noted /\ It = Creates(j, "file")
    BY <1>1, <1>6, <2>1 DEF Starting
  <2>3. Opens(j + 1, {} \cup {j})' /\ DOMAIN fat' = Slots /\ verdict' = "running" /\ UNCHANGED df
    BY <2>2, CreateFile
  <2>4. Opens(1, {0})'
    BY <2>1, <2>3, SomeSets
  <2>. QED  BY <1>6, <2>2, <2>3, <2>4 DEF Starting, Noted
<1>7. CASE k = 4
  <2>1. PICK n \in 0 .. 3 : n = 1
    OBVIOUS
  <2>2. Opens(n, {0}) /\ Noted
    BY <1>7, <2>1 DEF Starting
  <2>3. BigFile \in Nat /\ StartOf(n) = SuperSize + BigFile
    BY <2>1, Suits DEF StartOf
  <2>4. NothingDone
    BY <1>1, <1>7, <2>2, <2>3, DfTaken
  <2>5. Opens(n, {0})' /\ UNCHANGED df /\ verdict' = "running"
    BY <2>2, <2>4, KeepsOpens
  <2>. QED  BY <1>2, <1>7, <2>1, <2>2, <2>4, <2>5 DEF Starting, Noted, NothingDone, ram
<1>8. CASE k = 5
  <2>1. Opens(1, {0}) /\ Noted
    BY <1>8 DEF Starting
  <2>2. NothingDone
    BY <1>1, <1>8, Looking
  <2>3. Opens(1, {0})' /\ UNCHANGED df /\ verdict' = "running"
    BY <2>1, <2>2, KeepsOpens
  <2>. QED  BY <1>2, <1>8, <2>1, <2>2, <2>3 DEF Starting, Noted, NothingDone, ram
<1>. QED  BY <1>3, <1>4, <1>5, <1>6, <1>7, <1>8

(* file_test() on file j.                                                  *)
Testing(k, j, n, open) == Opens(n, open) /\ Noted /\ FileTestAt(k, j, StartOf(j), SizeOf(j))

LEMMA TestingBegins ==
  ASSUME DeviceSuits, NEW j, NEW n, NEW open, j \in open, open \subseteq 0 .. 2, Opens(n, open)', Noted'
  PROVE  Testing(0, j, n, open)'
<1>1. OpenFile(j)'
  BY Suits DEF Opens
<1>. QED  BY <1>1 DEF Testing, FileTestAt, OpenFile

LEMMA TestingStep ==
  ASSUME DeviceSuits, GoodStep, NEW n \in 1 .. 3, NEW j \in 0 .. 2, j < n, NEW open, j \in open,
         NEW k \in 0 .. 15, Testing(k, j, n, open), It = FileTest(TestName[j])[k + 1]
  PROVE  Testing(k + 1, j, n, open)' /\ DOMAIN fat' = Slots /\ verdict' = "running"
<1>1. Opens(n, open) /\ Noted /\ FileTestAt(k, j, StartOf(j), SizeOf(j))
  BY DEF Testing
<1>2. OnlyHandle(j)
  <2>1. It.name = TestName[j] /\ TestName[j] # Local
    BY FileTestCalls, NamesDiffer DEF Local
  <2>2. media = StoreOf(n)
    BY <1>1 DEF Opens
  <2>3. \A i \in Slots : FoundAt(StoreOf(n), TestName[j], i) => i = j
    BY StoreFinds
  <2>. QED  BY <2>1, <2>2, <2>3 DEF OnlyHandle, HandleOf
<1>3. j \in Slots
  BY Suits
<1>4. PICK s \in Nat, z \in Nat :
         /\ s = StartOf(j) /\ z = SizeOf(j)
         /\ z >= 14 /\ z < U16 /\ s + z <= Capacity /\ s >= SuperSize
  <2>1. PICK s, z : s = StartOf(j) /\ z = SizeOf(j)
    OBVIOUS
  <2>2. s \in Nat /\ z \in Nat /\ z >= 14 /\ s >= SuperSize /\ s + z = StartOf(j + 1)
    BY <2>1, Suits
  <2>3. j + 1 \in 0 .. 3 /\ StartOf(j + 1) < Capacity
    BY Suits
  <2>4. z < U16 /\ s + z <= Capacity
    BY <2>2, <2>3, Suits
  <2>. QED  BY <2>1, <2>2, <2>4
<1>5. FileTestAt(k, j, s, z)
  BY <1>1, <1>4
<1>6. s \in Nat /\ z \in Nat /\ z >= 14 /\ z < U16 /\ s + z <= Capacity /\ s >= SuperSize
  BY <1>4
<1>7. FileTestAt(k + 1, j, s, z)' /\ Elsewhere(j, s)
  BY <1>2, <1>3, <1>5, <1>6, FileTestStep
<1>8. OpenFile(j)'
  <2>1. fat'[j] = At(s, z, TipAt[k + 1])
    BY <1>7 DEF FileTestAt
  <2>. QED  BY <1>4, <2>1 DEF OpenFile
<1>9. /\ DOMAIN fat' = Slots /\ \A i \in Slots \ {j} : fat'[i] = fat[i]
      /\ verdict' = "running" /\ UNCHANGED <<files_opened, super_open, df, media>>
  BY <1>6, <1>7 DEF Elsewhere
<1>10. Opens(n, open)'
  <2>1. ASSUME NEW i \in Slots PROVE IF i \in open THEN OpenFile(i)' ELSE fat'[i] = Closed
    BY <1>1, <1>8, <1>9 DEF Opens, OpenFile
  <2>. QED  BY <1>1, <1>9, <2>1 DEF Opens
<1>. QED  BY <1>1, <1>4, <1>7, <1>9, <1>10 DEF Testing, Noted

Going(k) ==
  /\ Noted
  /\ k \in {0, 1, 3} => Opens(1, {0})
  /\ k \in {2, 4, 5} => Opens(1, {})
  /\ k \in {6, 7} => Opens(2, {1})
  /\ k \in 8 .. 10 => Opens(3, {1, 2})

LEMMA GoingStep ==
  ASSUME DeviceSuits, GoodStep, NEW k \in 0 .. 9, Going(k), It = CreationMiddle(ctx)[k + 1]
  PROVE  Going(k + 1)' /\ DOMAIN fat' = Slots /\ verdict' = "running"
<1>1. /\ k = 0 => It = Look(ctx)
      /\ k \in {1, 3} => It = Closes(0)
      /\ k = 2 => It = FileCall("open", TestName[0], 0, {"file"})
      /\ k = 4 => It = Creates(0, "nullptr")
      /\ k = 5 => It = Creates(1, "file")
      /\ k = 6 => It = CheckDf(BigFile + SmallFile)
      /\ k = 7 => It = Creates(2, "file")
      /\ k = 8 => It = CheckDf(BigFile + 2 * SmallFile)
      /\ k = 9 => It = Creates(3, "nullptr")
  BY DEF CreationMiddle
<1>2. DOMAIN fat = Slots /\ Noted
  BY DEF GoodStep, Right, Going
<1>3. NothingDone => DOMAIN fat' = Slots /\ Noted' /\ verdict' = "running"
  BY <1>2 DEF NothingDone, ram, Noted
<1>4. UNCHANGED df => Noted'
  BY <1>2 DEF Noted
<1>5. CASE k = 0
  <2>1. NothingDone /\ Opens(1, {0})
    BY <1>1, <1>5, Looking DEF Going
  <2>2. Opens(1, {0})'
    BY <2>1, KeepsOpens
  <2>. QED  BY <1>3, <1>5, <2>1, <2>2 DEF Going
<1>6. CASE k \in {1, 3}
  <2>1. PICK j \in 0 .. 2, n \in 0 .. 3 : j = 0 /\ n = 1
    OBVIOUS
  <2>2. Opens(n, {j}) /\ It = Closes(j)
    BY <1>1, <1>6, <2>1 DEF Going
  <2>3. Opens(n, {j} \ {j})' /\ DOMAIN fat' = Slots /\ verdict' = "running" /\ UNCHANGED df
    BY <2>2, CloseFile
  <2>4. Opens(1, {})'
    BY <2>1, <2>3, SomeSets
  <2>. QED  BY <1>4, <1>6, <2>3, <2>4 DEF Going
<1>7. CASE k = 2
  <2>1. PICK n \in 1 .. 3 : n = 1
    OBVIOUS
  <2>2. Opens(n, {}) /\ 0 \notin {}
    BY <1>7, <2>1 DEF Going
  <2>3. Opens(n, {} \cup {0})' /\ DOMAIN fat' = Slots /\ verdict' = "running" /\ UNCHANGED df
    BY <1>1, <1>7, <2>2, OpenAgain
  <2>4. Opens(1, {0})'
    BY <2>1, <2>3, SomeSets
  <2>. QED  BY <1>4, <1>7, <2>3, <2>4 DEF Going
<1>8. CASE k = 4
  <2>1. PICK n \in 1 .. 3, j \in {0, 3} : n = 1 /\ j = 0
    OBVIOUS
  <2>2. Opens(n, {}) /\ It = Creates(j, "nullptr") /\ (j = 3 => n = 3)
    BY <1>1, <1>8, <2>1 DEF Going
  <2>3. NothingDone
    BY <2>2, CreateRefused
  <2>4. Opens(n, {})'
    BY <2>2, <2>3, KeepsOpens
  <2>. QED  BY <1>3, <1>8, <2>1, <2>3, <2>4 DEF Going
<1>9. CASE k = 5
  <2>1. PICK j \in 0 .. 2 : j = 1
    OBVIOUS
  <2>2. Opens(j, {}) /\ It = Creates(j, "file")
    BY <1>1, <1>9, <2>1 DEF Going
  <2>3. Opens(j + 1, {} \cup {j})' /\ DOMAIN fat' = Slots /\ verdict' = "running" /\ UNCHANGED df
    BY <2>2, CreateFile
  <2>4. Opens(2, {1})'
    BY <2>1, <2>3, SomeSets
  <2>. QED  BY <1>4, <1>9, <2>3, <2>4 DEF Going
<1>10. CASE k = 6
  <2>1. PICK n \in 0 .. 3, taken \in Nat :
          n = 2 /\ taken = BigFile + SmallFile /\ StartOf(n) = SuperSize + taken
    BY Suits DEF StartOf
  <2>2. Opens(n, {1}) /\ It = CheckDf(taken)
    BY <1>1, <1>10, <2>1 DEF Going
  <2>3. StartOf(n) = SuperSize + taken
    BY <2>1
  <2>4. NothingDone
    BY <1>2, <2>2, <2>3, DfTaken
  <2>5. Opens(n, {1})'
    BY <2>2, <2>4, KeepsOpens
  <2>. QED  BY <1>3, <1>10, <2>1, <2>4, <2>5 DEF Going
<1>11. CASE k = 7
  <2>1. PICK j \in 0 .. 2 : j = 2
    OBVIOUS
  <2>2. Opens(j, {1}) /\ It = Creates(j, "file")
    BY <1>1, <1>11, <2>1 DEF Going
  <2>3. Opens(j + 1, {1} \cup {j})' /\ DOMAIN fat' = Slots /\ verdict' = "running" /\ UNCHANGED df
    BY <2>2, CreateFile
  <2>4. Opens(3, {1, 2})'
    BY <2>1, <2>3, SomeSets
  <2>. QED  BY <1>4, <1>11, <2>3, <2>4 DEF Going
<1>12. CASE k = 8
  <2>1. PICK n \in 0 .. 3, taken \in Nat :
          n = 3 /\ taken = BigFile + 2 * SmallFile /\ StartOf(n) = SuperSize + taken
    BY Suits DEF StartOf
  <2>2. Opens(n, {1, 2}) /\ It = CheckDf(taken)
    BY <1>1, <1>12, <2>1 DEF Going
  <2>3. StartOf(n) = SuperSize + taken
    BY <2>1
  <2>4. NothingDone
    BY <1>2, <2>2, <2>3, DfTaken
  <2>5. Opens(n, {1, 2})'
    BY <2>2, <2>4, KeepsOpens
  <2>. QED  BY <1>3, <1>12, <2>1, <2>4, <2>5 DEF Going
<1>13. CASE k = 9
  <2>1. PICK n \in 1 .. 3, j \in {0, 3} : n = 3 /\ j = 3
    OBVIOUS
  <2>2. Opens(n, {1, 2}) /\ It = Creates(j, "nullptr") /\ (j = 3 => n = 3)
    BY <1>1, <1>13, <2>1 DEF Going
  <2>3. NothingDone
    BY <2>2, CreateRefused
  <2>4. Opens(n, {1, 2})'
    BY <2>2, <2>3, KeepsOpens
  <2>. QED  BY <1>3, <1>13, <2>1, <2>3, <2>4 DEF Going
<1>. QED  BY <1>5, <1>6, <1>7, <1>8, <1>9, <1>10, <1>11, <1>12, <1>13

-----------------------------------------------------------------------------
ClosingCalls == <<Closes(1), Closes(2)>>
Closing(k) == (k = 0 => Opens(3, {1, 2})) /\ (k = 1 => Opens(3, {2})) /\ (k = 2 => media = StoreOf(3))

LEMMA ClosingStep ==
  ASSUME DeviceSuits, GoodStep, NEW k \in 0 .. 1, Closing(k), It = ClosingCalls[k + 1]
  PROVE  Closing(k + 1)' /\ DOMAIN fat' = Slots /\ verdict' = "running"
<1>1. /\ k = 0 => It = Closes(1)
      /\ k = 1 => It = Closes(2)
  BY DEF ClosingCalls
<1>2. PICK j \in 0 .. 2, n \in 0 .. 3, open \in SUBSET Nat :
         j = k + 1 /\ n = 3 /\ open = IF k = 0 THEN {1, 2} ELSE {2}
  <2>1. k + 1 \in 0 .. 2 /\ 3 \in 0 .. 3 /\ {1, 2} \in SUBSET Nat /\ {2} \in SUBSET Nat
    OBVIOUS
  <2>. QED  BY <2>1
<1>3. Opens(n, open) /\ It = Closes(j) /\ j \in open
  BY <1>1, <1>2 DEF Closing
<1>4. Opens(n, open \ {j})' /\ DOMAIN fat' = Slots /\ verdict' = "running"
  BY <1>3, CloseFile
<1>5. CASE k = 0
  <2>1. open \ {j} = {2}
    BY <1>2, <1>5
  <2>. QED  BY <1>2, <1>4, <1>5, <2>1 DEF Closing
<1>6. CASE k = 1
  BY <1>2, <1>4, <1>6 DEF Closing, Opens
<1>. QED  BY <1>5, <1>6

(* The last calls of TestSuite() before nvramset().                        *)
Leaving(k) == media = StoreOf(3) /\ (k >= 1 => files_opened = 0 /\ super_open = FALSE)

LEMMA LeavingStep ==
  ASSUME DeviceSuits, GoodStep, NEW k \in 0 .. 3, Leaving(k), It = LastCalls(ctx)[k + 1]
  PROVE  Leaving(k + 1)' /\ DOMAIN fat' = Slots /\ verdict' = "running"
<1>1. /\ k = 0 => It = FsCall("new", {"void"})
      /\ k = 1 => It.op = "umount" /\ It.want = {"SUCCESS"}
      /\ k = 2 => It.op = "fsck" /\ It.want = {"SUCCESS"}
      /\ k = 3 => It = Look(ctx)
  BY SMTT(30) DEF LastCalls, FsCall
<1>2. DOMAIN fat = Slots /\ media = StoreOf(3)
  BY DEF GoodStep, Right, Leaving
<1>3. k >= 1 => files_opened = 0 /\ super_open = FALSE /\ Idle /\ ~ files_opened > 1
  BY DEF Leaving, Idle
<1>4. CASE k = 0
  <2>1. /\ files_opened' = 0 /\ super_open' = FALSE /\ fat' = [i \in Slots |-> Closed]
        /\ verdict' = "running" /\ UNCHANGED media
    BY <1>1, <1>4, NewFs
  <2>. QED  BY <1>2, <1>4, <2>1 DEF Leaving
<1>5. CASE k = 1
  <2>1. Umount /\ (last'.ret \in It.want => verdict' = "running")
    BY <1>1, <1>5, FsDue
  <2>2. super_open' = FALSE /\ files_opened' = 0 /\ Returns("umount", "SUCCESS") /\ UNCHANGED <<media, fat>>
    BY <1>3, <1>5, <2>1 DEF Umount
  <2>. QED  BY <1>1, <1>2, <1>5, <2>1, <2>2 DEF Leaving, Returns
<1>6. CASE k = 2
  <2>1. Fsck /\ (last'.ret \in It.want => verdict' = "running")
    BY <1>1, <1>6, FsDue
  <2>2. FsckOk(media)
    BY <1>2, StorePasses
  <2>3. Nothing("fsck", "SUCCESS")
    BY <1>3, <1>6, <2>1, <2>2 DEF Fsck
  <2>. QED  BY <1>1, <1>2, <1>3, <1>6, <2>1, <2>3 DEF Leaving, Nothing, Returns, ram
<1>7. CASE k = 3
  <2>1. NothingDone
    BY <1>1, <1>7, Looking
  <2>. QED  BY <1>2, <1>3, <1>7, <2>1 DEF Leaving, NothingDone, ram
<1>. QED  BY <1>4, <1>5, <1>6, <1>7

(* nvramset() at the end and, unchecked, in mkfs_and_mount_test().         *)
LEMMA SetStep ==
  ASSUME GoodStep, NEW k \in 0 .. Len(NvramSet(ctx)) - 1,
         It = NvramSet(ctx)[k + 1] \/ It = NvramSetIgnored(ctx)[k + 1]
  PROVE  /\ verdict' = "running" /\ UNCHANGED ram
         /\ media = Unformatted => media' = Unformatted
<1>1. ctx \in Contexts /\ Len(NvramSet(ctx)) \in Nat
  BY NvramSetIsSeq, LengthIsNat DEF GoodStep, Right, SuitePlace
<1>2. PICK n \in Nat, size \in Nat \ {0} : n = Len(NvramSet(ctx)) /\ size = SetSize(ctx) /\ n = Capacity \div size
  BY <1>1, NvramSetIsSeq, Sizes DEF SetSize
<1>3. PICK p \in 1 .. n, at \in Nat : p = k + 1 /\ p - 1 = k /\ at = k * size /\ at + size <= Capacity
  <2>1. k \in Nat /\ k + 1 <= n
    BY <1>1, <1>2
  <2>2. k * size \in Nat /\ (k + 1) * size <= n * size /\ (k + 1) * size = k * size + size
    BY <2>1, TimesMonotone
  <2>3. n * size <= Capacity
    BY <1>2, Quotients, SizesAssumption
  <2>4. n * size \in Nat /\ Capacity \in Nat
    BY SizesAssumption
  <2>5. k * size + size <= Capacity
    BY <2>2, <2>3, <2>4
  <2>. QED  BY <2>1, <2>2, <2>5
<1>4. PICK call : call = MtdWrite(Fill(255), size, at)
  OBVIOUS
<1>5. NvramSet(ctx)[p] = call
  BY <1>1, <1>2, <1>3, <1>4, NvramSetIsSeq
<1>6. It = call \/ It = Ignored(call, k)
  BY <1>2, <1>3, <1>5 DEF NvramSetIgnored
<1>7. It.op \in {"write", "set"} /\ It.at = at /\ It.n = size
  <2>1. call.op = "write" /\ call.at = at /\ call.n = size
    BY <1>4, CallFields
  <2>2. PICK free : free = Ignored(call, k)
    OBVIOUS
  <2>3. free.op = "set" /\ free.at = call.at /\ free.n = call.n
    BY <2>2 DEF Ignored
  <2>. QED  BY <1>6, <2>1, <2>2, <2>3
<1>8. It.at \in Nat /\ It.n \in Nat /\ It.at + It.n <= Capacity
  BY <1>3, <1>7
<1>. QED  BY <1>7, <1>8, RawWrite, RawSet

-----------------------------------------------------------------------------
(* Where the parts of the script begin.                                    *)
Part(off, t, s) == off \in Nat /\ IsSeq(t) /\ \A k \in 1 .. Len(t) : s[off + k] = t[k]

LEMMA SplitPart ==
  ASSUME NEW off, NEW a, NEW b, NEW s, IsSeq(a), IsSeq(b), Part(off, a \o b, s),
         NEW n, n = Len(a)
  PROVE  n \in Nat /\ Part(off, a, s) /\ Part(off + n, b, s)
<1>1. PICK r : r = a \o b
  OBVIOUS
<1>2. PICK m : m = Len(b)
  OBVIOUS
<1>3. /\ off \in Nat /\ \A k \in 1 .. Len(r) : s[off + k] = r[k]
      /\ Len(r) = n + m /\ n \in Nat /\ m \in Nat
      /\ \A k \in 1 .. n : r[k] = a[k]
      /\ \A k \in 1 .. m : r[n + k] = b[k]
  BY <1>1, <1>2, InARow, LengthIsNat, SMTT(30) DEF Part
<1>4. ASSUME NEW k \in 1 .. n PROVE s[off + k] = a[k]
  <2>1. k \in 1 .. Len(r)
    BY <1>3
  <2>. QED  BY <1>3, <2>1
<1>5. ASSUME NEW k \in 1 .. m PROVE s[(off + n) + k] = b[k]
  <2>1. PICK j \in 1 .. Len(r) : j = n + k
    BY <1>3
  <2>2. (off + n) + k = off + j
    BY <1>3, <2>1
  <2>. QED  BY <1>3, <2>1, <2>2
<1>. QED  BY <1>2, <1>3, <1>4, <1>5 DEF Part

LEMMA PartCall ==
  ASSUME NEW off, NEW t, Part(off, t, Steps), NEW k \in 0 .. Len(t) - 1, pc = off + 1 + k
  PROVE  It = t[k + 1]
<1>1. off \in Nat /\ IsSeq(t) /\ Len(t) \in Nat /\ \A j \in 1 .. Len(t) : Steps[off + j] = t[j]
  BY LengthIsNat DEF Part
<1>2. PICK j \in 1 .. Len(t) : j = k + 1
  BY <1>1
<1>3. pc = off + j
  BY <1>1, <1>2
<1>4. It = t[j]
  BY <1>1, <1>3 DEF It
<1>. QED  BY <1>2, <1>4

Sets(c) == Len(NvramSet(c))
TransAt(c) == Len(RawCalls(c))
PutAt(c) == TransAt(c) + 12
MkfsAt(c) == PutAt(c) + 17
MountAt(c) == MkfsAt(c) + 1 + Sets(c)
FilesAt(c) == MountAt(c) + 5
EndsAt(c) == FilesAt(c) + 66
(* Bytes of the three tests of addres_translate_test().                    *)
TransSize(c, i) == LET n == IF Paged(c) THEN c.pagesize ELSE FramWrite
                   IN IF i = 0 THEN n ELSE IF i = 1 THEN n - 1 ELSE n + 1

LEMMA RawCallsIsSeq ==
  ASSUME NEW c \in Contexts
  PROVE  IsSeq(RawCalls(c)) /\ TransAt(c) \in Nat
  BY FullWriteEraseIsSeq, ExtrasIsSeq, InARow, LengthIsNat DEF RawCalls, TransAt

LEMMA FileTestIsSeq ==
  ASSUME NEW name
  PROVE  IsSeq(FileTest(name)) /\ Len(FileTest(name)) = 16
<1>. DEFINE C == {Seek(name), Put(name, U16Word), Put(name, U32Word), Put(name, U64Word),
                  Get(name, U16Word), Get(name, U32Word), Get(name, U64Word)}
<1>1. FileTest(name) \in Seq(C)
  BY DEF FileTest
<1>2. Len(FileTest(name)) = 16
  BY DEF FileTest
<1>. HIDE DEF C
<1>. QED  BY <1>1, <1>2 DEF IsSeq

LEMMA SmallLengths ==
  ASSUME NEW c
  PROVE  /\ \A n : Len(AddressTranslate(c, n)) = 4
         /\ Len(MountCalls) = 5 /\ Len(CreationStart(c)) = 6 /\ Len(CreationMiddle(c)) = 10
         /\ Len(ClosingCalls) = 2 /\ Len(LastCalls(c)) = 4
  BY DEF AddressTranslate, MountCalls, CreationStart, CreationMiddle, ClosingCalls, LastCalls

LEMMA PartLengths ==
  ASSUME NEW c \in Contexts
  PROVE  /\ Len(AddressTranslateTest(c)) = 12 /\ Len(FilePutTest) = 17
         /\ Sets(c) \in Nat /\ Len(MkfsAndMountTest(c)) = 6 + Sets(c)
         /\ Len(FileCreationTest(c)) = 66
<1>1. Len(AddressTranslateTest(c)) = 12
  <2>. DEFINE n == IF Paged(c) THEN c.pagesize ELSE FramWrite
  <2>1. PICK r1, r2, r3 : /\ r1 = AddressTranslate(c, n) /\ r2 = AddressTranslate(c, n - 1)
                          /\ r3 = AddressTranslate(c, n + 1)
    OBVIOUS
  <2>2. /\ IsSeq(r1) /\ IsSeq(r2) /\ IsSeq(r3)
        /\ Len(r1) = 4 /\ Len(r2) = 4 /\ Len(r3) = 4
    <3>1. \A m : IsSeq(AddressTranslate(c, m)) /\ Len(AddressTranslate(c, m)) = 4
      BY ShortTuples, SmallLengths DEF AddressTranslate
    <3>. QED  BY <2>1, <3>1
  <2>3. PICK r : r = r1 \o r2
    OBVIOUS
  <2>4. IsSeq(r) /\ Len(r) = 8
    <3>1. Joined(r1, r2, r, 4, 4)
      BY <2>2, <2>3, InARowJoined
    <3>. QED  BY <3>1 DEF Joined
  <2>5. PICK q : q = r \o r3
    OBVIOUS
  <2>6. Len(q) = 12
    <3>1. Joined(r, r3, q, 8, 4)
      BY <2>2, <2>4, <2>5, InARowJoined
    <3>. QED  BY <3>1 DEF Joined
  <2>. QED  BY <2>1, <2>3, <2>5, <2>6 DEF AddressTranslateTest
<1>2. Len(FilePutTest) = 17
  <2>1. PICK a, b : a = <<Ctor(0, Capacity)>> /\ b = FileTest(Local)
    OBVIOUS
  <2>2. IsSeq(a) /\ Len(a) = 1 /\ IsSeq(b) /\ Len(b) = 16
    BY <2>1, ShortTuples, FileTestIsSeq
  <2>3. PICK r : r = a \o b
    OBVIOUS
  <2>4. Len(r) = 17
    <3>1. Joined(a, b, r, 1, 16)
      BY <2>2, <2>3, InARowJoined
    <3>. QED  BY <3>1 DEF Joined
  <2>. QED  BY <2>1, <2>3, <2>4 DEF FilePutTest
<1>3. Sets(c) \in Nat /\ Len(MkfsAndMountTest(c)) = 6 + Sets(c)
  <2>1. PICK a, b : a = <<FsCall("new", {"void"})>> /\ b = NvramSetIgnored(c)
    OBVIOUS
  <2>2. PICK n \in Nat : n = Sets(c)
    BY NvramSetIsSeq, LengthIsNat DEF Sets
  <2>3. IsSeq(a) /\ Len(a) = 1 /\ IsSeq(b) /\ Len(b) = n
    BY <2>1, <2>2, ShortTuples, IgnoredIsSeq DEF Sets
  <2>4. IsSeq(MountCalls) /\ Len(MountCalls) = 5
    BY MountCallsFit, SmallLengths, 0 \in Nat
  <2>5. PICK r : r = a \o b
    OBVIOUS
  <2>6. IsSeq(r) /\ Len(r) = 1 + n
    <3>1. Joined(a, b, r, 1, n)
      BY <2>3, <2>5, InARowJoined
    <3>. QED  BY <3>1 DEF Joined
  <2>7. PICK q : q = r \o MountCalls
    OBVIOUS
  <2>8. Len(q) = 6 + n
    <3>1. Joined(r, MountCalls, q, 1 + n, 5)
      BY <2>4, <2>6, <2>7, InARowJoined
    <3>. QED  BY <3>1 DEF Joined
  <2>. QED  BY <2>1, <2>2, <2>5, <2>7, <2>8, MkfsAndMountTestIs
<1>4. Len(FileCreationTest(c)) = 66
  <2>1. PICK a, b, d, f, g, e :
          /\ a = CreationStart(c) /\ b = FileTest(TestName[0]) /\ d = CreationMiddle(c)
          /\ f = FileTest(TestName[1]) /\ g = FileTest(TestName[2]) /\ e = ClosingCalls
    OBVIOUS
  <2>2. /\ IsSeq(a) /\ Len(a) = 6 /\ IsSeq(d) /\ Len(d) = 10 /\ IsSeq(e) /\ Len(e) = 2
    BY <2>1, CreationFits, SmallLengths DEF ClosingCalls
  <2>3. IsSeq(b) /\ Len(b) = 16 /\ IsSeq(f) /\ Len(f) = 16 /\ IsSeq(g) /\ Len(g) = 16
    BY <2>1, FileTestIsSeq
  <2>4. PICK r : r = a \o b
    OBVIOUS
  <2>5. IsSeq(r) /\ Len(r) = 22
    <3>1. Joined(a, b, r, 6, 16)
      BY <2>2, <2>3, <2>4, InARowJoined
    <3>. QED  BY <3>1 DEF Joined
  <2>6. PICK q : q = r \o d
    OBVIOUS
  <2>7. IsSeq(q) /\ Len(q) = 32
    <3>1. Joined(r, d, q, 22, 10)
      BY <2>2, <2>5, <2>6, InARowJoined
    <3>. QED  BY <3>1 DEF Joined
  <2>8. PICK p : p = q \o f
    OBVIOUS
  <2>9. IsSeq(p) /\ Len(p) = 48
    <3>1. Joined(q, f, p, 32, 16)
      BY <2>3, <2>7, <2>8, InARowJoined
    <3>. QED  BY <3>1 DEF Joined
  <2>10. PICK o : o = p \o g
    OBVIOUS
  <2>11. IsSeq(o) /\ Len(o) = 64
    <3>1. Joined(p, g, o, 48, 16)
      BY <2>3, <2>9, <2>10, InARowJoined, ZenonT(40)
    <3>. QED  BY <3>1 DEF Joined
  <2>12. PICK w : w = o \o e
    OBVIOUS
  <2>13. Len(w) = 66
    <3>1. IsSeq(e) /\ Len(e) = 2
      BY <2>2
    <3>2. Len(w) = Len(o) + Len(e)
      BY <2>11, <2>12, <3>1, InARow, Zenon
    <3>. QED  BY <2>11, <3>1, <3>2
  <2>. QED  BY <2>1, <2>4, <2>6, <2>8, <2>10, <2>12, <2>13, FileCreationTestIs DEF ClosingCalls
<1>. QED  BY <1>1, <1>2, <1>3, <1>4

LEMMA MainParts ==
  ASSUME NEW c \in Contexts
  PROVE  /\ Part(0, RawCalls(c), Suite(c))
         /\ Part(TransAt(c), AddressTranslateTest(c), Suite(c))
         /\ Part(PutAt(c), FilePutTest, Suite(c))
         /\ Part(MkfsAt(c), MkfsAndMountTest(c), Suite(c))
         /\ Part(FilesAt(c), FileCreationTest(c), Suite(c))
         /\ Part(EndsAt(c), LastCalls(c), Suite(c))
         /\ Part(EndsAt(c) + 4, NvramSet(c), Suite(c))
         /\ Len(Suite(c)) = EndsAt(c) + 4 + Sets(c)
<1>. DEFINE f2 == RawCalls(c) \o AddressTranslateTest(c)
            f3 == f2 \o FilePutTest
            f4 == f3 \o MkfsAndMountTest(c)
            f5 == f4 \o FileCreationTest(c)
            f6 == f5 \o LastCalls(c)
            f7 == f6 \o NvramSet(c)
<1>1. Suite(c) = f7
  BY SuiteIs DEF Front, RawCalls
<1>2. /\ IsSeq(RawCalls(c)) /\ IsSeq(AddressTranslateTest(c)) /\ IsSeq(FilePutTest)
      /\ IsSeq(MkfsAndMountTest(c)) /\ IsSeq(FileCreationTest(c)) /\ IsSeq(LastCalls(c)) /\ IsSeq(NvramSet(c))
  BY RawCallsIsSeq, AddressTranslateIsSeq, FilePutTestFits, MkfsAndMountTestIsSeq, FileCreationTestFits,
     LastCallsFit, NvramSetIsSeq, Sizes
<1>3. IsSeq(f2) /\ Len(f2) = TransAt(c) + Len(AddressTranslateTest(c))
  BY <1>2, InARow DEF TransAt
<1>. HIDE DEF f2
<1>4. IsSeq(f3) /\ Len(f3) = Len(f2) + Len(FilePutTest)
  BY <1>2, <1>3, InARow
<1>. HIDE DEF f3
<1>5. IsSeq(f4) /\ Len(f4) = Len(f3) + Len(MkfsAndMountTest(c))
  BY <1>2, <1>4, InARow
<1>. HIDE DEF f4
<1>6. IsSeq(f5) /\ Len(f5) = Len(f4) + Len(FileCreationTest(c))
  BY <1>2, <1>5, InARow
<1>. HIDE DEF f5
<1>7. IsSeq(f6) /\ Len(f6) = Len(f5) + Len(LastCalls(c))
  BY <1>2, <1>6, InARow
<1>. HIDE DEF f6
<1>8. IsSeq(f7) /\ Len(f7) = Len(f6) + Sets(c)
  BY <1>2, <1>7, InARow DEF Sets
<1>9. /\ Len(f2) = PutAt(c) /\ Len(f3) = MkfsAt(c) /\ Len(f4) = FilesAt(c)
      /\ Len(f5) = EndsAt(c) /\ Len(f6) = EndsAt(c) + 4 /\ Len(f7) = EndsAt(c) + 4 + Sets(c)
  <2>1. TransAt(c) \in Nat /\ Len(LastCalls(c)) = 4
    BY RawCallsIsSeq, SmallLengths
  <2>2. PICK n \in Nat : n = Sets(c)
    BY PartLengths
  <2>3. /\ Len(AddressTranslateTest(c)) = 12 /\ Len(FilePutTest) = 17
        /\ Len(MkfsAndMountTest(c)) = 6 + n /\ Len(FileCreationTest(c)) = 66
    BY <2>2, PartLengths
  <2>4. /\ Len(f2) = PutAt(c) /\ Len(f3) = MkfsAt(c)
    BY <1>3, <1>4, <2>1, <2>3 DEF PutAt, MkfsAt
  <2>5. Len(f4) = FilesAt(c)
    <3>1. PICK t \in Nat : t = TransAt(c)
      BY <2>1
    <3>2. MkfsAt(c) = t + 29 /\ FilesAt(c) = t + 35 + n
      BY <2>2, <3>1 DEF PutAt, MkfsAt, MountAt, FilesAt
    <3>. QED  BY <1>5, <2>3, <2>4, <3>1, <3>2
  <2>6. Len(f5) = EndsAt(c) /\ EndsAt(c) \in Nat
    BY <1>6, <2>1, <2>2, <2>3, <2>5 DEF PutAt, MkfsAt, MountAt, FilesAt, EndsAt
  <2>. QED  BY <1>7, <1>8, <2>1, <2>2, <2>4, <2>5, <2>6
<1>10. Part(0, f7, f7)
  BY <1>8 DEF Part
<1>11. PICK s : s = f7
  OBVIOUS
<1>12. Part(0, f6, s) /\ Part(0 + (EndsAt(c) + 4), NvramSet(c), s) /\ EndsAt(c) + 4 \in Nat
  BY <1>2, <1>7, <1>9, <1>10, <1>11, SplitPart DEF f7
<1>13. Part(0, f5, s) /\ Part(0 + EndsAt(c), LastCalls(c), s) /\ EndsAt(c) \in Nat
  BY <1>2, <1>6, <1>9, <1>12, SplitPart DEF f6
<1>14. Part(0, f4, s) /\ Part(0 + FilesAt(c), FileCreationTest(c), s) /\ FilesAt(c) \in Nat
  BY <1>2, <1>5, <1>9, <1>13, SplitPart DEF f5
<1>15. Part(0, f3, s) /\ Part(0 + MkfsAt(c), MkfsAndMountTest(c), s) /\ MkfsAt(c) \in Nat
  BY <1>2, <1>4, <1>9, <1>14, SplitPart DEF f4
<1>16. Part(0, f2, s) /\ Part(0 + PutAt(c), FilePutTest, s) /\ PutAt(c) \in Nat
  BY <1>2, <1>3, <1>9, <1>15, SplitPart DEF f3
<1>17. Part(0, RawCalls(c), s) /\ Part(0 + TransAt(c), AddressTranslateTest(c), s) /\ TransAt(c) \in Nat
  BY <1>2, <1>16, SplitPart DEF f2, TransAt
<1>18. \A n \in Nat : 0 + n = n
  OBVIOUS
<1>. QED  BY <1>1, <1>9, <1>11, <1>12, <1>13, <1>14, <1>15, <1>16, <1>17, <1>18

-----------------------------------------------------------------------------
LEMMA SmallParts ==
  ASSUME NEW c \in Contexts
  PROVE  /\ Part(TransAt(c), AddressTranslate(c, TransSize(c, 0)), Suite(c))
         /\ Part(TransAt(c) + 4, AddressTranslate(c, TransSize(c, 1)), Suite(c))
         /\ Part(TransAt(c) + 8, AddressTranslate(c, TransSize(c, 2)), Suite(c))
         /\ Part(PutAt(c), <<Ctor(0, Capacity)>>, Suite(c))
         /\ Part(PutAt(c) + 1, FileTest(Local), Suite(c))
         /\ Part(MkfsAt(c), <<FsCall("new", {"void"})>>, Suite(c))
         /\ Part(MkfsAt(c) + 1, NvramSetIgnored(c), Suite(c))
         /\ Part(MountAt(c), MountCalls, Suite(c))
         /\ Part(FilesAt(c), CreationStart(c), Suite(c))
         /\ Part(FilesAt(c) + 6, FileTest(TestName[0]), Suite(c))
         /\ Part(FilesAt(c) + 22, CreationMiddle(c), Suite(c))
         /\ Part(FilesAt(c) + 32, FileTest(TestName[1]), Suite(c))
         /\ Part(FilesAt(c) + 48, FileTest(TestName[2]), Suite(c))
         /\ Part(FilesAt(c) + 64, ClosingCalls, Suite(c))
<1>1. PICK s : s = Suite(c)
  OBVIOUS
<1>2. /\ Part(TransAt(c), AddressTranslateTest(c), s) /\ Part(PutAt(c), FilePutTest, s)
      /\ Part(MkfsAt(c), MkfsAndMountTest(c), s) /\ Part(FilesAt(c), FileCreationTest(c), s)
  BY <1>1, MainParts
<1>3. \A name : IsSeq(FileTest(name)) /\ Len(FileTest(name)) = 16
  BY FileTestIsSeq
<1>4. /\ Part(TransAt(c), AddressTranslate(c, TransSize(c, 0)), s)
      /\ Part(TransAt(c) + 4, AddressTranslate(c, TransSize(c, 1)), s)
      /\ Part(TransAt(c) + 8, AddressTranslate(c, TransSize(c, 2)), s)
  <2>1. PICK a, b, d : /\ a = AddressTranslate(c, TransSize(c, 0)) /\ b = AddressTranslate(c, TransSize(c, 1))
                       /\ d = AddressTranslate(c, TransSize(c, 2))
    OBVIOUS
  <2>2. \A m : IsSeq(AddressTranslate(c, m)) /\ Len(AddressTranslate(c, m)) = 4
    BY ShortTuples, SmallLengths DEF AddressTranslate
  <2>3. IsSeq(a) /\ IsSeq(b) /\ IsSeq(d) /\ 4 = Len(a) /\ Len(b) = 4
    BY <2>1, <2>2
  <2>4. IsSeq(a \o b) /\ Len(a \o b) = 8
    <3>1. Len(a \o b) = Len(a) + Len(b) /\ IsSeq(a \o b)
      BY <2>3, InARow, Zenon
    <3>. QED  BY <2>3, <3>1
  <2>5. Part(TransAt(c), (a \o b) \o d, s)
    BY <1>2, <2>1 DEF AddressTranslateTest, TransSize
  <2>6. Part(TransAt(c), a \o b, s) /\ Part(TransAt(c) + 8, d, s)
    BY <2>3, <2>4, <2>5, SplitPart
  <2>7. Part(TransAt(c), a, s) /\ Part(TransAt(c) + 4, b, s)
    BY <2>3, <2>6, SplitPart
  <2>. QED  BY <2>1, <2>6, <2>7
<1>5. Part(PutAt(c), <<Ctor(0, Capacity)>>, s) /\ Part(PutAt(c) + 1, FileTest(Local), s)
  <2>1. PICK a, b : a = <<Ctor(0, Capacity)>> /\ b = FileTest(Local)
    OBVIOUS
  <2>2. IsSeq(a) /\ IsSeq(b) /\ 1 = Len(a)
    BY <1>3, <2>1, ShortTuples
  <2>3. Part(PutAt(c), a \o b, s)
    BY <1>2, <2>1 DEF FilePutTest
  <2>. QED  BY <2>1, <2>2, <2>3, SplitPart
<1>6. /\ Part(MkfsAt(c), <<FsCall("new", {"void"})>>, s) /\ Part(MkfsAt(c) + 1, NvramSetIgnored(c), s)
      /\ Part(MountAt(c), MountCalls, s)
  <2>1. PICK a, b : a = <<FsCall("new", {"void"})>> /\ b = NvramSetIgnored(c)
    OBVIOUS
  <2>2. PICK n \in Nat : n = Sets(c)
    BY PartLengths
  <2>3. IsSeq(a) /\ 1 = Len(a) /\ IsSeq(b) /\ Len(b) = n /\ IsSeq(MountCalls)
    BY <2>1, <2>2, ShortTuples, IgnoredIsSeq, MountCallsFit, 0 \in Nat DEF Sets
  <2>4. IsSeq(a \o b) /\ Len(a \o b) = 1 + n
    <3>1. Len(a \o b) = Len(a) + Len(b) /\ IsSeq(a \o b)
      BY <2>3, InARow, Zenon
    <3>. QED  BY <2>3, <3>1
  <2>5. Part(MkfsAt(c), (a \o b) \o MountCalls, s)
    BY <1>2, <2>1, MkfsAndMountTestIs
  <2>6. Part(MkfsAt(c), a \o b, s) /\ Part(MkfsAt(c) + (1 + n), MountCalls, s)
    BY <2>3, <2>4, <2>5, SplitPart
  <2>7. Part(MkfsAt(c), a, s) /\ Part(MkfsAt(c) + 1, b, s)
    BY <2>3, <2>6, SplitPart
  <2>8. MkfsAt(c) + (1 + n) = MountAt(c)
    BY <1>2, <2>2 DEF Part, MountAt
  <2>. QED  BY <2>1, <2>6, <2>7, <2>8
<1>7. /\ Part(FilesAt(c), CreationStart(c), s) /\ Part(FilesAt(c) + 6, FileTest(TestName[0]), s)
      /\ Part(FilesAt(c) + 22, CreationMiddle(c), s) /\ Part(FilesAt(c) + 32, FileTest(TestName[1]), s)
      /\ Part(FilesAt(c) + 48, FileTest(TestName[2]), s) /\ Part(FilesAt(c) + 64, ClosingCalls, s)
  <2>1. PICK a, b, d, u, v, e :
          /\ a = CreationStart(c) /\ b = FileTest(TestName[0]) /\ d = CreationMiddle(c)
          /\ u = FileTest(TestName[1]) /\ v = FileTest(TestName[2]) /\ e = ClosingCalls
    OBVIOUS
  <2>2. IsSeq(a) /\ 6 = Len(a) /\ Len(a) = 6
    BY <2>1, CreationFits, SmallLengths
  <2>13. IsSeq(b) /\ Len(b) = 16
    BY <1>3, <2>1
  <2>14. IsSeq(d) /\ Len(d) = 10
    BY <2>1, CreationFits, SmallLengths
  <2>15. IsSeq(u) /\ Len(u) = 16
    BY <1>3, <2>1
  <2>16. IsSeq(v) /\ Len(v) = 16
    BY <1>3, <2>1
  <2>17. IsSeq(e)
    BY <2>1, CreationFits DEF ClosingCalls
  <2>. DEFINE ab == a \o b
              abd == ab \o d
              abdf == abd \o u
              abdfg == abdf \o v
  <2>. HIDE DEF ab, abd, abdf, abdfg
  <2>3. IsSeq(ab) /\ Len(ab) = 22
    <3>1. IsSeq(a) /\ IsSeq(b)
      BY <2>2, <2>13
    <3>2. Len(ab) = Len(a) + Len(b) /\ IsSeq(ab)
      BY <3>1, InARow, Zenon DEF ab
    <3>. QED  BY <2>2, <2>13, <3>2
  <2>4. IsSeq(abd) /\ Len(abd) = 32
    <3>1. IsSeq(ab) /\ IsSeq(d)
      BY <2>3, <2>14
    <3>2. Len(abd) = Len(ab) + Len(d) /\ IsSeq(abd)
      BY <3>1, InARow, Zenon DEF abd
    <3>. QED  BY <2>3, <2>14, <3>2
  <2>5. IsSeq(abdf) /\ Len(abdf) = 48
    <3>1. IsSeq(abd) /\ IsSeq(u)
      BY <2>4, <2>15
    <3>2. Len(abdf) = Len(abd) + Len(u) /\ IsSeq(abdf)
      BY <3>1, InARow, Zenon DEF abdf
    <3>. QED  BY <2>4, <2>15, <3>2
  <2>6. IsSeq(abdfg) /\ Len(abdfg) = 64
    <3>1. IsSeq(abdf) /\ IsSeq(v)
      BY <2>5, <2>16
    <3>2. Len(abdfg) = Len(abdf) + Len(v) /\ IsSeq(abdfg)
      BY <3>1, InARow, Zenon DEF abdfg
    <3>. QED  BY <2>5, <2>16, <3>2
  <2>7. Part(FilesAt(c), abdfg \o e, s)
    BY <1>2, <2>1, FileCreationTestIs DEF abdfg, abdf, abd, ab, ClosingCalls
  <2>8. Part(FilesAt(c), abdfg, s) /\ Part(FilesAt(c) + 64, e, s)
    BY <2>6, <2>7, <2>17, SplitPart
  <2>9. Part(FilesAt(c), abdf, s) /\ Part(FilesAt(c) + 48, v, s)
    BY <2>5, <2>8, <2>16, SplitPart, ZenonT(40) DEF abdfg
  <2>10. Part(FilesAt(c), abd, s) /\ Part(FilesAt(c) + 32, u, s)
    BY <2>4, <2>9, <2>15, SplitPart DEF abdf
  <2>11. Part(FilesAt(c), ab, s) /\ Part(FilesAt(c) + 22, d, s)
    BY <2>3, <2>10, <2>14, SplitPart DEF abd
  <2>12. Part(FilesAt(c), a, s) /\ Part(FilesAt(c) + 6, b, s)
    BY <2>2, <2>11, <2>13, SplitPart DEF ab
  <2>. QED  BY <2>1, <2>8, <2>9, <2>10, <2>11, <2>12
<1>. QED  BY <1>1, <1>4, <1>5, <1>6, <1>7

-----------------------------------------------------------------------------
(* Where the suite stands, and what is true there.                         *)
InRaw == pc <= TransAt(ctx) /\ RawMemory /\ Blank
InTranslate(i, k) ==
  pc = (TransAt(ctx) + 4 * i) + 1 + k /\ Blank /\ Translating(k, TransSize(ctx, i))
InPut(k) == pc = PutAt(ctx) + 1 + k /\ Putting(k)
InNew == pc = MkfsAt(ctx) + 1 /\ Blank
InSet(k) == pc = (MkfsAt(ctx) + 1) + 1 + k /\ Blank
InMount(k) == pc = MountAt(ctx) + 1 + k /\ Mounting(k)
InStart(k) == pc = FilesAt(ctx) + 1 + k /\ Starting(k)
InTest0(k) == pc = (FilesAt(ctx) + 6) + 1 + k /\ Testing(k, 0, 1, {0})
InGoing(k) == pc = (FilesAt(ctx) + 22) + 1 + k /\ Going(k)
InTest1(k) == pc = (FilesAt(ctx) + 32) + 1 + k /\ Testing(k, 1, 3, {1, 2})
InTest2(k) == pc = (FilesAt(ctx) + 48) + 1 + k /\ Testing(k, 2, 3, {1, 2})
InClose(k) == pc = (FilesAt(ctx) + 64) + 1 + k /\ Closing(k)
InLeave(k) == pc = EndsAt(ctx) + 1 + k /\ Leaving(k)
InErase(k) == pc = (EndsAt(ctx) + 4) + 1 + k
Over == pc = EndsAt(ctx) + 4 + Sets(ctx) + 1

Progress ==
  \/ InRaw
  \/ \E i \in 0 .. 2, k \in 0 .. 3 : InTranslate(i, k)
  \/ \E k \in 0 .. 16 : InPut(k)
  \/ InNew
  \/ \E k \in 0 .. Sets(ctx) - 1 : InSet(k)
  \/ \E k \in 0 .. 4 : InMount(k)
  \/ \E k \in 0 .. 5 : InStart(k)
  \/ \E k \in 0 .. 15 : InTest0(k)
  \/ \E k \in 0 .. 9 : InGoing(k)
  \/ \E k \in 0 .. 15 : InTest1(k)
  \/ \E k \in 0 .. 15 : InTest2(k)
  \/ \E k \in 0 .. 1 : InClose(k)
  \/ \E k \in 0 .. 3 : InLeave(k)
  \/ \E k \in 0 .. Sets(ctx) - 1 : InErase(k)
  \/ Over

Suited == BuffersSuffice /\ WholeChunks /\ DeviceSuits
Fine == Progress /\ DOMAIN fat = Slots /\ verdict = "running"

LEMMA Offsets ==
  ASSUME WholeChunks, NEW c \in Contexts
  PROVE  /\ TransAt(c) \in Nat /\ Sets(c) \in Nat \ {0}
         /\ PutAt(c) = TransAt(c) + 12 /\ MkfsAt(c) = PutAt(c) + 17
         /\ MountAt(c) = MkfsAt(c) + 1 + Sets(c) /\ FilesAt(c) = MountAt(c) + 5 /\ EndsAt(c) = FilesAt(c) + 66
         /\ PutAt(c) \in Nat /\ MkfsAt(c) \in Nat /\ MountAt(c) \in Nat /\ FilesAt(c) \in Nat /\ EndsAt(c) \in Nat
<1>1. TransAt(c) \in Nat
  BY RawCallsIsSeq
<1>2. Sets(c) \in Nat \ {0}
  <2>1. PICK n \in Nat, size \in Nat : n = Sets(c) /\ size = SetSize(c) /\ n * size = Capacity
    BY WholeSets DEF Sets
  <2>2. Capacity # 0
    BY Sizes
  <2>3. n # 0
    BY <2>1, <2>2
  <2>. QED  BY <2>1, <2>3
<1>. QED  BY <1>1, <1>2 DEF PutAt, MkfsAt, MountAt, FilesAt, EndsAt

LEMMA StepFacts ==
  ASSUME GoodStep
  PROVE  /\ ctx \in Contexts /\ ctx' = ctx /\ pc' = pc + 1 /\ pc \in Nat /\ Steps = Suite(ctx)
  BY GoesOn DEF GoodStep, Right, SuitePlace, Steps, Called

LEMMA FirstTranslate ==
  ASSUME WholeChunks, ctx' \in Contexts, pc' = TransAt(ctx') + 1, Blank'
  PROVE  Progress'
<1>1. InTranslate(0, 0)'
  <2>1. TransAt(ctx') \in Nat
    BY Offsets
  <2>. QED  BY <2>1 DEF InTranslate, Translating
<1>. QED  BY <1>1 DEF Progress

LEMMA RawGoes ==
  ASSUME Suited, GoodStep, InRaw
  PROVE  Fine'
<1>1. ctx \in Contexts /\ ctx' = ctx /\ pc' = pc + 1 /\ pc \in Nat /\ Steps = Suite(ctx)
  BY StepFacts
<1>2. pc <= Len(RawCalls(ctx)) /\ pc >= 1 /\ Len(RawCalls(ctx)) \in Nat
  <2>1. pc # 0
    BY DEF GoodStep, Right, SuitePlace
  <2>. QED  BY <1>1, <2>1, RawCallsIsSeq DEF InRaw, TransAt
<1>3. It = RawCalls(ctx)[pc]
  <2>1. PICK k \in 0 .. Len(RawCalls(ctx)) - 1 : pc = 0 + 1 + k /\ k + 1 = pc
    <3>1. pc - 1 \in 0 .. Len(RawCalls(ctx)) - 1 /\ pc = 0 + 1 + (pc - 1) /\ (pc - 1) + 1 = pc
      BY <1>1, <1>2
    <3>. QED  BY <3>1
  <2>2. Part(0, RawCalls(ctx), Steps)
    BY <1>1, MainParts
  <2>3. It = RawCalls(ctx)[k + 1]
    BY <2>1, <2>2, PartCall
  <2>. QED  BY <2>1, <2>3
<1>4. /\ RawMemory' /\ verdict' = "running" /\ UNCHANGED <<ram, last>>
      /\ media = Unformatted => media' = Unformatted
  BY <1>2, <1>3, RawStep DEF Suited, InRaw
<1>5. Blank' /\ DOMAIN fat' = Slots
  BY <1>4 DEF InRaw, Blank, ram, GoodStep, Right
<1>6. Progress'
  <2>1. CASE pc + 1 <= TransAt(ctx)
    BY <1>1, <1>4, <1>5, <2>1 DEF Progress, InRaw
  <2>2. CASE ~ pc + 1 <= TransAt(ctx)
    <3>1. pc' = TransAt(ctx') + 1
      BY <1>1, <1>2, <2>2 DEF TransAt
    <3>. QED  BY <1>1, <1>5, <3>1, FirstTranslate DEF Suited
  <2>. QED  BY <2>1, <2>2
<1>. QED  BY <1>4, <1>5, <1>6 DEF Fine

LEMMA TransSizes ==
  ASSUME BuffersSuffice, DeviceSuits, NEW c \in Contexts, NEW i \in 0 .. 2
  PROVE  TransSize(c, i) \in Nat /\ 2 * TransSize(c, i) < U16 /\ TestOffset + TransSize(c, i) <= c.len
<1>1. PICK n \in Nat \ {0} : n = IF Paged(c) THEN c.pagesize ELSE FramWrite
  BY Sizes
<1>2. TestOffset \in Nat /\ c.len \in Nat /\ U16 \in Nat
  BY Sizes, SizesAssumption
<1>3. TestOffset + n + 1 <= c.len
  BY <1>1 DEF BuffersSuffice
<1>4. 2 * n + 2 < U16
  BY <1>1 DEF DeviceSuits
<1>5. PICK m \in Nat : m = TransSize(c, i) /\ m <= n + 1
  <2>1. TransSize(c, i) = IF i = 0 THEN n ELSE IF i = 1 THEN n - 1 ELSE n + 1
    BY <1>1 DEF TransSize
  <2>. QED  BY <2>1
<1>. QED  BY <1>2, <1>3, <1>4, <1>5

LEMMA TranslateGoes ==
  ASSUME Suited, GoodStep, NEW i \in 0 .. 2, NEW k \in 0 .. 3, InTranslate(i, k)
  PROVE  Fine'
<1>1. ctx \in Contexts /\ ctx' = ctx /\ pc' = pc + 1 /\ pc \in Nat /\ Steps = Suite(ctx)
  BY StepFacts
<1>2. PICK at \in Nat : at = TransAt(ctx)
  BY <1>1, RawCallsIsSeq
<1>3. pc = (at + 4 * i) + 1 + k /\ Blank /\ Translating(k, TransSize(ctx, i))
  BY <1>2 DEF InTranslate
<1>4. PICK n \in Nat : n = TransSize(ctx, i)
  BY <1>1, TransSizes DEF Suited
<1>5. 2 * n < U16 /\ TestOffset + n <= ctx.len
  BY <1>1, <1>4, TransSizes DEF Suited
<1>6. It = AddressTranslate(ctx, n)[k + 1]
  <2>1. Part(at + 4 * i, AddressTranslate(ctx, n), Steps)
    <3>1. CASE i = 0
      BY <1>1, <1>2, <1>4, <3>1, SmallParts
    <3>2. CASE i = 1
      BY <1>1, <1>2, <1>4, <3>2, SmallParts
    <3>3. CASE i = 2
      BY <1>1, <1>2, <1>4, <3>3, SmallParts
    <3>. QED  BY <3>1, <3>2, <3>3
  <2>2. k \in 0 .. Len(AddressTranslate(ctx, n)) - 1
    <3>1. Len(AddressTranslate(ctx, n)) = 4
      BY SmallLengths, Zenon
    <3>. QED  BY <3>1
  <2>. QED  BY <1>3, <2>1, <2>2, PartCall
<1>7. /\ k < 3 => Translating(k + 1, n)'
      /\ Blank' /\ DOMAIN fat' = Slots /\ verdict' = "running"
  BY <1>3, <1>4, <1>5, <1>6, TranslateStep DEF Suited, DeviceSuits
<1>8. Progress'
  <2>1. CASE k < 3
    <3>1. k + 1 \in 0 .. 3 /\ pc' = (at + 4 * i) + 1 + (k + 1)
      BY <1>1, <1>3, <2>1
    <3>2. InTranslate(i, k + 1)'
      BY <1>1, <1>2, <1>4, <1>7, <2>1, <3>1 DEF InTranslate
    <3>. QED  BY <3>1, <3>2 DEF Progress
  <2>2. CASE k = 3 /\ i < 2
    <3>1. i + 1 \in 0 .. 2 /\ pc' = (at + 4 * (i + 1)) + 1 + 0
      BY <1>1, <1>3, <2>2
    <3>2. InTranslate(i + 1, 0)'
      BY <1>1, <1>2, <1>7, <3>1 DEF InTranslate, Translating
    <3>. QED  BY <3>1, <3>2 DEF Progress
  <2>3. CASE k = 3 /\ i = 2
    <3>1. pc' = PutAt(ctx') + 1 + 0
      BY <1>1, <1>2, <1>3, <2>3 DEF PutAt
    <3>2. InPut(0)'
      BY <1>7, <3>1 DEF InPut, Putting
    <3>. QED  BY <3>2 DEF Progress
  <2>. QED  BY <2>1, <2>2, <2>3
<1>. QED  BY <1>7, <1>8 DEF Fine

-----------------------------------------------------------------------------
(* Call k + 1 of a part of the script, and the place of the call after it. *)
LEMMA CallAt ==
  ASSUME GoodStep, NEW off, NEW t, Part(off, t, Suite(ctx)), NEW n \in Nat, Len(t) = n,
         NEW k \in 0 .. n - 1, pc = off + 1 + k
  PROVE  /\ It = t[k + 1] /\ pc' = off + 1 + (k + 1) /\ off \in Nat
         /\ ctx \in Contexts /\ ctx' = ctx /\ DOMAIN fat = Slots
<1>1. ctx \in Contexts /\ ctx' = ctx /\ pc' = pc + 1 /\ pc \in Nat /\ Steps = Suite(ctx)
  BY StepFacts
<1>2. Part(off, t, Steps)
  BY <1>1
<1>3. It = t[k + 1]
  BY <1>2, PartCall
<1>4. off \in Nat
  BY DEF Part
<1>. QED  BY <1>1, <1>3, <1>4 DEF GoodStep, Right

LEMMA PutGoes ==
  ASSUME Suited, GoodStep, NEW k \in 0 .. 16, InPut(k)
  PROVE  Fine'
<1>1. PICK at \in Nat : at = PutAt(ctx)
  BY StepFacts, Offsets DEF Suited
<1>2. pc = at + 1 + k /\ Putting(k)
  BY <1>1 DEF InPut
<1>3. ctx \in Contexts /\ ctx' = ctx /\ pc' = at + 1 + (k + 1) /\ pc' = pc + 1
  BY <1>1, <1>2, StepFacts
<1>4. It = IF k = 0 THEN Ctor(0, Capacity) ELSE FileTest(Local)[k]
  <2>1. CASE k = 0
    <3>1. PICK t : t = <<Ctor(0, Capacity)>>
      OBVIOUS
    <3>2. Part(at, t, Suite(ctx))
      BY <1>1, <1>3, <3>1, SmallParts
    <3>3. Len(t) = 1 /\ t[1] = Ctor(0, Capacity)
      BY <3>1
    <3>4. It = t[0 + 1]
      BY <1>2, <2>1, <3>2, <3>3, CallAt
    <3>. QED  BY <2>1, <3>3, <3>4
  <2>2. CASE k # 0
    <3>1. Part(at + 1, FileTest(Local), Suite(ctx))
      BY <1>1, <1>3, SmallParts
    <3>2. Len(FileTest(Local)) = 16
      BY FileTestIsSeq
    <3>3. PICK j \in 0 .. 15 : j + 1 = k
      <4>1. k - 1 \in 0 .. 15 /\ (k - 1) + 1 = k
        BY <2>2
      <4>. QED  BY <4>1
    <3>4. pc = (at + 1) + 1 + j
      BY <1>2, <3>3
    <3>5. It = FileTest(Local)[j + 1]
      <4>1. j \in 0 .. 16 - 1 /\ 16 \in Nat
        OBVIOUS
      <4>. QED  BY <3>1, <3>2, <3>4, <4>1, CallAt
    <3>. QED  BY <2>2, <3>3, <3>5
  <2>. QED  BY <2>1, <2>2
<1>5. Putting(k + 1)' /\ DOMAIN fat' = Slots /\ verdict' = "running"
  BY <1>2, <1>4, PuttingStep DEF Suited
<1>6. Progress'
  <2>1. CASE k < 16
    <3>1. k + 1 \in 0 .. 16 /\ InPut(k + 1)'
      BY <1>1, <1>3, <1>5, <2>1 DEF InPut
    <3>. QED  BY <3>1 DEF Progress
  <2>2. CASE k = 16
    <3>1. Blank'
      BY <1>5 DEF Putting
    <3>2. pc' = MkfsAt(ctx') + 1
      BY <1>1, <1>3, <2>2 DEF MkfsAt
    <3>. QED  BY <3>1, <3>2 DEF Progress, InNew
  <2>. QED  BY <2>1, <2>2
<1>. QED  BY <1>5, <1>6 DEF Fine

LEMMA NewGoes ==
  ASSUME Suited, GoodStep, InNew
  PROVE  Fine'
<1>1. PICK at \in Nat : at = MkfsAt(ctx)
  BY StepFacts, Offsets DEF Suited
<1>2. pc = at + 1 /\ Blank
  BY <1>1 DEF InNew
<1>3. ctx \in Contexts /\ ctx' = ctx /\ pc' = (at + 1) + 1 + 0
  BY <1>1, <1>2, StepFacts
<1>4. It = FsCall("new", {"void"})
  <2>1. PICK t : t = <<FsCall("new", {"void"})>>
    OBVIOUS
  <2>2. Part(at, t, Suite(ctx))
    BY <1>1, <1>3, <2>1, SmallParts
  <2>3. Len(t) = 1 /\ t[1] = FsCall("new", {"void"}) /\ pc = at + 1 + 0
    BY <1>2, <2>1
  <2>4. It = t[0 + 1]
    <3>1. 0 \in 0 .. 1 - 1 /\ 1 \in Nat
      OBVIOUS
    <3>. QED  BY <2>2, <2>3, <3>1, CallAt
  <2>. QED  BY <2>3, <2>4
<1>5. /\ files_opened' = 0 /\ super_open' = FALSE /\ fat' = [i \in Slots |-> Closed]
      /\ verdict' = "running" /\ media' = media
  BY <1>4, NewFs
<1>6. Blank' /\ DOMAIN fat' = Slots
  BY <1>2, <1>5 DEF Blank
<1>7. InSet(0)'
  BY <1>1, <1>3, <1>6 DEF InSet
<1>8. 0 \in 0 .. Sets(ctx') - 1
  <2>1. Sets(ctx) \in Nat \ {0}
    BY <1>3, Offsets DEF Suited
  <2>. QED  BY <1>3, <2>1
<1>9. Progress'
  BY <1>7, <1>8 DEF Progress
<1>. QED  BY <1>5, <1>6, <1>9 DEF Fine

LEMMA SetGoes ==
  ASSUME Suited, GoodStep, NEW k \in 0 .. Sets(ctx) - 1, InSet(k)
  PROVE  Fine'
<1>1. PICK at \in Nat, n \in Nat : at = MkfsAt(ctx) /\ n = Sets(ctx)
  BY StepFacts, Offsets DEF Suited
<1>2. pc = (at + 1) + 1 + k /\ Blank /\ k \in 0 .. n - 1
  BY <1>1 DEF InSet
<1>3. /\ It = NvramSetIgnored(ctx)[k + 1] /\ pc' = (at + 1) + 1 + (k + 1)
      /\ ctx \in Contexts /\ ctx' = ctx /\ DOMAIN fat = Slots
  <2>1. Part(at + 1, NvramSetIgnored(ctx), Suite(ctx))
    BY <1>1, StepFacts, SmallParts
  <2>2. Len(NvramSetIgnored(ctx)) = n
    BY <1>1, StepFacts, IgnoredIsSeq DEF Sets
  <2>. QED  BY <1>2, <2>1, <2>2, CallAt
<1>4. verdict' = "running" /\ UNCHANGED ram /\ (media = Unformatted => media' = Unformatted)
  BY <1>1, <1>2, <1>3, SetStep DEF Sets
<1>5. Blank' /\ DOMAIN fat' = Slots
  BY <1>2, <1>3, <1>4 DEF Blank, ram
<1>6. Progress'
  <2>1. CASE k + 1 < n
    <3>1. k + 1 \in 0 .. Sets(ctx') - 1
      BY <1>1, <1>2, <1>3, <2>1
    <3>2. InSet(k + 1)'
      BY <1>1, <1>3, <1>5 DEF InSet
    <3>. QED  BY <3>1, <3>2 DEF Progress
  <2>2. CASE k + 1 = n
    <3>1. MountAt(ctx') = at + 1 + n
      BY <1>1, <1>3 DEF MountAt
    <3>2. pc' = MountAt(ctx') + 1 + 0
      BY <1>3, <2>2, <3>1
    <3>3. InMount(0)'
      BY <1>5, <3>2 DEF InMount, Mounting
    <3>. QED  BY <3>3 DEF Progress
  <2>. QED  BY <1>2, <2>1, <2>2
<1>. QED  BY <1>4, <1>5, <1>6 DEF Fine

LEMMA MountGoes ==
  ASSUME Suited, GoodStep, NEW k \in 0 .. 4, InMount(k)
  PROVE  Fine'
<1>1. PICK at \in Nat : at = MountAt(ctx)
  BY StepFacts, Offsets DEF Suited
<1>2. pc = at + 1 + k /\ Mounting(k)
  BY <1>1 DEF InMount
<1>3. /\ It = MountCalls[k + 1] /\ pc' = at + 1 + (k + 1)
      /\ ctx \in Contexts /\ ctx' = ctx /\ DOMAIN fat = Slots
  <2>1. Part(at, MountCalls, Suite(ctx))
    BY <1>1, StepFacts, SmallParts
  <2>2. Len(MountCalls) = 5
    BY SmallLengths, Zenon
  <2>3. k \in 0 .. 5 - 1 /\ 5 \in Nat
    OBVIOUS
  <2>. QED  BY <1>2, <2>1, <2>2, <2>3, CallAt
<1>4. Mounting(k + 1)' /\ DOMAIN fat' = Slots /\ verdict' = "running"
  <2>1. Mounting(k + 1)' /\ UNCHANGED fat /\ verdict' = "running"
    BY <1>2, <1>3, MountingStep DEF Suited
  <2>. QED  BY <1>3, <2>1
<1>5. Progress'
  <2>1. CASE k < 4
    <3>1. k + 1 \in 0 .. 4 /\ InMount(k + 1)'
      BY <1>1, <1>3, <1>4, <2>1 DEF InMount
    <3>. QED  BY <3>1 DEF Progress
  <2>2. CASE k = 4
    <3>1. pc' = FilesAt(ctx') + 1 + 0
      BY <1>1, <1>3, <2>2 DEF FilesAt
    <3>2. Starting(0)'
      BY <1>4, <2>2 DEF Mounting, Starting
    <3>3. InStart(0)'
      BY <3>1, <3>2 DEF InStart
    <3>. QED  BY <3>3 DEF Progress
  <2>. QED  BY <2>1, <2>2
<1>. QED  BY <1>4, <1>5 DEF Fine

LEMMA StartGoes ==
  ASSUME Suited, GoodStep, NEW k \in 0 .. 5, InStart(k)
  PROVE  Fine'
<1>1. PICK at \in Nat : at = FilesAt(ctx)
  BY StepFacts, Offsets DEF Suited
<1>2. pc = at + 1 + k /\ Starting(k)
  BY <1>1 DEF InStart
<1>3. /\ It = CreationStart(ctx)[k + 1] /\ pc' = at + 1 + (k + 1)
      /\ ctx \in Contexts /\ ctx' = ctx /\ DOMAIN fat = Slots
  <2>1. Part(at, CreationStart(ctx), Suite(ctx))
    BY <1>1, StepFacts, SmallParts
  <2>2. Len(CreationStart(ctx)) = 6
    BY SmallLengths, Zenon
  <2>3. k \in 0 .. 6 - 1 /\ 6 \in Nat
    OBVIOUS
  <2>. QED  BY <1>2, <2>1, <2>2, <2>3, CallAt
<1>4. Starting(k + 1)' /\ DOMAIN fat' = Slots /\ verdict' = "running"
  BY <1>2, <1>3, StartingStep DEF Suited
<1>5. Progress'
  <2>1. CASE k < 5
    <3>1. k + 1 \in 0 .. 5 /\ InStart(k + 1)'
      BY <1>1, <1>3, <1>4, <2>1 DEF InStart
    <3>. QED  BY <3>1 DEF Progress
  <2>2. CASE k = 5
    <3>1. pc' = (FilesAt(ctx') + 6) + 1 + 0
      BY <1>1, <1>3, <2>2
    <3>2. Testing(0, 0, 1, {0})'
      <4>1. Opens(1, {0})' /\ Noted'
        BY <1>4, <2>2 DEF Starting
      <4>. QED  BY <4>1, TestingBegins DEF Suited
    <3>3. InTest0(0)'
      BY <3>1, <3>2 DEF InTest0
    <3>. QED  BY <3>3 DEF Progress
  <2>. QED  BY <2>1, <2>2
<1>. QED  BY <1>4, <1>5 DEF Fine

LEMMA Test0Goes ==
  ASSUME Suited, GoodStep, NEW k \in 0 .. 15, InTest0(k)
  PROVE  Fine'
<1>1. PICK at \in Nat : at = FilesAt(ctx)
  BY StepFacts, Offsets DEF Suited
<1>2. pc = (at + 6) + 1 + k /\ Testing(k, 0, 1, {0})
  BY <1>1 DEF InTest0
<1>3. /\ It = FileTest(TestName[0])[k + 1] /\ pc' = (at + 6) + 1 + (k + 1)
      /\ ctx \in Contexts /\ ctx' = ctx /\ DOMAIN fat = Slots
  <2>1. Part(at + 6, FileTest(TestName[0]), Suite(ctx))
    BY <1>1, StepFacts, SmallParts
  <2>2. Len(FileTest(TestName[0])) = 16
    BY FileTestIsSeq, Zenon
  <2>3. k \in 0 .. 16 - 1 /\ 16 \in Nat
    OBVIOUS
  <2>. QED  BY <1>2, <2>1, <2>2, <2>3, CallAt
<1>4. Testing(k + 1, 0, 1, {0})' /\ DOMAIN fat' = Slots /\ verdict' = "running"
  BY <1>2, <1>3, TestingStep DEF Suited
<1>5. Progress'
  <2>1. CASE k < 15
    <3>1. k + 1 \in 0 .. 15 /\ InTest0(k + 1)'
      BY <1>1, <1>3, <1>4, <2>1 DEF InTest0
    <3>. QED  BY <3>1 DEF Progress
  <2>2. CASE k = 15
    <3>1. pc' = (FilesAt(ctx') + 22) + 1 + 0
      BY <1>1, <1>3, <2>2
    <3>2. Going(0)'
      BY <1>4 DEF Testing, Going
    <3>3. InGoing(0)'
      BY <3>1, <3>2 DEF InGoing
    <3>. QED  BY <3>3 DEF Progress
  <2>. QED  BY <2>1, <2>2
<1>. QED  BY <1>4, <1>5 DEF Fine

LEMMA GoingGoes ==
  ASSUME Suited, GoodStep, NEW k \in 0 .. 9, InGoing(k)
  PROVE  Fine'
<1>1. PICK at \in Nat : at = FilesAt(ctx)
  BY StepFacts, Offsets DEF Suited
<1>2. pc = (at + 22) + 1 + k /\ Going(k)
  BY <1>1 DEF InGoing
<1>3. /\ It = CreationMiddle(ctx)[k + 1] /\ pc' = (at + 22) + 1 + (k + 1)
      /\ ctx \in Contexts /\ ctx' = ctx /\ DOMAIN fat = Slots
  <2>1. Part(at + 22, CreationMiddle(ctx), Suite(ctx))
    BY <1>1, StepFacts, SmallParts
  <2>2. Len(CreationMiddle(ctx)) = 10
    BY SmallLengths, Zenon
  <2>3. k \in 0 .. 10 - 1 /\ 10 \in Nat
    OBVIOUS
  <2>. QED  BY <1>2, <2>1, <2>2, <2>3, CallAt
<1>4. Going(k + 1)' /\ DOMAIN fat' = Slots /\ verdict' = "running"
  BY <1>2, <1>3, GoingStep DEF Suited
<1>5. Progress'
  <2>1. CASE k < 9
    <3>1. k + 1 \in 0 .. 9 /\ InGoing(k + 1)'
      BY <1>1, <1>3, <1>4, <2>1 DEF InGoing
    <3>. QED  BY <3>1 DEF Progress
  <2>2. CASE k = 9
    <3>1. pc' = (FilesAt(ctx') + 32) + 1 + 0
      BY <1>1, <1>3, <2>2
    <3>2. Testing(0, 1, 3, {1, 2})'
      <4>1. Opens(3, {1, 2})' /\ Noted'
        BY <1>4, <2>2 DEF Going
      <4>. QED  BY <4>1, TestingBegins DEF Suited
    <3>3. InTest1(0)'
      BY <3>1, <3>2 DEF InTest1
    <3>. QED  BY <3>3 DEF Progress
  <2>. QED  BY <2>1, <2>2
<1>. QED  BY <1>4, <1>5 DEF Fine

LEMMA Test1Goes ==
  ASSUME Suited, GoodStep, NEW k \in 0 .. 15, InTest1(k)
  PROVE  Fine'
<1>1. PICK at \in Nat : at = FilesAt(ctx)
  BY StepFacts, Offsets DEF Suited
<1>2. pc = (at + 32) + 1 + k /\ Testing(k, 1, 3, {1, 2})
  BY <1>1 DEF InTest1
<1>3. /\ It = FileTest(TestName[1])[k + 1] /\ pc' = (at + 32) + 1 + (k + 1)
      /\ ctx \in Contexts /\ ctx' = ctx /\ DOMAIN fat = Slots
  <2>1. Part(at + 32, FileTest(TestName[1]), Suite(ctx))
    BY <1>1, StepFacts, SmallParts
  <2>2. Len(FileTest(TestName[1])) = 16
    BY FileTestIsSeq, Zenon
  <2>3. k \in 0 .. 16 - 1 /\ 16 \in Nat
    OBVIOUS
  <2>. QED  BY <1>2, <2>1, <2>2, <2>3, CallAt, ZenonT(40)
<1>4. Testing(k + 1, 1, 3, {1, 2})' /\ DOMAIN fat' = Slots /\ verdict' = "running"
  BY <1>2, <1>3, TestingStep DEF Suited
<1>5. Progress'
  <2>1. CASE k < 15
    <3>1. k + 1 \in 0 .. 15 /\ InTest1(k + 1)'
      BY <1>1, <1>3, <1>4, <2>1 DEF InTest1
    <3>. QED  BY <3>1 DEF Progress
  <2>2. CASE k = 15
    <3>1. pc' = (FilesAt(ctx') + 48) + 1 + 0
      BY <1>1, <1>3, <2>2
    <3>2. Testing(0, 2, 3, {1, 2})'
      <4>1. Opens(3, {1, 2})' /\ Noted'
        BY <1>4 DEF Testing
      <4>. QED  BY <4>1, TestingBegins DEF Suited
    <3>3. InTest2(0)'
      BY <3>1, <3>2 DEF InTest2
    <3>. QED  BY <3>3 DEF Progress
  <2>. QED  BY <2>1, <2>2
<1>. QED  BY <1>4, <1>5 DEF Fine

LEMMA Test2Goes ==
  ASSUME Suited, GoodStep, NEW k \in 0 .. 15, InTest2(k)
  PROVE  Fine'
<1>1. PICK at \in Nat : at = FilesAt(ctx)
  BY StepFacts, Offsets DEF Suited
<1>2. pc = (at + 48) + 1 + k /\ Testing(k, 2, 3, {1, 2})
  BY <1>1 DEF InTest2
<1>3. /\ It = FileTest(TestName[2])[k + 1] /\ pc' = (at + 48) + 1 + (k + 1)
      /\ ctx \in Contexts /\ ctx' = ctx /\ DOMAIN fat = Slots
  <2>1. Part(at + 48, FileTest(TestName[2]), Suite(ctx))
    BY <1>1, StepFacts, SmallParts
  <2>2. Len(FileTest(TestName[2])) = 16
    BY FileTestIsSeq, Zenon
  <2>3. k \in 0 .. 16 - 1 /\ 16 \in Nat
    OBVIOUS
  <2>. QED  BY <1>2, <2>1, <2>2, <2>3, CallAt, ZenonT(40)
<1>4. Testing(k + 1, 2, 3, {1, 2})' /\ DOMAIN fat' = Slots /\ verdict' = "running"
  BY <1>2, <1>3, TestingStep DEF Suited
<1>5. Progress'
  <2>1. CASE k < 15
    <3>1. k + 1 \in 0 .. 15 /\ InTest2(k + 1)'
      BY <1>1, <1>3, <1>4, <2>1 DEF InTest2
    <3>. QED  BY <3>1 DEF Progress
  <2>2. CASE k = 15
    <3>1. pc' = (FilesAt(ctx') + 64) + 1 + 0
      BY <1>1, <1>3, <2>2
    <3>2. Closing(0)'
      BY <1>4 DEF Testing, Closing
    <3>3. InClose(0)'
      BY <3>1, <3>2 DEF InClose
    <3>. QED  BY <3>3 DEF Progress
  <2>. QED  BY <2>1, <2>2
<1>. QED  BY <1>4, <1>5 DEF Fine

LEMMA CloseGoes ==
  ASSUME Suited, GoodStep, NEW k \in 0 .. 1, InClose(k)
  PROVE  Fine'
<1>1. PICK at \in Nat : at = FilesAt(ctx)
  BY StepFacts, Offsets DEF Suited
<1>2. pc = (at + 64) + 1 + k /\ Closing(k)
  BY <1>1 DEF InClose
<1>3. /\ It = ClosingCalls[k + 1] /\ pc' = (at + 64) + 1 + (k + 1)
      /\ ctx \in Contexts /\ ctx' = ctx /\ DOMAIN fat = Slots
  <2>1. Part(at + 64, ClosingCalls, Suite(ctx))
    BY <1>1, StepFacts, SmallParts
  <2>2. Len(ClosingCalls) = 2
    BY SmallLengths, Zenon
  <2>3. k \in 0 .. 2 - 1 /\ 2 \in Nat
    OBVIOUS
  <2>. QED  BY <1>2, <2>1, <2>2, <2>3, CallAt, ZenonT(40)
<1>4. Closing(k + 1)' /\ DOMAIN fat' = Slots /\ verdict' = "running"
  BY <1>2, <1>3, ClosingStep DEF Suited
<1>5. Progress'
  <2>1. CASE k < 1
    <3>1. k + 1 \in 0 .. 1 /\ InClose(k + 1)'
      BY <1>1, <1>3, <1>4, <2>1 DEF InClose
    <3>. QED  BY <3>1 DEF Progress
  <2>2. CASE k = 1
    <3>1. pc' = EndsAt(ctx') + 1 + 0
      BY <1>1, <1>3, <2>2 DEF EndsAt
    <3>2. Leaving(0)'
      BY <1>4, <2>2 DEF Closing, Leaving
    <3>3. InLeave(0)'
      BY <3>1, <3>2 DEF InLeave
    <3>. QED  BY <3>3 DEF Progress
  <2>. QED  BY <2>1, <2>2
<1>. QED  BY <1>4, <1>5 DEF Fine

LEMMA LeaveGoes ==
  ASSUME Suited, GoodStep, NEW k \in 0 .. 3, InLeave(k)
  PROVE  Fine'
<1>1. PICK at \in Nat : at = EndsAt(ctx)
  BY StepFacts, Offsets DEF Suited
<1>2. pc = at + 1 + k /\ Leaving(k)
  BY <1>1 DEF InLeave
<1>3. /\ It = LastCalls(ctx)[k + 1] /\ pc' = at + 1 + (k + 1)
      /\ ctx \in Contexts /\ ctx' = ctx /\ DOMAIN fat = Slots
  <2>1. Part(at, LastCalls(ctx), Suite(ctx))
    BY <1>1, StepFacts, MainParts
  <2>2. Len(LastCalls(ctx)) = 4
    BY SmallLengths, Zenon
  <2>3. k \in 0 .. 4 - 1 /\ 4 \in Nat
    OBVIOUS
  <2>. QED  BY <1>2, <2>1, <2>2, <2>3, CallAt
<1>4. Leaving(k + 1)' /\ DOMAIN fat' = Slots /\ verdict' = "running"
  BY <1>2, <1>3, LeavingStep DEF Suited
<1>5. Progress'
  <2>1. CASE k < 3
    <3>1. k + 1 \in 0 .. 3 /\ InLeave(k + 1)'
      BY <1>1, <1>3, <1>4, <2>1 DEF InLeave
    <3>. QED  BY <3>1 DEF Progress
  <2>2. CASE k = 3
    <3>1. InErase(0)'
      BY <1>1, <1>3, <2>2 DEF InErase
    <3>2. 0 \in 0 .. Sets(ctx') - 1
      <4>1. Sets(ctx) \in Nat \ {0}
        BY <1>3, Offsets DEF Suited
      <4>. QED  BY <1>3, <4>1
    <3>. QED  BY <3>1, <3>2 DEF Progress
  <2>. QED  BY <2>1, <2>2
<1>. QED  BY <1>4, <1>5 DEF Fine

LEMMA EraseGoes ==
  ASSUME Suited, GoodStep, NEW k \in 0 .. Sets(ctx) - 1, InErase(k)
  PROVE  Fine'
<1>1. PICK at \in Nat, n \in Nat : at = EndsAt(ctx) /\ n = Sets(ctx)
  BY StepFacts, Offsets DEF Suited
<1>2. pc = (at + 4) + 1 + k /\ k \in 0 .. n - 1
  BY <1>1 DEF InErase
<1>3. /\ It = NvramSet(ctx)[k + 1] /\ pc' = (at + 4) + 1 + (k + 1)
      /\ ctx \in Contexts /\ ctx' = ctx /\ DOMAIN fat = Slots
  <2>1. Part(at + 4, NvramSet(ctx), Suite(ctx))
    BY <1>1, StepFacts, MainParts
  <2>2. Len(NvramSet(ctx)) = n
    BY <1>1 DEF Sets
  <2>. QED  BY <1>2, <2>1, <2>2, CallAt
<1>4. verdict' = "running" /\ UNCHANGED ram
  BY <1>1, <1>2, <1>3, SetStep DEF Sets
<1>5. DOMAIN fat' = Slots
  BY <1>3, <1>4 DEF ram
<1>6. Progress'
  <2>1. CASE k + 1 < n
    <3>1. k + 1 \in 0 .. Sets(ctx') - 1
      BY <1>1, <1>2, <1>3, <2>1
    <3>2. InErase(k + 1)'
      BY <1>1, <1>3 DEF InErase
    <3>. QED  BY <3>1, <3>2 DEF Progress
  <2>2. CASE k + 1 = n
    <3>1. Over'
      BY <1>1, <1>3, <2>2 DEF Over
    <3>. QED  BY <3>1 DEF Progress
  <2>. QED  BY <1>2, <2>1, <2>2
<1>. QED  BY <1>4, <1>5, <1>6 DEF Fine

-----------------------------------------------------------------------------
(* While nothing breaks off, the suite is at one of its places.            *)
PassInv == AsConfigured /\ lost = {} => verdict # "HALT" /\ DOMAIN fat = Slots /\ Progress
PassPlace ==
  SuitePlace /\ DOMAIN mem = 0 .. Capacity - 1 /\ DOMAIN filebuf = 0 .. Capacity - 1

LEMMA BufferKept == [SuiteNext]_svars => DOMAIN filebuf' = DOMAIN filebuf
  BY DEF SuiteNext, WriteStep, ReadStep, FsStep, DfStep, CtorStep, SeekStep, NvramSetStep,
         CompareStep, PutStep, GetStep, Return, svars

LEMMA PassPlaceInvariant == SuiteSpec => []PassPlace
<1>1. SuiteInit => PassPlace
  <2>. SUFFICES ASSUME SuiteInit PROVE PassPlace
    OBVIOUS
  <2>1. SuitePlace /\ mem = Fill(0) /\ filebuf = Stale /\ DOMAIN Stale = 0 .. Capacity - 1
    BY SuiteAssumption DEF SuiteInit, SuitePlace
  <2>2. DOMAIN Fill(0) = 0 .. Capacity - 1
    BY DEF Fill
  <2>. QED  BY <2>1, <2>2 DEF PassPlace
<1>2. PassPlace /\ [SuiteNext]_svars => PassPlace'
  BY PlaceKept, DomainKept, BufferKept DEF PassPlace
<1>. QED  BY <1>1, <1>2, PTL DEF SuiteSpec

LEMMA PassInit == ASSUME WholeChunks PROVE SuiteInit => PassInv
<1>. SUFFICES ASSUME SuiteInit PROVE PassInv
  OBVIOUS
<1>1. ctx \in Contexts /\ pc = 1 /\ verdict = "running" /\ DOMAIN fat = Slots /\ Blank
  BY DEF SuiteInit, RamInit, Blank
<1>2. TransAt(ctx) \in Nat
  BY <1>1, Offsets
<1>3. CASE pc <= TransAt(ctx)
  <2>1. RawMemory
    <3>1. 1 .. pc - 1 = {}
      BY <1>1
    <3>. QED  BY <3>1 DEF RawMemory
  <2>. QED  BY <1>1, <1>3, <2>1 DEF PassInv, Progress, InRaw
<1>4. CASE ~ pc <= TransAt(ctx)
  <2>1. InTranslate(0, 0)
    BY <1>1, <1>2, <1>4 DEF InTranslate, Translating
  <2>. QED  BY <1>1, <2>1 DEF PassInv, Progress
<1>. QED  BY <1>3, <1>4

LEMMA ProgressGoes ==
  ASSUME Suited, GoodStep, Progress
  PROVE  Fine'
<1>1. ~ Over
  <2>1. ctx \in Contexts /\ pc <= Len(Suite(ctx)) /\ Len(Suite(ctx)) = EndsAt(ctx) + 4 + Sets(ctx)
    BY StepFacts, MainParts DEF GoodStep, More
  <2>2. PICK at \in Nat, n \in Nat : at = EndsAt(ctx) /\ n = Sets(ctx)
    BY <2>1, Offsets DEF Suited
  <2>. QED  BY <2>1, <2>2 DEF Over
<1>2. CASE InRaw
  BY <1>2, RawGoes
<1>3. CASE \E i \in 0 .. 2, k \in 0 .. 3 : InTranslate(i, k)
  BY <1>3, TranslateGoes
<1>4. CASE \E k \in 0 .. 16 : InPut(k)
  BY <1>4, PutGoes
<1>5. CASE InNew
  BY <1>5, NewGoes
<1>6. CASE \E k \in 0 .. Sets(ctx) - 1 : InSet(k)
  BY <1>6, SetGoes
<1>7. CASE \E k \in 0 .. 4 : InMount(k)
  BY <1>7, MountGoes
<1>8. CASE \E k \in 0 .. 5 : InStart(k)
  BY <1>8, StartGoes
<1>9. CASE \E k \in 0 .. 15 : InTest0(k)
  BY <1>9, Test0Goes
<1>10. CASE \E k \in 0 .. 9 : InGoing(k)
  BY <1>10, GoingGoes
<1>11. CASE \E k \in 0 .. 15 : InTest1(k)
  BY <1>11, Test1Goes
<1>12. CASE \E k \in 0 .. 15 : InTest2(k)
  BY <1>12, Test2Goes
<1>13. CASE \E k \in 0 .. 1 : InClose(k)
  BY <1>13, CloseGoes
<1>14. CASE \E k \in 0 .. 3 : InLeave(k)
  BY <1>14, LeaveGoes
<1>15. CASE \E k \in 0 .. Sets(ctx) - 1 : InErase(k)
  BY <1>15, EraseGoes
<1>. QED  BY <1>1, <1>2, <1>3, <1>4, <1>5, <1>6, <1>7, <1>8, <1>9, <1>10, <1>11, <1>12, <1>13, <1>14,
             <1>15 DEF Progress

(* A step that changes nothing but the verdict.                            *)
LEMMA ProgressStays ==
  ASSUME Progress, UNCHANGED <<mem, ctx, pc, df, media, fat, files_opened, super_open>>
  PROVE  Progress'
<1>1. mem' = mem /\ ctx' = ctx /\ pc' = pc /\ df' = df /\ media' = media /\ fat' = fat
      /\ files_opened' = files_opened /\ super_open' = super_open
  OBVIOUS
<1>2. InRaw => InRaw'
  BY <1>1 DEF InRaw, RawMemory, Blank, Latest
<1>3. \A i, k : InTranslate(i, k) => InTranslate(i, k)'
  BY <1>1 DEF InTranslate, Blank, Translating
<1>4. \A k, i, s, z : FileTestAt(k, i, s, z) => FileTestAt(k, i, s, z)'
  BY <1>1 DEF FileTestAt, Holds
<1>5. \A k : InPut(k) => InPut(k)'
  BY <1>1, <1>4 DEF InPut, Putting, Blank
<1>6. InNew => InNew'
  BY <1>1 DEF InNew, Blank
<1>7. \A k : InSet(k) => InSet(k)'
  BY <1>1 DEF InSet, Blank
<1>8. \A k : InMount(k) => InMount(k)'
  BY <1>1 DEF InMount, Mounting, Blank
<1>9. /\ \A n, open : Opens(n, open) => Opens(n, open)'
      /\ Noted => Noted'
  BY <1>1 DEF Opens, OpenFile, Noted
<1>10. \A k : InStart(k) => InStart(k)'
  BY <1>1, <1>9 DEF InStart, Starting
<1>11. \A k, j, n, open : Testing(k, j, n, open) => Testing(k, j, n, open)'
  BY <1>4, <1>9 DEF Testing
<1>12. \A k : InTest0(k) => InTest0(k)'
  BY <1>1, <1>11 DEF InTest0
<1>13. \A k : InGoing(k) => InGoing(k)'
  BY <1>1, <1>9 DEF InGoing, Going
<1>14. \A k : InClose(k) => InClose(k)'
  BY <1>1, <1>9 DEF InClose, Closing
<1>15. \A k : InLeave(k) => InLeave(k)'
  BY <1>1 DEF InLeave, Leaving
<1>16. (\A k : InErase(k) => InErase(k)') /\ (Over => Over')
  BY <1>1 DEF InErase, Over
<1>17. CASE InRaw
  BY <1>2, <1>17 DEF Progress
<1>18. CASE \E i \in 0 .. 2, k \in 0 .. 3 : InTranslate(i, k)
  <2>1. PICK i \in 0 .. 2, k \in 0 .. 3 : InTranslate(i, k)
    BY <1>18
  <2>2. InTranslate(i, k)'
    BY <1>3, <2>1, Zenon
  <2>. QED  BY <2>2 DEF Progress
<1>19. CASE \E k \in 0 .. 16 : InPut(k)
  BY <1>5, <1>19 DEF Progress
<1>20. CASE InNew
  BY <1>6, <1>20 DEF Progress
<1>21. CASE \E k \in 0 .. Sets(ctx) - 1 : InSet(k)
  BY <1>1, <1>7, <1>21 DEF Progress
<1>22. CASE \E k \in 0 .. 4 : InMount(k)
  BY <1>8, <1>22 DEF Progress
<1>23. CASE \E k \in 0 .. 5 : InStart(k)
  BY <1>10, <1>23 DEF Progress
<1>24. CASE \E k \in 0 .. 15 : InTest0(k)
  BY <1>12, <1>24 DEF Progress
<1>25. CASE \E k \in 0 .. 9 : InGoing(k)
  BY <1>13, <1>25 DEF Progress
<1>26. CASE \E k \in 0 .. 15 : InTest1(k)
  <2>1. PICK k \in 0 .. 15 : InTest1(k)
    BY <1>26
  <2>2. InTest1(k)'
    BY <1>1, <1>11, <2>1 DEF InTest1
  <2>. QED  BY <2>2 DEF Progress
<1>27. CASE \E k \in 0 .. 15 : InTest2(k)
  <2>1. PICK k \in 0 .. 15 : InTest2(k)
    BY <1>27
  <2>2. InTest2(k)'
    BY <1>1, <1>11, <2>1 DEF InTest2
  <2>. QED  BY <2>2 DEF Progress
<1>28. CASE \E k \in 0 .. 1 : InClose(k)
  BY <1>14, <1>28 DEF Progress
<1>29. CASE \E k \in 0 .. 3 : InLeave(k)
  BY <1>15, <1>29 DEF Progress
<1>30. CASE \E k \in 0 .. Sets(ctx) - 1 : InErase(k)
  BY <1>1, <1>16, <1>30 DEF Progress
<1>31. CASE Over
  BY <1>16, <1>31 DEF Progress
<1>. QED  BY <1>17, <1>18, <1>19, <1>20, <1>21, <1>22, <1>23, <1>24,
             <1>25, <1>26, <1>27, <1>28, <1>29, <1>30, <1>31 DEF Progress

(* A transfer that broke off stays noticed, and no chip is exchanged.      *)
LEMMA PassBack ==
  ASSUME [SuiteNext]_svars, AsConfigured', lost' = {}
  PROVE  AsConfigured /\ lost = {}
<1>1. lost' = {} => lost = {}
  BY DEF SuiteNext, WriteStep, ReadStep, FsStep, DfStep, CtorStep, SeekStep, NvramSetStep,
         CompareStep, PutStep, GetStep, Return, Broke, svars
<1>2. ctx' = ctx /\ chip' = chip
  BY StepsGoOn DEF Return, svars
<1>. QED  BY <1>1, <1>2 DEF AsConfigured

LEMMA PassStep ==
  ASSUME Suited
  PROVE  PassPlace /\ PassInv /\ [SuiteNext]_svars => PassInv'
<1>. SUFFICES ASSUME PassPlace, PassInv, [SuiteNext]_svars, AsConfigured', lost' = {}
              PROVE  verdict' # "HALT" /\ DOMAIN fat' = Slots /\ Progress'
  BY DEF PassInv
<1>1. AsConfigured /\ lost = {} /\ verdict # "HALT" /\ DOMAIN fat = Slots /\ Progress
  BY PassBack DEF PassInv
<1>2. CASE SuiteNext /\ More
  <2>1. GoodStep
    BY <1>1, <1>2 DEF GoodStep, Right, PassPlace
  <2>2. Fine'
    BY <1>1, <2>1, ProgressGoes
  <2>. QED  BY <2>2 DEF Fine
<1>3. CASE Return \/ UNCHANGED svars
  <2>1. UNCHANGED <<vars, mem, ctx, chip, pc, df>> /\ verdict' # "HALT"
    BY <1>1, <1>3 DEF Return, svars
  <2>2. DOMAIN fat' = Slots
    BY <1>1, <2>1 DEF vars
  <2>3. Progress'
    <3>1. UNCHANGED <<mem, ctx, pc, df, media, fat, files_opened, super_open>>
      BY <2>1 DEF vars
    <3>. QED  BY <1>1, <3>1, ProgressStays
  <2>. QED  BY <2>1, <2>2, <2>3
<1>. QED  BY <1>2, <1>3, StepsGoOn

(* On the right chip, with buffers and a device that suit its tests, and   *)
(* while transfers go through, TestSuite() never halts.                    *)
THEOREM SuitePassesAlways ==
  BuffersSuffice /\ WholeChunks /\ DeviceSuits => (SuiteSpec => []SuitePasses)
<1>. SUFFICES ASSUME BuffersSuffice, WholeChunks, DeviceSuits PROVE SuiteSpec => []SuitePasses
  OBVIOUS
<1>1. SuiteInit => PassInv
  BY PassInit
<1>2. PassPlace /\ PassInv /\ [SuiteNext]_svars => PassInv'
  BY PassStep DEF Suited
<1>3. PassInv => SuitePasses
  BY DEF PassInv, SuitePasses
<1>. QED  BY <1>1, <1>2, <1>3, PassPlaceInvariant, PTL DEF SuiteSpec

-----------------------------------------------------------------------------
(* What the calls of the script are like.                                  *)

(* Lengths and sizes are numbers.                                          *)
Formed(call) ==
  /\ call.op \in {"write", "read", "put", "get"} => call.n \in Nat
  /\ call.op = "create" => call.name \in Names /\ call.size \in Nat
  /\ call.op = "ctor" => call.start \in Nat /\ call.size \in Nat

(* A call outside of addres_translate_test().                              *)
Strict(call) == Formed(call) /\ call.op # "compare" /\ (call.op = "put" => call.checked)
AllStrict(s) == IsSeq(s) /\ \A i \in 1 .. Len(s) : Strict(s[i])

LEMMA StrictRow ==
  ASSUME NEW s, NEW t, AllStrict(s), AllStrict(t)
  PROVE  AllStrict(s \o t)
<1>. DEFINE r == s \o t
<1>1. /\ IsSeq(r) /\ Len(r) = Len(s) + Len(t) /\ Len(s) \in Nat /\ Len(t) \in Nat
      /\ \A i \in 1 .. Len(s) : r[i] = s[i]
      /\ \A i \in 1 .. Len(t) : r[Len(s) + i] = t[i]
  BY InARow, LengthIsNat DEF AllStrict
<1>. HIDE DEF r
<1>2. ASSUME NEW i \in 1 .. Len(r) PROVE Strict(r[i])
  <2>1. CASE i <= Len(s)
    BY <1>1, <2>1 DEF AllStrict
  <2>2. CASE i > Len(s)
    <3>1. PICK j \in 1 .. Len(t) : i = Len(s) + j
      <4>1. i - Len(s) \in 1 .. Len(t) /\ i = Len(s) + (i - Len(s))
        BY <1>1, <2>2
      <4>. QED  BY <4>1
    <3>. QED  BY <1>1, <3>1 DEF AllStrict
  <2>. QED  BY <1>1, <2>1, <2>2
<1>3. AllStrict(r)
  BY <1>1, <1>2 DEF AllStrict
<1>. QED  BY <1>3 DEF r

LEMMA StrictList ==
  ASSUME NEW S, NEW s \in Seq(S), \A call \in S : Strict(call)
  PROVE  AllStrict(s)
  BY ElementOfSeq DEF AllStrict, IsSeq

LEMMA StrictCalls ==
  /\ \A call : call.op \in {"seek", "df", "df2", "set", "new", "mount", "fsck",
                            "mkfs", "umount", "open", "close"} => Strict(call)
  /\ \A call : call.op \in {"write", "read"} /\ call.n \in Nat => Strict(call)
  /\ \A name, word : Len(word) \in Nat => Strict(Put(name, word)) /\ Strict(Get(name, word))
  /\ \A name \in Names, size \in Nat : \A want : Strict(FileCall("create", name, size, want))
  /\ \A start, size \in Nat : Strict(Ctor(start, size))
<1>1. ASSUME NEW name, NEW word, Len(word) \in Nat
      PROVE  Strict(Put(name, word)) /\ Strict(Get(name, word))
  <2>1. Put(name, word).op = "put" /\ Put(name, word).n = Len(word) /\ Put(name, word).checked = TRUE
    BY DEF Put
  <2>2. Get(name, word).op = "get" /\ Get(name, word).n = Len(word)
    BY DEF Get, Put
  <2>. QED  BY <1>1, <2>1, <2>2 DEF Strict, Formed
<1>2. ASSUME NEW name \in Names, NEW size \in Nat, NEW want
      PROVE  Strict(FileCall("create", name, size, want))
  BY DEF FileCall, Strict, Formed
<1>3. ASSUME NEW start \in Nat, NEW size \in Nat
      PROVE  Strict(Ctor(start, size))
  BY DEF Ctor, Strict, Formed
<1>4. ASSUME NEW call, call.op \in {"write", "read"}, call.n \in Nat
      PROVE  Strict(call)
  BY <1>4 DEF Strict, Formed
<1>5. ASSUME NEW call, call.op \in {"seek", "df", "df2", "set", "new", "mount", "fsck",
                            "mkfs", "umount", "open", "close"}
      PROVE  Strict(call)
  BY <1>5 DEF Strict, Formed
<1>. QED  BY <1>1, <1>2, <1>3, <1>5, <1>4

LEMMA StrictFileTest ==
  ASSUME NEW name
  PROVE  AllStrict(FileTest(name))
<1>. DEFINE Listed == {Seek(name), Put(name, U16Word), Put(name, U32Word), Put(name, U64Word),
                      Get(name, U16Word), Get(name, U32Word), Get(name, U64Word)}
<1>1. FileTest(name) \in Seq(Listed)
  BY DEF FileTest
<1>2. Seek(name).op = "seek"
  BY DEF Seek
<1>3. \A call \in Listed : Strict(call)
  BY <1>2, StrictCalls, WordLengths
<1>. HIDE DEF Listed
<1>. QED  BY <1>1, <1>3, StrictList

LEMMA StrictParts ==
  ASSUME BuffersSuffice, WholeChunks, NEW c \in Contexts
  PROVE  /\ AllStrict(RawCalls(c)) /\ AllStrict(FilePutTest) /\ AllStrict(MkfsAndMountTest(c))
         /\ AllStrict(FileCreationTest(c)) /\ AllStrict(LastCalls(c)) /\ AllStrict(NvramSet(c))
<1>1. AllStrict(RawCalls(c))
  <2>1. Raw(RawCalls(c))
    BY RawPart
  <2>2. ASSUME NEW i \in 1 .. Len(RawCalls(c)) PROVE Strict(RawCalls(c)[i])
    <3>1. PICK call : call = RawCalls(c)[i]
      OBVIOUS
    <3>2. call.op \in {"write", "read"} /\ call.n \in Nat
      BY <2>1, <3>1 DEF Raw, Plain, Transfer
    <3>3. Strict(call)
      BY <3>2, StrictCalls
    <3>. QED  BY <3>1, <3>3
  <2>. QED  BY <2>1, <2>2 DEF AllStrict, Raw
<1>2. AllStrict(FilePutTest)
  <2>1. Strict(Ctor(0, Capacity))
    BY StrictCalls, SizesAssumption
  <2>2. PICK call : call = Ctor(0, Capacity)
    OBVIOUS
  <2>3. AllStrict(<<call>>)
    BY <2>1, <2>2, ShortTuples DEF AllStrict
  <2>. QED  BY <2>2, <2>3, StrictFileTest, StrictRow DEF FilePutTest
<1>3. \A call, want : call \in {"new", "mount", "fsck", "mkfs", "umount"} => Strict(FsCall(call, want))
  BY StrictCalls DEF FsCall
<1>4. AllStrict(NvramSet(c)) /\ AllStrict(NvramSetIgnored(c))
  <2>1. ASSUME NEW i \in 1 .. Len(NvramSet(c)) PROVE Strict(NvramSet(c)[i])
    <3>1. NvramSet(c)[i] = MtdWrite(Fill(255), SetSize(c), (i - 1) * SetSize(c))
      BY NvramSetIsSeq
    <3>2. SetSize(c) \in Nat
      BY WholeSets
    <3>3. PICK call : call = NvramSet(c)[i]
      OBVIOUS
    <3>4. call.op = "write" /\ call.n \in Nat
      BY <3>1, <3>2, <3>3, CallFields
    <3>5. Strict(call)
      BY <3>4, StrictCalls
    <3>. QED  BY <3>3, <3>5
  <2>2. ASSUME NEW i \in 1 .. Len(NvramSet(c)) PROVE Strict(NvramSetIgnored(c)[i])
    <3>1. NvramSetIgnored(c)[i].op = "set"
      BY DEF NvramSetIgnored, Ignored
    <3>. QED  BY <3>1, StrictCalls
  <2>. QED  BY <2>1, <2>2, NvramSetIsSeq, IgnoredIsSeq DEF AllStrict
<1>5. AllStrict(MkfsAndMountTest(c))
  <2>. DEFINE S == {FsCall("mount", {"FAILED"}), FsCall("fsck", {"FAILED"}), FsCall("mkfs", {"SUCCESS"}),
                    FsCall("fsck", {"SUCCESS"}), FsCall("mount", {"SUCCESS"}), FsCall("new", {"void"})}
  <2>1. MountCalls \in Seq(S) /\ <<FsCall("new", {"void"})>> \in Seq(S)
    BY DEF MountCalls
  <2>2. \A call \in S : Strict(call)
    BY <1>3
  <2>. HIDE DEF S
  <2>3. AllStrict(MountCalls) /\ AllStrict(<<FsCall("new", {"void"})>>)
    BY <2>1, <2>2, StrictList
  <2>. QED  BY <1>4, <2>3, MkfsAndMountTestIs, StrictRow
<1>6. Strict(Look(c))
  BY LenInside, CallFields, StrictCalls DEF Look
<1>7. AllStrict(LastCalls(c))
  <2>. DEFINE S == {FsCall("new", {"void"}), FsCall("umount", {"SUCCESS"}), FsCall("fsck", {"SUCCESS"}),
                    Look(c)}
  <2>1. LastCalls(c) \in Seq(S)
    BY DEF LastCalls
  <2>2. \A call \in S : Strict(call)
    BY <1>3, <1>6
  <2>. HIDE DEF S
  <2>. QED  BY <2>1, <2>2, StrictList
<1>8. AllStrict(FileCreationTest(c))
  <2>. DEFINE S == {FsCall("new", {"void"}), FsCall("mount", Outcomes), NoteDf, CheckDf(BigFile),
                   CheckDf(BigFile + SmallFile), CheckDf(BigFile + 2 * SmallFile),
                   FileCall("open", TestName[0], 0, {"file"}), Closes(0), Closes(1), Closes(2),
                   Creates(0, "file"), Creates(0, "nullptr"), Creates(1, "file"),
                   Creates(2, "file"), Creates(3, "nullptr"), Look(c)}
  <2>1. CreationStart(c) \in Seq(S)
    BY DEF CreationStart
  <2>2. CreationMiddle(c) \in Seq(S)
    BY DEF CreationMiddle
  <2>3. <<Closes(1), Closes(2)>> \in Seq(S)
    OBVIOUS
  <2>4. \A k, want : k \in 0 .. 3 => Strict(Creates(k, want))
    <3>1. \A k \in 0 .. 3 : TestName[k] \in Names
      BY SuiteAssumption, NamesAssumption
    <3>2. \A k \in 0 .. 3 : <<BigFile, SmallFile, SmallFile, SmallFile>>[k + 1] \in Nat
      BY SuiteAssumption
    <3>. QED  BY <3>1, <3>2, StrictCalls DEF Creates
  <2>5. /\ \A k : Closes(k).op = "close" /\ \A taken : CheckDf(taken).op = "df2"
        /\ NoteDf.op = "df" /\ FileCall("open", TestName[0], 0, {"file"}).op = "open"
    BY DEF Closes, FileCall, CheckDf, NoteDf
  <2>6. \A call \in S : Strict(call)
    BY <1>3, <1>6, <2>4, <2>5, StrictCalls
  <2>. HIDE DEF S
  <2>7. AllStrict(CreationStart(c)) /\ AllStrict(CreationMiddle(c)) /\ AllStrict(<<Closes(1), Closes(2)>>)
    BY <2>1, <2>2, <2>3, <2>6, StrictList
  <2>. QED  BY <2>7, StrictFileTest, FileCreationTestIs, StrictRow
<1>. QED  BY <1>1, <1>2, <1>4, <1>5, <1>7, <1>8

-----------------------------------------------------------------------------
(* The call that is due.                                                   *)
AtTest(i, k) == pc = (TransAt(ctx) + 4 * i) + 1 + k

LEMMA CallOfTest ==
  ASSUME BuffersSuffice, DeviceSuits, SuitePlace, NEW i \in 0 .. 2, NEW k \in 0 .. 3, AtTest(i, k)
  PROVE  /\ TransSize(ctx, i) \in Nat
         /\ It = AddressTranslate(ctx, TransSize(ctx, i))[k + 1]
<1>1. ctx \in Contexts /\ Steps = Suite(ctx)
  BY DEF SuitePlace, Steps, Called
<1>2. PICK at \in Nat, n \in Nat : at = TransAt(ctx) /\ n = TransSize(ctx, i)
  BY <1>1, RawCallsIsSeq, TransSizes
<1>3. Part(at + 4 * i, AddressTranslate(ctx, n), Steps)
  <2>1. CASE i = 0
    BY <1>1, <1>2, <2>1, SmallParts
  <2>2. CASE i = 1
    BY <1>1, <1>2, <2>2, SmallParts
  <2>3. CASE i = 2
    BY <1>1, <1>2, <2>3, SmallParts
  <2>. QED  BY <2>1, <2>2, <2>3
<1>4. Len(AddressTranslate(ctx, n)) = 4
  BY SmallLengths, Zenon
<1>5. It = AddressTranslate(ctx, n)[k + 1]
  <2>1. k \in 0 .. Len(AddressTranslate(ctx, n)) - 1 /\ pc = (at + 4 * i) + 1 + k
    BY <1>2, <1>4 DEF AtTest
  <2>. QED  BY <1>3, <2>1, PartCall
<1>. QED  BY <1>2, <1>5

LEMMA StrictPart ==
  ASSUME NEW off, NEW t, Part(off, t, Steps), AllStrict(t), pc \in Nat, pc > off, pc <= off + Len(t)
  PROVE  Strict(It)
<1>1. off \in Nat /\ Len(t) \in Nat
  BY LengthIsNat DEF Part
<1>2. PICK k \in 1 .. Len(t) : pc = off + k
  <2>1. pc - off \in 1 .. Len(t) /\ pc = off + (pc - off)
    BY <1>1
  <2>. QED  BY <2>1
<1>3. It = t[k]
  BY <1>2 DEF Part, It
<1>. QED  BY <1>3 DEF AllStrict

LEMMA CallKinds ==
  ASSUME BuffersSuffice, WholeChunks, SuitePlace, More
  PROVE  Strict(It) \/ \E i \in 0 .. 2, k \in 0 .. 3 : AtTest(i, k)
<1>1. ctx \in Contexts /\ pc \in Nat \ {0} /\ Steps = Suite(ctx)
  BY DEF SuitePlace, Steps, Called
<1>2. PICK t \in Nat, n \in Nat : t = TransAt(ctx) /\ n = Sets(ctx)
  BY <1>1, Offsets
<1>3. /\ PutAt(ctx) = t + 12 /\ MkfsAt(ctx) = t + 29 /\ FilesAt(ctx) = t + 35 + n /\ EndsAt(ctx) = t + 101 + n
  BY <1>2 DEF PutAt, MkfsAt, MountAt, FilesAt, EndsAt
<1>4. pc <= t + 105 + n + n
  <2>1. Len(Steps) = EndsAt(ctx) + 4 + Sets(ctx)
    BY <1>1, MainParts
  <2>. QED  BY <1>2, <1>3, <2>1 DEF More
<1>5. Len(RawCalls(ctx)) = t /\ Len(FilePutTest) = 17 /\ Len(MkfsAndMountTest(ctx)) = 6 + n
      /\ Len(FileCreationTest(ctx)) = 66 /\ Len(LastCalls(ctx)) = 4 /\ Len(NvramSet(ctx)) = n
  BY <1>1, <1>2, PartLengths, SmallLengths DEF TransAt, Sets
<1>6. CASE pc <= t
  <2>1. Part(0, RawCalls(ctx), Steps)
    BY <1>1, MainParts
  <2>2. pc \in Nat /\ pc > 0 /\ pc <= 0 + Len(RawCalls(ctx))
    BY <1>1, <1>2, <1>5, <1>6
  <2>. QED  BY <1>1, <2>1, <2>2, StrictPart, StrictParts
<1>7. CASE pc > t /\ pc <= t + 12
  <2>1. PICK i \in 0 .. 2, k \in 0 .. 3 : pc = (t + 4 * i) + 1 + k
    <3>1. CASE pc <= t + 4
      <4>1. pc - t - 1 \in 0 .. 3 /\ pc = (t + 4 * 0) + 1 + (pc - t - 1)
        BY <1>1, <1>7, <3>1
      <4>. QED  BY <4>1
    <3>2. CASE pc > t + 4 /\ pc <= t + 8
      <4>1. pc - t - 5 \in 0 .. 3 /\ pc = (t + 4 * 1) + 1 + (pc - t - 5)
        BY <1>1, <1>7, <3>2
      <4>. QED  BY <4>1
    <3>3. CASE pc > t + 8
      <4>1. pc - t - 9 \in 0 .. 3 /\ pc = (t + 4 * 2) + 1 + (pc - t - 9)
        BY <1>1, <1>7, <3>3
      <4>. QED  BY <4>1
    <3>. QED  BY <1>1, <3>1, <3>2, <3>3
  <2>. QED  BY <1>2, <2>1 DEF AtTest
<1>8. CASE pc > t + 12 /\ pc <= t + 29
  <2>1. Part(PutAt(ctx), FilePutTest, Steps)
    BY <1>1, MainParts
  <2>2. pc > PutAt(ctx) /\ pc <= PutAt(ctx) + Len(FilePutTest)
    BY <1>1, <1>3, <1>5, <1>8
  <2>. QED  BY <1>1, <2>1, <2>2, StrictPart, StrictParts
<1>9. CASE pc > t + 29 /\ pc <= t + 35 + n
  <2>1. Part(MkfsAt(ctx), MkfsAndMountTest(ctx), Steps)
    BY <1>1, MainParts
  <2>2. pc > MkfsAt(ctx) /\ pc <= MkfsAt(ctx) + Len(MkfsAndMountTest(ctx))
    BY <1>1, <1>3, <1>5, <1>9
  <2>. QED  BY <1>1, <2>1, <2>2, StrictPart, StrictParts
<1>10. CASE pc > t + 35 + n /\ pc <= t + 101 + n
  <2>1. Part(FilesAt(ctx), FileCreationTest(ctx), Steps)
    BY <1>1, MainParts
  <2>2. pc > FilesAt(ctx) /\ pc <= FilesAt(ctx) + Len(FileCreationTest(ctx))
    BY <1>1, <1>3, <1>5, <1>10
  <2>. QED  BY <1>1, <2>1, <2>2, StrictPart, StrictParts
<1>11. CASE pc > t + 101 + n /\ pc <= t + 105 + n
  <2>1. Part(EndsAt(ctx), LastCalls(ctx), Steps)
    BY <1>1, MainParts
  <2>2. pc > EndsAt(ctx) /\ pc <= EndsAt(ctx) + Len(LastCalls(ctx))
    BY <1>1, <1>3, <1>5, <1>11
  <2>. QED  BY <1>1, <2>1, <2>2, StrictPart, StrictParts
<1>12. CASE pc > t + 105 + n
  <2>1. Part(EndsAt(ctx) + 4, NvramSet(ctx), Steps)
    BY <1>1, MainParts
  <2>2. pc > EndsAt(ctx) + 4 /\ pc <= (EndsAt(ctx) + 4) + Len(NvramSet(ctx))
    BY <1>1, <1>3, <1>4, <1>5, <1>12
  <2>. QED  BY <1>1, <2>1, <2>2, StrictPart, StrictParts
<1>. QED  BY <1>1, <1>6, <1>7, <1>8, <1>9, <1>10, <1>11, <1>12

(* Every call is well formed.                                              *)
LEMMA FormedCall ==
  ASSUME BuffersSuffice, WholeChunks, DeviceSuits, SuitePlace, More
  PROVE  Formed(It)
<1>1. CASE Strict(It)
  BY <1>1 DEF Strict
<1>2. CASE \E i \in 0 .. 2, k \in 0 .. 3 : AtTest(i, k)
  <2>1. PICK i \in 0 .. 2, k \in 0 .. 3 : AtTest(i, k)
    BY <1>2
  <2>2. PICK n \in Nat : n = TransSize(ctx, i) /\ It = AddressTranslate(ctx, n)[k + 1]
    BY <2>1, CallOfTest
  <2>3. ctx \in Contexts /\ TestOffset \in Nat
    BY SuiteAssumption DEF SuitePlace
  <2>4. ctx.len \in Nat
    BY <2>3, LenInside
  <2>5. /\ k = 0 => It.op = "write" /\ It.n = ctx.len
        /\ k = 1 => It.op = "ctor" /\ It.start = TestOffset /\ It.size = 2 * n
        /\ k = 2 => It.op = "put" /\ It.n = n
        /\ k = 3 => It.op = "compare"
    BY <2>2, <2>3, TranslateCalls
  <2>6. 2 * n \in Nat
    OBVIOUS
  <2>. QED  BY <2>3, <2>5, <2>6, <2>4 DEF Formed
<1>. QED  BY <1>1, <1>2, CallKinds

-----------------------------------------------------------------------------
(* Types, whatever breaks off.                                             *)
SuiteTypes == media \in Image /\ fat \in [Slots -> Handle]

LEMMA UnformattedType == Unformatted \in Image
  BY SizesAssumption, NamesAssumption
  DEF Unformatted, EmptyTable, EmptyItem, Image, TocItem, Bytes16

LEMMA StoreType ==
  ASSUME media \in Image, NEW data, NEW at, NEW done, Store(data, at, done)
  PROVE  media' \in Image
  BY UnformattedType DEF Store

LEMMA MoveType ==
  ASSUME SuiteTypes, NEW i \in Slots, NEW done \in Int, Move(i, done)
  PROVE  fat' \in [Slots -> Handle]
<1>1. PICK h \in Handle : h = fat[i]
  BY DEF SuiteTypes
<1>2. (h.tip + done) % U16 \in Bytes16
  <2>1. h.tip + done \in Int /\ U16 \in Nat \ {0}
    BY SizesAssumption DEF Handle, Bytes16
  <2>. QED  BY <2>1, CutInRange DEF Bytes16
<1>3. [h EXCEPT !.tip = (h.tip + done) % U16] \in Handle
  BY <1>2 DEF Handle
<1>4. fat' = [fat EXCEPT ![i] = [h EXCEPT !.tip = (h.tip + done) % U16]]
  BY <1>1 DEF Move, SuiteTypes
<1>. QED  BY <1>3, <1>4 DEF SuiteTypes

LEMMA ClampType ==
  ASSUME NEW h \in Handle, NEW n \in Nat
  PROVE  ClampSize(h, n) \in Int /\ ClampSize(h, n) <= n
  BY SizesAssumption DEF ClampSize, Handle, Bytes16

LEMMA DoneInt ==
  ASSUME NEW n \in Int, NEW done \in Done(n)
  PROVE  done \in Int
  BY SuiteAssumption DEF Done

LEMMA TypesKept ==
  ASSUME BuffersSuffice, WholeChunks, DeviceSuits, SuitePlace, SuiteTypes, [SuiteNext]_svars
  PROVE  SuiteTypes'
<1>1. CASE UNCHANGED <<media, fat>>
  BY <1>1 DEF SuiteTypes
<1>2. CASE WriteStep
  BY <1>2, StoreType DEF WriteStep, SuiteTypes, ram
<1>3. CASE NvramSetStep
  BY <1>3, StoreType DEF NvramSetStep, SuiteTypes, ram
<1>4. CASE PutStep
  <2>1. It.n \in Nat
    BY <1>4, FormedCall DEF PutStep, Now, Formed
  <2>2. PICK i \in Slots : \E done \in Done(ClampSize(fat[i], It.n)) :
           Store(It.data, Address(fat[i]), done) /\ Move(i, done)
    BY <1>4 DEF PutStep
  <2>3. PICK done \in Done(ClampSize(fat[i], It.n)) :
           Store(It.data, Address(fat[i]), done) /\ Move(i, done)
    BY <2>2
  <2>4. done \in Int
    BY <2>1, <2>2, ClampType, DoneInt DEF SuiteTypes
  <2>. QED  BY <2>4, <2>3, StoreType, MoveType DEF SuiteTypes
<1>5. CASE GetStep
  <2>1. It.n \in Nat
    BY <1>5, FormedCall DEF GetStep, Now, Formed
  <2>2. PICK i \in Slots : \E done \in Done(ClampSize(fat[i], It.n)) : Move(i, done)
    BY <1>5 DEF GetStep
  <2>3. PICK done \in Done(ClampSize(fat[i], It.n)) : Move(i, done)
    BY <2>2
  <2>4. done \in Int
    BY <2>1, <2>2, ClampType, DoneInt DEF SuiteTypes
  <2>5. media' = media
    BY <1>5 DEF GetStep
  <2>. QED  BY <2>4, <2>5, <2>3, MoveType DEF SuiteTypes
<1>6. CASE CtorStep
  <2>1. It.start \in Nat /\ It.size \in Nat
    BY <1>6, FormedCall DEF CtorStep, Now, Formed
  <2>2. It.start % U16 \in Bytes16 /\ It.size % U16 \in Bytes16 /\ 0 \in Bytes16
    BY <2>1, SizesAssumption DEF Bytes16
  <2>3. [mtd |-> TRUE, start |-> It.start % U16, size |-> It.size % U16, tip |-> 0] \in Handle
    BY <2>2 DEF Handle
  <2>. QED  BY <1>6, <2>3 DEF CtorStep, SuiteTypes
<1>7. CASE SeekStep
  <2>1. PICK i \in Slots : SetPosition(i, 0)
    BY <1>7 DEF SeekStep
  <2>2. PICK h \in Handle : h = fat[i]
    BY DEF SuiteTypes
  <2>3. [h EXCEPT !.tip = 0] \in Handle
    BY SizesAssumption DEF Handle, Bytes16
  <2>4. media' = media /\ (fat' = fat \/ fat' = [fat EXCEPT ![i] = [h EXCEPT !.tip = 0]])
    BY <2>1, <2>2 DEF SetPosition, Nothing, Halt, ram, SuiteTypes
  <2>. QED  BY <2>3, <2>4 DEF SuiteTypes
<1>8. CASE FsStep
  <2>1. CASE Restart
    BY <2>1, ClosedType DEF Restart, SuiteTypes
  <2>2. CASE Mount \/ Fsck \/ Umount
    BY <2>2 DEF Mount, Fsck, Umount, Nothing, Halt, ram, SuiteTypes
  <2>3. CASE Mkfs
    BY <2>3, FreshImage DEF Mkfs, Nothing, Halt, ram, SuiteTypes
  <2>4. ASSUME NEW m \in Image, NEW call, NEW name, OpenOn(call, m, name)
        PROVE  fat' \in [Slots -> Handle]
    <3>1. CASE fat' = fat
      BY <3>1 DEF SuiteTypes
    <3>2. CASE \E id \in Slots : fat' = [fat EXCEPT ![id] = Opened(@, m.toc[id])]
      <4>1. PICK id \in Slots : fat' = [fat EXCEPT ![id] = Opened(fat[id], m.toc[id])]
        BY <3>2 DEF SuiteTypes
      <4>2. Opened(fat[id], m.toc[id]) \in Handle
        BY OpenedType DEF Image, SuiteTypes
      <4>. QED  BY <4>1, <4>2 DEF SuiteTypes
    <3>. QED  BY <2>4, <3>1, <3>2 DEF OpenOn, ram
  <2>5. CASE Open(It.name)
    BY <2>4, <2>5 DEF Open, Halt, Nothing, ram, SuiteTypes
  <2>6. CASE Now("create") /\ Create(It.name, It.size)
    <3>1. It.name \in Names /\ It.size \in Nat
      BY <2>6, FormedCall DEF Now, Formed
    <3>2. CASE UNCHANGED <<media, fat>>
      BY <3>2 DEF SuiteTypes
    <3>3. CASE media' = Created(media, It.name, It.size) /\ OpenOn("create", media', It.name)
      <4>1. media' \in Image
        BY <3>1, <3>3, CreatedType DEF SuiteTypes
      <4>. QED  BY <2>4, <3>3, <4>1 DEF SuiteTypes
    <3>. QED  BY <2>6, <3>2, <3>3, Zenon DEF Create, Created, Halt, Nothing, ram
  <2>7. ASSUME NEW i \in Slots, Close(i) PROVE SuiteTypes'
    BY <2>7, ClosedType DEF Close, Halt, Nothing, ram, SuiteTypes
  <2>. QED  BY <1>8, <2>1, <2>2, <2>3, <2>5, <2>6, <2>7 DEF FsStep
<1>9. SuiteNext => \/ WriteStep \/ NvramSetStep \/ FsStep \/ CtorStep \/ SeekStep \/ PutStep \/ GetStep
                   \/ UNCHANGED <<media, fat>>
  BY DEF SuiteNext, ReadStep, CompareStep, DfStep, Return, vars
<1>. QED  BY <1>1, <1>2, <1>3, <1>4, <1>5, <1>6, <1>7, <1>8, <1>9 DEF svars, vars

-----------------------------------------------------------------------------
(* Before addres_translate_test() no byte it looks at is 85: the last      *)
(* tests compared all of them.                                             *)

(* The read that compares them, of erased or of patched memory.            *)
LookAt(c) == IF Paged(c) THEN TransAt(c) ELSE 2 * Runs(c) + Sets(c) + 1
Unwritten == \A x \in 0 .. ctx.len - 1 : mem[x] # 85

LooksOver(call, len) ==
  /\ call.op = "read" /\ call.at = 0 /\ call.n = len /\ call.cmp = len
  /\ \A x \in 0 .. len - 1 : call.ref[x] # 85

LEMMA RowEnds ==
  ASSUME NEW s, NEW t, IsSeq(s), IsSeq(t), Len(t) > 0
  PROVE  Len(s \o t) >= Len(t) /\ (s \o t)[Len(s \o t)] = t[Len(t)]
<1>1. /\ Len(s \o t) = Len(s) + Len(t) /\ Len(s) \in Nat /\ Len(t) \in Nat
      /\ \A i \in 1 .. Len(t) : (s \o t)[Len(s) + i] = t[i]
  BY InARow, LengthIsNat
<1>2. Len(t) \in 1 .. Len(t)
  BY <1>1
<1>3. (s \o t)[Len(s) + Len(t)] = t[Len(t)]
  BY <1>1, <1>2
<1>. QED  BY <1>1, <1>3

LEMMA LastMisaligned ==
  ASSUME NEW c \in Contexts, Paged(c)
  PROVE  LooksOver(RawCalls(c)[TransAt(c)], c.len) /\ TransAt(c) > 2 * Runs(c)
<1>1. PICK offset, n : offset = Places5(c)[6] /\ n = 2 * c.pagesize - 1
  OBVIOUS
<1>. DEFINE row == MisalignRow(c, 2 * c.pagesize - 1, Places5(c))
<1>2. Len(Places5(c)) = 6 /\ IsSeq(Places5(c))
  BY PlacesAreSeqs DEF Places5, IsSeq
<1>3. IsSeq(row) /\ Len(row) = 18
  <2>1. IsSeq(row) /\ Len(row) = 3 * Len(Places5(c))
    BY <1>2, MisalignRowIsSeq
  <2>. QED  BY <1>2, <2>1
<1>4. row[18] = Misalign(c, offset, n)[3]
  <2>1. (18 + 2) \div 3 = 6 /\ ((18 - 1) % 3) + 1 = 3 /\ 18 \in 1 .. 3 * 6
    OBVIOUS
  <2>2. row[18] = Misalign(c, Places5(c)[(18 + 2) \div 3], 2 * c.pagesize - 1)[((18 - 1) % 3) + 1]
    BY <1>2, <2>1 DEF MisalignRow
  <2>. QED  BY <1>1, <2>1, <2>2
<1>. HIDE DEF row
<1>5. /\ IsSeq(MisalignRow(c, c.pagesize + 1, Places1(c)))
      /\ IsSeq(MisalignRow(c, c.pagesize + 2, Places2(c)))
      /\ IsSeq(MisalignRow(c, 2 * c.pagesize + 1, Places3(c)))
      /\ IsSeq(MisalignRow(c, c.pagesize - 1, Places4(c)))
  BY PlacesAreSeqs, MisalignRowIsSeq DEF IsSeq
<1>6. Len(MisalignCheck(c)) >= 18 /\ MisalignCheck(c)[Len(MisalignCheck(c))] = row[18]
  <2>1. PICK s : s = MisalignRow(c, c.pagesize + 1, Places1(c)) \o MisalignRow(c, c.pagesize + 2, Places2(c))
                     \o MisalignRow(c, 2 * c.pagesize + 1, Places3(c))
                     \o MisalignRow(c, c.pagesize - 1, Places4(c))
    OBVIOUS
  <2>2. IsSeq(s)
    BY <1>5, <2>1, InARow
  <2>3. MisalignCheck(c) = s \o row
    BY <2>1, MisalignCheckIs DEF row
  <2>4. Len(row) > 0
    BY <1>3
  <2>5. Len(s \o row) >= Len(row) /\ (s \o row)[Len(s \o row)] = row[Len(row)]
    BY <1>3, <2>2, <2>4, RowEnds
  <2>6. Len(MisalignCheck(c)) >= Len(row) /\ MisalignCheck(c)[Len(MisalignCheck(c))] = row[Len(row)]
    BY <2>3, <2>5, Zenon
  <2>. QED  BY <1>3, <2>6
<1>7. PICK m \in Nat : m = Len(MisalignCheck(c)) /\ m >= 18
  BY <1>6, MisalignCheckIsSeq, LengthIsNat
<1>8. Extras(c) = AlignCheck(c) \o MisalignCheck(c)
  BY DEF Extras
<1>9. Len(Extras(c)) >= m /\ Extras(c)[Len(Extras(c))] = row[18]
  BY <1>6, <1>7, <1>8, AlignCheckIsSeq, MisalignCheckIsSeq, RowEnds
<1>10. PICK e \in Nat : e = Len(Extras(c)) /\ e >= 18
  BY <1>7, <1>9, ExtrasIsSeq, LengthIsNat
<1>11. RawCalls(c)[TransAt(c)] = row[18]
  BY <1>9, <1>10, FullWriteEraseIsSeq, ExtrasIsSeq, RowEnds DEF RawCalls, TransAt
<1>12. TransAt(c) > 2 * Runs(c)
  <2>1. TransAt(c) = Len(FullWriteErase(c)) + e
    BY <1>10, FullWriteEraseIsSeq, ExtrasIsSeq, InARow DEF RawCalls, TransAt
  <2>2. Len(FullWriteErase(c)) >= 2 * Runs(c)
    <3>1. Len(FullWriteErase(c)) = Runs(c) + Runs(c) + Len(NvramSet(c)) + Len(CheckErased(c))
      BY LoopsAreSeqs, NvramSetIsSeq, CheckErasedIsSeq, FullWriteEraseIs, InARow
    <3>. QED  BY <3>1, LoopsAreSeqs, NvramSetIsSeq, CheckErasedIsSeq, LengthIsNat
  <2>3. Len(FullWriteErase(c)) \in Nat
    BY FullWriteEraseIsSeq, LengthIsNat
  <2>. QED  BY <1>10, <2>1, <2>2, <2>3, LoopsAreSeqs
<1>13. PICK ref : ref = Patch(232, offset, n, 23)
  OBVIOUS
<1>14. PICK call : call = MtdRead(c.len, 0, ref, c.len)
  OBVIOUS
<1>15. row[18] = [call EXCEPT !.buf = Larger(c.len, offset + n)]
  BY <1>4, <1>13, <1>14 DEF Misalign
<1>16. /\ row[18].op = "read" /\ row[18].at = 0 /\ row[18].n = c.len /\ row[18].cmp = c.len
       /\ row[18].ref = ref
  BY <1>14, <1>15 DEF MtdRead
<1>17. \A x \in 0 .. c.len - 1 : ref[x] # 85
  <2>. TAKE x \in 0 .. c.len - 1
  <2>1. x \in 0 .. Capacity - 1
    BY LenInside, SizesAssumption
  <2>2. ref[x] = 232 \/ ref[x] = 23
    BY <1>13, <2>1, PatternBytes
  <2>. QED  BY <2>2
<1>. QED  BY <1>11, <1>12, <1>16, <1>17 DEF LooksOver

(* On an FRAM the first of the reads behind nvramset().                    *)
LEMMA FirstErased ==
  ASSUME NEW c \in Contexts, ~ Paged(c)
  PROVE  /\ LookAt(c) > 2 * Runs(c) /\ LookAt(c) <= TransAt(c)
         /\ LooksOver(RawCalls(c)[LookAt(c)], c.len)
         /\ \A p \in LookAt(c) .. TransAt(c) : RawCalls(c)[p].op = "read"
<1>1. PICK r \in Nat, n \in Nat : r = Runs(c) /\ n = Sets(c) /\ r # 0
  BY SomeRun, NvramSetIsSeq, LengthIsNat DEF Sets
<1>2. PICK s : s = FillRandom(c) \o ReadBack(c) \o NvramSet(c)
  OBVIOUS
<1>3. IsSeq(s) /\ Len(s) = 2 * r + n
  <2>1. IsSeq(FillRandom(c) \o ReadBack(c)) /\ Len(FillRandom(c) \o ReadBack(c)) = r + r
    BY <1>1, LoopsAreSeqs, InARow
  <2>2. IsSeq(s) /\ Len(s) = (r + r) + n
    BY <1>1, <1>2, <2>1, NvramSetIsSeq, InARow DEF Sets
  <2>. QED  BY <2>2
<1>4. PICK e : e = CheckErased(c)
  OBVIOUS
<1>5. IsSeq(e) /\ Len(e) = r /\ \A i \in 1 .. r : e[i] = MtdRead(c.len, (i - 1) * c.len, Fill(255), c.len)
  BY <1>1, <1>4, CheckErasedIsSeq DEF Runs
<1>6. RawCalls(c) = s \o e
  <2>1. FullWriteErase(c) = s \o e
    BY <1>2, <1>4, FullWriteEraseIs
  <2>2. PICK U : s \o e \in Seq(U)
    BY <1>3, <1>5, InARow DEF IsSeq
  <2>3. (s \o e) \o <<>> = s \o e
    BY <2>2
  <2>. QED  BY <2>1, <2>3 DEF RawCalls, Extras
<1>7. Joined(s, e, RawCalls(c), 2 * r + n, r)
  BY <1>3, <1>5, <1>6, InARowJoined
<1>8. PICK first \in Nat : first = 2 * r + n + 1 /\ LookAt(c) = first
  BY <1>1 DEF LookAt
<1>9. TransAt(c) = 2 * r + n + r
  BY <1>7 DEF Joined, TransAt
<1>10. ASSUME NEW p \in first .. 2 * r + n + r
       PROVE  /\ p - (2 * r + n) \in 1 .. r
              /\ RawCalls(c)[p] = MtdRead(c.len, ((p - (2 * r + n)) - 1) * c.len, Fill(255), c.len)
  <2>1. p - (2 * r + n) \in 1 .. r /\ p \in (2 * r + n) + 1 .. (2 * r + n) + r
    BY <1>8
  <2>2. RawCalls(c)[p] = e[p - (2 * r + n)]
    BY <1>7, <2>1 DEF Joined
  <2>. QED  BY <1>5, <2>1, <2>2
<1>11. \A p \in first .. 2 * r + n + r : RawCalls(c)[p].op = "read"
  BY <1>10, CallFields
<1>12. LooksOver(RawCalls(c)[first], c.len)
  <2>1. first \in first .. 2 * r + n + r /\ (first - (2 * r + n)) - 1 = 0
    BY <1>1, <1>8
  <2>2. RawCalls(c)[first] = MtdRead(c.len, 0 * c.len, Fill(255), c.len)
    BY <1>10, <2>1
  <2>3. 0 * c.len = 0 /\ c.len \in Nat
    BY Sizes
  <2>4. \A x \in 0 .. c.len - 1 : Fill(255)[x] # 85
    <3>. TAKE x \in 0 .. c.len - 1
    <3>1. x \in 0 .. Capacity - 1
      BY LenInside, SizesAssumption
    <3>2. Fill(255)[x] = 255
      BY <3>1, PatternBytes
    <3>. QED  BY <3>2
  <2>. QED  BY <2>2, <2>3, <2>4, CallFields DEF LooksOver
<1>. QED  BY <1>1, <1>8, <1>9, <1>11, <1>12

LEMMA LooksAre ==
  ASSUME NEW c \in Contexts
  PROVE  /\ LookAt(c) \in Nat /\ LookAt(c) > 2 * Runs(c) /\ LookAt(c) <= TransAt(c)
         /\ LooksOver(RawCalls(c)[LookAt(c)], c.len)
         /\ \A p \in LookAt(c) .. TransAt(c) : RawCalls(c)[p].op = "read"
<1>1. Runs(c) \in Nat /\ Sets(c) \in Nat /\ TransAt(c) \in Nat
  BY LoopsAreSeqs, NvramSetIsSeq, LengthIsNat, RawCallsIsSeq DEF Sets
<1>2. CASE Paged(c)
  <2>1. LookAt(c) = TransAt(c)
    BY <1>2 DEF LookAt
  <2>2. LooksOver(RawCalls(c)[TransAt(c)], c.len) /\ TransAt(c) > 2 * Runs(c)
    BY <1>2, LastMisaligned
  <2>3. \A p \in TransAt(c) .. TransAt(c) : p = TransAt(c)
    BY <1>1
  <2>. QED  BY <1>1, <2>1, <2>2, <2>3 DEF LooksOver
<1>3. CASE ~ Paged(c)
  <2>1. LookAt(c) \in Nat
    BY <1>1, <1>3 DEF LookAt
  <2>. QED  BY <1>3, <2>1, FirstErased
<1>. QED  BY <1>2, <1>3

Looked == verdict # "HALT" /\ pc \in LookAt(ctx) + 1 .. TransAt(ctx) + 1 => Unwritten

LEMMA RawCall ==
  ASSUME SuitePlace, pc <= TransAt(ctx)
  PROVE  It = RawCalls(ctx)[pc]
<1>1. ctx \in Contexts /\ pc \in Nat \ {0} /\ Steps = Suite(ctx) /\ TransAt(ctx) \in Nat
  BY RawCallsIsSeq DEF SuitePlace, Steps, Called
<1>2. Part(0, RawCalls(ctx), Steps)
  BY <1>1, MainParts
<1>3. pc - 1 \in 0 .. Len(RawCalls(ctx)) - 1 /\ pc = 0 + 1 + (pc - 1) /\ (pc - 1) + 1 = pc
  BY <1>1 DEF TransAt
<1>4. It = RawCalls(ctx)[(pc - 1) + 1]
  BY <1>2, <1>3, PartCall
<1>. QED  BY <1>3, <1>4

LEMMA LookedStep ==
  ASSUME SuitePlace, DOMAIN mem = 0 .. Capacity - 1, verdict # "HALT" => FirstTest, Looked,
         SuiteNext, More
  PROVE  Looked'
<1>. SUFFICES ASSUME verdict' # "HALT", pc' \in LookAt(ctx') + 1 .. TransAt(ctx') + 1
              PROVE  Unwritten'
  BY DEF Looked
<1>1. pc' = pc + 1 /\ ctx' = ctx /\ chip' = chip /\ ctx \in Contexts /\ pc \in Nat
  BY StepsGoOn DEF Return, SuitePlace
<1>2. PICK a \in Nat, t \in Nat : a = LookAt(ctx) /\ t = TransAt(ctx) /\ a > 2 * Runs(ctx) /\ a <= t
  BY <1>1, LooksAre, RawCallsIsSeq
<1>3. pc \in a .. t
  BY <1>1, <1>2
<1>4. It = RawCalls(ctx)[pc]
  BY <1>2, <1>3, RawCall
<1>5. It.op = "read"
  BY <1>1, <1>2, <1>3, <1>4, LooksAre
<1>6. ReadStep
  BY <1>5, DueRead
<1>7. mem' = mem
  BY <1>6 DEF ReadStep
<1>8. verdict # "HALT"
  BY DEF More
<1>9. CASE pc = a
  <2>1. LooksOver(It, ctx.len)
    BY <1>1, <1>2, <1>4, <1>9, LooksAre
  <2>2. AsConfigured
    <3>1. Runs(ctx) \in Nat
      BY <1>1, LoopsAreSeqs
    <3>2. pc > 2 * Runs(ctx)
      BY <1>2, <1>9, <3>1
    <3>. QED  BY <1>8, <3>2 DEF FirstTest
  <2>3. Same(Loaded(0, ctx.len), It.ref, ctx.len)
    BY <1>6, <2>1 DEF ReadStep, Check, LooksOver
  <2>4. ASSUME NEW x \in 0 .. ctx.len - 1 PROVE mem[x] # 85
    <3>1. ctx.len \in Nat /\ 0 + x = x /\ x < Capacity
      BY <1>1, LenInside, SizesAssumption
    <3>2. Loaded(0, ctx.len)[x] = mem[0 + x]
      BY <2>2, <3>1, WholeLoad
    <3>. QED  BY <2>1, <2>3, <3>1, <3>2 DEF Same, LooksOver
  <2>. QED  BY <1>1, <1>7, <2>4 DEF Unwritten
<1>10. CASE pc # a
  <2>1. pc \in LookAt(ctx) + 1 .. TransAt(ctx) + 1
    BY <1>1, <1>2, <1>3, <1>10
  <2>2. Unwritten
    BY <1>8, <2>1 DEF Looked
  <2>. QED  BY <1>1, <1>7, <2>2 DEF Unwritten
<1>. QED  BY <1>9, <1>10

-----------------------------------------------------------------------------
(* addres_translate_test() while transfers break off.                      *)

(* The byte at x when a test of n bytes is done.                           *)
Mark(n, x) == IF x \in TestOffset .. TestOffset + n - 1 THEN 85 ELSE 255

(* If the last byte that test i writes looks written before, then so does  *)
(* the byte behind it, that the test leaves alone and compares.            *)
Betrays(i) ==
  LET end == TestOffset + TransSize(ctx, i)
  IN TransSize(ctx, i) > 0 /\ mem[end - 1] = 85 => end < ctx.len /\ mem[end] = 85

(* filebuf is what the test before compared, and the memory behind the     *)
(* bytes of both tests is erased.                                          *)
Follows(m, n) ==
  \A x \in 0 .. ctx.len - 1 :
    /\ filebuf[x] = Mark(m, x)
    /\ x >= TestOffset + m /\ x >= TestOffset + n => mem[x] = 255

Standing(i, k) ==
  /\ i = 0 => filebuf = Stale
  /\ i > 0 => Follows(TransSize(ctx, i - 1), TransSize(ctx, i))
  /\ k = 2 => fat[0] = At(TestOffset, 2 * TransSize(ctx, i), 0)
  /\ k < 3 \/ pc - 1 \in lost => Betrays(i)
  /\ k = 3 /\ pc - 1 \in lost => TransSize(ctx, i) > 0

LostSoFar ==
  \A p \in lost : /\ p \in 1 .. pc - 1
                  /\ \/ MayBeLost(Steps[p])
                     \/ p = pc - 1 /\ \E i \in 0 .. 2 : AtTest(i, 3)

LossInv ==
  /\ SuiteTypes /\ Looked
  /\ verdict # "HALT" =>
       /\ pc <= TransAt(ctx) => filebuf = Stale
       /\ \A i \in 0 .. 2, k \in 0 .. 3 : AtTest(i, k) => Standing(i, k)
       /\ LostSoFar

(* A step of the suite on the right chip.                                  *)
OnChip ==
  /\ BuffersSuffice /\ DeviceSuits /\ PassPlace /\ AsConfigured /\ SuiteTypes
  /\ SuiteNext /\ More

LEMMA ThreeSizes ==
  ASSUME BuffersSuffice, DeviceSuits, NEW c \in Contexts
  PROVE  \E n \in Nat \ {0}, len \in Nat :
           /\ len = c.len /\ len <= Capacity /\ TestOffset + n + 1 <= len
           /\ TransSize(c, 0) = n /\ TransSize(c, 1) = n - 1 /\ TransSize(c, 2) = n + 1
<1>1. PICK n \in Nat \ {0} : n = IF Paged(c) THEN c.pagesize ELSE FramWrite
  BY Sizes
<1>2. PICK len \in Nat : len = c.len /\ len <= Capacity
  BY LenInside
<1>3. TestOffset + n + 1 <= len
  BY <1>1, <1>2, Sizes, SizesAssumption DEF BuffersSuffice
<1>4. TransSize(c, 0) = n /\ TransSize(c, 1) = n - 1 /\ TransSize(c, 2) = n + 1
  BY <1>1 DEF TransSize
<1>. QED  BY <1>2, <1>3, <1>4

LEMMA OnChipGoes ==
  ASSUME OnChip
  PROVE  /\ pc' = pc + 1 /\ ctx' = ctx /\ chip' = chip /\ ctx \in Contexts /\ pc \in Nat \ {0}
         /\ SuitePlace /\ DOMAIN mem = 0 .. Capacity - 1 /\ DOMAIN filebuf = 0 .. Capacity - 1
         /\ TransAt(ctx) \in Nat /\ Steps' = Steps /\ AsConfigured
<1>1. pc' = pc + 1 /\ ctx' = ctx /\ chip' = chip
  BY StepsGoOn DEF OnChip, Return
<1>2. SuitePlace /\ DOMAIN mem = 0 .. Capacity - 1 /\ DOMAIN filebuf = 0 .. Capacity - 1
  BY DEF OnChip, PassPlace
<1>. QED  BY <1>1, <1>2, RawCallsIsSeq DEF SuitePlace, Steps, OnChip

(* The watermark, as far as it got.                                        *)
LEMMA WatermarkStep ==
  ASSUME OnChip, NEW i \in 0 .. 2, AtTest(i, 0), Standing(i, 0)
  PROVE  Standing(i, 1)' /\ MayBeLost(It)
<1>1. /\ pc' = pc + 1 /\ ctx' = ctx /\ ctx \in Contexts /\ SuitePlace
      /\ DOMAIN mem = 0 .. Capacity - 1 /\ AsConfigured
  BY OnChipGoes
<1>2. PICK n \in Nat, len \in Nat : n = TransSize(ctx, i) /\ len = ctx.len /\ len <= Capacity
                                    /\ TestOffset + n <= len
  BY <1>1, TransSizes, LenInside DEF OnChip
<1>3. It = AddressTranslate(ctx, n)[1]
  <2>1. 0 + 1 = 1 /\ 0 \in 0 .. 3
    OBVIOUS
  <2>. QED  BY <1>1, <1>2, <2>1, CallOfTest DEF OnChip
<1>4. It.op = "write" /\ It.at = 0 /\ It.n = len /\ It.data = Fill(255) /\ It.checked = FALSE
  <2>1. PICK call : call = MtdWrite(Fill(255), ctx.len, 0)
    OBVIOUS
  <2>2. It = [call EXCEPT !.checked = FALSE]
    BY <1>3, <2>1 DEF AddressTranslate, Unchecked
  <2>3. call.op = "write" /\ call.at = 0 /\ call.n = len /\ call.data = Fill(255)
    BY <1>2, <2>1, CallFields
  <2>4. It.op = call.op /\ It.at = call.at /\ It.n = call.n /\ It.data = call.data /\ It.checked = FALSE
    BY <2>1, <2>2 DEF MtdWrite
  <2>. QED  BY <2>3, <2>4
<1>5. WriteStep
  BY <1>4, DueWrite DEF OnChip
<1>6. PICK done \in Done(len) : Store(Fill(255), 0, done)
  BY <1>4, <1>5 DEF WriteStep
<1>7. done \in 0 .. len
  BY <1>6, DoneRange
<1>8. ASSUME NEW x \in 0 .. len - 1 PROVE mem'[x] = IF x < done THEN 255 ELSE mem[x]
  <2>1. 0 \in Nat /\ done \in Nat /\ 0 + done <= Capacity
    BY <1>2, <1>7, SizesAssumption
  <2>2. PICK data : data = Fill(255)
    OBVIOUS
  <2>3. Store(data, 0, done)
    BY <1>6, <2>2
  <2>4. SuitePlace /\ AsConfigured /\ DOMAIN mem = 0 .. Capacity - 1
    BY <1>1
  <2>5. PICK at \in Nat : at = 0
    OBVIOUS
  <2>6. Store(data, at, done) /\ at + done <= Capacity /\ done \in Nat
    BY <2>1, <2>3, <2>5
  <2>7. /\ \A y \in 0 .. Capacity - 1 :
              mem'[y] = IF y \in at .. at + done - 1 THEN data[y - at] ELSE mem[y]
        /\ at >= SuperSize => media' = media
        /\ media = Unformatted => media' = Unformatted
    BY <2>4, <2>6, WholeStore
  <2>8. \A y \in 0 .. Capacity - 1 :
           mem'[y] = IF y \in 0 .. 0 + done - 1 THEN data[y - 0] ELSE mem[y]
    BY <2>5, <2>7
  <2>9. x \in 0 .. Capacity - 1 /\ x - 0 = x /\ (x \in 0 .. 0 + done - 1 <=> x < done)
    BY <1>2, <1>7, SizesAssumption
  <2>10. Fill(255)[x] = 255
    BY <2>9, PatternBytes
  <2>. QED  BY <2>8, <2>9, <2>10, <2>2
<1>9. filebuf' = filebuf /\ fat' = fat
  BY <1>5 DEF WriteStep, ram
<1>10. Betrays(i)'
  <2>1. Betrays(i)
    BY DEF Standing
  <2>2. PICK end \in Nat : end = TestOffset + n
    BY Sizes, <1>1
  <2>3. CASE n > 0 /\ mem'[end - 1] = 85
    <3>1. end - 1 \in 0 .. len - 1 /\ end \in Nat
      BY <1>1, <1>2, <2>2, <2>3, Sizes, SMTT(30)
    <3>2. ~ (end - 1 < done) /\ mem[end - 1] = 85
      BY <1>8, <2>3, <3>1
    <3>3. end < len /\ mem[end] = 85
      BY <1>2, <2>1, <2>2, <2>3, <3>2 DEF Betrays
    <3>4. end \in 0 .. len - 1 /\ ~ (end < done)
      BY <1>2, <1>7, <3>1, <3>2, <3>3
    <3>5. mem'[end] = 85
      BY <1>8, <3>3, <3>4
    <3>. QED  BY <1>1, <1>2, <2>2, <3>3, <3>5 DEF Betrays
  <2>4. CASE ~ (n > 0 /\ mem'[end - 1] = 85)
    BY <1>1, <1>2, <2>2, <2>4 DEF Betrays
  <2>. QED  BY <2>3, <2>4
<1>11. ASSUME i > 0 PROVE Follows(TransSize(ctx, i - 1), TransSize(ctx, i))'
  <2>1. PICK m : m = TransSize(ctx, i - 1)
    OBVIOUS
  <2>2. Follows(m, n)
    BY <1>2, <1>11, <2>1 DEF Standing
  <2>3. ASSUME NEW x \in 0 .. len - 1, mem[x] = 255 PROVE mem'[x] = 255
    BY <1>8, <2>3
  <2>4. Follows(m, n)'
    BY <1>1, <1>2, <1>9, <2>2, <2>3 DEF Follows
  <2>. QED  BY <1>1, <1>2, <2>1, <2>4
<1>12. i = 0 => filebuf' = Stale
  BY <1>9 DEF Standing
<1>. QED  BY <1>4, <1>10, <1>11, <1>12 DEF Standing, MayBeLost

(* The File of the test is built.                                          *)
LEMMA BuiltStep ==
  ASSUME OnChip, NEW i \in 0 .. 2, AtTest(i, 1), Standing(i, 1)
  PROVE  Standing(i, 2)' /\ lost' = lost
<1>1. pc' = pc + 1 /\ ctx' = ctx /\ ctx \in Contexts /\ SuitePlace
  BY OnChipGoes
<1>2. PICK n \in Nat, z \in Nat : n = TransSize(ctx, i) /\ z = 2 * n /\ z < U16 /\ TestOffset + n <= ctx.len
  BY <1>1, TransSizes DEF OnChip
<1>3. It = AddressTranslate(ctx, n)[1 + 1]
  BY <1>1, <1>2, CallOfTest DEF OnChip
<1>4. It.op = "ctor" /\ It.start = TestOffset /\ It.size = z
  BY <1>1, <1>2, <1>3, TranslateCalls
<1>5. CtorStep
  BY <1>4, DueOther DEF OnChip
<1>6. TestOffset % U16 = TestOffset /\ z % U16 = z
  <2>1. TestOffset \in Nat /\ TestOffset < U16 /\ U16 \in Nat
    BY <1>1, <1>2, LenInside, Sizes, SizesAssumption DEF OnChip, DeviceSuits, SmallDevice
  <2>. QED  BY <1>2, <2>1
<1>7. 0 \in Slots /\ DOMAIN fat = Slots
  BY SizesAssumption DEF Slots, OnChip, SuiteTypes
<1>8. fat'[0] = At(TestOffset, z, 0)
  BY <1>4, <1>5, <1>6, <1>7 DEF CtorStep, At
<1>9. UNCHANGED <<mem, filebuf, lost>>
  BY <1>5 DEF CtorStep
<1>10. Betrays(i)'
  BY <1>1, <1>9 DEF Standing, Betrays
<1>11. i > 0 => Follows(TransSize(ctx, i - 1), TransSize(ctx, i))'
  BY <1>1, <1>9 DEF Standing, Follows
<1>. QED  BY <1>1, <1>2, <1>8, <1>9, <1>10, <1>11 DEF Standing

(* The bytes of the test, as far as they got.                              *)
LEMMA WrittenStep ==
  ASSUME OnChip, NEW i \in 0 .. 2, AtTest(i, 2), Standing(i, 2), pc \notin lost
  PROVE  Standing(i, 3)' /\ lost' \subseteq lost \cup {pc}
<1>1. /\ pc' = pc + 1 /\ ctx' = ctx /\ ctx \in Contexts /\ SuitePlace /\ pc \in Nat
      /\ DOMAIN mem = 0 .. Capacity - 1 /\ AsConfigured
  BY OnChipGoes
<1>2. PICK n \in Nat, len \in Nat : n = TransSize(ctx, i) /\ len = ctx.len /\ len <= Capacity
                                    /\ TestOffset + n <= len
  BY <1>1, TransSizes, LenInside DEF OnChip
<1>3. It = AddressTranslate(ctx, n)[2 + 1]
  BY <1>1, <1>2, CallOfTest DEF OnChip
<1>4. It.op = "put" /\ It.n = n /\ It.name = Local /\ \A x \in 0 .. n - 1 : It.data[x] = 85
  BY <1>1, <1>2, <1>3, TranslateCalls
<1>5. PutStep
  BY <1>4, DueOther DEF OnChip
<1>6. PICK z \in Nat : z = 2 * n /\ fat[0] = At(TestOffset, z, 0)
  BY <1>2 DEF Standing
<1>7. PICK at \in Nat : at = TestOffset /\ Address(fat[0]) = at /\ at + n <= len
  <2>1. PICK at \in Nat : at = TestOffset
    BY <1>1, Sizes
  <2>2. Address(At(at, z, 0)) = at
    BY DEF Address, At
  <2>. QED  BY <1>2, <1>6, <2>1, <2>2
<1>8. ClampSize(fat[0], It.n) = n
  <2>1. 0 + n <= z /\ 0 \in Nat
    BY <1>6
  <2>. QED  BY <1>4, <1>6, <2>1, Clamped
<1>9. PICK j \in Slots :
        /\ HandleOf(j)
        /\ \E done \in Done(ClampSize(fat[j], It.n)) :
             /\ Store(It.data, Address(fat[j]), done)
             /\ Broke(done, ClampSize(fat[j], It.n))
  BY <1>5 DEF PutStep
<1>10. j = 0
  BY <1>4, <1>9 DEF HandleOf
<1>11. PICK done \in Done(n) : Store(It.data, Address(fat[0]), done) /\ Broke(done, n)
  BY <1>8, <1>9, <1>10
<1>12. done \in 0 .. n
  BY <1>11, DoneRange
<1>13. ASSUME NEW x \in 0 .. len - 1
       PROVE  mem'[x] = IF x \in at .. at + done - 1 THEN 85 ELSE mem[x]
  <2>1. done \in Nat /\ at + done <= Capacity
    BY <1>2, <1>7, <1>12, SizesAssumption
  <2>2. PICK data : data = It.data
    OBVIOUS
  <2>3. Store(data, at, done)
    BY <1>7, <1>11, <2>2
  <2>4. /\ \A y \in 0 .. Capacity - 1 :
              mem'[y] = IF y \in at .. at + done - 1 THEN data[y - at] ELSE mem[y]
        /\ at >= SuperSize => media' = media
        /\ media = Unformatted => media' = Unformatted
    <3>1. SuitePlace /\ AsConfigured /\ DOMAIN mem = 0 .. Capacity - 1
      BY <1>1
    <3>. QED  BY <2>1, <2>3, <3>1, WholeStore
  <2>5. x \in 0 .. Capacity - 1
    BY <1>2, SizesAssumption
  <2>6. x \in at .. at + done - 1 => x - at \in 0 .. n - 1
    BY <1>12
  <2>. QED  BY <1>4, <2>2, <2>4, <2>5, <2>6
<1>14. filebuf' = filebuf
  BY <1>5 DEF PutStep
<1>15. lost' = IF done < n THEN lost \cup {pc} ELSE lost
  BY <1>11 DEF Broke
<1>16. ASSUME pc' - 1 \in lost' PROVE Betrays(i)'
  <2>1. done < n /\ n > 0
    <3>1. pc' - 1 = pc
      BY <1>1
    <3>. QED  BY <1>2, <1>12, <1>15, <1>16, <3>1
  <2>2. Betrays(i)
    BY DEF Standing
  <2>3. PICK end \in Nat : end = at + n
    BY <1>2
  <2>4. end - 1 \in 0 .. len - 1 /\ ~ end - 1 \in at .. at + done - 1
    BY <1>7, <1>12, <2>1, <2>3
  <2>5. mem'[end - 1] = mem[end - 1]
    BY <1>13, <2>4
  <2>6. end < len => mem'[end] = mem[end]
    <3>. SUFFICES ASSUME end < len PROVE mem'[end] = mem[end]
      OBVIOUS
    <3>1. end \in 0 .. len - 1 /\ ~ end \in at .. at + done - 1
      BY <1>12, <2>1, <2>3
    <3>. QED  BY <1>13, <3>1
  <2>. QED  BY <1>1, <1>2, <1>7, <2>2, <2>3, <2>5, <2>6, SMTT(30) DEF Betrays
<1>17. ASSUME pc' - 1 \in lost' PROVE n > 0
  <2>1. pc' - 1 = pc
    BY <1>1
  <2>. QED  BY <1>2, <1>12, <1>15, <1>17, <2>1
<1>18. ASSUME i > 0 PROVE Follows(TransSize(ctx, i - 1), TransSize(ctx, i))'
  <2>1. PICK m : m = TransSize(ctx, i - 1)
    OBVIOUS
  <2>2. Follows(m, n)
    BY <1>2, <1>18, <2>1 DEF Standing
  <2>3. ASSUME NEW x \in 0 .. len - 1, x >= TestOffset + n PROVE mem'[x] = mem[x]
    <3>1. ~ x \in at .. at + done - 1
      BY <1>7, <1>12, <2>3
    <3>. QED  BY <1>13, <3>1
  <2>4. Follows(m, n)'
    BY <1>1, <1>2, <1>14, <2>2, <2>3 DEF Follows
  <2>. QED  BY <1>1, <1>2, <2>1, <2>4
<1>19. i = 0 => filebuf' = Stale
  BY <1>14 DEF Standing
<1>. QED  BY <1>1, <1>2, <1>15, <1>16, <1>18, <1>19, <1>17 DEF Standing

(* If the comparison agrees, the memory is what was compared: a buffer     *)
(* that was not filled differs where the bytes of this test end.           *)
Compared(n) == \A x \in 0 .. ctx.len - 1 : filebuf'[x] = Mark(n, x) /\ mem[x] = Mark(n, x)

LEMMA CompareTells ==
  ASSUME OnChip, BufferDiffers, NEW i \in 0 .. 2, AtTest(i, 3), Standing(i, 3), verdict' # "HALT"
  PROVE  /\ Compared(TransSize(ctx, i)) /\ pc - 1 \notin lost
         /\ It.op = "compare" /\ mem' = mem /\ lost' \subseteq lost \cup {pc}
<1>1. /\ ctx \in Contexts /\ SuitePlace /\ AsConfigured /\ pc \in Nat
      /\ DOMAIN filebuf = 0 .. Capacity - 1 /\ TestOffset \in Nat /\ Capacity \in Nat
  BY OnChipGoes, Sizes
<1>2. PICK b \in Nat \ {0}, len \in Nat :
        /\ len = ctx.len /\ len <= Capacity /\ TestOffset + b + 1 <= len
        /\ TransSize(ctx, 0) = b /\ TransSize(ctx, 1) = b - 1 /\ TransSize(ctx, 2) = b + 1
  BY <1>1, ThreeSizes DEF OnChip
<1>3. PICK n \in Nat : n = TransSize(ctx, i)
  BY <1>1, TransSizes DEF OnChip
<1>4. It = AddressTranslate(ctx, n)[3 + 1]
  BY <1>1, <1>3, CallOfTest DEF OnChip
<1>5. It.op = "compare" /\ It.at = 0 /\ It.n = len /\ It.cmp = len /\ It.ref = Patch(255, TestOffset, n, 85)
  <2>1. ctx \in Contexts /\ 3 \in 0 .. 3
    BY <1>1
  <2>2. /\ It.op = "compare" /\ It.at = 0 /\ It.n = ctx.len /\ It.cmp = ctx.len
        /\ It.ref = Patch(255, TestOffset, n, 85)
    BY <1>4, <2>1, TranslateCalls
  <2>. QED  BY <1>2, <2>2
<1>6. CompareStep
  BY <1>5, DueRest DEF OnChip
<1>7. PICK done \in Done(len) :
        /\ filebuf' = [x \in DOMAIN filebuf |-> IF x < done THEN Loaded(0, len)[x] ELSE filebuf[x]]
        /\ Broke(done, len)
  BY <1>5, <1>6 DEF CompareStep
<1>8. Same(filebuf', Patch(255, TestOffset, n, 85), len)
  BY <1>5, <1>6 DEF CompareStep, Check
<1>9. done \in 0 .. len
  BY <1>7, DoneRange
<1>10. ASSUME NEW x \in 0 .. len - 1 PROVE filebuf'[x] = Mark(n, x)
  <2>1. x \in 0 .. Capacity - 1
    BY <1>1, <1>2
  <2>2. Patch(255, TestOffset, n, 85)[x] = Mark(n, x)
    BY <2>1 DEF Patch, Mark
  <2>. QED  BY <1>8, <2>2 DEF Same
<1>11. ASSUME NEW x \in 0 .. len - 1
       PROVE  filebuf'[x] = IF x < done THEN mem[x] ELSE filebuf[x]
  <2>1. x \in DOMAIN filebuf /\ 0 + x < Capacity /\ 0 + x = x
    BY <1>1, <1>2
  <2>2. Loaded(0, len)[x] = mem[0 + x]
    BY <1>1, <2>1, WholeLoad
  <2>. QED  BY <1>7, <2>1, <2>2
<1>12. ASSUME NEW x \in 0 .. len - 1, ~ x < done PROVE mem[x] = Mark(n, x)
  <2>1. filebuf[x] = Mark(n, x)
    BY <1>10, <1>11, <1>12
  <2>2. CASE i = 0
    <3>1. len - 1 \in 0 .. len - 1 /\ ~ len - 1 < done
      BY <1>9, <1>12
    <3>2. filebuf[len - 1] = Mark(n, len - 1)
      BY <1>10, <1>11, <3>1
    <3>3. Mark(n, len - 1) = 255
      BY <1>1, <1>2, <1>3, <2>2, SMTT(30) DEF Mark
    <3>4. Stale[len - 1] # 255
      BY <1>1, <1>2 DEF BufferDiffers
    <3>. QED  BY <2>2, <3>2, <3>3, <3>4 DEF Standing
  <2>3. CASE i > 0
    <3>1. PICK m \in Nat : m = TransSize(ctx, i - 1) /\ m # n /\ TestOffset + m <= len /\ TestOffset + n <= len
      <4>1. CASE i = 1
        <5>1. TransSize(ctx, i - 1) = b /\ n = b - 1
          BY <1>2, <1>3, <4>1
        <5>. QED  BY <1>1, <1>2, <5>1, SMTT(30)
      <4>2. CASE i = 2
        <5>1. i - 1 = 1
          BY <4>2
        <5>2. TransSize(ctx, i - 1) = b - 1 /\ n = b + 1
          BY <1>2, <1>3, <4>2, <5>1
        <5>. QED  BY <1>1, <1>2, <5>2
      <4>. QED  BY <2>3, <4>1, <4>2
    <3>2. Follows(m, n)
      BY <1>3, <2>3, <3>1 DEF Standing
    <3>3. PICK e \in 0 .. len - 1 : /\ Mark(n, e) # Mark(m, e)
                                    /\ e + 1 >= TestOffset + m /\ e + 1 >= TestOffset + n
      <4>1. CASE n < m
        <5>1. TestOffset + m - 1 \in 0 .. len - 1
          BY <1>1, <3>1, <4>1
        <5>2. Mark(n, TestOffset + m - 1) = 255 /\ Mark(m, TestOffset + m - 1) = 85
          BY <1>1, <4>1 DEF Mark
        <5>. QED  BY <1>1, <4>1, <5>1, <5>2
      <4>2. CASE m < n
        <5>1. TestOffset + n - 1 \in 0 .. len - 1
          BY <1>1, <3>1, <4>2
        <5>2. Mark(m, TestOffset + n - 1) = 255 /\ Mark(n, TestOffset + n - 1) = 85
          BY <1>1, <4>2 DEF Mark
        <5>. QED  BY <1>1, <4>2, <5>1, <5>2
      <4>. QED  BY <3>1, <4>1, <4>2
    <3>4. e < done
      <4>. SUFFICES ASSUME ~ e < done PROVE FALSE
        OBVIOUS
      <4>1. filebuf[e] = Mark(n, e)
        BY <1>10, <1>11
      <4>2. filebuf[e] = Mark(m, e)
        BY <1>2, <3>2 DEF Follows
      <4>. QED  BY <3>3, <4>1, <4>2
    <3>5. x >= TestOffset + m /\ x >= TestOffset + n
      BY <1>1, <1>9, <1>12, <3>3, <3>4
    <3>6. mem[x] = 255
      BY <1>2, <3>2, <3>5 DEF Follows
    <3>7. Mark(n, x) = 255
      BY <1>1, <3>5 DEF Mark
    <3>. QED  BY <3>6, <3>7
  <2>. QED  BY <2>2, <2>3
<1>13. ASSUME NEW x \in 0 .. len - 1 PROVE mem[x] = Mark(n, x)
  BY <1>10, <1>11, <1>12
<1>14. pc - 1 \notin lost
  <2>. SUFFICES ASSUME pc - 1 \in lost PROVE FALSE
    OBVIOUS
  <2>1. Betrays(i) /\ n > 0
    BY <1>3 DEF Standing
  <2>2. PICK end \in Nat : end = TestOffset + n /\ end <= len
    <3>1. TestOffset + TransSize(ctx, i) <= ctx.len
      BY <1>1, TransSizes DEF OnChip
    <3>. QED  BY <1>1, <1>2, <1>3, <3>1
  <2>3. end - 1 \in 0 .. len - 1 /\ Mark(n, end - 1) = 85
    BY <1>1, <2>1, <2>2 DEF Mark
  <2>4. mem[end - 1] = 85
    BY <1>13, <2>3
  <2>5. end < len /\ mem[end] = 85
    BY <1>2, <1>3, <2>1, <2>2, <2>4 DEF Betrays
  <2>6. Mark(n, end) = 255
    BY <1>1, <2>2 DEF Mark
  <2>. QED  BY <1>13, <2>5, <2>6
<1>15. Compared(n)
  BY <1>2, <1>10, <1>13 DEF Compared
<1>16. mem' = mem
  BY <1>6 DEF CompareStep
<1>17. lost' \subseteq lost \cup {pc}
  BY <1>7 DEF Broke
<1>. QED  BY <1>3, <1>5, <1>14, <1>15, <1>16, <1>17

(* So the next test starts on what it compared.                            *)
LEMMA NextStands ==
  ASSUME OnChip, NEW i \in 0 .. 1, Compared(TransSize(ctx, i)), mem' = mem
  PROVE  Standing(i + 1, 0)'
<1>1. /\ ctx' = ctx /\ ctx \in Contexts /\ TestOffset \in Nat
  BY OnChipGoes, Sizes
<1>2. PICK b \in Nat \ {0}, len \in Nat :
        /\ len = ctx.len /\ len <= Capacity /\ TestOffset + b + 1 <= len
        /\ TransSize(ctx, 0) = b /\ TransSize(ctx, 1) = b - 1 /\ TransSize(ctx, 2) = b + 1
  BY <1>1, ThreeSizes DEF OnChip
<1>3. PICK m, n : m = TransSize(ctx, i) /\ n = TransSize(ctx, i + 1)
  OBVIOUS
<1>4. m \in Nat /\ n \in Nat
  <2>1. i \in 0 .. 2 /\ i + 1 \in 0 .. 2
    OBVIOUS
  <2>. QED  BY <1>1, <1>3, <2>1, TransSizes DEF OnChip
<1>5. ASSUME NEW x \in 0 .. len - 1 PROVE filebuf'[x] = Mark(m, x) /\ mem'[x] = Mark(m, x)
  BY <1>2, <1>3 DEF Compared
<1>6. Follows(m, n)'
  <2>1. ASSUME NEW x \in 0 .. len - 1, x >= TestOffset + m PROVE mem'[x] = 255
    <3>1. Mark(m, x) = 255
      BY <1>1, <1>4, <2>1 DEF Mark
    <3>. QED  BY <1>5, <3>1
  <2>. QED  BY <1>1, <1>2, <1>5, <2>1 DEF Follows
<1>7. Betrays(i + 1)'
  <2>1. PICK end \in Nat : end = TestOffset + n
    BY <1>1, <1>4
  <2>2. n > 0 /\ mem'[end - 1] = 85 => end < len /\ mem'[end] = 85
    <3>. SUFFICES ASSUME n > 0, mem'[end - 1] = 85 PROVE end < len /\ mem'[end] = 85
      OBVIOUS
    <3>1. CASE i = 0
      <4>1. m = b /\ n = b - 1
        BY <1>2, <1>3, <3>1
      <4>2. end \in 0 .. len - 1 /\ Mark(m, end) = 85
        BY <1>1, <1>2, <2>1, <4>1 DEF Mark
      <4>. QED  BY <1>5, <4>2
    <3>2. CASE i = 1
      <4>1. m = b - 1 /\ n = b + 1
        BY <1>2, <1>3, <3>2
      <4>2. end - 1 \in 0 .. len - 1 /\ Mark(m, end - 1) = 255
        BY <1>1, <1>2, <2>1, <4>1 DEF Mark
      <4>. QED  BY <1>5, <4>2
    <3>. QED  BY <3>1, <3>2
  <2>. QED  BY <1>1, <1>2, <1>3, <2>1, <2>2 DEF Betrays
<1>8. (i + 1) - 1 = i /\ i + 1 > 0
  OBVIOUS
<1>9. Follows(TransSize(ctx, i), TransSize(ctx, i + 1))'
  BY <1>1, <1>3, <1>6
<1>10. Follows(TransSize(ctx, (i + 1) - 1), TransSize(ctx, i + 1))'
  BY <1>8, <1>9
<1>. QED  BY <1>7, <1>8, <1>10 DEF Standing

(* Outside of addres_translate_test() every loss halts the suite, but that *)
(* of a piece of the ignored nvramset().                                   *)
LEMMA LostGrows == SuiteNext => lost' \subseteq lost \cup {pc}
  BY DEF SuiteNext, WriteStep, ReadStep, FsStep, DfStep, CtorStep, SeekStep, NvramSetStep,
         CompareStep, PutStep, GetStep, Return, Broke

LEMMA NoneBroke ==
  ASSUME NEW n \in Int, NEW m \in Int, n <= m, NEW done \in Done(n), Broke(done, n), done = m
  PROVE  lost' = lost
<1>1. done \in Int
  BY DoneInt
<1>. QED  BY <1>1 DEF Broke

LEMMA StrictLoss ==
  ASSUME SuiteTypes, Strict(It), SuiteNext, More, verdict' # "HALT"
  PROVE  (lost' = lost \/ MayBeLost(It)) /\ filebuf' = filebuf
<1>1. Formed(It) /\ It.op # "compare" /\ (It.op = "put" => It.checked)
  BY DEF Strict
<1>2. CASE WriteStep
  <2>1. It.op = "write" /\ It.n \in Nat /\ filebuf' = filebuf
    BY <1>1, <1>2 DEF WriteStep, Now, Formed
  <2>2. CASE It.checked
    <3>1. PICK n \in Nat : n = It.n
      BY <2>1
    <3>2. PICK done \in Done(n) : Broke(done, n) /\ done = n
      BY <1>2, <2>2, <3>1 DEF WriteStep, Check
    <3>. QED  BY <2>1, <3>1, <3>2, NoneBroke
  <2>. QED  BY <2>1, <2>2 DEF MayBeLost
<1>3. CASE NvramSetStep
  BY <1>3 DEF NvramSetStep, Now, MayBeLost
<1>4. CASE ReadStep
  <2>1. PICK n \in Nat : n = It.n
    BY <1>1, <1>4 DEF ReadStep, Now, Formed
  <2>2. PICK done \in Done(n) : Broke(done, n) /\ done = n
    BY <1>4, <2>1 DEF ReadStep, Check
  <2>3. lost' = lost
    BY <2>1, <2>2, NoneBroke
  <2>. QED  BY <1>4, <2>3 DEF ReadStep
<1>5. CASE PutStep
  <2>1. PICK m \in Nat : m = It.n
    BY <1>1, <1>5 DEF PutStep, Now, Formed
  <2>2. It.checked
    BY <1>1, <1>5 DEF PutStep, Now
  <2>3. PICK i \in Slots : \E done \in Done(ClampSize(fat[i], m)) :
            Broke(done, ClampSize(fat[i], m)) /\ done = m
    BY <1>5, <2>1, <2>2 DEF PutStep, Check
  <2>4. PICK n \in Int : n = ClampSize(fat[i], m) /\ n <= m
    BY ClampType DEF SuiteTypes
  <2>5. PICK done \in Done(n) : Broke(done, n) /\ done = m
    BY <2>3, <2>4
  <2>6. lost' = lost
    BY <2>1, <2>4, <2>5, NoneBroke
  <2>. QED  BY <1>5, <2>6 DEF PutStep
<1>6. CASE GetStep
  <2>1. PICK m \in Nat : m = It.n
    BY <1>1, <1>6 DEF GetStep, Now, Formed
  <2>2. PICK i \in Slots : \E done \in Done(ClampSize(fat[i], m)) :
            Broke(done, ClampSize(fat[i], m)) /\ done = m
    BY <1>6, <2>1 DEF GetStep, Check
  <2>3. PICK n \in Int : n = ClampSize(fat[i], m) /\ n <= m
    BY ClampType DEF SuiteTypes
  <2>4. PICK done \in Done(n) : Broke(done, n) /\ done = m
    BY <2>2, <2>3
  <2>5. lost' = lost
    BY <2>1, <2>3, <2>4, NoneBroke
  <2>. QED  BY <1>6, <2>5 DEF GetStep
<1>7. SuiteNext => \/ WriteStep \/ NvramSetStep \/ ReadStep \/ PutStep \/ GetStep
                   \/ lost' = lost /\ filebuf' = filebuf
  BY <1>1 DEF SuiteNext, CompareStep, FsStep, DfStep, CtorStep, SeekStep, Return, Now
<1>. QED  BY <1>2, <1>3, <1>4, <1>5, <1>6, <1>7

LEMMA SameTest ==
  ASSUME NEW t \in Nat, NEW i \in 0 .. 2, NEW j \in 0 .. 2, NEW k \in 0 .. 3, NEW m \in 0 .. 3,
         (t + 4 * i) + 1 + k = (t + 4 * j) + 1 + m
  PROVE  i = j /\ k = m
  OBVIOUS

(* The step into addres_translate_test(), and those within.                *)
LEMMA FirstStands ==
  ASSUME BuffersSuffice, DeviceSuits, Looked', verdict' # "HALT", ctx' = ctx, ctx \in Contexts,
         pc' = TransAt(ctx) + 1, filebuf' = Stale
  PROVE  Standing(0, 0)'
<1>1. PICK b \in Nat \ {0}, len \in Nat :
        len = ctx.len /\ TestOffset + b + 1 <= len /\ TransSize(ctx, 0) = b
  BY ThreeSizes
<1>2. LookAt(ctx) \in Nat /\ TransAt(ctx) \in Nat /\ LookAt(ctx) <= TransAt(ctx) /\ TestOffset \in Nat
  BY LooksAre, RawCallsIsSeq, Sizes
<1>3. pc' \in LookAt(ctx') + 1 .. TransAt(ctx') + 1
  BY <1>2
<1>4. Unwritten'
  BY <1>3 DEF Looked
<1>5. PICK end \in Nat : end = TestOffset + b /\ end - 1 \in 0 .. len - 1
  BY <1>1, <1>2
<1>6. mem'[end - 1] # 85
  BY <1>1, <1>4, <1>5 DEF Unwritten
<1>7. Betrays(0)'
  <2>1. TransSize(ctx', 0) = b
    BY <1>1
  <2>. QED  BY <1>5, <1>6, <2>1 DEF Betrays
<1>. QED  BY <1>7 DEF Standing

(* What a test leaves to the next call.                                    *)
Goes(i, k) ==
  /\ lost' \subseteq lost \cup {pc}
  /\ k < 3 => Standing(i, k + 1)'
  /\ k = 3 /\ i < 2 => Standing(i + 1, 0)'
  /\ k = 3 => pc - 1 \notin lost
  /\ pc \in lost' /\ k # 2 => MayBeLost(It)

LEMMA TestGoes ==
  ASSUME OnChip, BufferDiffers, NEW i \in 0 .. 2, NEW k \in 0 .. 3, AtTest(i, k), Standing(i, k),
         pc \notin lost, verdict' # "HALT"
  PROVE  Goes(i, k)
<1>1. lost' \subseteq lost \cup {pc}
  BY LostGrows DEF OnChip
<1>2. CASE k = 0
  <2>1. Standing(i, 1)' /\ MayBeLost(It)
    BY <1>2, WatermarkStep
  <2>. QED  BY <1>1, <1>2, <2>1 DEF Goes
<1>3. CASE k = 1
  <2>1. Standing(i, 2)' /\ lost' = lost
    BY <1>3, BuiltStep
  <2>. QED  BY <1>1, <1>3, <2>1 DEF Goes
<1>4. CASE k = 2
  <2>1. Standing(i, 3)'
    BY <1>4, WrittenStep
  <2>. QED  BY <1>1, <1>4, <2>1 DEF Goes
<1>5. CASE k = 3
  <2>1. Compared(TransSize(ctx, i)) /\ pc - 1 \notin lost /\ It.op = "compare" /\ mem' = mem
    BY <1>5, CompareTells
  <2>2. i < 2 => Standing(i + 1, 0)'
    <3>. SUFFICES ASSUME i < 2 PROVE Standing(i + 1, 0)'
      OBVIOUS
    <3>1. i \in 0 .. 1
      OBVIOUS
    <3>. QED  BY <2>1, <3>1, NextStands
  <2>. QED  BY <1>1, <1>5, <2>1, <2>2 DEF Goes, MayBeLost
<1>. QED  BY <1>2, <1>3, <1>4, <1>5

LEMMA LossStart ==
  ASSUME BuffersSuffice, WholeChunks
  PROVE  SuiteInit => LossInv
<1>. SUFFICES ASSUME SuiteInit PROVE LossInv
  OBVIOUS
<1>1. ctx \in Contexts /\ pc = 1 /\ lost = {} /\ filebuf = Stale
  BY DEF SuiteInit
<1>2. PICK t \in Nat, a \in Nat : t = TransAt(ctx) /\ a = LookAt(ctx) /\ a >= 1 /\ t >= 1
  <2>1. LookAt(ctx) \in Nat /\ TransAt(ctx) \in Nat /\ Runs(ctx) \in Nat
    BY <1>1, LooksAre, RawCallsIsSeq, LoopsAreSeqs
  <2>2. LookAt(ctx) > 2 * Runs(ctx) /\ LookAt(ctx) <= TransAt(ctx)
    BY <1>1, LooksAre
  <2>. QED  BY <2>1, <2>2
<1>3. SuiteTypes
  BY UnformattedType, ClosedType DEF SuiteInit, RamInit, SuiteTypes
<1>4. Looked
  BY <1>1, <1>2 DEF Looked
<1>5. \A i \in 0 .. 2, k \in 0 .. 3 : ~ AtTest(i, k)
  BY <1>1, <1>2 DEF AtTest
<1>. QED  BY <1>1, <1>3, <1>4, <1>5 DEF LossInv, LostSoFar

LEMMA LossStays ==
  ASSUME LossInv, UNCHANGED <<vars, mem, ctx, chip, pc, filebuf, lost>>,
         verdict' # "HALT" => verdict # "HALT"
  PROVE  LossInv'
<1>1. UNCHANGED <<media, fat, mem, ctx, pc, filebuf, lost>>
  BY DEF vars
<1>2. SuiteTypes' /\ Looked'
  BY <1>1 DEF LossInv, SuiteTypes, Looked, Unwritten
<1>. SUFFICES ASSUME verdict' # "HALT"
              PROVE  /\ pc' <= TransAt(ctx') => filebuf' = Stale
                     /\ \A i \in 0 .. 2, k \in 0 .. 3 : AtTest(i, k)' => Standing(i, k)'
                     /\ LostSoFar'
  BY <1>2 DEF LossInv
<1>3. \A i, k : AtTest(i, k)' <=> AtTest(i, k)
  BY <1>1 DEF AtTest
<1>4. \A i, k : Standing(i, k)' <=> Standing(i, k)
  BY <1>1 DEF Standing, Follows, Betrays
<1>5. LostSoFar
  BY DEF LossInv
<1>6. Steps' = Steps
  BY <1>1 DEF Steps
<1>7. LostSoFar'
  BY <1>1, <1>3, <1>5, <1>6 DEF LostSoFar
<1>8. /\ pc <= TransAt(ctx) => filebuf = Stale
      /\ \A i \in 0 .. 2, k \in 0 .. 3 : AtTest(i, k) => Standing(i, k)
  BY DEF LossInv
<1>9. pc' <= TransAt(ctx') => filebuf' = Stale
  BY <1>1, <1>8
<1>10. \A i \in 0 .. 2, k \in 0 .. 3 : AtTest(i, k)' => Standing(i, k)'
  BY <1>3, <1>4, <1>8, Zenon
<1>. QED  BY <1>7, <1>9, <1>10

LEMMA LossStep ==
  ASSUME BuffersSuffice, WholeChunks, DeviceSuits, BufferDiffers,
         PassPlace, ChipInv, LossInv, SuiteNext, More
  PROVE  LossInv'
<1>1. /\ SuitePlace /\ DOMAIN mem = 0 .. Capacity - 1 /\ verdict = "running"
      /\ SuiteTypes /\ Looked /\ LostSoFar
  BY DEF PassPlace, LossInv, More
<1>2. SuiteTypes'
  BY <1>1, TypesKept
<1>3. FirstTest
  BY <1>1 DEF ChipInv
<1>4. Looked'
  BY <1>1, <1>3, LookedStep
<1>. SUFFICES ASSUME verdict' # "HALT"
              PROVE  /\ pc' <= TransAt(ctx') => filebuf' = Stale
                     /\ \A i \in 0 .. 2, k \in 0 .. 3 : AtTest(i, k)' => Standing(i, k)'
                     /\ LostSoFar'
  BY <1>2, <1>4 DEF LossInv
<1>5. pc' = pc + 1 /\ ctx' = ctx /\ ctx \in Contexts /\ pc \in Nat \ {0} /\ Steps' = Steps
  BY <1>1, StepsGoOn DEF Return, SuitePlace, Steps
<1>6. PICK t \in Nat : t = TransAt(ctx) /\ t > 2 * Runs(ctx) /\ Runs(ctx) \in Nat
  <2>1. LookAt(ctx) \in Nat /\ TransAt(ctx) \in Nat /\ Runs(ctx) \in Nat
    BY <1>5, LooksAre, RawCallsIsSeq, LoopsAreSeqs
  <2>2. LookAt(ctx) > 2 * Runs(ctx) /\ LookAt(ctx) <= TransAt(ctx)
    BY <1>5, LooksAre
  <2>. QED  BY <2>1, <2>2
<1>7. /\ pc <= t => filebuf = Stale
      /\ \A i \in 0 .. 2, k \in 0 .. 3 : AtTest(i, k) => Standing(i, k)
  BY <1>1, <1>6 DEF LossInv
<1>8. pc \notin lost
  BY <1>1, <1>5 DEF LostSoFar
<1>9. \A p \in lost : p \in 1 .. pc' - 1
  BY <1>1, <1>5 DEF LostSoFar
<1>10. pc \in 1 .. pc' - 1
  BY <1>5
<1>11. CASE \A i \in 0 .. 2, k \in 0 .. 3 : ~ AtTest(i, k)
  <2>1. Strict(It)
    BY <1>1, <1>11, CallKinds
  <2>2. (lost' = lost \/ MayBeLost(It)) /\ filebuf' = filebuf
    BY <1>1, <2>1, StrictLoss
  <2>3. pc' <= t => filebuf' = Stale
    BY <1>5, <1>6, <1>7, <2>2
  <2>4. ASSUME NEW i \in 0 .. 2, NEW k \in 0 .. 3, AtTest(i, k)' PROVE Standing(i, k)'
    <3>1. pc = (t + 4 * i) + k
      BY <1>5, <1>6, <2>4 DEF AtTest
    <3>2. CASE k > 0
      <4>1. k - 1 \in 0 .. 3 /\ pc = (t + 4 * i) + 1 + (k - 1)
        BY <3>1, <3>2
      <4>. QED  BY <1>6, <1>11, <4>1 DEF AtTest
    <3>3. CASE k = 0 /\ i > 0
      <4>1. i - 1 \in 0 .. 2 /\ 3 \in 0 .. 3 /\ pc = (t + 4 * (i - 1)) + 1 + 3
        BY <3>1, <3>3
      <4>. QED  BY <1>6, <1>11, <4>1 DEF AtTest
    <3>4. CASE k = 0 /\ i = 0
      <4>1. pc' = TransAt(ctx) + 1 /\ filebuf' = Stale
        BY <1>5, <1>6, <1>7, <2>2, <3>1, <3>4
      <4>. QED  BY <1>4, <1>5, <3>4, <4>1, FirstStands
    <3>. QED  BY <3>2, <3>3, <3>4
  <2>5. LostSoFar'
    <3>. SUFFICES ASSUME NEW p \in lost' PROVE p \in 1 .. pc' - 1 /\ MayBeLost(Steps'[p])
      BY DEF LostSoFar
    <3>1. CASE p \in lost
      <4>1. MayBeLost(Steps[p])
        BY <1>1, <1>11, <3>1 DEF LostSoFar
      <4>. QED  BY <1>5, <1>9, <3>1, <4>1
    <3>2. CASE p \notin lost
      <4>1. p = pc /\ lost' # lost
        BY <3>2, LostGrows
      <4>. QED  BY <1>5, <1>10, <2>2, <4>1 DEF It
    <3>. QED  BY <3>1, <3>2
  <2>. QED  BY <1>5, <1>6, <2>3, <2>4, <2>5
<1>12. CASE \E i \in 0 .. 2, k \in 0 .. 3 : AtTest(i, k)
  <2>1. PICK i \in 0 .. 2, k \in 0 .. 3 : AtTest(i, k)
    BY <1>12
  <2>2. pc = (t + 4 * i) + 1 + k /\ pc > t
    BY <1>6, <2>1 DEF AtTest
  <2>3. AsConfigured
    BY <1>3, <1>6, <2>2 DEF FirstTest
  <2>4. OnChip
    BY <1>1, <2>3 DEF OnChip
  <2>5. Goes(i, k)
    BY <1>7, <1>8, <2>1, <2>4, TestGoes
  <2>6. ~ pc' <= t
    BY <1>5, <2>2
  <2>7. ASSUME NEW j \in 0 .. 2, NEW m \in 0 .. 3, AtTest(j, m)' PROVE Standing(j, m)'
    <3>1. (t + 4 * i) + 1 + k + 1 = (t + 4 * j) + 1 + m
      BY <1>5, <1>6, <2>2, <2>7 DEF AtTest
    <3>2. CASE k < 3
      <4>1. k + 1 \in 0 .. 3 /\ (t + 4 * i) + 1 + (k + 1) = (t + 4 * j) + 1 + m
        BY <3>1, <3>2
      <4>2. j = i /\ m = k + 1
        BY <4>1, SameTest
      <4>. QED  BY <2>5, <3>2, <4>2 DEF Goes
    <3>3. CASE k = 3
      <4>1. i < 2
        BY <3>1, <3>3
      <4>2. i + 1 \in 0 .. 2 /\ 0 \in 0 .. 3 /\ (t + 4 * (i + 1)) + 1 + 0 = (t + 4 * j) + 1 + m
        BY <3>1, <3>3, <4>1
      <4>3. j = i + 1 /\ m = 0
        BY <4>2, SameTest
      <4>. QED  BY <2>5, <3>3, <4>1, <4>3 DEF Goes
    <3>. QED  BY <3>2, <3>3
  <2>8. LostSoFar'
    <3>. SUFFICES ASSUME NEW p \in lost'
                  PROVE  /\ p \in 1 .. pc' - 1
                         /\ \/ MayBeLost(Steps'[p])
                            \/ p = pc' - 1 /\ \E j \in 0 .. 2 : AtTest(j, 3)'
      BY DEF LostSoFar
    <3>1. CASE p \in lost
      <4>1. MayBeLost(Steps[p])
        <5>. SUFFICES ASSUME ~ MayBeLost(Steps[p]) PROVE FALSE
          OBVIOUS
        <5>1. p = pc - 1 /\ \E j \in 0 .. 2 : AtTest(j, 3)
          BY <1>1, <3>1 DEF LostSoFar
        <5>2. PICK j \in 0 .. 2 : AtTest(j, 3)
          BY <5>1
        <5>3. 3 \in 0 .. 3 /\ (t + 4 * i) + 1 + k = (t + 4 * j) + 1 + 3
          BY <1>6, <2>2, <5>2 DEF AtTest
        <5>4. k = 3
          BY <5>3, SameTest
        <5>. QED  BY <2>5, <3>1, <5>1, <5>4 DEF Goes
      <4>. QED  BY <1>5, <1>9, <3>1, <4>1
    <3>2. CASE p \notin lost
      <4>1. p = pc /\ pc \in lost'
        BY <3>2, LostGrows
      <4>2. CASE k = 2
        <5>1. AtTest(i, 3)'
          BY <1>5, <1>6, <2>2, <4>2 DEF AtTest
        <5>2. p = pc' - 1
          BY <1>5, <4>1
        <5>. QED  BY <1>10, <4>1, <5>1, <5>2
      <4>3. CASE k # 2
        <5>1. MayBeLost(It)
          BY <2>5, <4>1, <4>3 DEF Goes
        <5>. QED  BY <1>5, <1>10, <4>1, <5>1 DEF It
      <4>. QED  BY <4>2, <4>3
    <3>. QED  BY <3>1, <3>2
  <2>. QED  BY <1>5, <1>6, <2>6, <2>7, <2>8
<1>. QED  BY <1>11, <1>12

(* What a user of the suite grants it: buffers that suffice, chips and     *)
(* random bytes that differ, a device that suits the tests of files, and a *)
(* buffer that does not look erased.                                       *)
Granted ==
  BuffersSuffice /\ ChipsDiffer /\ RandomDiffers /\ WholeChunks /\ DeviceSuits /\ BufferDiffers

LEMMA LossKept ==
  ASSUME Granted
  PROVE  PassPlace /\ ChipInv /\ LossInv /\ [SuiteNext]_svars => LossInv'
<1>. SUFFICES ASSUME PassPlace, ChipInv, LossInv, [SuiteNext]_svars PROVE LossInv'
  OBVIOUS
<1>1. CASE SuiteNext /\ More
  BY <1>1, LossStep DEF Granted
<1>2. CASE Return \/ UNCHANGED svars
  <2>1. UNCHANGED <<vars, mem, ctx, chip, pc, filebuf, lost>>
    BY <1>2 DEF Return, svars
  <2>2. verdict' # "HALT" => verdict # "HALT"
    BY <1>2 DEF Return, svars
  <2>. QED  BY <2>1, <2>2, LossStays
<1>. QED  BY <1>1, <1>2, StepsGoOn

LEMMA LossInvariant == Granted => (SuiteSpec => [](PassPlace /\ ChipInv /\ LossInv))
<1>. SUFFICES ASSUME Granted PROVE SuiteSpec => [](PassPlace /\ ChipInv /\ LossInv)
  OBVIOUS
<1>1. SuiteInit => ChipInv /\ LossInv
  BY ChipInit, LossStart DEF Granted
<1>2. ChipInv /\ [SuiteNext]_svars => ChipInv'
  BY ChipStep DEF Granted
<1>3. PassPlace /\ ChipInv /\ LossInv /\ [SuiteNext]_svars => LossInv'
  BY LossKept
<1>. QED  BY <1>1, <1>2, <1>3, PassPlaceInvariant, PTL DEF SuiteSpec

(* A suite that passed has lost no transfer but those it may lose, however *)
(* many of its transfers break off, on whatever chip.                      *)
THEOREM LostTransfersAreFound ==
  BuffersSuffice /\ ChipsDiffer /\ RandomDiffers /\ WholeChunks /\ DeviceSuits /\ BufferDiffers
  => (SuiteSpec => []LostTransfersFound)
<1>. SUFFICES ASSUME Granted PROVE SuiteSpec => []LostTransfersFound
  BY DEF Granted
<1>1. PassPlace /\ LossInv /\ PassedAtEnd => LostTransfersFound
  <2>. SUFFICES ASSUME PassPlace, LossInv, PassedAtEnd, verdict = "passed", NEW p \in lost
                PROVE  MayBeLost(Steps[p])
    BY DEF LostTransfersFound
  <2>1. ctx \in Contexts /\ pc \in Nat /\ Steps = Suite(ctx)
    BY DEF PassPlace, SuitePlace, Steps, Called
  <2>2. PICK t \in Nat, n \in Nat : t = TransAt(ctx) /\ n = Sets(ctx) /\ EndsAt(ctx) = t + 101 + n
    <3>1. TransAt(ctx) \in Nat /\ Sets(ctx) \in Nat
      BY <2>1, Offsets DEF Granted
    <3>. QED  BY <3>1 DEF PutAt, MkfsAt, MountAt, FilesAt, EndsAt
  <2>3. Len(Steps) = (t + 101 + n) + 4 + n
    BY <2>1, <2>2, MainParts
  <2>4. pc > Len(Steps)
    BY DEF PassedAtEnd
  <2>5. ASSUME NEW j \in 0 .. 2, AtTest(j, 3) PROVE FALSE
    <3>1. pc = (t + 4 * j) + 1 + 3
      BY <2>2, <2>5 DEF AtTest
    <3>2. pc > (t + 101 + n) + 4 + n
      BY <2>3, <2>4
    <3>. QED  BY <2>2, <3>1, <3>2
  <2>6. LostSoFar
    BY DEF LossInv
  <2>. QED  BY <2>5, <2>6 DEF LostSoFar
<1>. QED  BY <1>1, LossInvariant, EndInvariant, PTL

(* If the comparison of addres_translate_test() agrees, the chip holds     *)
(* what was compared, whatever was lost before.                            *)
THEOREM ComparedBytesAreStored ==
  BuffersSuffice /\ ChipsDiffer /\ RandomDiffers /\ WholeChunks /\ DeviceSuits /\ BufferDiffers
  => (SuiteSpec => ComparedIsStored)
<1>. SUFFICES ASSUME Granted PROVE SuiteSpec => ComparedIsStored
  BY DEF Granted
<1>. DEFINE Agrees == Now("compare") /\ verdict' # "HALT" => Same(Loaded(It.at, It.n), It.ref, It.cmp)
<1>1. PassPlace /\ ChipInv /\ LossInv /\ [SuiteNext]_svars => [Agrees]_svars
  <2>. SUFFICES ASSUME PassPlace, ChipInv, LossInv, SuiteNext, More, It.op = "compare", verdict' # "HALT"
                PROVE  Same(Loaded(It.at, It.n), It.ref, It.cmp)
    BY DEF Now
  <2>1. /\ SuitePlace /\ ctx \in Contexts /\ SuiteTypes /\ FirstTest
        /\ \A i \in 0 .. 2, k \in 0 .. 3 : AtTest(i, k) => Standing(i, k)
    BY DEF PassPlace, SuitePlace, LossInv, ChipInv, More
  <2>2. PICK i \in 0 .. 2, k \in 0 .. 3 : AtTest(i, k)
    BY <2>1, CallKinds DEF Strict, Granted
  <2>3. PICK n \in Nat : n = TransSize(ctx, i) /\ It = AddressTranslate(ctx, n)[k + 1]
    BY <2>1, <2>2, CallOfTest DEF Granted
  <2>4. k = 3
    BY <2>1, <2>3, TranslateCalls
  <2>5. /\ It.at = 0 /\ It.n = ctx.len /\ It.cmp = ctx.len
        /\ It.ref = Patch(255, TestOffset, n, 85)
    BY <2>1, <2>3, <2>4, TranslateCalls
  <2>6. AsConfigured
    <3>1. Runs(ctx) \in Nat /\ TransAt(ctx) \in Nat /\ LookAt(ctx) \in Nat
      BY <2>1, LoopsAreSeqs, LooksAre, RawCallsIsSeq
    <3>2. LookAt(ctx) > 2 * Runs(ctx) /\ LookAt(ctx) <= TransAt(ctx)
      BY <2>1, LooksAre
    <3>3. pc > 2 * Runs(ctx)
      BY <2>2, <3>1, <3>2 DEF AtTest
    <3>. QED  BY <2>1, <3>3 DEF FirstTest
  <2>7. OnChip
    BY <2>1, <2>6 DEF OnChip, Granted
  <2>8. Compared(n)
    BY <2>1, <2>2, <2>3, <2>4, <2>7, CompareTells DEF Granted
  <2>9. PICK len \in Nat : len = ctx.len /\ len <= Capacity /\ Capacity \in Nat
    BY <2>1, LenInside, Sizes
  <2>10. ASSUME NEW x \in 0 .. len - 1
         PROVE  Loaded(0, len)[x] = Patch(255, TestOffset, n, 85)[x]
    <3>1. 0 + x < Capacity /\ 0 + x = x /\ x \in 0 .. Capacity - 1
      BY <2>9
    <3>2. Loaded(0, len)[x] = mem[0 + x]
      BY <2>1, <2>6, <2>9, <3>1, WholeLoad
    <3>3. Patch(255, TestOffset, n, 85)[x] = Mark(n, x)
      BY <3>1 DEF Patch, Mark
    <3>. QED  BY <2>8, <2>9, <3>1, <3>2, <3>3 DEF Compared
  <2>. QED  BY <2>5, <2>9, <2>10 DEF Same
<1>2. [][Agrees]_svars <=> ComparedIsStored
  BY DEF ComparedIsStored
<1>. HIDE DEF Agrees
<1>. QED  BY <1>1, <1>2, LossInvariant, PTL DEF SuiteSpec
=============================================================================
