--------------------------- MODULE NvramSuiteProofs ---------------------------
(***************************************************************************)
(* Theorems about NvramSuite, the test suite of the library, for every     *)
(* context, chip and sequence of random bytes, checked by TLAPS.           *)
(***************************************************************************)
EXTENDS NvramSuite, SequenceTheorems, WellFoundedInduction, TLAPS

-----------------------------------------------------------------------------
(* The script of the suite: a chain of sequences.                          *)

IsSeq(s) == \E S : s \in Seq(S)

(* No call of the script reaches behind buffers of len bytes.              *)
Fits(s, len) == \A i \in 1 .. Len(s) : s[i].buf <= len

(* Enumerating the first numbers makes a sequence.                         *)
LEMMA FunctionIsSeq ==
  ASSUME NEW n \in Nat, NEW f, f = [i \in 1 .. n |-> f[i]]
  PROVE  IsSeq(f) /\ Len(f) = n
<1>. DEFINE S == {f[i] : i \in 1 .. n}
<1>1. f \in [1 .. n -> S]
  OBVIOUS
<1>2. f \in Seq(S)
  BY <1>1, SeqDef
<1>3. Len(f) \in Nat /\ DOMAIN f = 1 .. Len(f)
  BY <1>2, LenProperties
<1>4. DOMAIN f = 1 .. n
  BY <1>1
<1>5. 1 .. Len(f) = 1 .. n
  BY <1>3, <1>4
<1>6. Len(f) = n
  <2>1. Len(f) <= n
    <3>1. Len(f) = 0 \/ Len(f) \in 1 .. n
      BY <1>3, <1>5
    <3>. QED  BY <3>1
  <2>2. n <= Len(f)
    <3>1. n = 0 \/ n \in 1 .. Len(f)
      BY <1>5
    <3>. QED  BY <3>1, <1>3
  <2>. QED  BY <2>1, <2>2, <1>3
<1>. QED  BY <1>2, <1>6 DEF IsSeq

LEMMA LengthIsNat ==
  ASSUME NEW s, IsSeq(s)
  PROVE  Len(s) \in Nat
  BY LenProperties DEF IsSeq

(* The calls of two scripts in a row.                                      *)
LEMMA InARow ==
  ASSUME NEW s, NEW t, IsSeq(s), IsSeq(t)
  PROVE  /\ IsSeq(s \o t)
         /\ Len(s \o t) = Len(s) + Len(t)
         /\ \A i \in 1 .. Len(s) : (s \o t)[i] = s[i]
         /\ \A i \in 1 .. Len(t) : (s \o t)[Len(s) + i] = t[i]
<1>1. PICK S : s \in Seq(S)
  BY DEF IsSeq
<1>2. PICK T : t \in Seq(T)
  BY DEF IsSeq
<1>. DEFINE U == S \cup T
<1>3. s \in Seq(U) /\ t \in Seq(U)
  BY <1>1, <1>2, SeqMonotonic
<1>. HIDE DEF U
<1>4. /\ s \o t \in Seq(U)
      /\ Len(s \o t) = Len(s) + Len(t)
      /\ \A i \in 1 .. Len(s) + Len(t) :
            (s \o t)[i] = IF i <= Len(s) THEN s[i] ELSE t[i - Len(s)]
  BY <1>3, ConcatProperties
<1>5. Len(s) \in Nat /\ Len(t) \in Nat
  BY LengthIsNat
<1>. QED  BY <1>4, <1>5 DEF IsSeq

LEMMA InARowFits ==
  ASSUME NEW s, NEW t, NEW len, IsSeq(s), IsSeq(t), Fits(s, len), Fits(t, len)
  PROVE  Fits(s \o t, len)
<1>1. Len(s) \in Nat /\ Len(t) \in Nat
  BY LengthIsNat
<1>2. SUFFICES ASSUME NEW i \in 1 .. Len(s \o t)
               PROVE  (s \o t)[i].buf <= len
  BY DEF Fits
<1>3. CASE i <= Len(s)
  BY <1>1, <1>2, <1>3, InARow DEF Fits
<1>4. CASE i > Len(s)
  <2>1. PICK j \in 1 .. Len(t) : i = Len(s) + j
    <3>1. i - Len(s) \in 1 .. Len(t) /\ i = Len(s) + (i - Len(s))
      BY <1>1, <1>2, <1>4, InARow
    <3>. QED  BY <3>1
  <2>2. (s \o t)[i] = t[j]
    BY <2>1, InARow
  <2>. QED  BY <2>1, <2>2 DEF Fits
<1>. QED  BY <1>1, <1>2, <1>3, <1>4, InARow

(* Tuples.                                                                 *)
LEMMA PairIsSeq ==
  ASSUME NEW a, NEW b
  PROVE  IsSeq(<<a, b>>) /\ Len(<<a, b>>) = 2 /\ <<a, b>>[1] = a /\ <<a, b>>[2] = b
<1>1. <<a, b>> \in Seq({a, b})
  OBVIOUS
<1>. QED  BY <1>1 DEF IsSeq

LEMMA ShortTuples ==
  /\ IsSeq(<<>>) /\ Len(<<>>) = 0
  /\ \A a : IsSeq(<<a>>) /\ Len(<<a>>) = 1 /\ <<a>>[1] = a
  /\ \A a, b, c : IsSeq(<<a, b, c>>) /\ Len(<<a, b, c>>) = 3
  /\ \A a, b, c, d : IsSeq(<<a, b, c, d>>) /\ Len(<<a, b, c, d>>) = 4
<1>1. IsSeq(<<>>) /\ Len(<<>>) = 0
  BY EmptySeq DEF IsSeq
<1>2. ASSUME NEW a
      PROVE  IsSeq(<<a>>) /\ Len(<<a>>) = 1 /\ <<a>>[1] = a
  <2>1. <<a>> \in Seq({a})
    OBVIOUS
  <2>. QED  BY <2>1 DEF IsSeq
<1>3. ASSUME NEW a, NEW b, NEW c
      PROVE  IsSeq(<<a, b, c>>) /\ Len(<<a, b, c>>) = 3
  <2>1. <<a, b, c>> \in Seq({a, b, c})
    OBVIOUS
  <2>. QED  BY <2>1 DEF IsSeq
<1>4. ASSUME NEW a, NEW b, NEW c, NEW d
      PROVE  IsSeq(<<a, b, c, d>>) /\ Len(<<a, b, c, d>>) = 4
  <2>1. <<a, b, c, d>> \in Seq({a, b, c, d})
    OBVIOUS
  <2>. QED  BY <2>1 DEF IsSeq
<1>. QED  BY <1>1, <1>2, <1>3, <1>4

(* Both at once, for the long chains.                                      *)
Held(s, len) == IsSeq(s) /\ Fits(s, len)

LEMMA InARowHeld ==
  ASSUME NEW s, NEW t, NEW len, Held(s, len), Held(t, len)
  PROVE  Held(s \o t, len)
  BY InARow, InARowFits DEF Held

-----------------------------------------------------------------------------
(* The tests are sequences of calls.                                       *)

LEMMA Sizes ==
  ASSUME NEW c \in Contexts
  PROVE  /\ c.pagesize \in Nat \ {0} /\ c.pages \in Nat \ {0} /\ c.len \in Nat \ {0}
         /\ Capacity \in Nat \ {0} /\ FramChunk \in Nat \ {0} /\ FramWrite \in Nat \ {0}
         /\ TestOffset \in Nat
         /\ c.pagesize * c.pages = Capacity /\ Capacity % c.len = 0
         /\ Paged(c) => c.pagesize > 2
<1>1. c \in [pagesize: Nat \ {0}, pages: Nat \ {0}, len: Nat \ {0}]
  BY SuiteAssumption
<1>. QED  BY <1>1, SuiteAssumption, SizesAssumption

LEMMA Quotients ==
  ASSUME NEW a \in Nat, NEW b \in Nat \ {0}
  PROVE  a \div b \in Nat /\ (a \div b) * b <= a /\ a < (a \div b) * b + b
  OBVIOUS

(* Bytes of one write of nvramset().                                       *)
SetSize(c) == IF Paged(c) THEN c.pagesize ELSE FramChunk

LEMMA NvramSetIsSeq ==
  ASSUME NEW c \in Contexts
  PROVE  /\ IsSeq(NvramSet(c))
         /\ Len(NvramSet(c)) = Capacity \div SetSize(c)
         /\ \A i \in 1 .. Len(NvramSet(c)) :
              NvramSet(c)[i] = MtdWrite(Fill(255), SetSize(c), (i - 1) * SetSize(c))
<1>. DEFINE f == NvramSet(c)
            n == Capacity \div SetSize(c)
<1>1. f = [i \in 1 .. n |-> MtdWrite(Fill(255), SetSize(c), (i - 1) * SetSize(c))]
  BY DEF NvramSet, Each, SetSize
<1>2. n \in Nat
  BY Sizes, Quotients DEF SetSize
<1>. HIDE DEF f, n
<1>3. \A i \in 1 .. n : f[i] = MtdWrite(Fill(255), SetSize(c), (i - 1) * SetSize(c))
  BY <1>1
<1>4. f = [i \in 1 .. n |-> f[i]]
  BY <1>1
<1>5. IsSeq(f) /\ Len(f) = n
  BY <1>2, <1>4, FunctionIsSeq
<1>. QED  BY <1>3, <1>5 DEF f, n

LEMMA CheckErasedIsSeq ==
  ASSUME NEW c \in Contexts
  PROVE  /\ IsSeq(CheckErased(c))
         /\ Len(CheckErased(c)) = Capacity \div c.len
         /\ \A i \in 1 .. Len(CheckErased(c)) :
              CheckErased(c)[i] = MtdRead(c.len, (i - 1) * c.len, Fill(255), c.len)
<1>. DEFINE f == CheckErased(c)
            n == Capacity \div c.len
<1>1. f = [i \in 1 .. n |-> MtdRead(c.len, (i - 1) * c.len, Fill(255), c.len)]
  BY DEF CheckErased, Each
<1>2. n \in Nat
  BY Sizes, Quotients
<1>. HIDE DEF f, n
<1>3. \A i \in 1 .. n : f[i] = MtdRead(c.len, (i - 1) * c.len, Fill(255), c.len)
  BY <1>1
<1>4. f = [i \in 1 .. n |-> f[i]]
  BY <1>1
<1>5. IsSeq(f) /\ Len(f) = n
  BY <1>2, <1>4, FunctionIsSeq
<1>. QED  BY <1>3, <1>5 DEF f, n

(* The two loops of full_write_erase().                                    *)
Runs(c) == Capacity \div c.len
RandomPart(c, k) == [x \in 0 .. c.len - 1 |-> Random[k * c.len + x]]
FillRandom(c) == [i \in 1 .. Runs(c) |-> MtdWrite(RandomPart(c, i - 1), c.len, (i - 1) * c.len)]
ReadBack(c) ==
  [i \in 1 .. Runs(c) |-> MtdRead(c.len, (i - 1) * c.len, RandomPart(c, i - 1), c.len)]

LEMMA LoopsAreSeqs ==
  ASSUME NEW c \in Contexts
  PROVE  /\ Runs(c) \in Nat
         /\ IsSeq(FillRandom(c)) /\ Len(FillRandom(c)) = Runs(c)
         /\ IsSeq(ReadBack(c)) /\ Len(ReadBack(c)) = Runs(c)
<1>1. Runs(c) \in Nat
  BY Sizes, Quotients DEF Runs
<1>2. FillRandom(c) = [i \in 1 .. Runs(c) |-> FillRandom(c)[i]]
  BY DEF FillRandom
<1>3. ReadBack(c) = [i \in 1 .. Runs(c) |-> ReadBack(c)[i]]
  BY DEF ReadBack
<1>. QED  BY <1>1, <1>2, <1>3, FunctionIsSeq

LEMMA FullWriteEraseIs ==
  ASSUME NEW c \in Contexts
  PROVE  FullWriteErase(c) = FillRandom(c) \o ReadBack(c) \o NvramSet(c) \o CheckErased(c)
  BY DEF FullWriteErase, FillRandom, ReadBack, RandomPart, Runs, Each

LEMMA FullWriteEraseIsSeq ==
  ASSUME NEW c \in Contexts
  PROVE  IsSeq(FullWriteErase(c))
  BY FullWriteEraseIs, LoopsAreSeqs, NvramSetIsSeq, CheckErasedIsSeq, InARow

LEMMA AlignIsSeq ==
  /\ \A c, pattern, page : IsSeq(Align(c, pattern, page))
  /\ \A c, pattern1, pattern2, page : IsSeq(Overlap(c, pattern1, pattern2, page))
  BY PairIsSeq, ShortTuples DEF Align, Overlap

LEMMA AlignCheckIsSeq ==
  ASSUME NEW c
  PROVE  IsSeq(AlignCheck(c))
  BY AlignIsSeq, InARow DEF AlignCheck

(* The calls of a row of misaligned writes, three for each.                *)
MisalignRow(c, n, offsets) ==
  [j \in 1 .. 3 * Len(offsets) |-> Misalign(c, offsets[(j + 2) \div 3], n)[((j - 1) % 3) + 1]]

LEMMA MisalignRowIsSeq ==
  ASSUME NEW c, NEW n, NEW offsets, IsSeq(offsets)
  PROVE  IsSeq(MisalignRow(c, n, offsets)) /\ Len(MisalignRow(c, n, offsets)) = 3 * Len(offsets)
<1>1. 3 * Len(offsets) \in Nat
  BY LengthIsNat
<1>2. MisalignRow(c, n, offsets) = [j \in 1 .. 3 * Len(offsets) |-> MisalignRow(c, n, offsets)[j]]
  BY DEF MisalignRow
<1>. QED  BY <1>1, <1>2, FunctionIsSeq

(* Where the five rows write.                                              *)
LastPage(c) == (c.pages - 1) * c.pagesize
Places1(c) ==
  LET ps == c.pagesize end == LastPage(c)
  IN <<0, 1, 2, ps - 2, ps - 1, ps, ps + 1, ps + 2, end - 1, end - 2>>
Places2(c) ==
  LET ps == c.pagesize end == LastPage(c)
  IN <<0, 1, 2, ps - 3, ps - 2, ps - 1, ps, ps + 1, ps + 2, ps + 3, end - 2, end - 3>>
Places3(c) ==
  LET ps == c.pagesize end == LastPage(c) IN <<0, 1, 2, end - ps - 1, end - ps - 2>>
Places4(c) ==
  LET end == LastPage(c) IN <<0, 1, 2, end + 1, end, end - 1>>
Places5(c) ==
  LET ps == c.pagesize end == LastPage(c)
  IN <<0, 1, 2, end - ps + 1, end - ps, end - ps - 1>>

LEMMA MisalignCheckIs ==
  ASSUME NEW c
  PROVE  MisalignCheck(c) = MisalignRow(c, c.pagesize + 1, Places1(c))
                            \o MisalignRow(c, c.pagesize + 2, Places2(c))
                            \o MisalignRow(c, 2 * c.pagesize + 1, Places3(c))
                            \o MisalignRow(c, c.pagesize - 1, Places4(c))
                            \o MisalignRow(c, 2 * c.pagesize - 1, Places5(c))
  BY DEF MisalignCheck, MisalignRow, LastPage, Places1, Places2, Places3, Places4, Places5

LEMMA PlacesAreSeqs ==
  ASSUME NEW c \in Contexts
  PROVE  /\ Places1(c) \in Seq(Int) /\ Places2(c) \in Seq(Int) /\ Places3(c) \in Seq(Int)
         /\ Places4(c) \in Seq(Int) /\ Places5(c) \in Seq(Int)
<1>1. PICK ps \in Int : ps = c.pagesize
  BY Sizes
<1>2. PICK end \in Int : end = LastPage(c)
  BY Sizes DEF LastPage
<1>3. Places1(c) \in Seq(Int)
  BY <1>1, <1>2 DEF Places1
<1>4. Places2(c) \in Seq(Int)
  BY <1>1, <1>2 DEF Places2
<1>5. Places3(c) \in Seq(Int) /\ Places4(c) \in Seq(Int) /\ Places5(c) \in Seq(Int)
  BY <1>1, <1>2 DEF Places3, Places4, Places5
<1>. QED  BY <1>3, <1>4, <1>5

LEMMA MisalignCheckIsSeq ==
  ASSUME NEW c \in Contexts
  PROVE  IsSeq(MisalignCheck(c))
<1>1. /\ IsSeq(Places1(c)) /\ IsSeq(Places2(c)) /\ IsSeq(Places3(c))
      /\ IsSeq(Places4(c)) /\ IsSeq(Places5(c))
  BY PlacesAreSeqs DEF IsSeq
<1>. QED  BY <1>1, MisalignRowIsSeq, InARow, MisalignCheckIs

LEMMA AddressTranslateIsSeq ==
  ASSUME NEW c
  PROVE  IsSeq(AddressTranslateTest(c))
<1>1. \A n : IsSeq(AddressTranslate(c, n))
  BY ShortTuples DEF AddressTranslate
<1>. QED  BY <1>1, InARow DEF AddressTranslateTest

(* Tuples of calls that hold little or nothing in a buffer.                *)
LEMMA ListFits ==
  ASSUME NEW S, NEW s \in Seq(S), NEW len, \A call \in S : call.buf <= len
  PROVE  IsSeq(s) /\ Fits(s, len)
  BY ElementOfSeq DEF IsSeq, Fits

LEMMA UnbufferedCalls ==
  /\ \A name : Seek(name).buf = 0
  /\ \A name, word : Put(name, word).buf = 0 /\ Get(name, word).buf = 0
  /\ \A start, size : Ctor(start, size).buf = 0
  /\ NoteDf.buf = 0 /\ \A taken : CheckDf(taken).buf = 0
  /\ \A call, want : FsCall(call, want).buf = 0
  /\ \A call, name, size, want : FileCall(call, name, size, want).buf = 0
<1>1. \A name, word : Put(name, word).buf = 0
  BY DEF Put
<1>2. \A name, word : Get(name, word).buf = 0
  <2>. TAKE name, word
  <2>1. Get(name, word).buf = Put(name, word).buf
    BY DEF Get, Put
  <2>. QED  BY <1>1, <2>1
<1>. QED  BY <1>1, <1>2 DEF Seek, Ctor, NoteDf, CheckDf, FsCall, FileCall

LEMMA FileTestFits ==
  ASSUME NEW name, NEW len \in Nat
  PROVE  IsSeq(FileTest(name)) /\ Fits(FileTest(name), len)
<1>. DEFINE Listed == {Seek(name), Put(name, U16Word), Put(name, U32Word), Put(name, U64Word),
                      Get(name, U16Word), Get(name, U32Word), Get(name, U64Word)}
<1>1. FileTest(name) \in Seq(Listed)
  BY DEF FileTest
<1>2. \A call \in Listed : call.buf <= len
  BY UnbufferedCalls
<1>. QED  BY <1>1, <1>2, ListFits

LEMMA FilePutTestFits ==
  ASSUME NEW len \in Nat
  PROVE  IsSeq(FilePutTest) /\ Fits(FilePutTest, len)
<1>1. Fits(<<Ctor(0, Capacity)>>, len)
  BY ShortTuples, UnbufferedCalls DEF Fits
<1>. QED  BY <1>1, ShortTuples, FileTestFits, InARow, InARowFits DEF FilePutTest

(* nvramset() again, whose result mkfs_and_mount_test() ignores.           *)
NvramSetIgnored(c) == [i \in 1 .. Len(NvramSet(c)) |-> Ignored(NvramSet(c)[i], i - 1)]

LEMMA IgnoredIsSeq ==
  ASSUME NEW c \in Contexts
  PROVE  IsSeq(NvramSetIgnored(c)) /\ Len(NvramSetIgnored(c)) = Len(NvramSet(c))
<1>1. NvramSetIgnored(c) = [i \in 1 .. Len(NvramSet(c)) |-> NvramSetIgnored(c)[i]]
  BY DEF NvramSetIgnored
<1>2. Len(NvramSet(c)) \in Nat
  BY NvramSetIsSeq, LengthIsNat
<1>. QED  BY <1>1, <1>2, FunctionIsSeq

MountCalls ==
  << FsCall("mount", {"FAILED"}), FsCall("fsck", {"FAILED"}), FsCall("mkfs", {"SUCCESS"}),
     FsCall("fsck", {"SUCCESS"}), FsCall("mount", {"SUCCESS"}) >>

LEMMA MountCallsFit ==
  ASSUME NEW len \in Nat
  PROVE  IsSeq(MountCalls) /\ Fits(MountCalls, len)
<1>. DEFINE Listed == {FsCall("mount", {"FAILED"}), FsCall("fsck", {"FAILED"}), FsCall("mkfs", {"SUCCESS"}),
                      FsCall("fsck", {"SUCCESS"}), FsCall("mount", {"SUCCESS"})}
<1>1. MountCalls \in Seq(Listed)
  BY DEF MountCalls
<1>2. \A call \in Listed : call.buf <= len
  BY UnbufferedCalls
<1>. QED  BY <1>1, <1>2, ListFits

LEMMA MkfsAndMountTestIs ==
  ASSUME NEW c \in Contexts
  PROVE  MkfsAndMountTest(c) = <<FsCall("new", {"void"})>> \o NvramSetIgnored(c) \o MountCalls
<1>1. Each(Len(NvramSet(c)), LAMBDA i : Ignored(NvramSet(c)[i + 1], i)) = NvramSetIgnored(c)
  <2>. DEFINE n == Len(NvramSet(c))
  <2>1. \A i \in 1 .. n : (i - 1) + 1 = i
    OBVIOUS
  <2>2. Each(n, LAMBDA i : Ignored(NvramSet(c)[i + 1], i))
          = [i \in 1 .. n |-> Ignored(NvramSet(c)[(i - 1) + 1], i - 1)]
    BY DEF Each
  <2>. HIDE DEF n
  <2>3. [i \in 1 .. n |-> Ignored(NvramSet(c)[(i - 1) + 1], i - 1)]
          = [i \in 1 .. n |-> Ignored(NvramSet(c)[i], i - 1)]
    BY <2>1
  <2>. QED  BY <2>2, <2>3 DEF NvramSetIgnored, n
<1>. QED  BY <1>1 DEF MkfsAndMountTest, MountCalls

(* The calls of file_creation_test() around the three file_test().         *)
Creates(k, want) == FileCall("create", TestName[k], <<BigFile, SmallFile, SmallFile, SmallFile>>[k + 1], {want})
Closes(k) == FileCall("close", TestName[k], 0, {"void"})
Look(c) == MtdRead(c.len, 0, Fill(0), 0)
CreationStart(c) ==
  << FsCall("new", {"void"}), FsCall("mount", Outcomes), NoteDf,
     Creates(0, "file"), CheckDf(BigFile), Look(c) >>
CreationMiddle(c) ==
  << Look(c), Closes(0), FileCall("open", TestName[0], 0, {"file"}), Closes(0),
     Creates(0, "nullptr"), Creates(1, "file"), CheckDf(BigFile + SmallFile),
     Creates(2, "file"), CheckDf(BigFile + 2 * SmallFile), Creates(3, "nullptr") >>

LEMMA FileCreationTestIs ==
  ASSUME NEW c
  PROVE  FileCreationTest(c) = CreationStart(c) \o FileTest(TestName[0]) \o CreationMiddle(c)
                               \o FileTest(TestName[1]) \o FileTest(TestName[2])
                               \o <<Closes(1), Closes(2)>>
  BY DEF FileCreationTest, CreationStart, CreationMiddle, Creates, Closes, Look

LEMMA CreationFits ==
  ASSUME NEW c \in Contexts
  PROVE  /\ IsSeq(CreationStart(c)) /\ Fits(CreationStart(c), c.len)
         /\ IsSeq(CreationMiddle(c)) /\ Fits(CreationMiddle(c), c.len)
         /\ IsSeq(<<Closes(1), Closes(2)>>) /\ Fits(<<Closes(1), Closes(2)>>, c.len)
<1>. DEFINE Fs == {FsCall("new", {"void"}), FsCall("mount", Outcomes), NoteDf, CheckDf(BigFile),
                   CheckDf(BigFile + SmallFile), CheckDf(BigFile + 2 * SmallFile),
                   FileCall("open", TestName[0], 0, {"file"}), Closes(0), Closes(1), Closes(2),
                   Creates(0, "file"), Creates(0, "nullptr"), Creates(1, "file"),
                   Creates(2, "file"), Creates(3, "nullptr"), Look(c)}
<1>1. CreationStart(c) \in Seq(Fs)
  BY DEF CreationStart
<1>2. CreationMiddle(c) \in Seq(Fs)
  BY DEF CreationMiddle
<1>3. <<Closes(1), Closes(2)>> \in Seq(Fs)
  OBVIOUS
<1>4. \A call \in Fs : call.buf <= c.len
  <2>1. c.len \in Nat /\ c.len <= c.len
    BY Sizes
  <2>2. Look(c).buf = c.len
    BY DEF Look, MtdRead
  <2>3. \A k : Closes(k).buf = 0
    BY UnbufferedCalls DEF Closes
  <2>4. \A k, want : Creates(k, want).buf = 0
    BY UnbufferedCalls DEF Creates
  <2>. QED  BY <2>1, <2>2, <2>3, <2>4, UnbufferedCalls
<1>. HIDE DEF Fs
<1>. QED  BY <1>1, <1>2, <1>3, <1>4, ListFits

LEMMA FileCreationTestFits ==
  ASSUME NEW c \in Contexts
  PROVE  IsSeq(FileCreationTest(c)) /\ Fits(FileCreationTest(c), c.len)
<1>1. c.len \in Nat
  BY Sizes
<1>2. \A name : IsSeq(FileTest(name)) /\ Fits(FileTest(name), c.len)
  BY <1>1, FileTestFits
<1>3. \A name : Held(FileTest(name), c.len)
  BY <1>2 DEF Held
<1>4. /\ Held(CreationStart(c), c.len) /\ Held(CreationMiddle(c), c.len)
      /\ Held(<<Closes(1), Closes(2)>>, c.len)
  BY CreationFits DEF Held
<1>5. Held(FileCreationTest(c), c.len)
  BY <1>3, <1>4, FileCreationTestIs, InARowHeld
<1>. QED  BY <1>5 DEF Held

(* TestSuite() ends with umount(), fsck(), a look at the memory and the    *)
(* last nvramset().                                                        *)
LastCalls(c) ==
  << FsCall("new", {"void"}), FsCall("umount", {"SUCCESS"}), FsCall("fsck", {"SUCCESS"}), Look(c) >>
Extras(c) == IF Paged(c) THEN AlignCheck(c) \o MisalignCheck(c) ELSE <<>>
Front(c) ==
  FullWriteErase(c) \o Extras(c) \o AddressTranslateTest(c) \o FilePutTest
  \o MkfsAndMountTest(c) \o FileCreationTest(c) \o LastCalls(c)

LEMMA SuiteIs ==
  ASSUME NEW c
  PROVE  Suite(c) = Front(c) \o NvramSet(c)
  BY DEF Suite, Front, Extras, LastCalls, Look

LEMMA LastCallsFit ==
  ASSUME NEW c \in Contexts
  PROVE  IsSeq(LastCalls(c)) /\ Fits(LastCalls(c), c.len)
<1>. DEFINE Fs == {FsCall("new", {"void"}), FsCall("umount", {"SUCCESS"}), FsCall("fsck", {"SUCCESS"}),
                   Look(c)}
<1>1. LastCalls(c) \in Seq(Fs)
  BY DEF LastCalls
<1>2. \A call \in Fs : call.buf <= c.len
  <2>1. c.len \in Nat /\ c.len <= c.len
    BY Sizes
  <2>2. Look(c).buf = c.len
    BY DEF Look, MtdRead
  <2>. QED  BY <2>1, <2>2, UnbufferedCalls
<1>. QED  BY <1>1, <1>2, ListFits

LEMMA MkfsAndMountTestIsSeq ==
  ASSUME NEW c \in Contexts
  PROVE  IsSeq(MkfsAndMountTest(c))
<1>1. IsSeq(MountCalls)
  BY MountCallsFit
<1>. QED  BY <1>1, MkfsAndMountTestIs, IgnoredIsSeq, ShortTuples, InARow

LEMMA ExtrasIsSeq ==
  ASSUME NEW c \in Contexts
  PROVE  IsSeq(Extras(c))
  BY AlignCheckIsSeq, MisalignCheckIsSeq, ShortTuples, InARow DEF Extras

LEMMA FrontIsSeq ==
  ASSUME NEW c \in Contexts
  PROVE  IsSeq(Front(c))
<1>1. IsSeq(FilePutTest)
  BY FilePutTestFits
<1>. QED  BY <1>1, FullWriteEraseIsSeq, ExtrasIsSeq, AddressTranslateIsSeq, MkfsAndMountTestIsSeq,
             FileCreationTestFits, LastCallsFit, InARow DEF Front

-----------------------------------------------------------------------------
(* What the calls hold in the buffers.                                     *)

LEMMA LoopsFit ==
  ASSUME NEW c \in Contexts, SetSize(c) <= c.len
  PROVE  Held(FullWriteErase(c), c.len) /\ Held(NvramSet(c), c.len)
<1>1. c.len \in Nat /\ c.len <= c.len
  BY Sizes
<1>2. Fits(NvramSet(c), c.len)
  <2>1. ASSUME NEW i \in 1 .. Len(NvramSet(c))
        PROVE  NvramSet(c)[i].buf = SetSize(c)
    <3>1. NvramSet(c)[i] = MtdWrite(Fill(255), SetSize(c), (i - 1) * SetSize(c))
      BY NvramSetIsSeq
    <3>. QED  BY <3>1 DEF MtdWrite
  <2>. QED  BY <2>1 DEF Fits
<1>3. Fits(CheckErased(c), c.len)
  <2>1. ASSUME NEW i \in 1 .. Len(CheckErased(c))
        PROVE  CheckErased(c)[i].buf = c.len
    <3>1. CheckErased(c)[i] = MtdRead(c.len, (i - 1) * c.len, Fill(255), c.len)
      BY CheckErasedIsSeq
    <3>. QED  BY <3>1 DEF MtdRead
  <2>. QED  BY <1>1, <2>1 DEF Fits
<1>4. \A i \in 1 .. Runs(c) : FillRandom(c)[i].buf = c.len /\ ReadBack(c)[i].buf = c.len
  BY DEF FillRandom, ReadBack, MtdWrite, MtdRead
<1>5. Fits(FillRandom(c), c.len) /\ Fits(ReadBack(c), c.len)
  BY <1>1, <1>4, LoopsAreSeqs DEF Fits
<1>6. /\ Held(FillRandom(c), c.len) /\ Held(ReadBack(c), c.len)
      /\ Held(NvramSet(c), c.len) /\ Held(CheckErased(c), c.len)
  BY <1>2, <1>3, <1>5, LoopsAreSeqs, NvramSetIsSeq, CheckErasedIsSeq DEF Held
<1>. QED  BY <1>6, FullWriteEraseIs, InARowHeld

LEMMA MkfsAndMountTestFits ==
  ASSUME NEW c \in Contexts, SetSize(c) <= c.len
  PROVE  Held(MkfsAndMountTest(c), c.len)
<1>1. c.len \in Nat
  BY Sizes
<1>2. Fits(NvramSet(c), c.len)
  BY LoopsFit DEF Held
<1>3. \A i \in 1 .. Len(NvramSet(c)) : NvramSetIgnored(c)[i].buf = NvramSet(c)[i].buf
  <2>. TAKE i \in 1 .. Len(NvramSet(c))
  <2>1. NvramSetIgnored(c)[i] = Ignored(NvramSet(c)[i], i - 1)
    BY DEF NvramSetIgnored
  <2>. QED  BY <2>1 DEF Ignored
<1>4. Held(NvramSetIgnored(c), c.len)
  BY <1>2, <1>3, IgnoredIsSeq DEF Fits, Held
<1>5. Held(MountCalls, c.len)
  BY <1>1, MountCallsFit DEF Held
<1>6. Held(<<FsCall("new", {"void"})>>, c.len)
  BY <1>1, ShortTuples, UnbufferedCalls DEF Held, Fits
<1>. QED  BY <1>4, <1>5, <1>6, MkfsAndMountTestIs, InARowHeld

LEMMA AlignCheckFits ==
  ASSUME NEW c \in Contexts, 2 * c.pagesize <= c.len
  PROVE  Held(AlignCheck(c), c.len)
<1>1. c.pagesize \in Nat /\ c.len \in Nat
  BY Sizes
<1>2. ASSUME NEW pattern, NEW page
      PROVE  Held(Align(c, pattern, page), c.len)
  <2>1. Align(c, pattern, page)[1].buf = c.pagesize /\ Align(c, pattern, page)[2].buf = c.pagesize
    BY DEF Align, MtdWrite, MtdRead
  <2>2. Len(Align(c, pattern, page)) = 2
    BY PairIsSeq DEF Align
  <2>3. Fits(Align(c, pattern, page), c.len)
    BY <1>1, <2>1, <2>2 DEF Fits
  <2>. QED  BY <2>3, AlignIsSeq DEF Held
<1>3. ASSUME NEW pattern1, NEW pattern2, NEW page
      PROVE  Held(Overlap(c, pattern1, pattern2, page), c.len)
  <2>1. Overlap(c, pattern1, pattern2, page)[1].buf = 2 * c.pagesize
    BY DEF Overlap, MtdRead
  <2>2. Len(Overlap(c, pattern1, pattern2, page)) = 1
    BY ShortTuples DEF Overlap
  <2>3. Fits(Overlap(c, pattern1, pattern2, page), c.len)
    BY <1>1, <2>1, <2>2 DEF Fits
  <2>. QED  BY <2>3, AlignIsSeq DEF Held
<1>. QED  BY <1>2, <1>3, InARowHeld DEF AlignCheck

(* One row: what begins at a place of it ends inside the buffer.           *)
LEMMA MisalignRowFits ==
  ASSUME NEW c \in Contexts, NEW n \in Int, n <= c.len,
         NEW offsets \in Seq(Int), \A k \in 1 .. Len(offsets) : offsets[k] + n <= c.len
  PROVE  Held(MisalignRow(c, n, offsets), c.len)
<1>1. c.len \in Nat
  BY Sizes
<1>2. IsSeq(offsets) /\ Len(offsets) \in Nat
  BY LenProperties DEF IsSeq
<1>3. ASSUME NEW j \in 1 .. 3 * Len(offsets)
      PROVE  MisalignRow(c, n, offsets)[j].buf <= c.len
  <2>1. PICK k \in 1 .. Len(offsets) : k = (j + 2) \div 3
    BY <1>2
  <2>2. PICK r \in 1 .. 3 : r = ((j - 1) % 3) + 1
    BY <1>2
  <2>3. offsets[k] \in Int /\ offsets[k] + n <= c.len
    BY <2>1, ElementOfSeq
  <2>4. PICK offset \in Int : offset = offsets[k]
    BY <2>3
  <2>5. MisalignRow(c, n, offsets)[j] = Misalign(c, offset, n)[r]
    BY <2>1, <2>2, <2>4 DEF MisalignRow
  <2>6. Misalign(c, offset, n)[1].buf = c.len
    BY DEF Misalign, MtdWrite
  <2>7. Misalign(c, offset, n)[2].buf = n
    BY DEF Misalign, MtdWrite
  <2>8. Misalign(c, offset, n)[3].buf = Larger(c.len, offset + n)
    BY DEF Misalign, MtdRead
  <2>9. Larger(c.len, offset + n) = c.len
    BY <1>1, <2>3, <2>4 DEF Larger
  <2>. QED  BY <1>1, <2>2, <2>5, <2>6, <2>7, <2>8, <2>9
<1>4. Fits(MisalignRow(c, n, offsets), c.len)
  BY <1>2, <1>3, MisalignRowIsSeq DEF Fits
<1>. QED  BY <1>2, <1>4, MisalignRowIsSeq DEF Held

LEMMA LastPageEnds ==
  ASSUME NEW c \in Contexts
  PROVE  LastPage(c) \in Nat /\ LastPage(c) + c.pagesize = Capacity
<1>1. PICK ps \in Nat, n \in Nat : ps = c.pagesize /\ c.pages = n + 1
  <2>1. c.pages - 1 \in Nat /\ c.pages = (c.pages - 1) + 1
    BY Sizes
  <2>. QED  BY <2>1, Sizes
<1>2. (n + 1) - 1 = n
  OBVIOUS
<1>3. LastPage(c) = n * ps
  BY <1>1, <1>2 DEF LastPage
<1>4. ps * (n + 1) = Capacity
  BY <1>1, Sizes
<1>5. ps * (n + 1) = n * ps + ps
  OBVIOUS
<1>6. n * ps \in Nat
  OBVIOUS
<1>. QED  BY <1>1, <1>3, <1>4, <1>5, <1>6

LEMMA MisalignCheckFits ==
  ASSUME NEW c \in Contexts, c.len = Capacity, 2 * c.pagesize + 5 <= Capacity
  PROVE  Held(MisalignCheck(c), c.len)
<1>1. PICK ps \in Nat : ps = c.pagesize
  BY Sizes
<1>2. PICK end \in Nat : end = LastPage(c) /\ end + ps = Capacity
  BY <1>1, LastPageEnds
<1>3. Capacity \in Nat /\ 2 * ps + 5 <= Capacity
  BY <1>1, Sizes
<1>4. Held(MisalignRow(c, c.pagesize + 1, Places1(c)), c.len)
  <2>1. Places1(c) \in Seq(Int) /\ Len(Places1(c)) = 10
    BY PlacesAreSeqs, <1>1, <1>2 DEF Places1
  <2>2. PICK n \in Int : n = ps + 1
    BY <1>1
  <2>3. n = c.pagesize + 1 /\ n <= c.len
    BY <1>1, <1>3, <2>2
  <2>4. \A k \in 1 .. 10 : Places1(c)[k] + n <= Capacity
    BY <1>1, <1>2, <1>3, <2>2 DEF Places1
  <2>. QED  BY <1>1, <1>3, <2>1, <2>3, <2>4, MisalignRowFits
<1>5. Held(MisalignRow(c, c.pagesize + 2, Places2(c)), c.len)
  <2>1. Places2(c) \in Seq(Int) /\ Len(Places2(c)) = 12
    BY PlacesAreSeqs, <1>1, <1>2 DEF Places2
  <2>2. PICK n \in Int : n = ps + 2
    BY <1>1
  <2>3. n = c.pagesize + 2 /\ n <= c.len
    BY <1>1, <1>3, <2>2
  <2>4. \A k \in 1 .. 12 : Places2(c)[k] + n <= Capacity
    BY <1>1, <1>2, <1>3, <2>2 DEF Places2
  <2>. QED  BY <1>1, <1>3, <2>1, <2>3, <2>4, MisalignRowFits
<1>6. Held(MisalignRow(c, 2 * c.pagesize + 1, Places3(c)), c.len)
  <2>1. Places3(c) \in Seq(Int) /\ Len(Places3(c)) = 5
    BY PlacesAreSeqs, <1>1, <1>2 DEF Places3
  <2>2. PICK n \in Int : n = 2 * ps + 1
    BY <1>1
  <2>3. n = 2 * c.pagesize + 1 /\ n <= c.len
    BY <1>1, <1>3, <2>2
  <2>4. \A k \in 1 .. 5 : Places3(c)[k] + n <= Capacity
    BY <1>1, <1>2, <1>3, <2>2 DEF Places3
  <2>. QED  BY <1>1, <1>3, <2>1, <2>3, <2>4, MisalignRowFits
<1>7. Held(MisalignRow(c, c.pagesize - 1, Places4(c)), c.len)
  <2>1. Places4(c) \in Seq(Int) /\ Len(Places4(c)) = 6
    BY PlacesAreSeqs, <1>1, <1>2 DEF Places4
  <2>2. PICK n \in Int : n = ps - 1
    BY <1>1
  <2>3. n = c.pagesize - 1 /\ n <= c.len
    BY <1>1, <1>3, <2>2
  <2>4. \A k \in 1 .. 6 : Places4(c)[k] + n <= Capacity
    BY <1>1, <1>2, <1>3, <2>2 DEF Places4
  <2>. QED  BY <1>1, <1>3, <2>1, <2>3, <2>4, MisalignRowFits
<1>8. Held(MisalignRow(c, 2 * c.pagesize - 1, Places5(c)), c.len)
  <2>1. Places5(c) \in Seq(Int) /\ Len(Places5(c)) = 6
    BY PlacesAreSeqs, <1>1, <1>2 DEF Places5
  <2>2. PICK n \in Int : n = 2 * ps - 1
    BY <1>1
  <2>3. n = 2 * c.pagesize - 1 /\ n <= c.len
    BY <1>1, <1>3, <2>2
  <2>4. \A k \in 1 .. 6 : Places5(c)[k] + n <= Capacity
    BY <1>1, <1>2, <1>3, <2>2 DEF Places5
  <2>. QED  BY <1>1, <1>3, <2>1, <2>3, <2>4, MisalignRowFits
<1>. QED  BY <1>4, <1>5, <1>6, <1>7, <1>8, MisalignCheckIs, InARowHeld

LEMMA AddressTranslateFits ==
  ASSUME NEW c \in Contexts,
         TestOffset + (IF Paged(c) THEN c.pagesize ELSE FramWrite) + 1 <= c.len
  PROVE  Held(AddressTranslateTest(c), c.len)
<1>. DEFINE size == IF Paged(c) THEN c.pagesize ELSE FramWrite
<1>1. c.len \in Nat /\ TestOffset \in Nat /\ size \in Nat /\ (TestOffset + size) + 1 <= c.len
  BY Sizes
<1>. HIDE DEF size
<1>2. ASSUME NEW n \in Int, TestOffset + n <= c.len
      PROVE  Held(AddressTranslate(c, n), c.len)
  <2>1. Len(AddressTranslate(c, n)) = 4 /\ IsSeq(AddressTranslate(c, n))
    BY ShortTuples DEF AddressTranslate
  <2>2. AddressTranslate(c, n)[1].buf = c.len
    BY DEF AddressTranslate, Unchecked, MtdWrite
  <2>3. AddressTranslate(c, n)[2].buf = 0
    BY DEF AddressTranslate, Ctor
  <2>4. AddressTranslate(c, n)[3].buf = n
    BY DEF AddressTranslate, Put
  <2>5. AddressTranslate(c, n)[4].buf = Larger(c.len, TestOffset + n)
    BY DEF AddressTranslate, Uncounted, MtdRead
  <2>6. Larger(c.len, TestOffset + n) = c.len /\ n <= c.len
    BY <1>1, <1>2 DEF Larger
  <2>. QED  BY <1>1, <2>1, <2>2, <2>3, <2>4, <2>5, <2>6 DEF Held, Fits
<1>3. /\ Held(AddressTranslate(c, size), c.len)
      /\ Held(AddressTranslate(c, size - 1), c.len)
      /\ Held(AddressTranslate(c, size + 1), c.len)
  BY <1>1, <1>2
<1>. QED  BY <1>3, InARowHeld DEF AddressTranslateTest, size

LEMMA SuiteFits ==
  ASSUME NEW c \in Contexts, BuffersSuffice
  PROVE  Held(Suite(c), c.len)
<1>1. /\ c.len \in Nat /\ c.pagesize \in Nat /\ TestOffset \in Nat /\ Capacity \in Nat
      /\ FramWrite \in Nat
  BY Sizes
<1>2. /\ SetSize(c) <= c.len
      /\ TestOffset + (IF Paged(c) THEN c.pagesize ELSE FramWrite) + 1 <= c.len
      /\ Paged(c) => c.len = Capacity /\ 2 * c.pagesize + 5 <= Capacity
  BY <1>1 DEF BuffersSuffice, SetSize
<1>3. Held(Extras(c), c.len)
  <2>1. CASE Paged(c)
    <3>1. 2 * c.pagesize <= c.len
      BY <1>1, <1>2, <2>1
    <3>. QED  BY <1>2, <2>1, <3>1, AlignCheckFits, MisalignCheckFits, InARowHeld DEF Extras
  <2>2. CASE ~ Paged(c)
    BY <2>2, ShortTuples DEF Extras, Held, Fits
  <2>. QED  BY <2>1, <2>2
<1>4. Held(FilePutTest, c.len) /\ Held(FileCreationTest(c), c.len) /\ Held(LastCalls(c), c.len)
  BY <1>1, FilePutTestFits, FileCreationTestFits, LastCallsFit DEF Held
<1>5. /\ Held(FullWriteErase(c), c.len) /\ Held(NvramSet(c), c.len)
      /\ Held(MkfsAndMountTest(c), c.len) /\ Held(AddressTranslateTest(c), c.len)
  BY <1>2, LoopsFit, MkfsAndMountTestFits, AddressTranslateFits
<1>6. Held(Front(c), c.len)
  BY <1>3, <1>4, <1>5, InARowHeld DEF Front
<1>. QED  BY <1>5, <1>6, SuiteIs, InARowHeld

(* Where the suite is.                                                     *)
SuitePlace == ctx \in Contexts /\ chip \in Chips /\ pc \in Nat \ {0}

LEMMA PlaceKept == SuitePlace /\ [SuiteNext]_svars => SuitePlace'
<1>. SUFFICES ASSUME SuitePlace, [SuiteNext]_svars PROVE SuitePlace'
  OBVIOUS
<1>1. CASE Onward
  BY <1>1 DEF Onward, SuitePlace
<1>2. CASE UNCHANGED <<ctx, chip, pc>>
  BY <1>2 DEF SuitePlace
<1>. QED  BY <1>1, <1>2 DEF SuiteNext, WriteStep, ReadStep, FsStep, DfStep, CtorStep, SeekStep,
             NvramSetStep, CompareStep, PutStep, GetStep, Return, svars

LEMMA PlaceInvariant == SuiteSpec => []SuitePlace
<1>1. SuiteInit => SuitePlace
  BY DEF SuiteInit, SuitePlace
<1>. QED  BY <1>1, PlaceKept, PTL DEF SuiteSpec

(* Whatever the calls return, no call of the suite reaches behind the      *)
(* buffers of its context, if these are as large as the tests suppose.     *)
THEOREM BuffersAreHeld == BuffersSuffice => (SuiteSpec => []BuffersHold)
<1>. SUFFICES ASSUME BuffersSuffice PROVE SuiteSpec => []BuffersHold
  OBVIOUS
<1>1. SuitePlace => BuffersHold
  BY SuiteFits DEF BuffersHold, SuitePlace, More, It, Steps, Called, Held, Fits
<1>. QED  BY <1>1, PlaceInvariant, PTL

-----------------------------------------------------------------------------
(* What a transfer leaves in the memory.                                   *)

LEMMA LeastNumber ==
  ASSUME NEW T, T \subseteq Nat, T # {}
  PROVE  \E x \in T : \A y \in T : x <= y
<1>. DEFINE R == OpToRel(<, Nat)
<1>1. IsWellFoundedOn(R, Nat)
  BY NatLessThanWellFounded
<1>2. \A x, y \in Nat : y < x => <<y, x>> \in R
  BY DEF OpToRel
<1>. HIDE DEF R
<1>3. PICK x \in T : \A y \in T : ~ (<<y, x>> \in R)
  BY <1>1, WFMin
<1>4. ASSUME NEW y \in T PROVE x <= y
  <2>1. x \in Nat /\ y \in Nat
    OBVIOUS
  <2>2. ~ (y < x)
    BY <1>2, <1>3, <2>1, Zenon
  <2>. QED  BY <2>1, <2>2
<1>. QED  BY <1>4

LEMMA GreatestNumber ==
  ASSUME NEW n \in Nat, NEW T, T \subseteq 0 .. n - 1, T # {}
  PROVE  \E x \in T : \A y \in T : y <= x
<1>. DEFINE D == {n - x : x \in T}
<1>1. D \subseteq Nat /\ D # {}
  OBVIOUS
<1>2. PICK d \in D : \A e \in D : d <= e
  <2>. HIDE DEF D
  <2>. QED  BY <1>1, LeastNumber
<1>3. PICK x \in T : d = n - x
  BY <1>2
<1>4. ASSUME NEW y \in T PROVE y <= x
  <2>1. n - y \in D
    OBVIOUS
  <2>2. d <= n - y
    BY <1>2, <2>1
  <2>. QED  BY <1>3, <2>2
<1>. QED  BY <1>3, <1>4

(* A cell keeps its byte, or holds the last of the bytes sent to it.       *)
SentTo(at, done, x) == {i \in 0 .. done - 1 : Cell(at, i) = x}

LEMMA StoreMeans ==
  ASSUME NEW data, NEW at, NEW done \in Nat, NEW x \in DOMAIN mem, Store(data, at, done)
  PROVE  /\ SentTo(at, done, x) = {} => mem'[x] = mem[x]
         /\ SentTo(at, done, x) # {} =>
              \E i \in SentTo(at, done, x) :
                /\ \A j \in SentTo(at, done, x) : j <= i
                /\ mem'[x] = data[i]
<1>. DEFINE sent == {[i |-> i, cell |-> Cell(at, i)] : i \in 0 .. done - 1}
            on(y) == {s.i : s \in {t \in sent : t.cell = y}}
            final(is) == data[CHOOSE i \in is : \A j \in is : j <= i]
            Is == SentTo(at, done, x)
<1>1. mem' = [y \in DOMAIN mem |-> IF on(y) = {} THEN mem[y] ELSE final(on(y))]
  BY DEF Store
<1>2. on(x) = Is
  <2>1. ASSUME NEW i \in on(x) PROVE i \in Is
    <3>1. PICK s \in sent : s.cell = x /\ i = s.i
      BY <2>1
    <3>2. PICK k \in 0 .. done - 1 : s = [i |-> k, cell |-> Cell(at, k)]
      BY <3>1
    <3>. QED  BY <3>1, <3>2 DEF SentTo
  <2>2. ASSUME NEW i \in Is PROVE i \in on(x)
    <3>1. i \in 0 .. done - 1 /\ Cell(at, i) = x
      BY <2>2 DEF SentTo
    <3>2. PICK t : t = [i |-> i, cell |-> Cell(at, i)]
      OBVIOUS
    <3>3. t \in sent /\ t.cell = x /\ t.i = i
      BY <3>1, <3>2
    <3>. HIDE DEF sent
    <3>4. t \in {u \in sent : u.cell = x}
      BY <3>3
    <3>. QED  BY <3>3, <3>4
  <2>. HIDE DEF on, Is
  <2>. QED  BY <2>1, <2>2
<1>3. Is \subseteq 0 .. done - 1
  BY DEF SentTo
<1>. HIDE DEF on, Is
<1>4. mem'[x] = IF Is = {} THEN mem[x] ELSE final(Is)
  BY <1>1, <1>2
<1>5. CASE Is # {}
  <2>1. \E i \in Is : \A j \in Is : j <= i
    BY <1>3, <1>5, GreatestNumber
  <2>2. PICK i : i = CHOOSE k \in Is : \A j \in Is : j <= k
    OBVIOUS
  <2>3. i \in Is /\ \A j \in Is : j <= i
    BY <2>1, <2>2
  <2>4. mem'[x] = data[i]
    BY <1>4, <1>5, <2>2
  <2>. QED  BY <1>5, <2>3, <2>4 DEF Is
<1>6. CASE Is = {}
  BY <1>4, <1>6 DEF Is
<1>. QED  BY <1>5, <1>6

LEMMA StoreKeepsDomain ==
  ASSUME NEW data, NEW at, NEW done, Store(data, at, done)
  PROVE  DOMAIN mem' = DOMAIN mem
  BY DEF Store

(* Steps by the call that is due.                                          *)
LEMMA DueWrite ==
  ASSUME SuiteNext, More, It.op = "write"
  PROVE  WriteStep
  BY DEF SuiteNext, ReadStep, FsStep, DfStep, CtorStep, SeekStep, NvramSetStep, CompareStep, PutStep, GetStep, Return, Now

LEMMA DueRead ==
  ASSUME SuiteNext, More, It.op = "read"
  PROVE  ReadStep
  BY DEF SuiteNext, WriteStep, FsStep, DfStep, CtorStep, SeekStep, NvramSetStep, CompareStep, PutStep, GetStep, Return, Now

-----------------------------------------------------------------------------
(* Quotients and remainders.                                               *)

LEMMA TimesMonotone ==
  ASSUME NEW j \in Nat, NEW k \in Nat, NEW m \in Nat, j <= k
  PROVE  j * m <= k * m
  OBVIOUS

LEMMA DivMod ==
  ASSUME NEW a \in Nat, NEW b \in Nat \ {0}
  PROVE  a \div b \in Nat /\ a % b \in 0 .. b - 1 /\ a = (a \div b) * b + (a % b)
  OBVIOUS

LEMMA Division ==
  ASSUME NEW a \in Nat, NEW b \in Nat \ {0}
  PROVE  \E q \in Nat, p \in Nat, r \in 0 .. b - 1 :
           q = a \div b /\ r = a % b /\ p = q * b /\ a = p + r
<1>1. PICK q \in Nat, r \in 0 .. b - 1 : q = a \div b /\ r = a % b /\ a = q * b + r
  BY DivMod
<1>2. PICK p \in Nat : p = q * b
  OBVIOUS
<1>. QED  BY <1>1, <1>2

LEMMA DivUnique ==
  ASSUME NEW a \in Nat, NEW b \in Nat \ {0}, NEW q \in Nat, NEW r \in 0 .. b - 1,
         a = q * b + r
  PROVE  a \div b = q /\ a % b = r
<1>1. PICK p \in Nat, s \in 0 .. b - 1 : p = a \div b /\ s = a % b /\ a = p * b + s
  BY DivMod
<1>2. PICK qb \in Nat, pb \in Nat : qb = q * b /\ pb = p * b
  OBVIOUS
<1>3. ~ q + 1 <= p
  <2>1. (q + 1) * b = qb + b
    BY <1>2
  <2>2. q + 1 <= p => (q + 1) * b <= pb
    BY <1>2, TimesMonotone
  <2>. QED  BY <1>1, <1>2, <2>1, <2>2
<1>4. ~ p + 1 <= q
  <2>1. (p + 1) * b = pb + b
    BY <1>2
  <2>2. p + 1 <= q => (p + 1) * b <= qb
    BY <1>2, TimesMonotone
  <2>. QED  BY <1>1, <1>2, <2>1, <2>2
<1>. QED  BY <1>1, <1>2, <1>3, <1>4

LEMMA Multiple ==
  ASSUME NEW a \in Nat, NEW b \in Nat \ {0}
  PROVE  a % b = 0 <=> \E k \in Nat : a = k * b
<1>1. ASSUME a % b = 0 PROVE \E k \in Nat : a = k * b
  <2>1. PICK k \in Nat : k = a \div b /\ a = k * b + 0
    BY <1>1, DivMod
  <2>2. k * b \in Nat
    OBVIOUS
  <2>. QED  BY <2>1, <2>2
<1>2. ASSUME NEW k \in Nat, a = k * b PROVE a % b = 0
  <2>1. 0 \in 0 .. b - 1 /\ a = k * b + 0
    BY <1>2
  <2>. QED  BY <2>1, DivUnique
<1>. QED  BY <1>1, <1>2

(* In a chip of whole pages an address in cell 0 begins a page.            *)
LEMMA CellZero ==
  ASSUME NEW page \in Nat \ {0}, NEW cap \in Nat \ {0}, cap % page = 0,
         NEW q \in Nat, NEW r \in 0 .. page - 1, (q * page + r) % cap = 0
  PROVE  r = 0
<1>1. PICK m \in Nat : cap = m * page
  BY Multiple
<1>2. q * page + r \in Nat
  OBVIOUS
<1>3. PICK t \in Nat : q * page + r = t * cap
  BY <1>2, Multiple
<1>4. PICK k \in Nat : k = t * m
  OBVIOUS
<1>5. t * cap = k * page
  BY <1>1, <1>4
<1>6. k * page \in Nat /\ 0 \in 0 .. page - 1 /\ k * page = k * page + 0
  OBVIOUS
<1>7. (k * page) % page = 0
  BY <1>6, Multiple
<1>8. (q * page + r) % page = r
  BY <1>2, DivUnique
<1>. QED  BY <1>3, <1>5, <1>7, <1>8

-----------------------------------------------------------------------------
(* The first writing on a chip of other pages: the byte that belongs to    *)
(* the begin of the second page runs into cell 0.                          *)

LEMMA ChipTypes ==
  ASSUME SuitePlace
  PROVE  chip.page \in Nat \ {0} /\ chip.cap \in Nat \ {0}
<1>1. chip \in [page: Nat \ {0}, cap: Nat \ {0}]
  BY SuiteAssumption DEF SuitePlace
<1>. QED  BY <1>1

LEMMA ChipSizes ==
  ASSUME SuitePlace, ChipsDiffer
  PROVE  /\ chip.page \in Nat \ {0} /\ chip.cap \in Nat \ {0}
         /\ chip.cap <= Capacity /\ chip.cap % chip.page = 0
         /\ Block \in Nat \ {0}
  BY ChipTypes, SuiteAssumption DEF SuitePlace, ChipsDiffer

LEMMA PieceBounds ==
  ASSUME SuitePlace, NEW at \in Nat, NEW i \in Nat
  PROVE  PieceStart(at, i) \in at .. at + i
<1>1. ctx.pagesize \in Nat \ {0} /\ Block \in Nat \ {0}
  BY Sizes, SuiteAssumption DEF SuitePlace
<1>2. PICK p \in Nat : p = ((at + i) \div ctx.pagesize) * ctx.pagesize /\ p <= at + i
  BY <1>1, Quotients
<1>3. PICK b \in Nat : b = (i \div Block) * Block /\ b <= i
  BY <1>1, Quotients
<1>. QED  BY <1>2, <1>3 DEF PieceStart, Larger

LEMMA CellZeroBeginsPage ==
  ASSUME SuitePlace, ChipsDiffer, NEW at \in Nat, NEW i \in Nat, Cell(at, i) = 0
  PROVE  (at + i) % chip.page = 0
<1>1. PICK start \in Nat : start = PieceStart(at, i)
  BY PieceBounds
<1>2. PICK q \in Nat : q = start \div chip.page
  BY <1>1, ChipSizes, DivMod
<1>3. PICK r \in 0 .. chip.page - 1 : r = (at + i) % chip.page
  <2>1. at + i \in Nat
    OBVIOUS
  <2>. QED  BY <2>1, ChipSizes, DivMod
<1>4. (q * chip.page + r) % chip.cap = 0
  BY <1>1, <1>2, <1>3 DEF Cell
<1>. QED  BY <1>3, <1>4, ChipSizes, CellZero

(* A piece that begins inside the first page counts its addresses there.   *)
LEMMA CellOfPageEnd ==
  ASSUME SuitePlace, ChipsDiffer, NEW at \in Nat, NEW i \in Nat,
         at + i = chip.page, PieceStart(at, i) < chip.page
  PROVE  Cell(at, i) = 0
<1>1. PICK start \in 0 .. chip.page - 1 : start = PieceStart(at, i)
  <2>1. PieceStart(at, i) \in Nat
    BY PieceBounds
  <2>. QED  BY <2>1, ChipSizes
<1>2. start = 0 * chip.page + start
  BY <1>1, ChipSizes
<1>3. start \div chip.page = 0
  BY <1>1, <1>2, ChipSizes, DivUnique
<1>4. chip.page % chip.page = 0
  <2>1. chip.page = 1 * chip.page /\ chip.page \in Nat
    BY ChipSizes
  <2>. QED  BY <2>1, ChipSizes, Multiple
<1>5. 0 % chip.cap = 0
  <2>1. 0 = 0 * chip.cap /\ 0 \in Nat
    BY ChipSizes
  <2>. QED  BY <2>1, ChipSizes, Multiple
<1>6. 0 * chip.page = 0
  BY ChipSizes
<1>. QED  BY <1>1, <1>3, <1>4, <1>5, <1>6 DEF Cell

WrongPage(c, h) == h.cap = Capacity /\ h.page % c.pagesize # 0
Wrapped(m, h) == \E k \in 1 .. Capacity : k * h.page < Capacity /\ m[0] = Random[k * h.page]

LEMMA FirstPageEnds ==
  ASSUME SuitePlace, ChipsDiffer, WrongPage(ctx, chip)
  PROVE  chip.page < Capacity
<1>1. PICK m \in Nat : Capacity = m * chip.page
  BY ChipSizes, Sizes, Multiple DEF WrongPage
<1>2. m # 0
  BY <1>1, Sizes, ChipSizes DEF SuitePlace
<1>3. 1 * chip.page <= m * chip.page
  BY <1>2, ChipSizes, TimesMonotone
<1>4. chip.page <= Capacity
  BY <1>1, <1>3, ChipSizes
<1>5. Capacity % ctx.pagesize = 0
  <2>1. Capacity = ctx.pages * ctx.pagesize /\ ctx.pages \in Nat /\ ctx.pagesize \in Nat \ {0}
    BY Sizes DEF SuitePlace
  <2>. QED  BY <2>1, Sizes, Multiple DEF SuitePlace
<1>6. Capacity \in Nat
  BY Sizes DEF SuitePlace
<1>. QED  BY <1>4, <1>5, <1>6, ChipSizes DEF WrongPage

(* Piece k of the first loop.                                              *)
LEMMA RunBounds ==
  ASSUME NEW c \in Contexts, NEW k \in 0 .. Runs(c) - 1
  PROVE  k * c.len \in Nat /\ k * c.len + c.len <= Capacity
<1>1. PICK n \in Nat : n = Runs(c) /\ n * c.len <= Capacity
  BY Sizes, Quotients DEF Runs
<1>2. (k + 1) * c.len <= n * c.len
  BY <1>1, Sizes, TimesMonotone
<1>3. k * c.len \in Nat /\ (k + 1) * c.len = k * c.len + c.len
  <2>1. PICK len \in Nat : len = c.len
    BY Sizes
  <2>2. k \in Nat /\ k * len \in Nat /\ (k + 1) * len = k * len + len
    OBVIOUS
  <2>. QED  BY <2>1, <2>2
<1>4. n * c.len \in Nat
  BY <1>1, Sizes
<1>. QED  BY <1>1, <1>2, <1>3, <1>4, Sizes

LEMMA WholeRuns ==
  ASSUME NEW c \in Contexts
  PROVE  Runs(c) * c.len = Capacity
<1>1. PICK len \in Nat \ {0} : len = c.len
  BY Sizes
<1>2. Capacity \in Nat /\ Capacity % len = 0
  BY <1>1, Sizes
<1>3. PICK n \in Nat : n = Runs(c) /\ n = Capacity \div len
  BY <1>1, LoopsAreSeqs DEF Runs
<1>4. Capacity = n * len + 0
  BY <1>2, <1>3, DivMod
<1>5. n * len \in Nat
  OBVIOUS
<1>. QED  BY <1>1, <1>3, <1>4, <1>5

LEMMA CellZeroAfterRun ==
  ASSUME SuitePlace, ChipsDiffer, DOMAIN mem = 0 .. Capacity - 1,
         NEW k \in 0 .. Runs(ctx) - 1, NEW at \in Nat, at = k * ctx.len,
         Store(RandomPart(ctx, k), at, ctx.len)
  PROVE  /\ SentTo(at, ctx.len, 0) = {} => mem'[0] = mem[0]
         /\ SentTo(at, ctx.len, 0) # {} =>
              \E i \in SentTo(at, ctx.len, 0) :
                /\ \A j \in SentTo(at, ctx.len, 0) : j <= i
                /\ at + i > 0 => Wrapped(mem', chip)
<1>1. ctx.len \in Nat \ {0} /\ Capacity \in Nat \ {0} /\ 0 \in DOMAIN mem
  BY Sizes DEF SuitePlace
<1>2. CASE SentTo(at, ctx.len, 0) = {}
  BY <1>1, <1>2, StoreMeans
<1>3. CASE SentTo(at, ctx.len, 0) # {}
  <2>1. PICK i \in SentTo(at, ctx.len, 0) :
               /\ \A j \in SentTo(at, ctx.len, 0) : j <= i
               /\ mem'[0] = RandomPart(ctx, k)[i]
    BY <1>1, <1>3, StoreMeans
  <2>2. i \in 0 .. ctx.len - 1 /\ Cell(at, i) = 0
    BY DEF SentTo
  <2>3. mem'[0] = Random[at + i]
    BY <2>1, <2>2 DEF RandomPart
  <2>4. at + ctx.len <= Capacity
    BY RunBounds DEF SuitePlace
  <2>5. PICK a \in Nat : a = at + i /\ a < Capacity /\ a % chip.page = 0
    <3>1. at + i \in Nat /\ at + i < Capacity
      BY <1>1, <2>2, <2>4
    <3>. QED  BY <2>2, <3>1, CellZeroBeginsPage
  <2>6. ASSUME a > 0 PROVE Wrapped(mem', chip)
    <3>1. PICK t \in Nat : a = t * chip.page
      BY <2>5, ChipSizes, Multiple
    <3>2. t # 0
      BY <2>6, <3>1, ChipSizes
    <3>3. t <= a
      BY <3>1, ChipSizes
    <3>4. t \in 1 .. Capacity
      BY <1>1, <2>5, <3>2, <3>3
    <3>. QED  BY <2>3, <2>5, <3>1, <3>4 DEF Wrapped
  <2>. QED  BY <1>3, <2>1, <2>5, <2>6
<1>. QED  BY <1>2, <1>3

(* The run that writes the end of the first page wraps it.                 *)
LEMMA RunOverPageEnd ==
  ASSUME SuitePlace, ChipsDiffer, WrongPage(ctx, chip), DOMAIN mem = 0 .. Capacity - 1,
         NEW k \in 0 .. Runs(ctx) - 1, NEW at \in Nat, at = k * ctx.len,
         Store(RandomPart(ctx, k), at, ctx.len), k = chip.page \div ctx.len
  PROVE  Wrapped(mem', chip)
<1>1. /\ ctx.len \in Nat \ {0} /\ Capacity \in Nat \ {0} /\ ctx.pagesize \in Nat \ {0}
      /\ chip.page \in Nat \ {0} /\ chip.page < Capacity /\ Block \in Nat \ {0}
  BY Sizes, ChipSizes, FirstPageEnds DEF SuitePlace
<1>2. PICK i \in 0 .. ctx.len - 1 : i = chip.page % ctx.len /\ chip.page = at + i
  <2>1. PICK q \in Nat, p \in Nat, r \in 0 .. ctx.len - 1 :
           q = chip.page \div ctx.len /\ r = chip.page % ctx.len /\ p = q * ctx.len
           /\ chip.page = p + r
    BY <1>1, Division, Zenon
  <2>. QED  BY <2>1
<1>3. PieceStart(at, i) < chip.page
  <2>1. CASE Paged(ctx)
    <3>1. ctx.len = Capacity
      BY <2>1 DEF ChipsDiffer, SuitePlace
    <3>2. at = 0
      <4>1. chip.page = 0 * Capacity + chip.page /\ chip.page \in 0 .. Capacity - 1
        BY <1>1
      <4>2. chip.page \div Capacity = 0
        BY <1>1, <4>1, DivUnique
      <4>. QED  BY <1>1, <3>1, <4>2
    <3>3. PICK q \in Nat, p \in Nat, r \in 0 .. ctx.pagesize - 1 :
             q = chip.page \div ctx.pagesize /\ r = chip.page % ctx.pagesize
             /\ p = q * ctx.pagesize /\ chip.page = p + r
      BY <1>1, Division, Zenon
    <3>4. p < chip.page
      BY <1>1, <3>3 DEF WrongPage
    <3>5. PieceStart(at, i) = Larger(at, ((at + i) \div ctx.pagesize) * ctx.pagesize)
      BY <2>1 DEF PieceStart
    <3>6. PieceStart(at, i) = Larger(0, p)
      BY <1>2, <3>2, <3>3, <3>5
    <3>7. Larger(0, p) = p
      BY <3>3 DEF Larger
    <3>. QED  BY <3>4, <3>6, <3>7
  <2>2. CASE ~ Paged(ctx)
    <3>1. i % Block # 0
      BY <1>1, <1>2, <2>2 DEF ChipsDiffer, SuitePlace, WrongPage
    <3>2. i \in Nat
      BY <1>1
    <3>3. PICK q \in Nat, p \in Nat, r \in 0 .. Block - 1 :
             q = i \div Block /\ r = i % Block /\ p = q * Block /\ i = p + r
      BY <1>1, <3>2, Division, Zenon
    <3>4. p < i
      BY <1>1, <3>1, <3>3
    <3>5. PieceStart(at, i) = at + p
      BY <2>2, <3>3 DEF PieceStart
    <3>. QED  BY <1>1, <1>2, <3>4, <3>5
  <2>. QED  BY <2>1, <2>2
<1>4. i \in SentTo(at, ctx.len, 0)
  <2>1. i \in Nat
    BY <1>1
  <2>. QED  BY <1>2, <1>3, <2>1, CellOfPageEnd DEF SentTo
<1>5. PICK j \in SentTo(at, ctx.len, 0) :
         /\ \A l \in SentTo(at, ctx.len, 0) : l <= j
         /\ at + j > 0 => Wrapped(mem', chip)
  BY <1>4, CellZeroAfterRun
<1>6. i <= j /\ j \in 0 .. ctx.len - 1
  BY <1>4, <1>5 DEF SentTo
<1>. QED  BY <1>1, <1>2, <1>5, <1>6

(* A later run leaves it wrapped.                                          *)
LEMMA StaysWrapped ==
  ASSUME SuitePlace, ChipsDiffer, DOMAIN mem = 0 .. Capacity - 1, Wrapped(mem, chip),
         NEW k \in 1 .. Runs(ctx) - 1, NEW at \in Nat, at = k * ctx.len,
         Store(RandomPart(ctx, k), at, ctx.len)
  PROVE  Wrapped(mem', chip)
<1>1. ctx.len \in Nat \ {0} /\ k \in 0 .. Runs(ctx) - 1 /\ Runs(ctx) \in Nat
  BY Sizes, LoopsAreSeqs DEF SuitePlace
<1>2. at > 0
  <2>1. 1 * ctx.len <= k * ctx.len
    BY <1>1, TimesMonotone
  <2>. QED  BY <1>1, <2>1
<1>3. CASE SentTo(at, ctx.len, 0) = {}
  BY <1>1, <1>3, CellZeroAfterRun DEF Wrapped
<1>4. CASE SentTo(at, ctx.len, 0) # {}
  <2>1. PICK j \in SentTo(at, ctx.len, 0) : at + j > 0 => Wrapped(mem', chip)
    BY <1>1, <1>4, CellZeroAfterRun
  <2>. QED  BY <1>1, <1>2, <2>1 DEF SentTo
<1>. QED  BY <1>3, <1>4

(* The suite begins with the two loops.                                    *)
Begins(s, t) == Len(s) <= Len(t) /\ \A i \in 1 .. Len(s) : t[i] = s[i]

LEMMA BeginsRow ==
  ASSUME NEW b, NEW s, NEW t, IsSeq(b), IsSeq(s), IsSeq(t), Begins(b, s)
  PROVE  Begins(b, s \o t)
<1>1. Len(b) \in Nat /\ Len(s) \in Nat /\ Len(t) \in Nat
  BY LengthIsNat
<1>2. ASSUME NEW i \in 1 .. Len(b) PROVE (s \o t)[i] = b[i]
  BY <1>1, InARow DEF Begins
<1>3. Len(b) <= Len(s \o t)
  BY <1>1, InARow DEF Begins
<1>. QED  BY <1>2, <1>3 DEF Begins

Loops(c) == FillRandom(c) \o ReadBack(c)

LEMMA SuiteBegins ==
  ASSUME NEW c \in Contexts
  PROVE  /\ Len(Suite(c)) >= 2 * Runs(c)
         /\ \A i \in 1 .. Runs(c) :
              /\ Suite(c)[i] = FillRandom(c)[i]
              /\ Suite(c)[Runs(c) + i] = ReadBack(c)[i]
<1>1. IsSeq(Loops(c)) /\ Len(Loops(c)) = 2 * Runs(c) /\ Runs(c) \in Nat
  BY LoopsAreSeqs, InARow DEF Loops
<1>2. Begins(Loops(c), Loops(c))
  BY <1>1 DEF Begins
<1>3. Begins(Loops(c), FullWriteErase(c))
  BY <1>1, <1>2, NvramSetIsSeq, CheckErasedIsSeq, InARow, BeginsRow, FullWriteEraseIs DEF Loops
<1>4. IsSeq(FilePutTest)
  BY FilePutTestFits
<1>5. Begins(Loops(c), Suite(c))
  BY <1>1, <1>3, <1>4, FullWriteEraseIsSeq, ExtrasIsSeq, AddressTranslateIsSeq,
     MkfsAndMountTestIsSeq, FileCreationTestFits, LastCallsFit, NvramSetIsSeq, InARow,
     BeginsRow, SuiteIs DEF Front
<1>6. ASSUME NEW i \in 1 .. Runs(c)
      PROVE  /\ Suite(c)[i] = FillRandom(c)[i]
             /\ Suite(c)[Runs(c) + i] = ReadBack(c)[i]
  <2>1. Loops(c)[i] = FillRandom(c)[i] /\ Loops(c)[Runs(c) + i] = ReadBack(c)[i]
    BY LoopsAreSeqs, InARow DEF Loops
  <2>. QED  BY <1>1, <1>5, <2>1 DEF Begins
<1>. QED  BY <1>1, <1>5, <1>6 DEF Begins

-----------------------------------------------------------------------------
(* The invariant of the first test.                                        *)

ReadUpTo(m, h, n) == \A x \in 0 .. n - 1 : m[x % h.cap] = Random[x]

ReadAlready == ((pc - 1) - Runs(ctx)) * ctx.len

FirstTest ==
  /\ WrongPage(ctx, chip) /\ pc \in (chip.page \div ctx.len) + 2 .. 2 * Runs(ctx) + 1 => Wrapped(mem, chip)
  /\ pc \in Runs(ctx) + 1 .. 2 * Runs(ctx) + 1 => ReadUpTo(mem, chip, ReadAlready)
  /\ pc > 2 * Runs(ctx) => AsConfigured

ChipInv ==
  /\ SuitePlace
  /\ DOMAIN mem = 0 .. Capacity - 1
  /\ verdict # "HALT" => FirstTest

LEMMA DomainKept == [SuiteNext]_svars => DOMAIN mem' = DOMAIN mem
<1>1. ASSUME WriteStep PROVE DOMAIN mem' = DOMAIN mem
  BY <1>1, StoreKeepsDomain DEF WriteStep
<1>2. ASSUME PutStep PROVE DOMAIN mem' = DOMAIN mem
  BY <1>2, StoreKeepsDomain DEF PutStep
<1>3. ASSUME NvramSetStep PROVE DOMAIN mem' = DOMAIN mem
  BY <1>3, StoreKeepsDomain DEF NvramSetStep
<1>. QED  BY <1>1, <1>2, <1>3 DEF SuiteNext, ReadStep, CompareStep, FsStep, DfStep, CtorStep, SeekStep,
             GetStep, Return, svars

LEMMA SomeRun ==
  ASSUME NEW c \in Contexts
  PROVE  Runs(c) \in Nat \ {0}
<1>1. PICK len \in Nat \ {0}, n \in Nat : len = c.len /\ n = Runs(c) /\ n * len = Capacity
  BY Sizes, LoopsAreSeqs, WholeRuns
<1>2. n # 0
  BY <1>1, Sizes
<1>. QED  BY <1>1, <1>2

LEMMA ChipInit == SuiteInit => ChipInv
<1>. SUFFICES ASSUME SuiteInit PROVE ChipInv
  OBVIOUS
<1>1. SuitePlace /\ DOMAIN mem = 0 .. Capacity - 1 /\ pc = 1
  BY DEF SuiteInit, SuitePlace, Fill
<1>2. Runs(ctx) \in Nat \ {0}
  BY <1>1, SomeRun DEF SuitePlace
<1>3. chip.page \div ctx.len \in Nat
  <2>1. chip \in [page: Nat \ {0}, cap: Nat \ {0}]
    BY <1>1, SuiteAssumption DEF SuitePlace
  <2>2. chip.page \in Nat /\ ctx.len \in Nat \ {0}
    BY <1>1, <2>1, Sizes DEF SuitePlace
  <2>. QED  BY <2>2, DivMod
<1>. QED  BY <1>1, <1>2, <1>3 DEF ChipInv, FirstTest

(* A step of the first loop.                                               *)
LEMMA FillStep ==
  ASSUME ChipsDiffer, ChipInv, SuiteNext, verdict = "running", verdict' # "HALT",
         pc \in 1 .. Runs(ctx)
  PROVE  FirstTest'
<1>1. SuitePlace /\ DOMAIN mem = 0 .. Capacity - 1 /\ FirstTest
  BY DEF ChipInv
<1>2. ctx \in Contexts /\ Runs(ctx) \in Nat \ {0} /\ ctx.len \in Nat \ {0} /\ pc \in Nat
  BY <1>1, SomeRun, Sizes DEF SuitePlace
<1>3. PICK k \in 0 .. Runs(ctx) - 1 : k = pc - 1
  BY <1>2
<1>4. PICK at \in Nat : at = k * ctx.len
  BY <1>2, <1>3, RunBounds
<1>5. Steps[pc] = MtdWrite(RandomPart(ctx, k), ctx.len, at)
  BY <1>2, <1>3, <1>4, SuiteBegins DEF Steps, Called, FillRandom
<1>6. More /\ It = MtdWrite(RandomPart(ctx, k), ctx.len, at)
  BY <1>2, <1>5, SuiteBegins DEF More, It, Steps, Called
<1>7. WriteStep
  BY <1>6, DueWrite DEF MtdWrite
<1>8. pc' = pc + 1 /\ ctx' = ctx /\ chip' = chip
  BY <1>7 DEF WriteStep, Onward
<1>9. Store(RandomPart(ctx, k), at, ctx.len)
  <2>1. PICK done \in Done(It.n) :
           /\ Store(It.data, It.at, done)
           /\ Check(It.at + It.n <= Capacity /\ (It.checked => done = It.n))
    BY <1>7 DEF WriteStep
  <2>2. It.checked => done = It.n
    BY <2>1 DEF Check
  <2>3. /\ It.checked = TRUE /\ It.n = ctx.len /\ It.at = at
        /\ It.data = RandomPart(ctx, k)
    BY <1>6 DEF MtdWrite
  <2>. QED  BY <2>1, <2>2, <2>3
<1>10. PICK d \in Nat : d = chip.page \div ctx.len
  BY <1>1, <1>2, ChipSizes, DivMod
<1>11. ASSUME WrongPage(ctx, chip), pc + 1 >= d + 2 PROVE Wrapped(mem', chip)
  <2>1. CASE k = d
    BY <1>1, <1>3, <1>4, <1>9, <1>10, <1>11, <2>1, RunOverPageEnd
  <2>2. CASE k # d
    <3>1. pc >= d + 2 /\ k \in 1 .. Runs(ctx) - 1 /\ pc \in d + 2 .. 2 * Runs(ctx) + 1
      BY <1>2, <1>3, <1>11, <2>2
    <3>2. Wrapped(mem, chip)
      BY <1>1, <1>10, <1>11, <3>1 DEF FirstTest
    <3>. QED  BY <1>1, <1>4, <1>9, <3>1, <3>2, StaysWrapped
  <2>. QED  BY <2>1, <2>2
<1>12. ASSUME pc' \in Runs(ctx) + 1 .. 2 * Runs(ctx) + 1
       PROVE  ReadUpTo(mem', chip, ((pc' - 1) - Runs(ctx)) * ctx.len)
  <2>1. (pc' - 1) - Runs(ctx) = 0
    BY <1>2, <1>8, <1>12
  <2>2. 0 * ctx.len = 0
    BY <1>2
  <2>. QED  BY <2>1, <2>2 DEF ReadUpTo
<1>13. ~ pc' > 2 * Runs(ctx)
  BY <1>2, <1>8
<1>. QED  BY <1>2, <1>8, <1>10, <1>11, <1>12, <1>13 DEF FirstTest, ReadAlready

(* All of the memory read back: the chip is as configured.                 *)
LEMMA AllReadBack ==
  ASSUME ChipsDiffer, RandomDiffers, SuitePlace, ReadUpTo(mem, chip, Capacity),
         WrongPage(ctx, chip) => Wrapped(mem, chip)
  PROVE  AsConfigured
<1>1. Capacity \in Nat \ {0}
  BY Sizes DEF SuitePlace
<1>2. mem[0] = Random[0]
  <2>1. 0 = 0 * chip.cap /\ 0 \in Nat
    BY ChipSizes
  <2>2. 0 % chip.cap = 0
    BY <2>1, ChipSizes, Multiple
  <2>3. 0 \in 0 .. Capacity - 1
    BY <1>1
  <2>. QED  BY <2>2, <2>3 DEF ReadUpTo
<1>3. \A k \in 1 .. Capacity : k * chip.page < Capacity => Random[k * chip.page] # Random[0]
  BY DEF RandomDiffers, SuitePlace
<1>4. ~ Wrapped(mem, chip)
  BY <1>2, <1>3 DEF Wrapped
<1>5. ASSUME chip.cap < Capacity PROVE FALSE
  <2>1. PICK k \in Nat : chip.cap = k * chip.page
    BY ChipSizes, Multiple
  <2>2. k # 0
    BY <2>1, ChipSizes
  <2>3. k <= chip.cap
    BY <2>1, ChipSizes
  <2>4. k \in 1 .. Capacity
    BY <1>1, <1>5, <2>2, <2>3, ChipSizes
  <2>5. Random[chip.cap] # Random[0]
    BY <1>3, <1>5, <2>1, <2>4
  <2>6. chip.cap % chip.cap = 0
    <3>1. chip.cap = 1 * chip.cap /\ chip.cap \in Nat
      BY ChipSizes
    <3>. QED  BY <3>1, ChipSizes, Multiple
  <2>7. chip.cap \in 0 .. Capacity - 1
    BY <1>1, <1>5, ChipSizes
  <2>8. mem[0] = Random[chip.cap]
    BY <2>6, <2>7 DEF ReadUpTo
  <2>. QED  BY <1>2, <2>5, <2>8
<1>6. chip.cap = Capacity
  BY <1>1, <1>5, ChipSizes
<1>. QED  BY <1>4, <1>6 DEF AsConfigured, WrongPage

(* A step of the second loop.                                              *)
LEMMA ReadBackStep ==
  ASSUME ChipsDiffer, RandomDiffers, ChipInv, SuiteNext, verdict = "running", verdict' # "HALT",
         pc \in Runs(ctx) + 1 .. 2 * Runs(ctx)
  PROVE  FirstTest'
<1>1. SuitePlace /\ FirstTest
  BY DEF ChipInv
<1>2. ctx \in Contexts /\ Runs(ctx) \in Nat \ {0} /\ ctx.len \in Nat \ {0} /\ pc \in Nat
  BY <1>1, SomeRun, Sizes DEF SuitePlace
<1>3. PICK k \in 0 .. Runs(ctx) - 1 : k = (pc - 1) - Runs(ctx)
  BY <1>2
<1>4. PICK at \in Nat : at = k * ctx.len
  BY <1>2, <1>3, RunBounds
<1>5. Steps[pc] = MtdRead(ctx.len, at, RandomPart(ctx, k), ctx.len)
  <2>1. pc = Runs(ctx) + (k + 1) /\ k + 1 \in 1 .. Runs(ctx) /\ (k + 1) - 1 = k
    BY <1>2, <1>3
  <2>2. Steps[pc] = ReadBack(ctx)[k + 1]
    BY <1>2, <2>1, SuiteBegins DEF Steps, Called
  <2>. QED  BY <1>4, <2>1, <2>2 DEF ReadBack
<1>6. More /\ It = MtdRead(ctx.len, at, RandomPart(ctx, k), ctx.len)
  <2>1. pc <= Len(Steps)
    <3>1. pc <= 2 * Runs(ctx)
      BY <1>2
    <3>2. Len(Suite(ctx)) >= 2 * Runs(ctx) /\ Len(Suite(ctx)) \in Nat
      BY <1>2, SuiteBegins, SuiteIs, FrontIsSeq, NvramSetIsSeq, InARow, LengthIsNat
    <3>. QED  BY <1>2, <3>1, <3>2 DEF Steps, Called
  <2>. QED  BY <1>5, <2>1 DEF More, It
<1>7. ReadStep
  BY <1>6, DueRead DEF MtdRead
<1>8. pc' = pc + 1 /\ ctx' = ctx /\ chip' = chip /\ mem' = mem
  BY <1>7 DEF ReadStep, Onward
<1>9. Same(Loaded(at, ctx.len), RandomPart(ctx, k), ctx.len)
  <2>1. Same(Loaded(It.at, It.n), It.ref, It.cmp)
    BY <1>7 DEF ReadStep, Check
  <2>2. It.n = ctx.len /\ It.at = at /\ It.ref = RandomPart(ctx, k) /\ It.cmp = ctx.len
    BY <1>6 DEF MtdRead
  <2>. QED  BY <2>1, <2>2
<1>10. pc \in Runs(ctx) + 1 .. 2 * Runs(ctx) + 1 /\ ReadAlready = at
  BY <1>2, <1>3, <1>4 DEF ReadAlready
<1>11. ReadUpTo(mem, chip, at)
  BY <1>1, <1>10 DEF FirstTest
<1>12. ReadUpTo(mem, chip, at + ctx.len)
  <2>1. SUFFICES ASSUME NEW x \in 0 .. (at + ctx.len) - 1 PROVE mem[x % chip.cap] = Random[x]
    BY <1>2 DEF ReadUpTo
  <2>2. CASE x < at
    BY <1>11, <2>2 DEF ReadUpTo
  <2>3. CASE x >= at
    <3>1. PICK y \in 0 .. ctx.len - 1 : x = at + y
      <4>1. x - at \in 0 .. ctx.len - 1 /\ x = at + (x - at)
        BY <1>2, <2>3
      <4>. QED  BY <4>1
    <3>2. Loaded(at, ctx.len)[y] = RandomPart(ctx, k)[y]
      BY <1>9 DEF Same
    <3>3. Loaded(at, ctx.len)[y] = mem[x % chip.cap]
      BY <3>1 DEF Loaded
    <3>4. RandomPart(ctx, k)[y] = Random[x]
      BY <1>4, <3>1 DEF RandomPart
    <3>. QED  BY <3>2, <3>3, <3>4
  <2>. QED  BY <1>2, <2>2, <2>3
<1>13. ((pc' - 1) - Runs(ctx)) * ctx.len = at + ctx.len
  <2>1. (pc' - 1) - Runs(ctx) = k + 1
    BY <1>2, <1>3, <1>8
  <2>2. PICK len \in Nat : len = ctx.len
    BY <1>2
  <2>3. (k + 1) * len = k * len + len
    BY <1>3
  <2>. QED  BY <1>4, <2>1, <2>2, <2>3
<1>14. PICK d \in Nat : d = chip.page \div ctx.len
  BY <1>1, <1>2, ChipSizes, DivMod
<1>15. ASSUME WrongPage(ctx, chip) PROVE Wrapped(mem, chip)
  <2>1. PICK n \in Nat \ {0} : n = Runs(ctx)
    BY <1>2
  <2>2. d < n
    <3>1. chip.page < Capacity /\ chip.page \in Nat
      BY <1>1, <1>15, FirstPageEnds, ChipSizes
    <3>2. d * ctx.len <= chip.page
      BY <1>2, <1>14, <3>1, Quotients
    <3>3. n * ctx.len = Capacity
      BY <1>2, <2>1, WholeRuns
    <3>4. ~ n <= d
      <4>1. n <= d => n * ctx.len <= d * ctx.len
        BY <1>2, TimesMonotone
      <4>2. d * ctx.len \in Nat
        BY <1>2
      <4>3. Capacity \in Nat
        BY <1>2, Sizes
      <4>. QED  BY <3>1, <3>2, <3>3, <4>1, <4>2, <4>3
    <3>. QED  BY <3>4
  <2>3. pc \in d + 2 .. 2 * n + 1
    BY <1>2, <2>1, <2>2
  <2>. QED  BY <1>1, <1>14, <1>15, <2>1, <2>3 DEF FirstTest
<1>16. ASSUME pc' > 2 * Runs(ctx) PROVE AsConfigured
  <2>1. k + 1 = Runs(ctx)
    BY <1>2, <1>3, <1>8, <1>16
  <2>2. at + ctx.len = Capacity
    <3>1. (pc' - 1) - Runs(ctx) = Runs(ctx)
      BY <1>2, <1>3, <1>8, <2>1
    <3>. QED  BY <1>2, <1>13, <3>1, WholeRuns
  <2>. QED  BY <1>1, <1>12, <1>15, <2>2, AllReadBack
<1>. QED  BY <1>8, <1>12, <1>13, <1>15, <1>16 DEF FirstTest, ReadAlready, AsConfigured

LEMMA LaterStep ==
  ASSUME ChipInv, SuiteNext, verdict = "running", pc > 2 * Runs(ctx)
  PROVE  FirstTest'
<1>1. SuitePlace /\ AsConfigured
  BY DEF ChipInv, FirstTest
<1>2. Runs(ctx) \in Nat \ {0} /\ pc \in Nat
  BY <1>1, SomeRun DEF SuitePlace
<1>3. ASSUME pc' = pc + 1, UNCHANGED <<ctx, chip>> PROVE FirstTest'
  BY <1>1, <1>2, <1>3 DEF FirstTest, AsConfigured
<1>4. ASSUME Return PROVE FirstTest'
  <2>1. UNCHANGED <<mem, ctx, chip, pc>>
    BY <1>4 DEF Return
  <2>2. verdict # "HALT" /\ FirstTest
    BY DEF ChipInv
  <2>. QED  BY <2>1, <2>2 DEF FirstTest, ReadAlready, AsConfigured
<1>. QED  BY <1>3, <1>4 DEF SuiteNext, WriteStep, ReadStep, FsStep, DfStep, CtorStep, SeekStep,
             NvramSetStep, CompareStep, PutStep, GetStep, Onward

LEMMA ChipStep ==
  ASSUME ChipsDiffer, RandomDiffers
  PROVE  ChipInv /\ [SuiteNext]_svars => ChipInv'
<1>. SUFFICES ASSUME ChipInv, [SuiteNext]_svars PROVE ChipInv'
  OBVIOUS
<1>1. SuitePlace' /\ DOMAIN mem' = 0 .. Capacity - 1
  BY PlaceKept, DomainKept DEF ChipInv
<1>2. ASSUME verdict' # "HALT" PROVE FirstTest'
  <2>1. CASE UNCHANGED svars
    <3>1. FirstTest /\ UNCHANGED <<mem, ctx, chip, pc>>
      BY <1>2, <2>1 DEF ChipInv, svars
    <3>. QED  BY <3>1 DEF FirstTest, ReadAlready, AsConfigured
  <2>2. CASE SuiteNext
    <3>1. verdict = "running"
      BY <2>2 DEF SuiteNext, WriteStep, ReadStep, FsStep, DfStep, CtorStep, SeekStep, NvramSetStep,
                  CompareStep, PutStep, GetStep, Return, Now, More
    <3>2. Runs(ctx) \in Nat /\ pc \in Nat \ {0}
      BY SomeRun DEF ChipInv, SuitePlace
    <3>3. \/ pc \in 1 .. Runs(ctx)
          \/ pc \in Runs(ctx) + 1 .. 2 * Runs(ctx)
          \/ pc > 2 * Runs(ctx)
      BY <3>2
    <3>. QED  BY <1>2, <2>2, <3>1, <3>3, FillStep, ReadBackStep, LaterStep
  <2>. QED  BY <2>1, <2>2
<1>. QED  BY <1>1, <1>2 DEF ChipInv

(* Only the end of the script passes.                                      *)
LEMMA OnlyReturnPasses == SuiteNext /\ verdict' = "passed" => Return
<1>. SUFFICES ASSUME SuiteNext, verdict' = "passed", ~ Return PROVE FALSE
  OBVIOUS
<1>1. ASSUME NEW ok, Check(ok) PROVE FALSE
  BY <1>1 DEF Check
<1>2. ASSUME UNCHANGED verdict, More PROVE FALSE
  BY <1>2 DEF More
<1>. QED  BY <1>1, <1>2 DEF SuiteNext, WriteStep, ReadStep, FsStep, DfStep, CtorStep, SeekStep,
             NvramSetStep, CompareStep, PutStep, GetStep, Now

PassedAtEnd == verdict = "passed" => pc > Len(Steps)

LEMMA EndStep == SuitePlace /\ PassedAtEnd /\ [SuiteNext]_svars => PassedAtEnd'
<1>. SUFFICES ASSUME SuitePlace, PassedAtEnd, [SuiteNext]_svars, verdict' = "passed"
              PROVE  pc' > Len(Steps')
  BY DEF PassedAtEnd
<1>1. CASE UNCHANGED svars
  BY <1>1 DEF PassedAtEnd, svars, Steps
<1>2. CASE Return
  <2>1. ~ pc <= Len(Steps) /\ pc' = pc /\ ctx' = ctx
    BY <1>2 DEF Return, More
  <2>2. Len(Steps) \in Nat /\ pc \in Nat
    BY SuiteIs, FrontIsSeq, NvramSetIsSeq, InARow, LengthIsNat DEF Steps, Called, SuitePlace
  <2>. QED  BY <2>1, <2>2 DEF Steps
<1>. QED  BY <1>1, <1>2, OnlyReturnPasses

LEMMA EndInvariant == SuiteSpec => []PassedAtEnd
<1>1. SuiteInit => PassedAtEnd
  BY DEF SuiteInit, PassedAtEnd
<1>. QED  BY <1>1, EndStep, PlaceInvariant, PTL DEF SuiteSpec

(* A suite that passed ran on the chip the device is configured for: its   *)
(* first test notices every other one.                                     *)
THEOREM WrongChipIsFound == ChipsDiffer /\ RandomDiffers => (SuiteSpec => []WrongChipFound)
<1>. SUFFICES ASSUME ChipsDiffer, RandomDiffers PROVE SuiteSpec => []WrongChipFound
  OBVIOUS
<1>1. ChipInv /\ [SuiteNext]_svars => ChipInv'
  BY ChipStep
<1>2. ChipInv /\ PassedAtEnd => WrongChipFound
  <2>. SUFFICES ASSUME ChipInv, PassedAtEnd, verdict = "passed" PROVE AsConfigured
    BY DEF WrongChipFound
  <2>1. ctx \in Contexts /\ pc \in Nat
    BY DEF ChipInv, SuitePlace
  <2>2. Len(Steps) >= 2 * Runs(ctx) /\ Len(Steps) \in Nat /\ Runs(ctx) \in Nat
    BY <2>1, SuiteBegins, SomeRun, SuiteIs, FrontIsSeq, NvramSetIsSeq, InARow, LengthIsNat
    DEF Steps, Called
  <2>. QED  BY <2>1, <2>2 DEF PassedAtEnd, ChipInv, FirstTest
<1>. QED  BY <1>1, <1>2, ChipInit, EndInvariant, PTL DEF SuiteSpec

-----------------------------------------------------------------------------
(* On the right chip a byte goes where it belongs.                         *)

(* Numbers between a begin of a page and a number in it are in that page.  *)
LEMMA SamePage ==
  ASSUME NEW page \in Nat \ {0}, NEW a \in Nat, NEW q \in Nat, NEW p \in Nat,
         NEW r \in 0 .. page - 1, p = q * page, a = p + r,
         NEW start \in p .. a
  PROVE  start \div page = q
<1>1. PICK s \in 0 .. page - 1 : start = p + s
  <2>1. start - p \in 0 .. page - 1 /\ start = p + (start - p)
    OBVIOUS
  <2>. QED  BY <2>1
<1>2. start = q * page + s /\ start \in Nat
  BY <1>1
<1>. QED  BY <1>2, DivUnique

(* Pages of a multiple of ps bytes begin where a page of ps bytes begins.  *)
LEMMA CoarsePages ==
  ASSUME NEW ps \in Nat \ {0}, NEW page \in Nat \ {0}, page % ps = 0, NEW a \in Nat,
         NEW q \in Nat, q = a \div page
  PROVE  q * page <= (a \div ps) * ps
<1>1. PICK m \in Nat : page = m * ps
  BY Multiple
<1>2. PICK k \in Nat : k = q * m
  OBVIOUS
<1>3. q * page = k * ps /\ q * page <= a /\ k * ps \in Nat
  <2>1. q * page <= a
    BY Quotients
  <2>2. q * (m * ps) = (q * m) * ps
    OBVIOUS
  <2>3. k * ps \in Nat
    OBVIOUS
  <2>. QED  BY <1>1, <1>2, <2>1, <2>2, <2>3
<1>4. PICK t \in Nat : t = a \div ps /\ t * ps <= a /\ a < t * ps + ps
  BY Quotients
<1>5. ~ t + 1 <= k
  <2>1. t + 1 <= k => (t + 1) * ps <= k * ps
    BY TimesMonotone
  <2>2. (t + 1) * ps = t * ps + ps /\ t * ps \in Nat
    OBVIOUS
  <2>. QED  BY <1>3, <1>4, <2>1, <2>2
<1>6. k * ps <= t * ps
  BY <1>5, TimesMonotone
<1>. QED  BY <1>3, <1>4, <1>6

LEMMA RightCell ==
  ASSUME SuitePlace, AsConfigured,
         NEW at \in Nat, NEW i \in Nat, at + i < Capacity
  PROVE  Cell(at, i) = at + i
<1>1. PICK a \in Nat : a = at + i /\ a < Capacity
  OBVIOUS
<1>2. PICK page \in Nat \ {0}, ps \in Nat \ {0} :
         page = chip.page /\ ps = ctx.pagesize /\ page % ps = 0 /\ chip.cap = Capacity
  BY ChipTypes, Sizes DEF SuitePlace, AsConfigured
<1>3. PICK q \in Nat, p \in Nat, r \in 0 .. page - 1 :
         q = a \div page /\ r = a % page /\ p = q * page /\ a = p + r
  BY Division, Zenon
<1>4. PICK start \in at .. a : start = PieceStart(at, i)
  BY <1>1, PieceBounds
<1>5. p <= start
  <2>1. CASE Paged(ctx)
    <3>1. PICK f \in Nat : f = (a \div ps) * ps
      <4>1. a \div ps \in Nat
        BY Quotients
      <4>. QED  BY <4>1
    <3>2. start = Larger(at, f)
      BY <1>1, <1>2, <1>4, <2>1, <3>1 DEF PieceStart
    <3>3. p <= f
      BY <1>2, <1>3, <3>1, CoarsePages
    <3>. QED  BY <3>2, <3>3 DEF Larger
  <2>2. CASE ~ Paged(ctx)
    <3>1. ps = Capacity
      <4>1. ctx.pages = 1
        BY <2>2, Sizes DEF Paged, SuitePlace
      <4>2. ctx.pagesize * ctx.pages = Capacity
        BY Sizes DEF SuitePlace
      <4>. QED  BY <1>2, <4>1, <4>2
    <3>2. PICK m \in Nat : page = m * ps
      BY <1>2, Multiple
    <3>3. m # 0
      BY <1>2, <3>2
    <3>4. 1 * ps <= m * ps
      BY <3>3, TimesMonotone
    <3>5. a < page
      BY <1>1, <3>1, <3>2, <3>4
    <3>6. q = 0
      <4>1. a = 0 * page + a /\ a \in 0 .. page - 1
        BY <3>5
      <4>. QED  BY <1>3, <4>1, DivUnique
    <3>7. p = 0
      BY <1>3, <3>6
    <3>. QED  BY <3>7
  <2>. QED  BY <2>1, <2>2
<1>6. start \div page = q
  <2>1. start \in p .. a
    BY <1>4, <1>5
  <2>. QED  BY <1>3, <2>1, SamePage
<1>7. Cell(at, i) = (p + r) % Capacity
  BY <1>1, <1>2, <1>3, <1>4, <1>6 DEF Cell
<1>8. a % Capacity = a
  <2>1. a = 0 * Capacity + a /\ a \in 0 .. Capacity - 1 /\ Capacity \in Nat \ {0}
    BY <1>1, Sizes DEF SuitePlace
  <2>. QED  BY <2>1, DivUnique
<1>. QED  BY <1>1, <1>3, <1>7, <1>8

-----------------------------------------------------------------------------
(* nvramset() on all of the memory.                                        *)

LEMMA WholeSets ==
  ASSUME WholeChunks, NEW c \in Contexts
  PROVE  /\ SetSize(c) \in Nat \ {0} /\ Len(NvramSet(c)) \in Nat
         /\ Len(NvramSet(c)) * SetSize(c) = Capacity
<1>1. PICK size \in Nat \ {0} : size = SetSize(c)
  BY Sizes DEF SetSize
<1>2. Capacity % size = 0
  <2>1. CASE Paged(c)
    <3>1. Capacity = c.pages * size /\ c.pages \in Nat
      BY <1>1, <2>1, Sizes DEF SetSize
    <3>. QED  BY <3>1, Sizes, Multiple
  <2>2. CASE ~ Paged(c)
    BY <1>1, <2>2 DEF SetSize, WholeChunks
  <2>. QED  BY <2>1, <2>2
<1>3. Capacity \in Nat
  BY Sizes
<1>4. PICK q \in Nat, p \in Nat, r \in 0 .. size - 1 :
         q = Capacity \div size /\ r = Capacity % size /\ p = q * size /\ Capacity = p + r
  BY <1>3, Division, Zenon
<1>5. Len(NvramSet(c)) = q
  BY <1>1, <1>4, NvramSetIsSeq
<1>6. q * size = Capacity
  BY <1>2, <1>4
<1>. QED  BY <1>1, <1>5, <1>6

(* Every step but the last makes the next call due.                        *)
LEMMA StepsGoOn ==
  ASSUME SuiteNext
  PROVE  \/ Return
         \/ More /\ pc' = pc + 1 /\ UNCHANGED <<ctx, chip>>
  BY DEF SuiteNext, WriteStep, ReadStep, FsStep, DfStep, CtorStep, SeekStep, NvramSetStep,
         CompareStep, PutStep, GetStep, Onward, Now
=============================================================================
