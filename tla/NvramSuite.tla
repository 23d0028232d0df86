------------------------------ MODULE NvramSuite ------------------------------
(***************************************************************************)
(* nvram::TestSuite() of src/nvram_test_suite.cpp, a program that writes,  *)
(* reads and compares on the device itself and then on files, and halts at *)
(* the first surprise.  It runs over the file system of NvramFs and over a *)
(* chip that may be another one than the device is configured for.  Its    *)
(* calls are listed by the functions of the file in the order they are     *)
(* made.  Transfers of the raw device and of files may break off; those    *)
(* that mkfs(), mount(), create() and df() make for the superblock go      *)
(* through here and break off in NvramPower.                               *)
(***************************************************************************)
EXTENDS NvramFs, Sequences

CONSTANTS
  Contexts,     \* what the suite is run on: [pagesize, pages, len]
  Chips,        \* what is on the board: [page, cap], bytes of a page and in all
  Block,        \* bytes of an FRAM transfer
  Random,       \* what rand() returns from one srand() on
  TestName,     \* the names "test0" to "test3"
  TestOffset,   \* testoffset, 125
  FramChunk,    \* psize of nvramset() on an FRAM, 32
  FramWrite,    \* writesize of addres_translate_test() on an FRAM, 64
  BigFile,      \* size of test0, 1024
  SmallFile,    \* size of the other files, 32
  Stale,        \* what filebuf holds before addres_translate_test()
  Breaks,       \* bytes after which a transfer may break off
  MaxLost       \* bound: transfers that break off

Byte == 0 .. 255
Paged(c) == c.pages > 1

(* The misalignment test subtracts up to 3 from the size of a page.        *)
ASSUME SuiteAssumption ==
  /\ Contexts \subseteq [pagesize: Nat \ {0}, pages: Nat \ {0}, len: Nat \ {0}]
  /\ \A c \in Contexts : /\ c.pagesize * c.pages = Capacity /\ Capacity % c.len = 0
                         /\ Paged(c) => c.pagesize > 2
  /\ Chips \subseteq [page: Nat \ {0}, cap: Nat \ {0}]
  /\ {Block, FramChunk, FramWrite} \subseteq Nat \ {0}
  /\ {TestOffset, BigFile, SmallFile} \subseteq Nat
  /\ {Random, Stale} \subseteq [0 .. Capacity - 1 -> Byte]
  /\ Breaks \subseteq Nat /\ MaxLost \in Nat
  /\ TestName \in [0 .. 3 -> AlnumNames \ LongNames]

VARIABLES
  mem,      \* bytes of the chip; under a formatted store, media is in their place
  ctx,      \* the context
  chip,     \* the chip
  pc,       \* the next call of the suite
  df,       \* local variable of file_creation_test()
  filebuf,  \* buffer of the context that addres_translate_test() reads into
  lost,     \* the calls whose transfer broke off
  verdict   \* "running", "passed" or "HALT"

svars == <<vars, mem, ctx, chip, pc, df, filebuf, lost, verdict>>

-----------------------------------------------------------------------------
(* The calls of the suite.  buf says how far into its buffers a call and   *)
(* the memset() before it reach; cmp how many bytes memcmp() looks at.     *)

Fill(byte) == [x \in 0 .. Capacity - 1 |-> byte]
Patch(byte, at, n, inner) == [x \in 0 .. Capacity - 1 |-> IF x \in at .. at + n - 1 THEN inner ELSE byte]
Larger(m, n) == IF m < n THEN n ELSE m
Each(n, Call(_)) == [i \in 1 .. n |-> Call(i - 1)]

MtdWrite(data, n, at) ==
  [op |-> "write", data |-> data, n |-> n, at |-> at, checked |-> TRUE, buf |-> n]
MtdRead(n, at, ref, cmp) ==
  [op |-> "read", n |-> n, at |-> at, ref |-> ref, cmp |-> cmp, buf |-> n]
FsCall(call, want) == [op |-> call, want |-> want, buf |-> 0]
FileCall(call, name, size, want) ==
  [op |-> call, name |-> name, size |-> size, want |-> want, buf |-> 0]
Put(name, word) ==
  [op |-> "put", name |-> name, data |-> [x \in 0 .. Len(word) - 1 |-> word[x + 1]],
   n |-> Len(word), checked |-> TRUE, buf |-> 0]
Get(name, word) == [Put(name, word) EXCEPT !.op = "get"]
Unchecked(call) == [call EXCEPT !.checked = FALSE]
Uncounted(call) == [call EXCEPT !.op = "compare"]

(* Piece of an nvramset() whose result is ignored, behind sent others.     *)
Ignored(call, sent) ==
  [op |-> "set", data |-> call.data, n |-> call.n, at |-> call.at, sent |-> sent, buf |-> call.buf]
Seek(name) == [op |-> "seek", name |-> name, buf |-> 0]
Ctor(start, size) == [op |-> "ctor", start |-> start, size |-> size, buf |-> 0]
NoteDf == [op |-> "df", taken |-> 0, buf |-> 0]
CheckDf(taken) == [op |-> "df2", taken |-> taken, buf |-> 0]
Local == NoName       \* the File an application constructs itself

-----------------------------------------------------------------------------
(* The tests.                                                              *)

NvramSet_Paged(c) ==                      \* fault: an FRAM is one page too
  Each(c.pages, LAMBDA i : MtdWrite(Fill(255), c.pagesize, i * c.pagesize))

NvramSet(c) ==
  LET psize == IF Paged(c) THEN c.pagesize ELSE FramChunk
  IN Each(Capacity \div psize, LAMBDA i : MtdWrite(Fill(255), psize, i * psize))

CheckErased(c) ==
  Each(Capacity \div c.len, LAMBDA i : MtdRead(c.len, i * c.len, Fill(255), c.len))

FullWriteErase(c) ==
  LET steps == Capacity \div c.len
      random(i) == [x \in 0 .. c.len - 1 |-> Random[i * c.len + x]]
  IN Each(steps, LAMBDA i : MtdWrite(random(i), c.len, i * c.len))
     \o Each(steps, LAMBDA i : MtdRead(c.len, i * c.len, random(i), c.len))
     \o NvramSet(c) \o CheckErased(c)

Align(c, pattern, page) ==
  << MtdWrite(Fill(pattern), c.pagesize, page * c.pagesize),
     MtdRead(c.pagesize, page * c.pagesize, Fill(pattern), c.pagesize) >>

Overlap(c, pattern1, pattern2, page) ==
  << MtdRead(2 * c.pagesize, page * c.pagesize,
             Patch(pattern1, c.pagesize, c.pagesize, pattern2), c.pagesize) >>

AlignCheck(c) ==
  LET end == c.pages - 1
      each(page) == Align(c, 0, page) \o Align(c, 85, page) \o Align(c, 170, page) \o Align(c, 255, page)
  IN Align(c, 170, 0) \o Align(c, 0, 0) \o Align(c, 85, 0) \o Align(c, 255, 0) \o each(1)
     \o Align(c, 0, 0) \o Align(c, 85, 1) \o Overlap(c, 0, 85, 0)
     \o Align(c, 170, 1) \o Align(c, 85, 0) \o Overlap(c, 85, 170, 0)
     \o each(end) \o each(end - 1)
     \o Align(c, 85, end - 1) \o Align(c, 0, end) \o Overlap(c, 85, 0, end - 1)
     \o Align(c, 170, end - 1) \o Align(c, 85, end) \o Overlap(c, 170, 85, end - 1)

Misalign(c, offset, n) ==
  << MtdWrite(Fill(232), c.len, 0),
     MtdWrite(Fill(23), n, offset),
     [ MtdRead(c.len, 0, Patch(232, offset, n, 23), c.len)
         EXCEPT !.buf = Larger(c.len, offset + n) ] >>

MisalignCheck(c) ==
  LET ps == c.pagesize
      end == (c.pages - 1) * ps
      at(n, offsets) == [ j \in 1 .. 3 * Len(offsets) |->
                        Misalign(c, offsets[(j + 2) \div 3], n)[((j - 1) % 3) + 1] ]
  IN at(ps + 1, <<0, 1, 2, ps - 2, ps - 1, ps, ps + 1, ps + 2, end - 1, end - 2>>)
     \o at(ps + 2, <<0, 1, 2, ps - 3, ps - 2, ps - 1, ps, ps + 1, ps + 2, ps + 3, end - 2, end - 3>>)
     \o at(2 * ps + 1, <<0, 1, 2, end - ps - 1, end - ps - 2>>)
     \o at(ps - 1, <<0, 1, 2, end + 1, end, end - 1>>)
     \o at(2 * ps - 1, <<0, 1, 2, end - ps + 1, end - ps, end - ps - 1>>)

AddressTranslate_Short(c, n) ==           \* fault: the bytes of the file are not compared
  << Unchecked(MtdWrite(Fill(255), c.len, 0)),
     Ctor(TestOffset, 2 * n),
     [Put(Local, [x \in 1 .. n |-> 85]) EXCEPT !.checked = FALSE, !.buf = n],
     [ Uncounted(MtdRead(c.len, 0, Patch(255, TestOffset, n, 85), TestOffset))
         EXCEPT !.buf = Larger(c.len, TestOffset + n) ] >>

AddressTranslate(c, n) ==
  << Unchecked(MtdWrite(Fill(255), c.len, 0)),
     Ctor(TestOffset, 2 * n),
     [Put(Local, [x \in 1 .. n |-> 85]) EXCEPT !.checked = FALSE, !.buf = n],
     [ Uncounted(MtdRead(c.len, 0, Patch(255, TestOffset, n, 85), c.len))
         EXCEPT !.buf = Larger(c.len, TestOffset + n) ] >>

AddressTranslateTest_Same(c) ==           \* fault: writes of one size only
  LET n == IF Paged(c) THEN c.pagesize ELSE FramWrite
  IN AddressTranslate(c, n) \o AddressTranslate(c, n) \o AddressTranslate(c, n)

AddressTranslateTest(c) ==
  LET n == IF Paged(c) THEN c.pagesize ELSE FramWrite
  IN AddressTranslate(c, n) \o AddressTranslate(c, n - 1) \o AddressTranslate(c, n + 1)

(* file_test(): three words are written and read back, in both orders.     *)
U16Word == <<2, 1>>
U32Word == <<6, 5, 4, 3>>
U64Word == <<14, 13, 12, 11, 10, 9, 8, 7>>

FileTest(name) ==
  << Seek(name), Put(name, U16Word), Put(name, U32Word), Put(name, U64Word),
     Seek(name), Get(name, U16Word), Get(name, U32Word), Get(name, U64Word),
     Seek(name), Put(name, U64Word), Put(name, U32Word), Put(name, U16Word),
     Seek(name), Get(name, U64Word), Get(name, U32Word), Get(name, U16Word) >>

FilePutTest == <<Ctor(0, Capacity)>> \o FileTest(Local)

MkfsAndMountTest(c) ==
  << FsCall("new", {"void"}) >>
  \o Each(Len(NvramSet(c)), LAMBDA i : Ignored(NvramSet(c)[i + 1], i))
  \o << FsCall("mount", {"FAILED"}), FsCall("fsck", {"FAILED"}), FsCall("mkfs", {"SUCCESS"}),
        FsCall("fsck", {"SUCCESS"}), FsCall("mount", {"SUCCESS"}) >>

FileCreationTest(c) ==
  LET size == <<BigFile, SmallFile, SmallFile, SmallFile>>
      create(k, want) == FileCall("create", TestName[k], size[k + 1], {want})
      close(k) == FileCall("close", TestName[k], 0, {"void"})
      look == MtdRead(c.len, 0, Fill(0), 0)
  IN << FsCall("new", {"void"}), FsCall("mount", Outcomes), NoteDf,
        create(0, "file"), CheckDf(BigFile), look >>
     \o FileTest(TestName[0])
     \o << look, close(0), FileCall("open", TestName[0], 0, {"file"}), close(0), create(0, "nullptr"),
           create(1, "file"), CheckDf(BigFile + SmallFile),
           create(2, "file"), CheckDf(BigFile + 2 * SmallFile),
           create(3, "nullptr") >>
     \o FileTest(TestName[1]) \o FileTest(TestName[2])
     \o <<close(1), close(2)>>

(* TestSuite(): the Fs of its own is never mounted.                        *)
Suite(c) ==
  FullWriteErase(c)
  \o (IF Paged(c) THEN AlignCheck(c) \o MisalignCheck(c) ELSE <<>>)
  \o AddressTranslateTest(c) \o FilePutTest \o MkfsAndMountTest(c) \o FileCreationTest(c)
  \o << FsCall("new", {"void"}), FsCall("umount", {"SUCCESS"}), FsCall("fsck", {"SUCCESS"}),
        MtdRead(c.len, 0, Fill(0), 0) >>
  \o NvramSet(c)

Called == [c \in Contexts |-> Suite(c)]

-----------------------------------------------------------------------------
(* The chip.                                                               *)

(* Where the transfer of byte i of a write begins: split_by_page() begins  *)
(* one in every page, split_by_buffer() after every block.                 *)
PieceStart_Whole(at, i) == at             \* fault: the write is not split

PieceStart(at, i) ==
  IF Paged(ctx) THEN Larger(at, ((at + i) \div ctx.pagesize) * ctx.pagesize)
           ELSE at + (i \div Block) * Block

(* Inside a transfer the chip counts addresses within its page; it ignores *)
(* address bits it has no memory for.                                      *)
Cell(at, i) ==
  LET page == PieceStart(at, i) \div chip.page
  IN ((page * chip.page) + ((at + i) % chip.page)) % chip.cap

(* A byte written into the superblock leaves no formatted store behind.    *)
Unformatted == [magic |-> FALSE, cnt |-> 0, toc |-> EmptyTable, sealed |-> FALSE]

Store(data, at, done) ==
  LET sent == {[i |-> i, cell |-> Cell(at, i)] : i \in 0 .. done - 1}
      on(x) == {s.i : s \in {t \in sent : t.cell = x}}
      final(is) == data[CHOOSE i \in is : \A j \in is : j <= i]
  IN /\ mem' = [x \in DOMAIN mem |-> LET is == on(x) IN IF is = {} THEN mem[x] ELSE final(is)]
     /\ media' = IF \E s \in sent : s.cell < SuperSize THEN Unformatted ELSE media

Loaded(at, n) == [x \in 0 .. n - 1 |-> mem[(at + x) % chip.cap]]

-----------------------------------------------------------------------------
(* Steps.                                                                  *)

Steps == Called[ctx]
More == verdict = "running" /\ pc <= Len(Steps)
It == Steps[pc]
Now(op) == More /\ It.op = op

(* osalDbgCheck() halts the program.                                       *)
Check(ok) == verdict' = IF ok THEN "running" ELSE "HALT"

Onward == pc' = pc + 1 /\ UNCHANGED <<ctx, chip>>

(* A transfer goes through or breaks off.                                  *)
Done(n) == {n} \cup {d \in Breaks : d < n /\ Cardinality(lost) < MaxLost}
Broke(done, n) == lost' = IF done < n THEN lost \cup {pc} ELSE lost

(* memcmp() of the buffer read with the reference.                         *)
Same_Ignored(data, ref, n) == TRUE        \* fault: the result of memcmp() is not looked at

Same(data, ref, n) == \A x \in 0 .. n - 1 : data[x] = ref[x]

WriteStep ==
  /\ Now("write")
  /\ \E done \in Done(It.n) :
       /\ Store(It.data, It.at, done)
       /\ Broke(done, It.n)
       /\ Check(It.at + It.n <= Capacity /\ (It.checked => done = It.n))
  /\ Onward /\ UNCHANGED <<ram, last, df, filebuf>>

(* nvramset() returns at the first write that broke off: the later pieces  *)
(* are not sent.  mkfs_and_mount_test() does not look at what it returns.  *)
SetReturned == lost \cap pc - It.sent .. pc - 1 # {}

NvramSetStep ==
  /\ Now("set")
  /\ \/ SetReturned /\ UNCHANGED <<media, mem, lost, verdict>>
     \/ /\ ~ SetReturned
        /\ \E done \in Done(It.n) : Store(It.data, It.at, done) /\ Broke(done, It.n)
        /\ Check(It.at + It.n <= Capacity)
  /\ Onward /\ UNCHANGED <<ram, last, df, filebuf>>

(* A read whose count is checked: the buffer is compared only when it was  *)
(* filled.                                                                 *)
ReadStep ==
  /\ Now("read")
  /\ \E done \in Done(It.n) \cap {0, It.n} :
       /\ Broke(done, It.n)
       /\ Check(done = It.n /\ Same(Loaded(It.at, It.n), It.ref, It.cmp))
  /\ Onward /\ UNCHANGED <<vars, mem, df, filebuf>>

(* The read of __file_addres_translate_test(): nobody looks at its count,  *)
(* memcmp() sees whatever filebuf holds, behind the bytes that arrived     *)
(* those of an earlier read.                                               *)
CompareStep ==
  /\ Now("compare")
  /\ \E done \in Done(It.n) :
       /\ filebuf' = [x \in DOMAIN filebuf |-> IF x < done THEN Loaded(It.at, It.n)[x] ELSE filebuf[x]]
       /\ Broke(done, It.n)
       /\ Check(Same(filebuf', It.ref, It.cmp))
  /\ Onward /\ UNCHANGED <<vars, mem, df>>

(* The constructor of a local Fs, and its calls.                           *)
FsStep ==
  /\ \/ Now("new") /\ Restart
     \/ Now("mount") /\ Mount
     \/ Now("fsck") /\ Fsck
     \/ Now("mkfs") /\ Mkfs
     \/ Now("umount") /\ Umount
     \/ Now("create") /\ Create(It.name, It.size)
     \/ Now("open") /\ Open(It.name)
     \/ Now("close") /\ \E i \in Slots : FoundAt(media, It.name, i) /\ Close(i)
  /\ Check(last'.ret \in It.want)
  /\ Onward /\ UNCHANGED <<mem, df, filebuf, lost>>

DfStep ==
  /\ \/ Now("df") /\ df' = Df(media) /\ UNCHANGED verdict
     \/ Now("df2") /\ UNCHANGED df /\ Check(Df(media) = df - It.taken)
  /\ Onward /\ UNCHANGED <<vars, mem, filebuf, lost>>

(* __test_ctor(): a File outside of any file system takes the first slot.   *)
CtorStep ==
  /\ Now("ctor")
  /\ fat' = [fat EXCEPT ![0] = [mtd |-> TRUE, start |-> It.start % U16, size |-> It.size % U16, tip |-> 0]]
  /\ Onward /\ UNCHANGED <<media, files_opened, super_open, last, mem, df, filebuf, lost, verdict>>

HandleOf(i) == IF It.name = Local THEN i = 0 ELSE FoundAt(media, It.name, i)
Address(h) == h.start + h.tip

SeekStep ==
  /\ Now("seek")
  /\ \E i \in Slots : HandleOf(i) /\ SetPosition(i, 0)
  /\ Onward /\ UNCHANGED <<mem, df, filebuf, lost, verdict>>

Move(i, done) == fat' = [fat EXCEPT ![i].tip = (@ + done) % U16]

PutStep ==
  /\ Now("put")
  /\ \E i \in Slots :
       /\ HandleOf(i)
       /\ LET n == ClampSize(fat[i], It.n)
          IN \E done \in Done(n) :
               /\ Store(It.data, Address(fat[i]), done)
               /\ Broke(done, n)
               /\ Move(i, done)
               /\ Check(It.checked => done = It.n)
  /\ Onward /\ UNCHANGED <<files_opened, super_open, last, df, filebuf>>

GetStep ==
  /\ Now("get")
  /\ \E i \in Slots :
       /\ HandleOf(i)
       /\ LET n == ClampSize(fat[i], It.n)
          IN \E done \in Done(n) \cap {0, n} :
               /\ Broke(done, n)
               /\ Move(i, done)
               /\ Check(done = It.n /\ Same(Loaded(Address(fat[i]), n), It.data, n))
  /\ Onward /\ UNCHANGED <<media, files_opened, super_open, last, mem, df, filebuf>>

(* return OSAL_SUCCESS                                                     *)
Return ==
  /\ verdict = "running" /\ ~ More
  /\ verdict' = "passed"
  /\ UNCHANGED <<vars, mem, ctx, chip, pc, df, filebuf, lost>>

SuiteInit ==
  /\ RamInit /\ media = Unformatted
  /\ mem = Fill(0)
  /\ ctx \in Contexts
  /\ chip \in Chips
  /\ pc = 1 /\ df = 0 /\ filebuf = Stale /\ lost = {}
  /\ verdict = "running"

SuiteNext ==
  \/ WriteStep \/ NvramSetStep \/ ReadStep \/ CompareStep
  \/ FsStep \/ DfStep \/ CtorStep \/ SeekStep \/ PutStep \/ GetStep \/ Return

SuiteSpec == SuiteInit /\ [][SuiteNext]_svars

-----------------------------------------------------------------------------
(* Properties.                                                             *)

(* The chip has the memory the device is configured for, and its pages     *)
(* hold those of the configuration.                                        *)
AsConfigured == chip.cap = Capacity /\ chip.page % ctx.pagesize = 0

(* No check of the suite fails on the right chip while transfers go        *)
(* through: splitting, files, mount, mkfs, create and df do what it asks.  *)
SuitePasses == AsConfigured /\ lost = {} => verdict # "HALT"

(* The suite passes on the right chip only: wrong pages and missing memory *)
(* show up in one of its comparisons.                                      *)
WrongChipFound == verdict = "passed" => AsConfigured

(* addres_translate_test() does not look at the count of its read          *)
(* (nvram_test_suite.cpp:271) and never clears filebuf.  All the same, if  *)
(* its memcmp() agrees, the chip holds what was compared, however many of  *)
(* the transfers before were lost: the three sizes of its writes differ.   *)
ComparedIsStored ==
  [][Now("compare") /\ verdict' # "HALT" => Same(Loaded(It.at, It.n), It.ref, It.cmp)]_svars

(* Calls that may break off unnoticed: the code ignores what they return,  *)
(* and what they leave is not wrong.  The write of the watermark is then   *)
(* on erased bytes, the read on a buffer that is right; mkfs() follows the *)
(* nvramset().  File::write() of the same test is ignored too (:266).      *)
MayBeLost(call) == call.op \in {"set", "compare"} \/ (call.op = "write" /\ ~ call.checked)

(* A suite that passed has lost no other transfer: that File::write() lost *)
(* its bytes shows in the comparison, even if the watermark before it and  *)
(* the read behind it were lost as well.                                   *)
LostTransfersFound == verdict = "passed" => \A p \in lost : MayBeLost(Steps[p])

(* No call reaches behind the buffers of the context.                      *)
BuffersHold == More => It.buf <= ctx.len

(* Buffers that suffice: of an EEPROM all of it, with room for the rows of *)
(* misaligned writes; of an FRAM what nvramset() and the address test use. *)
BuffersSuffice ==
  \A c \in Contexts :
    IF Paged(c) THEN /\ c.len = Capacity
                     /\ 2 * c.pagesize + 5 <= Capacity
                     /\ TestOffset + c.pagesize + 1 <= Capacity
                ELSE FramChunk <= c.len /\ TestOffset + FramWrite + 1 <= c.len

(* Chips whose difference shows in the first test: not more memory than    *)
(* configured, whole pages, and on a board configured for an FRAM a first  *)
(* page that does not end where a transfer ends; and rand() does not       *)
(* return its first byte again at the distance of a page.                  *)
ChipsDiffer ==
  /\ \A h \in Chips : h.cap <= Capacity /\ h.cap % h.page = 0
  /\ \A c \in Contexts : Paged(c) => c.len = Capacity
  /\ \A c \in Contexts, h \in Chips :
        ~ Paged(c) /\ h.cap = Capacity /\ h.page < Capacity => (h.page % c.len) % Block # 0

RandomDiffers ==
  \A h \in Chips, k \in 1 .. Capacity : k * h.page < Capacity => Random[k * h.page] # Random[0]

(* nvramset() reaches the end of an FRAM.                                  *)
WholeChunks == \A c \in Contexts : ~ Paged(c) => Capacity % FramChunk = 0

(* A device that suits the tests of files: sizes fit 16 bits and the       *)
(* device, the words fit the files, the table has no entry for test3, and  *)
(* the names are different.                                                *)
DeviceSuits ==
  /\ SmallDevice /\ FitsCounter /\ MaxFileCnt = 3
  /\ \A j, k \in 0 .. 3 : TestName[j] = TestName[k] => j = k
  /\ SmallFile >= 14 /\ BigFile >= 14
  /\ SuperSize + BigFile + 2 * SmallFile < Capacity
  /\ \A c \in Contexts : 2 * (IF Paged(c) THEN c.pagesize ELSE FramWrite) + 2 < U16

(* The end of filebuf does not look erased before the address test.        *)
BufferDiffers == \A c \in Contexts : Stale[c.len - 1] # 255
=============================================================================
