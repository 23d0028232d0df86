------------------------------- MODULE NvramFs -------------------------------
(***************************************************************************)
(* The file system of src/nvram_fs.cpp and the open-file handles of        *)
(* src/nvram_file.cpp, one action per public call.                         *)
(*                                                                         *)
(* Persistent state is the superblock of the memory device: magic, file    *)
(* count, file table (toc) and checksum.  RAM state is the Fs object:      *)
(* files_opened, the superblock file and the fat of handles given to the   *)
(* application.  The library has no locks above the device, so calls of    *)
(* one application thread are atomic here; a power cycle may separate any  *)
(* two of them.  Device transfers of the superblock succeed at this level. *)
(***************************************************************************)
EXTENDS Integers, FiniteSets

CONSTANTS
  MaxFileCnt,   \* NVRAM_FS_MAX_FILE_CNT: entries of the file table
  Capacity,     \* mtd.capacity(): bytes of the device
  SuperSize,    \* SUPERBLOCK_SIZE: bytes before the first file
  U8,           \* 2^8, the modulus of filecount_t
  U16,          \* 2^16, the modulus of uint16_t start, size and tip
  Names,        \* the names an application passes
  NoName,       \* "", also the name of an empty table entry
  AlnumNames,   \* names made of letters and digits only
  LongNames,    \* names of NVRAM_FS_MAX_FILE_NAME_LEN characters or more
  Numbers,      \* the uint32_t sizes, lengths and offsets passed
  Images        \* superblocks a device may hold before its first mkfs

Slots == 0 .. MaxFileCnt - 1
Bytes16 == 0 .. U16 - 1

TocItem == [name: Names, start: Bytes16, size: Bytes16]

(* A superblock.  Of its checksum only the comparison with nvramcrc over   *)
(* magic, count and table is kept: sealed when they agree.                 *)
Image == [magic: BOOLEAN, cnt: 0 .. U8 - 1, toc: [Slots -> TocItem], sealed: BOOLEAN]
Handle == [mtd: BOOLEAN, start: Bytes16, size: Bytes16, tip: Bytes16]

EmptyItem == [name |-> NoName, start |-> 0, size |-> 0]
Closed == [mtd |-> FALSE, start |-> 0, size |-> 0, tip |-> 0]

ASSUME SizesAssumption ==
  /\ U8 \in Nat /\ U16 \in Nat
  /\ MaxFileCnt \in 1 .. U8 - 1          \* the count is stored in a filecount_t
  /\ SuperSize \in 1 .. U16 - 1          \* super.size is a uint16_t
  /\ Capacity \in Nat /\ SuperSize < Capacity     \* asserted by mkfs()

ASSUME NamesAssumption ==
  /\ NoName \in Names /\ AlnumNames \subseteq Names /\ LongNames \subseteq Names
  /\ NoName \notin AlnumNames \cup LongNames

ASSUME NumbersAssumption == Numbers \subseteq Nat

-----------------------------------------------------------------------------
(* Reading and writing the superblock image.                               *)

End(item) == item.start + item.size

(* The stored files: the first cnt entries of the table.                   *)
Files(m) == 0 .. m.cnt - 1

(* check_name(): the string ends inside the field and is alphanumeric.     *)
CheckName(name) == name \in (AlnumNames \ LongNames) \cup {NoName}

(* The checks of fsck() that need no look at the files: mkfs() was here.    *)
Formatted(m) == m.magic /\ m.cnt <= MaxFileCnt /\ m.sealed

(* The verdict of fsck() on a superblock.                                  *)
FsckOk(m) ==
  /\ Formatted(m)
  /\ \A i \in Files(m) : /\ CheckName(m.toc[i].name)
                         /\ End(m.toc[i]) < Capacity
                         /\ m.toc[i].start >= SuperSize

(* find(): the lowest entry, used or not, that holds the name.             *)
Absent(m, name) == \A i \in Slots : m.toc[i].name # name

FoundAt(m, name, id) == /\ m.toc[id].name = name
                        /\ \A j \in 0 .. id - 1 : m.toc[j].name # name

(* df(): bytes behind the last file.                                       *)
Df(m) == Capacity - (IF m.cnt > 0 THEN End(m.toc[m.cnt - 1]) ELSE SuperSize)

(* The entry create() builds: fields are cut to 16 bits, the file is put   *)
(* behind the last one.                                                    *)
NewItem_Overlapping(m, name, size) ==     \* fault: second file placed as the first
  [ name  |-> name,
    start |-> IF m.cnt > 1 THEN End(m.toc[m.cnt - 1]) % U16 ELSE SuperSize,
    size  |-> size % U16 ]

NewItem(m, name, size) ==
  [ name  |-> name,
    start |-> IF m.cnt # 0 THEN End(m.toc[m.cnt - 1]) % U16 ELSE SuperSize,
    size  |-> size % U16 ]

(* write_toc_item(), which also writes the count; the stored checksum is    *)
(* now that of the old table.                                              *)
WriteTocItem_Uncounted(m, item, n) ==     \* fault: the index written as the count
  [m EXCEPT !.toc[n] = item, !.cnt = n, !.sealed = FALSE]

WriteTocItem(m, item, n) ==
  [m EXCEPT !.toc[n] = item, !.cnt = (n + 1) % U8, !.sealed = FALSE]

(* seal(): recompute and store the checksum.                               *)
Seal_Forgotten(m) == m                    \* fault: the checksum is not rewritten

Seal(m) == [m EXCEPT !.sealed = TRUE]

(* What mkfs() leaves on the device.                                       *)
EmptyTable == [i \in Slots |-> EmptyItem]
Fresh == [magic |-> TRUE, cnt |-> 0, toc |-> EmptyTable, sealed |-> TRUE]

(* Memory that mkfs() never wrote does not look formatted.                 *)
ASSUME ImagesAssumption == \A m \in Images : m \in Image /\ ~ Formatted(m)

-----------------------------------------------------------------------------
VARIABLES
  media,         \* superblock stored on the device
  files_opened,  \* Fs::files_opened, 0 when unmounted
  super_open,    \* super.mtd is not null
  fat,           \* Fs::fat, the handles
  last           \* the last call and what it returned

ram == <<files_opened, super_open, fat>>
vars == <<media, files_opened, super_open, fat, last>>

Calls == { "power on", "fsck", "mkfs", "mount", "umount", "open", "create", "close",
           "setPosition", "read", "write" }
Outcomes == {"SUCCESS", "FAILED", "nullptr", "file", "void", "HALT"}

TypeOK ==
  /\ media \in Image
  /\ files_opened \in 0 .. U8 - 1
  /\ super_open \in BOOLEAN
  /\ fat \in [Slots -> Handle]
  /\ last \in [call: Calls, ret: Outcomes]

(* The constructors of Fs and File, run at every start of the firmware.    *)
RamInit ==
  /\ files_opened = 0
  /\ super_open = FALSE
  /\ fat = [i \in Slots |-> Closed]
  /\ last = [call |-> "power on", ret |-> "void"]

Init == media \in Images /\ RamInit

Mounted == files_opened > 0
OpenSlots == {i \in Slots : fat[i].mtd}

(* osalDbgCheck and osalDbgAssert stop the firmware.                       *)
Running == last.ret # "HALT"
Returns(call, value) == last' = [call |-> call, ret |-> value]
Nothing(call, value) == Returns(call, value) /\ UNCHANGED <<media, ram>>
Halt(call) == Nothing(call, "HALT")

-----------------------------------------------------------------------------
(* Calls on the file system.                                               *)

(* fsck() and mkfs() insist that nothing is mounted.                       *)
Idle_Busy == files_opened <= 1            \* fault: a mounted store is accepted

Idle == files_opened = 0 /\ ~ super_open

Fsck ==
  /\ Running
  /\ IF Idle
       THEN Nothing("fsck", IF FsckOk(media) THEN "SUCCESS" ELSE "FAILED")
       ELSE Halt("fsck")

Mkfs ==
  /\ Running
  /\ IF Idle
       THEN media' = Fresh /\ Returns("mkfs", "SUCCESS") /\ UNCHANGED ram
       ELSE Halt("mkfs")

(* mount() takes its early return above one, runs fsck() otherwise.        *)
Mount ==
  /\ Running
  /\ \/ files_opened > 1 /\ Nothing("mount", "SUCCESS")
     \/ files_opened <= 1 /\ ~ Idle /\ Halt("mount")
     \/ /\ Idle
        /\ FsckOk(media)
        /\ super_open' = TRUE
        /\ files_opened' = 1
        /\ Returns("mount", "SUCCESS")
        /\ UNCHANGED <<media, fat>>
     \/ Idle /\ ~ FsckOk(media) /\ Nothing("mount", "FAILED")

Umount_Always ==                          \* fault: open files are not looked at
  /\ Running
  /\ super_open' = FALSE
  /\ files_opened' = 0
  /\ Returns("umount", "SUCCESS")
  /\ UNCHANGED <<media, fat>>

Umount_Decrement ==                       \* fault: counts down instead of clearing
  /\ Running
  /\ IF files_opened > 1
       THEN Nothing("umount", "FAILED")
       ELSE /\ super_open' = FALSE
            /\ files_opened' = files_opened - 1
            /\ Returns("umount", "SUCCESS")
            /\ UNCHANGED <<media, fat>>

Umount ==
  /\ Running
  /\ IF files_opened > 1
       THEN Nothing("umount", "FAILED")
       ELSE /\ super_open' = FALSE
            /\ files_opened' = 0
            /\ Returns("umount", "SUCCESS")
            /\ UNCHANGED <<media, fat>>

(* The handle open() fills in; the position is not touched.                *)
Opened(h, item) == [h EXCEPT !.mtd = TRUE, !.start = item.start, !.size = item.size]

(* The body of open() on the superblock m.                                 *)
OpenOn(call, m, name) ==
  \/ /\ Absent(m, name)
     /\ Returns(call, "nullptr")
     /\ UNCHANGED ram
  \/ \E id \in Slots :
       /\ FoundAt(m, name, id)
       /\ \/ /\ fat[id].mtd
             /\ Returns(call, "nullptr")
             /\ UNCHANGED ram
          \/ /\ ~ fat[id].mtd
             /\ fat' = [fat EXCEPT ![id] = Opened(@, m.toc[id])]
             /\ files_opened' = (files_opened + 1) % U8
             /\ Returns(call, "file")
             /\ UNCHANGED super_open

Open(name) ==
  /\ Running
  /\ IF Mounted THEN OpenOn("open", media, name) /\ UNCHANGED media ELSE Halt("open")

(* The early returns of create(), all before the first write.              *)
Refused_Twins(m, name, size) ==           \* fault: the name may be taken
  \/ size = 0
  \/ m.cnt = MaxFileCnt
  \/ name \in LongNames
  \/ End(NewItem(m, name, size)) > Capacity

Refused_LastSlot(m, name, size) ==        \* fault: the last entry is never used
  \/ size = 0
  \/ m.cnt >= MaxFileCnt - 1
  \/ ~ Absent(m, name)
  \/ name \in LongNames
  \/ End(NewItem(m, name, size)) > Capacity

Refused(m, name, size) ==
  \/ size = 0
  \/ m.cnt = MaxFileCnt
  \/ ~ Absent(m, name)
  \/ name \in LongNames
  \/ End(NewItem(m, name, size)) > Capacity

Create(name, size) ==
  /\ Running
  /\ \/ ~ Mounted /\ Halt("create")
     \/ Mounted /\ Refused(media, name, size) /\ Nothing("create", "nullptr")
     \/ /\ Mounted
        /\ ~ Refused(media, name, size)
        /\ media' = Seal(WriteTocItem(media, NewItem(media, name, size), media.cnt))
        /\ OpenOn("create", media', name)

(* Fs::close(): a handle that is closed already is ignored.                *)
CloseIgnored_Twice(i) == files_opened <= 1    \* fault: closed handles count again

CloseIgnored(i) == files_opened <= 1 \/ ~ fat[i].mtd

Close(i) ==
  /\ Running
  /\ \/ ~ Mounted /\ Halt("close")
     \/ Mounted /\ CloseIgnored(i) /\ Nothing("close", "void")
     \/ /\ Mounted
        /\ ~ CloseIgnored(i)
        /\ fat' = [fat EXCEPT ![i] = Closed]
        /\ files_opened' = files_opened - 1
        /\ Returns("close", "void")
        /\ UNCHANGED <<media, super_open>>

-----------------------------------------------------------------------------
(* Calls on a handle, which every method checks to be open.                *)

SetPosition(i, offset) ==
  /\ Running
  /\ \/ ~ fat[i].mtd /\ Halt("setPosition")
     \/ fat[i].mtd /\ offset >= fat[i].size /\ Nothing("setPosition", "FAILED")
     \/ /\ fat[i].mtd
        /\ offset < fat[i].size
        /\ fat' = [fat EXCEPT ![i].tip = offset]
        /\ Returns("setPosition", "SUCCESS")
        /\ UNCHANGED <<media, files_opened, super_open>>

(* clamp_size(): what is left of the file from the position.               *)
ClampSize_NoTip(h, n) == IF n > h.size THEN h.size - h.tip ELSE n    \* fault

ClampSize(h, n) == IF h.tip + n > h.size THEN h.size - h.tip ELSE n

(* The position moves by the bytes the device reports.                     *)
Advance(call, i, done) ==
  /\ fat' = [fat EXCEPT ![i].tip = (@ + done) % U16]
  /\ Returns(call, "SUCCESS")
  /\ UNCHANGED <<media, files_opened, super_open>>

(* A read transfers everything or nothing.                                 *)
Read(i, n) ==
  /\ Running
  /\ IF fat[i].mtd
       THEN \E done \in {0, ClampSize(fat[i], n)} : Advance("read", i, done)
       ELSE Halt("read")

(* A write may stop after any page the device refuses.                     *)
Write(i, n) ==
  /\ Running
  /\ IF fat[i].mtd
       THEN \E done \in 0 .. ClampSize(fat[i], n) : Advance("write", i, done)
       ELSE Halt("write")

-----------------------------------------------------------------------------
(* The firmware restarts: after a halt, or because power was cycled.       *)
Restart ==
  /\ files_opened' = 0
  /\ super_open' = FALSE
  /\ fat' = [i \in Slots |-> Closed]
  /\ Returns("power on", "void")
  /\ UNCHANGED media

FileCalls ==
  \E i \in Slots :
    \/ Close(i)
    \/ \E n \in Numbers : SetPosition(i, n) \/ Read(i, n) \/ Write(i, n)

FsCalls == Fsck \/ Mkfs \/ Mount \/ Umount

(* Any application.                                                        *)
Next ==
  \/ FsCalls
  \/ FileCalls
  \/ \E name \in Names : Open(name)
  \/ \E name \in Names, size \in Numbers : Create(name, size)
  \/ Restart

Spec == Init /\ [][Next]_vars

(* An application that creates files on a mounted store only, names them   *)
(* in letters and digits, asks for a 16-bit size, leaves a byte of the     *)
(* device free and never opens "".                                         *)
ProperFile(name, size) ==
  /\ Mounted
  /\ name \in AlnumNames
  /\ size < U16 /\ size < Df(media)

CarefulNext ==
  \/ FsCalls
  \/ FileCalls
  \/ \E name \in Names \ {NoName} : Open(name)
  \/ \E name \in Names, size \in Numbers : ProperFile(name, size) /\ Create(name, size)
  \/ Restart

CarefulSpec == Init /\ [][CarefulNext]_vars

-----------------------------------------------------------------------------
(* Properties.                                                             *)

(* Device and table sizes the 16-bit and 8-bit fields can count.           *)
SmallDevice == Capacity < U16
FitsCounter == MaxFileCnt + 1 < U8

(* files_opened is what its comment in nvram_fs.hpp says through every     *)
(* order of mount, open, close and umount: 0 when unmounted, else one more *)
(* than the open handles; and no handle outlives the mount.                *)
HandleCount ==
  /\ files_opened = IF super_open THEN 1 + Cardinality(OpenSlots) ELSE 0
  /\ ~ super_open => OpenSlots = {}

(* The device was formatted once; create() has written to it since, or not. *)
Used == media \notin Images

(* The files of a formatted store lie behind the superblock, inside the    *)
(* device, each behind the ones created before it: no write to one file    *)
(* can reach another or the table.                                         *)
Layout(m) ==
  \A i \in Files(m) :
    /\ m.toc[i].start >= SuperSize
    /\ End(m.toc[i]) <= Capacity
    /\ \A j \in Files(m) : i < j => End(m.toc[i]) <= m.toc[j].start

FilesDisjoint == Used => Layout(media)

(* An open handle covers exactly the file stored in its slot, whatever was *)
(* created, closed, unmounted or formatted since it was opened (or it is   *)
(* the empty handle open("") gives out), and its position stays inside.    *)
HandleSafe ==
  \A i \in OpenSlots :
    /\ fat[i].tip <= fat[i].size
    /\ \/ /\ i \in Files(media)
          /\ fat[i].start = media.toc[i].start
          /\ fat[i].size = media.toc[i].size
       \/ fat[i].start = 0 /\ fat[i].size = 0

(* find() leads from the name of every stored file to that file, though it *)
(* also looks at the entries behind the last file.                         *)
FilesReachable ==
  Used => \A i \in Files(media) : FoundAt(media, media.toc[i].name, i)

(* While the store is mounted no call loses or changes a stored file.      *)
FilesKept ==
  [][ Mounted => /\ Files(media) \subseteq Files(media')
                 /\ \A i \in Files(media) : media'.toc[i] = media.toc[i] ]_vars

(* A store that was formatted once passes fsck() at every later start, so  *)
(* NvramInit() never formats it again.                                     *)
Mountable == Used => FsckOk(media)

(* create() either leaves the device alone or returns a handle that was    *)
(* closed before: it never stores a file it then fails to open.            *)
CreateAtomic ==
  [][ Mounted /\ media' # media =>
        /\ last'.ret = "file"
        /\ \E i \in Slots : OpenSlots' = OpenSlots \cup {i} /\ i \notin OpenSlots ]_vars

(* A file that create() returned has taken its size from the free space,   *)
(* as file_creation_test() of src/nvram_test_suite.cpp checks.             *)
CreateTakesItsSize ==
  [][ last'.call = "create" /\ last'.ret = "file" =>
        \E i \in OpenSlots' \ OpenSlots : Df(media') = Df(media) - fat'[i].size ]_vars

-----------------------------------------------------------------------------
(* A claim of the tests that the code does not keep.                       *)

(* nvramTestSuite() after its tests: the store it used passes fsck().      *)
MountedPassesFsck == Mounted => FsckOk(media)

(* open() gives handles to files that exist, nullptr for the others.  An   *)
(* empty name breaks this; CarefulSpec keeps it, and its proofs need it.   *)
OpenOnlyStored == OpenSlots \subseteq Files(media)
=============================================================================
