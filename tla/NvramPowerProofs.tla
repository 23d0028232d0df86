--------------------------- MODULE NvramPowerProofs ---------------------------
(***************************************************************************)
(* Theorems about NvramPower, the store through power cuts and failing     *)
(* transfers, for every table, device and set of files, checked by TLAPS.  *)
(*                                                                         *)
(* The invariant has four layers, each proved with the help of the ones    *)
(* before it:                                                              *)
(*   Pieces  which piece of the superblock is written, and what is there   *)
(*           already (needs no hypothesis);                                *)
(*   Counts  the count of handles and when the store is mounted;           *)
(*   Kept    the files lie one behind the other, each within its share of  *)
(*           the device, on a board whose tables can be trusted;           *)
(*   Clean   what holds as long as no checksum missed a half-written table *)
(*           (missed): unused entries are empty, handles cover files.      *)
(***************************************************************************)
EXTENDS NvramPower, NvramFsProofs

-----------------------------------------------------------------------------
(* The invariant.                                                          *)

Serving == {"ready", "missing", "create open"}
Starting == {"mount", "remount"} \cup MkfsSteps

(* The pieces written so far.                                              *)
Pieces ==
  /\ pc \in Starting => Idle
  /\ pc = "mkfs head" => ~ FsckOk(media)
  /\ pc \in {"mkfs row", "mkfs seal"} => media.magic /\ media.cnt = 0
  /\ pc = "mkfs row" => \A i \in 0 .. row - 1 : media.toc[i] = EmptyItem
  /\ pc = "mkfs seal" => media.toc = EmptyTable
  /\ pc \in Serving => Formatted(media)
  /\ pc \in CreateSteps => media.magic
  /\ pc \in {"create item", "create count"} => media.cnt = row
  /\ pc \in {"create seal", "create open"} => media.cnt = row + 1
  /\ pc \in {"create count", "create seal", "create open"} => media.toc[row] = item
  /\ pc \in {"missing", "create open"} \cup CreateSteps => item.name \in AppNames
  /\ ~ media.magic => media \in Images

PieceInv == PowerTypeOK /\ Pieces

(* The count of handles, whose positions never move here.                  *)
Counts ==
  /\ HandleCount
  /\ pc \in Serving \cup CreateSteps => Mounted
  /\ \A i \in Slots : fat[i].tip = 0

(* What a file may take of the device so that the table can be filled.     *)
Share == (Capacity - SuperSize - 1) \div MaxFileCnt

(* Entry e can follow the first n entries of the table.                    *)
Behind(m, n, e) ==
  /\ e.name \in AppNames
  /\ SuperSize <= e.start
  /\ End(e) <= SuperSize + (n + 1) * Share
  /\ \A i \in 0 .. n - 1 : m.toc[i].name # e.name /\ End(m.toc[i]) <= e.start

Laid(m, n) == \A i \in 0 .. n - 1 : Behind(m, i, m.toc[i])

Trusted == NewBoard \/ ~ missed

Kept ==
  Trusted =>
    /\ pc \in Serving => FsckOk(media)
    /\ ~ Writing /\ FsckOk(media) => Laid(media, media.cnt)
    /\ pc \in CreateSteps => Laid(media, row) /\ Behind(media, row, item)

(* The entries a handle may be on.                                         *)
Held == IF pc \in CreateSteps \cup {"create open"} THEN row ELSE media.cnt

Covers(i) ==
  /\ i < Held
  /\ fat[i].start = media.toc[i].start
  /\ fat[i].size = media.toc[i].size
  /\ media.toc[i].name \notin todo

Clean ==
  /\ pc = "remount" /\ ~ faulted => FsckOk(media)
  /\ pc = "halted" => faulted \/ missed
  /\ ~ missed =>
       /\ pc \in {"mkfs row", "mkfs seal", "create count"} => ~ media.sealed
       /\ pc \in CreateSteps \cup {"create open"} =>
            \A i \in Slots : i > row => media.toc[i] = EmptyItem
       /\ pc = "create item" => media.toc[row] = EmptyItem
       /\ ~ Writing /\ FsckOk(media) => Unused(media)
       /\ \A i \in OpenSlots : Covers(i)
       /\ pc = "missing" => Absent(media, item.name)

PowerInv == PieceInv /\ Counts /\ Kept /\ Clean

-----------------------------------------------------------------------------
(* Shares of the device.                                                   *)

LEMMA Multiples ==
  ASSUME NEW s \in Nat
  PROVE  /\ \A n \in Nat : n * s \in Nat /\ (n + 1) * s = n * s + s
         /\ \A n \in Nat, k \in Nat : n <= k => n * s <= k * s
  OBVIOUS

LEMMA Quotient ==
  ASSUME NEW a \in Nat, NEW n \in Nat \ {0}
  PROVE  /\ a \div n \in Nat
         /\ n * (a \div n) <= a
         /\ \A x \in Nat : n * x <= a => x <= a \div n
  OBVIOUS

(* The shares of a full table fit into the device with a byte to spare,    *)
(* and every file of the firmware fits into a share.                       *)
LEMMA Shares ==
  /\ Share \in Nat
  /\ \A n \in 0 .. MaxFileCnt : n * Share \in Nat /\ SuperSize + n * Share < Capacity
  /\ \A n \in 0 .. MaxFileCnt : (n + 1) * Share = n * Share + Share
  /\ \A name \in AppNames : AppSize[name] \in Nat \ {0} /\ AppSize[name] <= Share
<1>. DEFINE room == Capacity - SuperSize - 1
<1>1. room \in Nat /\ MaxFileCnt \in Nat \ {0} /\ SuperSize \in Nat /\ Capacity \in Nat
  BY SizesAssumption
<1>2. /\ Share \in Nat
      /\ MaxFileCnt * Share <= room
      /\ \A x \in Nat : MaxFileCnt * x <= room => x <= Share
  BY <1>1, Quotient DEF Share
<1>3. ASSUME NEW n \in 0 .. MaxFileCnt
      PROVE  /\ n * Share \in Nat
             /\ SuperSize + n * Share < Capacity
             /\ (n + 1) * Share = n * Share + Share
  <2>1. n \in Nat /\ n <= MaxFileCnt
    BY <1>1
  <2>2. /\ n * Share \in Nat /\ MaxFileCnt * Share \in Nat
        /\ n * Share <= MaxFileCnt * Share
        /\ (n + 1) * Share = n * Share + Share
    BY <1>1, <1>2, <2>1, Multiples
  <2>. QED  BY <1>1, <1>2, <2>2
<1>4. ASSUME NEW name \in AppNames
      PROVE  AppSize[name] \in Nat \ {0} /\ AppSize[name] <= Share
  <2>1. AppSize[name] \in Nat \ {0}
    BY AppAssumption, SizesAssumption DEF Bytes16
  <2>2. SuperSize + MaxFileCnt * AppSize[name] < Capacity
    BY AppAssumption
  <2>3. MaxFileCnt * AppSize[name] \in Nat
    BY <1>1, <2>1, Multiples
  <2>4. MaxFileCnt * AppSize[name] <= room
    BY <1>1, <2>2, <2>3
  <2>. QED  BY <1>2, <2>1, <2>4
<1>. QED  BY <1>2, <1>3, <1>4

-----------------------------------------------------------------------------
(* What a step leaves on the device.                                       *)

LEMMA SlotSucc ==
  ASSUME NEW n \in Slots
  PROVE  /\ n \in 0 .. MaxFileCnt /\ n + 1 \in 0 .. MaxFileCnt
         /\ n + 1 # MaxFileCnt => n + 1 \in Slots
         /\ (n + 1) % U8 = n + 1 /\ n + 1 \in 0 .. U8 - 1
         /\ 0 .. (n + 1) - 1 = 0 .. n
<1>1. n + 1 \in 0 .. U8 - 1 /\ U8 \in Nat
  BY SizesAssumption DEF Slots
<1>2. (n + 1) % U8 = n + 1
  BY <1>1, CutIsIdentity
<1>. QED  BY <1>1, <1>2, SizesAssumption DEF Slots

LEMMA SlotsBelow ==
  ASSUME NEW n \in Slots
  PROVE  /\ n \in Nat
         /\ \A i \in 0 .. n - 1 : i \in Slots \ {n} /\ i < n
         /\ n # 0 => /\ n > 0 /\ n - 1 \in Slots /\ n - 1 \in 0 .. n - 1 /\ (n - 1) + 1 = n
                    /\ \A i \in 0 .. n - 1 : i # n - 1 => i \in 0 .. (n - 1) - 1
  BY SizesAssumption DEF Slots

LEMMA SlotOrder ==
  ASSUME NEW n \in Slots
  PROVE  \A i \in Slots : /\ i # n <=> (i < n \/ i > n)
                          /\ i \in 0 .. n - 1 <=> i < n
                          /\ i \in 0 .. (n + 1) - 1 <=> ~ (i > n)
  BY SizesAssumption DEF Slots

LEMMA SlotNext ==
  ASSUME NEW n \in Slots
  PROVE  n < n + 1 /\ \A i \in Slots : i < n => i < n + 1
  BY SizesAssumption DEF Slots

LEMMA FilesBelow ==
  ASSUME NEW m \in Image, NEW i \in Files(m)
  PROVE  i < m.cnt
  BY SizesAssumption DEF Files, Image

LEMMA EmptyRange == 0 .. 0 - 1 = {}
  OBVIOUS

LEMMA EmptyItemType == EmptyItem \in TocItem /\ 0 \in 0 .. U8 - 1 /\ 0 \in Slots
  BY SizesAssumption, NamesAssumption DEF EmptyItem, TocItem, Bytes16, Slots

LEMMA SameImage ==
  ASSUME NEW m1 \in Image, NEW m2 \in Image,
         SameContent(m1, m2), m1.sealed = m2.sealed
  PROVE  m1 = m2
  BY DEF SameContent, Image

(* The checksum byte is not written with the piece.                        *)
LEMMA StoredFields ==
  ASSUME media \in Image, NEW m2 \in Image, NEW m \in Stored(m2)
  PROVE  /\ m \in Image
         /\ m.magic = m2.magic /\ m.cnt = m2.cnt /\ m.toc = m2.toc
         /\ SameContent(media, m) => m = media
<1>1. PICK s \in Agree(media, m2) : m = [m2 EXCEPT !.sealed = s]
  BY DEF Stored
<1>2. Agree(media, m2) \subseteq BOOLEAN
  BY DEF Agree, Image
<1>3. m \in Image /\ m.magic = m2.magic /\ m.cnt = m2.cnt /\ m.toc = m2.toc /\ m.sealed = s
  BY <1>1, <1>2 DEF Image
<1>4. ASSUME SameContent(media, m) PROVE m = media
  <2>1. SameContent(media, m2)
    BY <1>3, <1>4 DEF SameContent
  <2>2. m.sealed = media.sealed
    BY <1>3, <2>1 DEF Agree
  <2>. QED  BY <1>3, <1>4, <2>2, SameImage
<1>. QED  BY <1>3, <1>4

(* The contents with another entry, count or magic.                        *)
LEMMA EntryUpdate ==
  ASSUME NEW m \in Image, NEW n \in Slots, NEW t \in TocItem
  PROVE  /\ [m EXCEPT !.toc[n] = t] \in Image
         /\ [m EXCEPT !.toc[n] = t].magic = m.magic
         /\ [m EXCEPT !.toc[n] = t].cnt = m.cnt
         /\ [m EXCEPT !.toc[n] = t].toc = [m.toc EXCEPT ![n] = t]
  BY DEF Image

LEMMA CountUpdate ==
  ASSUME NEW m \in Image, NEW n \in 0 .. U8 - 1
  PROVE  /\ [m EXCEPT !.cnt = n] \in Image
         /\ [m EXCEPT !.cnt = n].magic = m.magic
         /\ [m EXCEPT !.cnt = n].cnt = n
         /\ [m EXCEPT !.cnt = n].toc = m.toc
  BY DEF Image

LEMMA MagicUpdate ==
  ASSUME NEW m \in Image
  PROVE  /\ [m EXCEPT !.magic = TRUE] \in Image
         /\ [m EXCEPT !.magic = TRUE].magic
         /\ [m EXCEPT !.magic = TRUE].cnt = m.cnt
         /\ [m EXCEPT !.magic = TRUE].toc = m.toc
  BY DEF Image

LEMMA SealFields ==
  ASSUME NEW m \in Image
  PROVE  /\ Seal(m) \in Image
         /\ Seal(m).magic = m.magic /\ Seal(m).cnt = m.cnt /\ Seal(m).toc = m.toc
         /\ Seal(m).sealed
  BY DEF Seal, Image

LEMMA HeadUpdate ==
  ASSUME NEW m \in Image
  PROVE  /\ [m EXCEPT !.magic = TRUE, !.cnt = 0] \in Image
         /\ [m EXCEPT !.magic = TRUE, !.cnt = 0].magic
         /\ [m EXCEPT !.magic = TRUE, !.cnt = 0].cnt = 0
         /\ [m EXCEPT !.magic = TRUE, !.cnt = 0].toc = m.toc
  BY EmptyItemType DEF Image

(* The contents once the piece is written.                                 *)
LEMMA CompletedFields ==
  ASSUME PowerTypeOK, Writing, NEW m \in Completed
  PROVE  /\ m \in Image
         /\ pc = "mkfs head" => m.magic /\ m.cnt = 0 /\ m.toc = media.toc
         /\ pc # "mkfs head" => m.magic = media.magic
         /\ pc \notin {"mkfs head", "create count"} => m.cnt = media.cnt
         /\ pc = "mkfs row" => m.toc = [media.toc EXCEPT ![row] = EmptyItem]
         /\ pc = "create item" => m.toc = [media.toc EXCEPT ![row] = item]
         /\ pc = "create count" => m.cnt = row + 1 /\ m.toc = media.toc
         /\ pc \in SealSteps => m.sealed /\ m.toc = media.toc
         /\ pc \notin SealSteps /\ SameContent(media, m) => m = media
<1>0. media \in Image /\ row \in Slots /\ item \in TocItem
  BY DEF PowerTypeOK, TypeOK
<1>1. CASE pc \in SealSteps
  BY <1>0, <1>1, SealFields DEF Completed, SealSteps
<1>2. CASE pc \notin SealSteps
  <2>. DEFINE w == Written(media)
  <2>1. m \in Stored(w)
    BY <1>2 DEF Completed
  <2>2. /\ w \in Image
        /\ pc = "mkfs head" => w.magic /\ w.cnt = 0 /\ w.toc = media.toc
        /\ pc # "mkfs head" => w.magic = media.magic
        /\ pc \notin {"mkfs head", "create count"} => w.cnt = media.cnt
        /\ pc = "mkfs row" => w.toc = [media.toc EXCEPT ![row] = EmptyItem]
        /\ pc = "create item" => w.toc = [media.toc EXCEPT ![row] = item]
        /\ pc = "create count" => w.cnt = row + 1 /\ w.toc = media.toc
    <3>1. CASE pc = "mkfs head"
      <4>1. w = [media EXCEPT !.magic = TRUE, !.cnt = 0]
        BY <3>1 DEF Written
      <4>. QED  BY <1>0, <3>1, <4>1, HeadUpdate
    <3>2. CASE pc = "mkfs row"
      <4>1. w = [media EXCEPT !.toc[row] = EmptyItem]
        BY <3>2 DEF Written
      <4>. HIDE DEF w
      <4>2. /\ w \in Image /\ w.magic = media.magic /\ w.cnt = media.cnt
            /\ w.toc = [media.toc EXCEPT ![row] = EmptyItem]
        BY <1>0, <4>1, EntryUpdate, EmptyItemType, Zenon
      <4>. QED  BY <3>2, <4>2
    <3>3. CASE pc = "create item"
      <4>1. w = [media EXCEPT !.toc[row] = item]
        BY <3>3 DEF Written
      <4>. HIDE DEF w
      <4>2. /\ w \in Image /\ w.magic = media.magic /\ w.cnt = media.cnt
            /\ w.toc = [media.toc EXCEPT ![row] = item]
        BY <1>0, <4>1, EntryUpdate, Zenon
      <4>. QED  BY <3>3, <4>2
    <3>4. CASE pc = "create count"
      <4>1. w = [media EXCEPT !.cnt = row + 1] /\ row + 1 \in 0 .. U8 - 1
        BY <1>0, <3>4, SlotSucc DEF Written
      <4>. HIDE DEF w
      <4>. QED  BY <1>0, <3>4, <4>1, CountUpdate
    <3>. QED  BY <1>2, <3>1, <3>2, <3>3, <3>4 DEF Writing, MkfsSteps, CreateSteps, SealSteps
  <2>. HIDE DEF w
  <2>3. /\ m \in Image
        /\ m.magic = w.magic /\ m.cnt = w.cnt /\ m.toc = w.toc
        /\ SameContent(media, m) => m = media
    BY <1>0, <2>1, <2>2, StoredFields, Zenon
  <2>. QED  BY <1>2, <2>2, <2>3
<1>. QED  BY <1>1, <1>2

LEMMA MixedType ==
  ASSUME NEW old \in TocItem, NEW new \in TocItem
  PROVE  Mixed(old, new) \subseteq TocItem
<1>1. MixedNames(old.name, new.name) \subseteq Names
  BY DEF MixedNames, TocItem
<1>. QED  BY <1>1 DEF Mixed, TocItem

(* The contents when the piece is interrupted: as before, completed, or    *)
(* with the magic of the head or the entry of the row half written.        *)
LEMMA InterruptedFields ==
  ASSUME PowerTypeOK, NEW m \in Interrupted
  PROVE  /\ m \in Image
         /\ ~ Writing => m = media
         /\ \/ m = media
            \/ Writing /\ m \in Completed
            \/ pc = "mkfs head" /\ m.magic /\ m.cnt = media.cnt /\ m.toc = media.toc
            \/ /\ pc \in {"mkfs row", "create item"}
               /\ m.magic = media.magic /\ m.cnt = media.cnt
               /\ \A i \in Slots \ {row} : m.toc[i] = media.toc[i]
         /\ pc \notin SealSteps /\ SameContent(media, m) => m = media
<1>0. media \in Image /\ row \in Slots /\ item \in TocItem /\ media.toc[row] \in TocItem
  BY DEF PowerTypeOK, TypeOK, Image
<1>1. CASE m = media
  BY <1>0, <1>1
<1>2. CASE Writing /\ m \in Completed
  BY <1>2, CompletedFields
<1>3. ASSUME Writing, NEW m2 \in TornContents, m \in Stored(m2)
      PROVE  /\ m \in Image
             /\ \/ pc = "mkfs head" /\ m.magic /\ m.cnt = media.cnt /\ m.toc = media.toc
                \/ /\ pc \in {"mkfs row", "create item"}
                   /\ m.magic = media.magic /\ m.cnt = media.cnt
                   /\ \A i \in Slots \ {row} : m.toc[i] = media.toc[i]
             /\ pc \notin SealSteps /\ SameContent(media, m) => m = media
  <2>1. CASE pc = "mkfs head"
    <3>1. m2 = [media EXCEPT !.magic = TRUE]
      BY <1>3, <2>1 DEF TornContents
    <3>. QED  BY <1>0, <1>3, <2>1, <3>1, MagicUpdate, StoredFields
  <2>2. CASE pc \in {"mkfs row", "create item"}
    <3>1. PICK t \in TocItem : m2 = [media EXCEPT !.toc[row] = t]
      <4>1. /\ Mixed(media.toc[row], EmptyItem) \subseteq TocItem
            /\ Mixed(media.toc[row], item) \subseteq TocItem
        BY <1>0, EmptyItemType, MixedType
      <4>2. CASE pc = "mkfs row"
        BY <1>3, <4>1, <4>2 DEF TornContents
      <4>3. CASE pc = "create item"
        BY <1>3, <4>1, <4>3 DEF TornContents
      <4>. QED  BY <2>2, <4>2, <4>3
    <3>2. /\ m2 \in Image /\ m2.magic = media.magic /\ m2.cnt = media.cnt
          /\ m2.toc = [media.toc EXCEPT ![row] = t]
      BY <1>0, <3>1, EntryUpdate, Zenon
    <3>3. /\ m \in Image /\ m.magic = media.magic /\ m.cnt = media.cnt
          /\ m.toc = [media.toc EXCEPT ![row] = t]
          /\ SameContent(media, m) => m = media
      BY <1>0, <1>3, <3>2, StoredFields, Zenon
    <3>4. \A i \in Slots \ {row} : m.toc[i] = media.toc[i]
      BY <1>0, <3>3 DEF Image
    <3>. QED  BY <2>2, <3>3, <3>4
  <2>3. CASE pc \notin {"mkfs head", "mkfs row", "create item"}
    BY <1>3, <2>3 DEF TornContents
  <2>. QED  BY <2>1, <2>2, <2>3
<1>. QED  BY <1>1, <1>2, <1>3 DEF Interrupted

-----------------------------------------------------------------------------
(* The first layer: types, and the pieces of the superblock.               *)

(* mount() of an unmounted store.                                          *)
LEMMA MountIdle ==
  ASSUME Idle, Mount
  PROVE  /\ UNCHANGED media /\ UNCHANGED fat
         /\ \/ /\ FsckOk(media) /\ last'.ret = "SUCCESS"
               /\ super_open' = TRUE /\ files_opened' = 1
            \/ ~ FsckOk(media) /\ last'.ret # "SUCCESS" /\ UNCHANGED ram
<1>1. ~ (files_opened > 1)
  BY DEF Idle
<1>2. CASE /\ FsckOk(media)
           /\ super_open' = TRUE
           /\ files_opened' = 1
           /\ Returns("mount", "SUCCESS")
           /\ UNCHANGED <<media, fat>>
  <2>1. last'.ret = "SUCCESS"
    BY <1>2 DEF Returns
  <2>. QED  BY <1>2, <2>1, Zenon
<1>3. CASE ~ FsckOk(media) /\ Nothing("mount", "FAILED")
  <2>1. last'.ret # "SUCCESS"
    BY <1>3 DEF Nothing, Returns
  <2>. QED  BY <1>3, <2>1, Zenon DEF Nothing, ram
<1>. QED  BY <1>1, <1>2, <1>3, Zenon DEF Mount

(* Nothing but the device changes.                                         *)
LEMMA MediaType ==
  ASSUME TypeOK, media' \in Image, UNCHANGED ram, UNCHANGED last
  PROVE  TypeOK'
  BY Zenon DEF TypeOK, ram

LEMMA AppNamesAreNames == AppNames \subseteq Names /\ NoName \notin AppNames
  BY AppAssumption, NamesAssumption

LEMMA PieceInit == PowerInit => PieceInv
<1>. SUFFICES ASSUME PowerInit PROVE PieceInv
  OBVIOUS
<1>1. TypeOK
  BY TypeInit DEF PowerInit
<1>2. PowerTypeOK
  BY <1>1, EmptyItemType DEF PowerInit, PowerTypeOK
<1>3. Idle /\ media \in Images
  BY DEF PowerInit, Init, RamInit, Idle
<1>4. Pieces
  BY <1>3 DEF PowerInit, Pieces, Serving, Starting, MkfsSteps, CreateSteps
<1>. QED  BY <1>2, <1>4 DEF PieceInv

LEMMA StartStep ==
  ASSUME PieceInv, FirstMount \/ SecondMount
  PROVE  PieceInv'
<1>1. Idle /\ Mount /\ UNCHANGED <<row, item, todo, faulted, missed>>
  BY DEF FirstMount, SecondMount, Goto, PieceInv, Pieces, Starting
<1>2. TypeOK'
  BY <1>1, TypeStep, Zenon DEF Next, FsCalls, PieceInv, PowerTypeOK
<1>3. UNCHANGED media /\ (media.magic \/ media \in Images)
  BY <1>1, MountIdle, Zenon DEF PieceInv, Pieces
<1>4. CASE FsckOk(media) /\ pc' = "ready"
  BY <1>1, <1>2, <1>3, <1>4
  DEF PieceInv, PowerTypeOK, Pieces, Serving, Starting, MkfsSteps, CreateSteps, FsckOk
<1>5. CASE ~ FsckOk(media) /\ pc' = "mkfs head" /\ UNCHANGED ram
  <2>1. Idle'
    BY <1>1, <1>5 DEF Idle, ram
  <2>. QED
    BY <1>1, <1>2, <1>3, <1>5, <2>1
    DEF PieceInv, PowerTypeOK, Pieces, Serving, Starting, MkfsSteps, CreateSteps
<1>6. CASE pc' = "halted"
  BY <1>1, <1>2, <1>3, <1>6
  DEF PieceInv, PowerTypeOK, Pieces, Serving, Starting, MkfsSteps, CreateSteps
<1>. QED  BY <1>1, <1>4, <1>5, <1>6, MountIdle DEF FirstMount, SecondMount, Goto

LEMMA MkfsStep ==
  ASSUME PieceInv, MkfsHead \/ MkfsRow \/ MkfsSeal
  PROVE  PieceInv'
<1>. USE DEF MkfsSteps, CreateSteps, SealSteps
<1>0. /\ PowerTypeOK /\ Pieces /\ TypeOK /\ Writing /\ pc \in MkfsSteps
      /\ media' \in Completed /\ UNCHANGED ram /\ UNCHANGED <<item, todo, faulted>>
  BY DEF PieceInv, PowerTypeOK, MkfsHead, MkfsRow, MkfsSeal, WritePiece, Writing, Goto
<1>1. /\ media' \in Image
      /\ pc = "mkfs head" => media'.magic /\ media'.cnt = 0
      /\ pc # "mkfs head" => media'.magic = media.magic /\ media'.cnt = media.cnt
      /\ pc = "mkfs row" => media'.toc = [media.toc EXCEPT ![row] = EmptyItem]
      /\ pc = "mkfs seal" => media'.sealed /\ media'.toc = media.toc
  BY <1>0, CompletedFields
<1>2. Idle' /\ row \in Slots /\ 0 \in Slots /\ missed' \in BOOLEAN /\ media'.magic
  BY <1>0, <1>1, EmptyItemType
  DEF Pieces, Starting, Idle, ram, PowerTypeOK, MkfsHead, MkfsRow, MkfsSeal, WritePiece
<1>3. CASE MkfsHead
  <2>1. TypeOK' /\ pc = "mkfs head" /\ pc' = "mkfs row" /\ row' = 0
    BY <1>0, <1>1, <1>3, MediaType DEF MkfsHead
  <2>2. PowerTypeOK'
    BY <1>0, <1>2, <2>1 DEF PowerTypeOK
  <2>3. 0 .. row' - 1 = {}
    BY <2>1, EmptyRange, Zenon
  <2>4. Pieces'
    BY <1>1, <1>2, <2>1, <2>3 DEF Pieces, Serving, Starting
  <2>. QED  BY <2>2, <2>4 DEF PieceInv
<1>4. CASE MkfsRow
  <2>1. TypeOK' /\ pc = "mkfs row" /\ media.cnt = 0
    BY <1>0, <1>1, <1>4, MediaType DEF MkfsRow, Pieces
  <2>2. media'.toc \in [Slots -> TocItem] /\ media.toc \in [Slots -> TocItem]
    BY <1>0, <1>1 DEF Image, TypeOK
  <2>3. \A i \in 0 .. row : i \in Slots /\ media'.toc[i] = EmptyItem
    <3>1. \A i \in 0 .. row : i \in Slots /\ (i = row \/ i \in 0 .. row - 1)
      BY <1>2, SlotIntervals
    <3>. QED  BY <1>0, <1>1, <2>1, <2>2, <3>1 DEF Pieces
  <2>4. CASE LastRow
    <3>1. pc' = "mkfs seal" /\ row' = row
      BY <1>4, <2>4 DEF MkfsRow
    <3>2. Slots = 0 .. row
      BY <1>2, <2>4 DEF Slots, LastRow
    <3>3. media'.toc = EmptyTable
      BY <2>2, <2>3, <3>2 DEF EmptyTable
    <3>. QED  BY <1>0, <1>1, <1>2, <2>1, <3>1, <3>3 DEF PieceInv, PowerTypeOK, Pieces, Serving, Starting
  <2>5. CASE ~ LastRow
    <3>1. pc' = "mkfs row" /\ row' = row + 1
      BY <1>4, <2>1, <2>5 DEF MkfsRow
    <3>2. row' \in Slots /\ 0 .. row' - 1 = 0 .. row
      BY <1>2, <2>5, <3>1, SlotSucc, Zenon DEF LastRow
    <3>3. \A i \in 0 .. row' - 1 : media'.toc[i] = EmptyItem
      BY <2>3, <3>2, Zenon
    <3>. QED  BY <1>0, <1>1, <1>2, <2>1, <3>1, <3>2, <3>3 DEF PieceInv, PowerTypeOK, Pieces, Serving, Starting
  <2>. QED  BY <2>4, <2>5
<1>5. CASE MkfsSeal
  <2>1. /\ pc = "mkfs seal" /\ pc' = "remount" /\ UNCHANGED row
        /\ last' \in [call: Calls, ret: Outcomes]
    BY <1>5, ReturnsType DEF MkfsSeal, Goto, Calls, Outcomes
  <2>2. TypeOK'
    BY <1>0, <1>1, <2>1, Zenon DEF TypeOK, ram
  <2>. QED  BY <1>0, <1>1, <1>2, <2>1, <2>2 DEF PieceInv, PowerTypeOK, Pieces, Serving, Starting
<1>. QED  BY <1>3, <1>4, <1>5

LEMMA TryOpenStep ==
  ASSUME PieceInv, NEW name \in AppNames, TryOpen(name)
  PROVE  PieceInv'
<1>. USE DEF MkfsSteps, CreateSteps
<1>0. /\ pc = "ready" /\ Open(name) /\ PowerTypeOK /\ TypeOK /\ Pieces
      /\ UNCHANGED <<row, faulted, missed>>
  BY DEF TryOpen, PieceInv, PowerTypeOK
<1>1. TypeOK' /\ UNCHANGED media
  <2>1. Next
    BY <1>0, AppNamesAreNames DEF Next
  <2>2. UNCHANGED media
    BY <1>0, Zenon DEF Open, Halt, Nothing
  <2>. QED  BY <1>0, <2>1, <2>2, TypeStep
<1>2. Formatted(media') /\ media'.magic
  BY <1>0, <1>1 DEF Pieces, Serving, Formatted
<1>3. CASE pc' = "ready" /\ todo' = todo \ {name} /\ UNCHANGED item
  BY <1>0, <1>1, <1>2, <1>3 DEF PieceInv, PowerTypeOK, Pieces, Serving, Starting
<1>4. CASE pc' = "missing" /\ item' = [EmptyItem EXCEPT !.name = name] /\ UNCHANGED todo
  <2>1. item' \in TocItem /\ item'.name = name
    BY <1>4, EmptyItemType, AppNamesAreNames DEF TocItem, EmptyItem
  <2>. QED
    BY <1>0, <1>1, <1>2, <1>4, <2>1 DEF PieceInv, PowerTypeOK, Pieces, Serving, Starting
<1>. QED  BY <1>3, <1>4, Zenon DEF TryOpen

LEMMA TryCreateStep ==
  ASSUME PieceInv, TryCreate
  PROVE  PieceInv'
<1>. USE DEF MkfsSteps, CreateSteps
<1>0. /\ pc = "missing" /\ PowerTypeOK /\ TypeOK /\ Pieces /\ media \in Image
      /\ UNCHANGED <<vars, todo, faulted, missed>>
  BY DEF TryCreate, PieceInv, PowerTypeOK, TypeOK
<1>1. TypeOK' /\ UNCHANGED media
  <2>1. UNCHANGED media /\ UNCHANGED files_opened /\ UNCHANGED super_open /\ UNCHANGED fat
        /\ UNCHANGED last
    BY <1>0 DEF vars
  <2>. QED  BY <1>0, <2>1, Zenon DEF TypeOK
<1>2. Formatted(media) /\ media.magic /\ item.name \in AppNames
  BY <1>0 DEF Pieces, Serving, Formatted
<1>3. CASE pc' = "halted" /\ UNCHANGED <<row, item>>
  BY <1>0, <1>1, <1>2, <1>3 DEF PieceInv, PowerTypeOK, Pieces, Serving, Starting
<1>4. CASE /\ ~ Refused(media, item.name, AppSize[item.name])
           /\ pc' = "create item"
           /\ row' = media.cnt
           /\ item' = NewItem(media, item.name, AppSize[item.name])
  <2>1. media.cnt \in Slots /\ (media.cnt # 0 => media.cnt - 1 \in Slots)
    BY <1>0, <1>2, <1>4, NextSlot DEF Refused
  <2>2. item' \in TocItem
    BY <1>0, <1>2, <1>4, <2>1, NewItemType, AppNamesAreNames, Shares
  <2>3. item'.name = item.name
    BY <1>4 DEF NewItem
  <2>. QED
    BY <1>0, <1>1, <1>2, <1>4, <2>1, <2>2, <2>3
    DEF PieceInv, PowerTypeOK, Pieces, Serving, Starting
<1>. QED  BY <1>3, <1>4, Zenon DEF TryCreate

LEMMA CreateStepStep ==
  ASSUME PieceInv, CreateStep
  PROVE  PieceInv'
<1>. USE DEF MkfsSteps, CreateSteps, SealSteps
<1>0. /\ pc \in CreateSteps /\ PowerTypeOK /\ TypeOK /\ Pieces /\ Writing
      /\ media' \in Completed /\ missed' = (missed \/ Collides)
      /\ pc' = Following[pc] /\ UNCHANGED ram /\ UNCHANGED last
      /\ UNCHANGED <<row, item, todo, faulted>>
  BY DEF CreateStep, WritePiece, Goto, PieceInv, PowerTypeOK, Writing
<1>1. row \in Slots /\ media.magic /\ item.name \in AppNames
  BY <1>0 DEF PowerTypeOK, Pieces
<1>2. /\ media' \in Image
      /\ media'.magic = media.magic
      /\ pc # "create count" => media'.cnt = media.cnt
      /\ pc = "create item" => media'.toc = [media.toc EXCEPT ![row] = item]
      /\ pc = "create count" => media'.cnt = row + 1 /\ media'.toc = media.toc
      /\ pc = "create seal" => media'.sealed /\ media'.toc = media.toc
  BY <1>0, CompletedFields
<1>3. PowerTypeOK'
  <2>1. TypeOK'
    BY <1>0, <1>2, MediaType
  <2>2. missed' \in BOOLEAN
    BY <1>0 DEF PowerTypeOK
  <2>3. pc' \in {"create count", "create seal", "create open"}
    BY <1>0 DEF Following
  <2>. QED  BY <1>0, <2>1, <2>2, <2>3 DEF PowerTypeOK
<1>4. CASE pc = "create item"
  <2>1. pc' = "create count" /\ media'.toc[row] = item /\ media'.cnt = row
    BY <1>0, <1>1, <1>2, <1>4 DEF Following, Pieces, TypeOK, Image
  <2>. QED  BY <1>0, <1>1, <1>2, <1>3, <2>1 DEF PieceInv, Pieces, Serving, Starting
<1>5. CASE pc = "create count"
  <2>1. pc' = "create seal" /\ media'.toc[row] = item /\ media'.cnt = row + 1
    BY <1>0, <1>1, <1>2, <1>5 DEF Following, Pieces
  <2>. QED  BY <1>0, <1>1, <1>2, <1>3, <2>1 DEF PieceInv, Pieces, Serving, Starting
<1>6. CASE pc = "create seal"
  <2>1. pc' = "create open" /\ media'.toc[row] = item /\ media'.cnt = row + 1
    BY <1>0, <1>1, <1>2, <1>6 DEF Following, Pieces
  <2>2. Formatted(media')
    <3>1. row + 1 <= MaxFileCnt
      BY <1>1, SlotSucc, SizesAssumption
    <3>. QED  BY <1>1, <1>2, <1>6, <2>1, <3>1 DEF Formatted
  <2>. QED  BY <1>0, <1>1, <1>2, <1>3, <2>1, <2>2 DEF PieceInv, Pieces, Serving, Starting
<1>. QED  BY <1>0, <1>4, <1>5, <1>6

LEMMA CreateOpenStep ==
  ASSUME PieceInv, CreateOpen
  PROVE  PieceInv'
<1>. USE DEF MkfsSteps, CreateSteps
<1>0. /\ pc = "create open" /\ OpenOn("create", media, item.name) /\ UNCHANGED media
      /\ PowerTypeOK /\ TypeOK /\ Pieces /\ media \in Image
      /\ UNCHANGED <<row, item, faulted, missed>>
  BY DEF CreateOpen, PieceInv, PowerTypeOK, TypeOK
<1>1. TypeOK'
  <2>1. "create" \in Calls
    BY DEF Calls
  <2>2. /\ files_opened' \in 0 .. U8 - 1
        /\ super_open' = super_open
        /\ fat' \in [Slots -> Handle]
        /\ last' \in [call: Calls, ret: Outcomes]
    BY <1>0, <2>1, OpenOnType, Zenon
  <2>. QED  BY <1>0, <2>2, Zenon DEF TypeOK
<1>2. Formatted(media') /\ media'.magic
  BY <1>0 DEF Pieces, Serving, Formatted
<1>3. \/ pc' = "ready" /\ todo' = todo \ {item.name}
      \/ pc' = "halted" /\ UNCHANGED todo
  BY DEF CreateOpen
<1>. QED
  BY <1>0, <1>1, <1>2, <1>3 DEF PieceInv, PowerTypeOK, Pieces, Serving, Starting

LEMMA CloseStep ==
  ASSUME PieceInv, NEW i \in Slots, CloseFile(i)
  PROVE  PieceInv'
<1>. USE DEF MkfsSteps, CreateSteps
<1>0. /\ pc = "ready" /\ pc' = "ready" /\ Close(i) /\ PowerTypeOK /\ TypeOK /\ Pieces
      /\ UNCHANGED <<row, item, todo, faulted, missed>>
  BY DEF CloseFile, Goto, PieceInv, PowerTypeOK
<1>1. TypeOK' /\ UNCHANGED media
  <2>1. Next
    BY <1>0 DEF Next, FileCalls
  <2>2. UNCHANGED media
    BY <1>0, Zenon DEF Close, Halt, Nothing
  <2>. QED  BY <1>0, <2>1, <2>2, TypeStep
<1>. QED  BY <1>0, <1>1 DEF PieceInv, PowerTypeOK, Pieces, Serving, Starting

(* Memory without the magic was never written.                             *)
LEMMA BreakMagic ==
  ASSUME PieceInv, NEW m \in Interrupted
  PROVE  m \in Image /\ (~ m.magic => m \in Images)
<1>0. PowerTypeOK /\ Pieces
  BY DEF PieceInv
<1>1. m \in Image
  BY <1>0, InterruptedFields
<1>2. m = media \/ m.magic = media.magic \/ m.magic
  <2>1. Writing /\ m \in Completed => m.magic = media.magic \/ m.magic
    BY <1>0, CompletedFields
  <2>. QED  BY <1>0, <2>1, InterruptedFields
<1>3. m = media \/ media.magic \/ m.magic
  <2>1. pc \in CreateSteps \/ pc \in {"mkfs row", "mkfs seal"} => media.magic
    BY <1>0 DEF Pieces
  <2>2. pc = "mkfs head" => m = media \/ m.magic
    <3>1. pc = "mkfs head" /\ m \in Completed => m.magic
      BY <1>0, CompletedFields DEF Writing, MkfsSteps
    <3>. QED  BY <1>0, <3>1, InterruptedFields
  <2>3. ~ Writing => m = media
    BY <1>0, InterruptedFields
  <2>. QED  BY <2>1, <2>2, <2>3 DEF Writing, MkfsSteps
<1>. QED  BY <1>0, <1>1, <1>2, <1>3 DEF Pieces

LEMMA FaultStep ==
  ASSUME PieceInv, Fault
  PROVE  PieceInv'
<1>0. /\ media' \in Interrupted /\ missed' = (missed \/ Collides)
      /\ pc' = FaultOutcome /\ faulted' = TRUE
      /\ UNCHANGED ram /\ UNCHANGED last /\ UNCHANGED <<row, item, todo>>
      /\ PowerTypeOK /\ TypeOK /\ Pieces
  BY DEF Fault, Break, PieceInv, PowerTypeOK
<1>1. media' \in Image /\ (~ media'.magic => media' \in Images)
  BY <1>0, BreakMagic
<1>2. TypeOK'
  BY <1>0, <1>1, MediaType
<1>3. \/ pc' = "remount" /\ pc \in MkfsSteps
      \/ pc' = "halted"
  BY <1>0 DEF FaultOutcome
<1>4. pc \in MkfsSteps => Idle'
  BY <1>0 DEF Pieces, Starting, Idle, ram
<1>5. missed' \in BOOLEAN
  BY <1>0 DEF PowerTypeOK
<1>6. PowerTypeOK'
  BY <1>0, <1>2, <1>3, <1>5 DEF PowerTypeOK
<1>. QED
  BY <1>1, <1>3, <1>4, <1>6 DEF PieceInv, Pieces, Serving, Starting, MkfsSteps, CreateSteps

LEMMA PowerCutStep ==
  ASSUME PieceInv, PowerCut
  PROVE  PieceInv'
<1>0. /\ media' \in Interrupted /\ missed' = (missed \/ Collides)
      /\ files_opened' = 0 /\ super_open' = FALSE /\ fat' = [i \in Slots |-> Closed]
      /\ Returns("power on", "void")
      /\ pc' = "mount" /\ todo' = AppNames /\ faulted' = FALSE /\ UNCHANGED <<row, item>>
      /\ PowerTypeOK /\ Pieces
  BY DEF PowerCut, Break, PieceInv
<1>1. media' \in Image /\ (~ media'.magic => media' \in Images)
  BY <1>0, BreakMagic
<1>2. TypeOK'
  <2>1. last' \in [call: Calls, ret: Outcomes]
    BY <1>0, ReturnsType DEF Calls, Outcomes
  <2>2. fat' \in [Slots -> Handle]
    BY <1>0, ClosedType
  <2>. QED  BY <1>0, <1>1, <2>1, <2>2, CountTypes, Zenon DEF TypeOK
<1>3. Idle'
  BY <1>0 DEF Idle
<1>4. missed' \in BOOLEAN
  BY <1>0 DEF PowerTypeOK
<1>5. PowerTypeOK'
  BY <1>0, <1>2, <1>4 DEF PowerTypeOK
<1>. QED
  BY <1>0, <1>1, <1>3, <1>5 DEF PieceInv, Pieces, Serving, Starting, MkfsSteps, CreateSteps

LEMMA PieceStep == PieceInv /\ [PowerNext]_pvars => PieceInv'
<1>. SUFFICES ASSUME PieceInv, [PowerNext]_pvars PROVE PieceInv'
  OBVIOUS
<1>1. CASE UNCHANGED pvars
  <2>1. /\ UNCHANGED media /\ UNCHANGED files_opened /\ UNCHANGED super_open
        /\ UNCHANGED fat /\ UNCHANGED last /\ UNCHANGED pc /\ UNCHANGED row
        /\ UNCHANGED item /\ UNCHANGED todo /\ UNCHANGED faulted /\ UNCHANGED missed
    BY <1>1 DEF pvars, vars
  <2>2. TypeOK' /\ Idle' = Idle
    BY <2>1, Zenon DEF PieceInv, PowerTypeOK, TypeOK, Idle
  <2>3. PowerTypeOK'
    BY <2>1, <2>2, Zenon DEF PieceInv, PowerTypeOK
  <2>4. Pieces'
    BY <2>1, <2>2 DEF PieceInv, Pieces
  <2>. QED  BY <2>3, <2>4 DEF PieceInv
<1>2. CASE PowerNext
  BY <1>2, StartStep, MkfsStep, TryOpenStep, TryCreateStep, CreateStepStep, CreateOpenStep,
     CloseStep, FaultStep, PowerCutStep, Zenon
  DEF PowerNext, Step
<1>. QED  BY <1>1, <1>2

(* Every state of every run is well typed: nothing is written outside the  *)
(* table or the count, whatever was interrupted and whatever a checksum    *)
(* missed.                                                                 *)
THEOREM PowerTypeCorrect == PowerSpec => []PowerTypeOK
<1>1. PieceInv => PowerTypeOK
  BY DEF PieceInv
<1>. QED  BY <1>1, PieceInit, PieceStep, PTL DEF PowerSpec

-----------------------------------------------------------------------------
(* The second layer: the count of handles.                                 *)

LEMMA CountsKept ==
  ASSUME Counts, UNCHANGED ram,
         pc' \in Serving \cup CreateSteps => pc \in Serving \cup CreateSteps
  PROVE  Counts'
<1>1. UNCHANGED files_opened /\ UNCHANGED super_open /\ UNCHANGED fat /\ OpenSlots' = OpenSlots
  BY Zenon DEF ram, OpenSlots
<1>2. HandleCount'
  BY <1>1, CountKept DEF Counts
<1>. QED  BY <1>1, <1>2, Zenon DEF Counts, Mounted

LEMMA MountedAfter ==
  ASSUME HandleCount', super_open' = TRUE
  PROVE  Mounted'
<1>1. OpenSlots' \subseteq Slots
  BY DEF OpenSlots
<1>2. IsFiniteSet(Slots)
  BY FS_Interval, SizesAssumption DEF Slots
<1>3. Cardinality(OpenSlots') \in Nat
  BY <1>1, <1>2, FS_Subset, FS_CardinalityType
<1>4. files_opened' = 1 + Cardinality(OpenSlots')
  BY Zenon DEF HandleCount
<1>. QED  BY <1>3, <1>4 DEF Mounted

LEMMA MountedIsOpen ==
  ASSUME HandleCount, Mounted
  PROVE  super_open = TRUE
<1>1. files_opened # 0
  BY DEF Mounted
<1>2. super_open
  BY <1>1, Zenon DEF HandleCount
<1>. QED  BY <1>2, Zenon DEF HandleCount

(* open() leaves the position of the handle where close() put it.          *)
LEMMA TipsAfterOpen ==
  ASSUME TypeOK, \A i \in Slots : fat[i].tip = 0, NEW call, NEW m, NEW name,
         OpenOn(call, m, name)
  PROVE  \A i \in Slots : fat'[i].tip = 0
<1>1. CASE UNCHANGED ram
  BY <1>1, Zenon DEF ram
<1>2. CASE ~ UNCHANGED ram
  <2>1. PICK id \in Slots : fat' = [fat EXCEPT ![id] = Opened(@, m.toc[id])]
    BY <1>2, Zenon DEF OpenOn
  <2>2. fat \in [Slots -> Handle] /\ fat[id] \in Handle
    BY DEF TypeOK
  <2>3. Opened(fat[id], m.toc[id]).tip = 0
    BY <2>2 DEF Opened, Handle
  <2>. QED  BY <2>1, <2>2, <2>3
<1>. QED  BY <1>1, <1>2

LEMMA OpenOnKeepsMount ==
  ASSUME NEW call, NEW m, NEW name, OpenOn(call, m, name)
  PROVE  super_open' = super_open
  BY Zenon DEF OpenOn, ram

LEMMA CountsInit == PowerInit => Counts
<1>. SUFFICES ASSUME PowerInit PROVE Counts
  OBVIOUS
<1>1. HandleCount
  BY CountInit DEF PowerInit
<1>2. \A i \in Slots : fat[i].tip = 0
  BY DEF PowerInit, Init, RamInit, Closed
<1>. QED  BY <1>1, <1>2 DEF PowerInit, Counts, Serving, CreateSteps

LEMMA CountsStep ==
  ASSUME FitsCounter
  PROVE  PieceInv /\ Counts /\ [PowerNext]_pvars => Counts'
<1>. SUFFICES ASSUME PieceInv, Counts, [PowerNext]_pvars PROVE Counts'
  OBVIOUS
<1>. USE DEF Serving, CreateSteps
<1>0. TypeOK /\ HandleCount /\ \A i \in Slots : fat[i].tip = 0
  BY DEF PieceInv, PowerTypeOK, Counts
<1>1. CASE FirstMount \/ SecondMount
  <2>1. Idle /\ Mount
    BY <1>1 DEF FirstMount, SecondMount, PieceInv, Pieces, Starting
  <2>2. HandleCount'
    BY <1>0, <2>1, CountStep, Zenon DEF Next, FsCalls
  <2>3. CASE super_open' = TRUE /\ UNCHANGED fat
    <3>1. Mounted'
      BY <2>2, <2>3, MountedAfter
    <3>. QED  BY <1>0, <2>2, <2>3, <3>1, Zenon DEF Counts
  <2>4. CASE last'.ret # "SUCCESS" /\ UNCHANGED ram
    <3>1. pc' \notin Serving \cup CreateSteps
      BY <1>1, <2>4 DEF FirstMount, SecondMount, Goto
    <3>. QED  BY <2>4, <3>1, CountsKept, Zenon
  <2>. QED  BY <2>1, <2>3, <2>4, MountIdle, Zenon
<1>2. CASE MkfsHead \/ MkfsRow \/ MkfsSeal
  <2>1. UNCHANGED ram /\ pc' \notin Serving \cup CreateSteps
    BY <1>2 DEF MkfsHead, MkfsRow, MkfsSeal, Goto
  <2>. QED  BY <2>1, CountsKept, Zenon
<1>3. ASSUME NEW name \in AppNames, TryOpen(name) PROVE Counts'
  <2>1. Open(name) /\ Mounted
    BY <1>3 DEF TryOpen, Counts
  <2>2. OpenOn("open", media, name)
    BY <2>1, Zenon DEF Open
  <2>3. HandleCount'
    BY <1>0, <2>1, <2>2, CountAfterOpen
  <2>4. \A i \in Slots : fat'[i].tip = 0
    BY <1>0, <2>2, TipsAfterOpen
  <2>5. super_open' = TRUE
    BY <1>0, <2>1, <2>2, OpenOnKeepsMount, MountedIsOpen
  <2>. QED  BY <2>3, <2>4, <2>5, MountedAfter, Zenon DEF Counts
<1>4. CASE TryCreate
  <2>1. UNCHANGED ram /\ pc \in Serving
    BY <1>4 DEF TryCreate, vars, ram
  <2>. QED  BY <2>1, CountsKept, Zenon
<1>5. CASE CreateStep
  <2>1. UNCHANGED ram /\ pc \in CreateSteps
    BY <1>5 DEF CreateStep
  <2>. QED  BY <2>1, CountsKept, Zenon
<1>6. CASE CreateOpen
  <2>1. OpenOn("create", media, item.name) /\ Mounted
    BY <1>6 DEF CreateOpen, Counts
  <2>2. HandleCount'
    BY <1>0, <2>1, CountAfterOpen
  <2>3. \A i \in Slots : fat'[i].tip = 0
    BY <1>0, <2>1, TipsAfterOpen
  <2>4. super_open' = TRUE
    BY <1>0, <2>1, OpenOnKeepsMount, MountedIsOpen
  <2>. QED  BY <2>2, <2>3, <2>4, MountedAfter, Zenon DEF Counts
<1>7. ASSUME NEW i \in Slots, CloseFile(i) PROVE Counts'
  <2>1. Close(i) /\ Mounted
    BY <1>7 DEF CloseFile, Counts
  <2>2. HandleCount'
    BY <1>0, <2>1, CountStep, Zenon DEF Next, FileCalls
  <2>3. super_open' = super_open /\ \/ UNCHANGED fat
                                    \/ fat' = [fat EXCEPT ![i] = Closed]
    BY <2>1, Zenon DEF Close, Nothing, Halt, ram
  <2>4. \A j \in Slots : fat'[j].tip = 0
    BY <1>0, <2>3 DEF TypeOK, Closed
  <2>5. Mounted'
    BY <1>0, <2>1, <2>2, <2>3, MountedIsOpen, MountedAfter
  <2>. QED  BY <2>2, <2>4, <2>5, Zenon DEF Counts
<1>8. CASE Fault
  <2>1. UNCHANGED ram /\ pc' \notin Serving \cup CreateSteps
    BY <1>8 DEF Fault, FaultOutcome
  <2>. QED  BY <2>1, CountsKept, Zenon
<1>9. CASE PowerCut
  <2>1. /\ files_opened' = 0 /\ super_open' = FALSE /\ fat' = [i \in Slots |-> Closed]
        /\ pc' = "mount"
    BY <1>9, Zenon DEF PowerCut
  <2>2. OpenSlots' = {}
    BY <2>1, OpenSlotsAfterRestart
  <2>3. HandleCount'
    BY <2>1, <2>2, Zenon DEF HandleCount
  <2>4. \A i \in Slots : fat'[i].tip = 0
    BY <2>1 DEF Closed
  <2>. QED  BY <2>1, <2>3, <2>4 DEF Counts
<1>10. CASE UNCHANGED pvars
  <2>1. UNCHANGED ram /\ UNCHANGED pc
    BY <1>10 DEF pvars, vars, ram
  <2>. QED  BY <2>1, CountsKept, Zenon
<1>. QED
  BY <1>1, <1>2, <1>3, <1>4, <1>5, <1>6, <1>7, <1>8, <1>9, <1>10, Zenon DEF PowerNext, Step

(* No handle is open while the store is started.                           *)
LEMMA NoHandleAtStart ==
  ASSUME PieceInv, Counts, pc \in Starting
  PROVE  OpenSlots = {}
  BY Zenon DEF PieceInv, Pieces, Idle, Counts, HandleCount

-----------------------------------------------------------------------------
(* The third layer: files one behind the other.                            *)

LEMMA ItemEnd ==
  ASSUME NEW e \in TocItem
  PROVE  e.start \in Nat /\ e.size \in Nat /\ End(e) \in Nat /\ e.start <= End(e)
  BY SizesAssumption DEF TocItem, End, Bytes16

LEMMA BehindSame ==
  ASSUME NEW m, NEW new, NEW n, NEW e, Behind(m, n, e),
         \A i \in 0 .. n - 1 : new.toc[i] = m.toc[i]
  PROVE  Behind(new, n, e)
  BY DEF Behind

LEMMA LaidSame ==
  ASSUME NEW m, NEW new, NEW n \in 0 .. MaxFileCnt, Laid(m, n),
         \A i \in 0 .. n - 1 : new.toc[i] = m.toc[i]
  PROVE  Laid(new, n)
<1>. SUFFICES ASSUME NEW i \in 0 .. n - 1 PROVE Behind(new, i, new.toc[i])
  BY DEF Laid
<1>1. Behind(m, i, new.toc[i])
  BY DEF Laid
<1>2. \A j \in 0 .. i - 1 : j \in 0 .. n - 1
  BY SizesAssumption
<1>. QED  BY <1>1, <1>2, BehindSame

LEMMA LaidNext ==
  ASSUME NEW m, NEW n \in Slots, Laid(m, n), Behind(m, n, m.toc[n])
  PROVE  Laid(m, n + 1)
<1>1. \A i \in 0 .. (n + 1) - 1 : i \in 0 .. n - 1 \/ i = n
  BY SlotIntervals, SlotSucc
<1>. QED  BY <1>1, Zenon DEF Laid

(* Entries that lie one behind the other pass fsck().                      *)
LEMMA LaidPasses ==
  ASSUME NEW m \in Image, Formatted(m), Laid(m, m.cnt)
  PROVE  FsckOk(m)
<1>1. SUFFICES ASSUME NEW i \in Files(m)
               PROVE  /\ CheckName(m.toc[i].name)
                      /\ End(m.toc[i]) < Capacity
                      /\ m.toc[i].start >= SuperSize
  BY DEF FsckOk
<1>2. Behind(m, i, m.toc[i])
  BY DEF Laid, Files
<1>3. i \in Slots
  BY SizesAssumption DEF Files, Formatted, Image, Slots
<1>4. m.toc[i] \in TocItem
  BY <1>3 DEF Image
<1>5. SuperSize + (i + 1) * Share < Capacity /\ (i + 1) * Share \in Nat
  BY <1>3, SlotSucc, Shares
<1>6. End(m.toc[i]) < Capacity /\ m.toc[i].start >= SuperSize
  BY <1>2, <1>4, <1>5, ItemEnd, SizesAssumption DEF Behind
<1>. QED  BY <1>2, <1>6, AppAssumption DEF Behind, CheckName

(* Where create() puts a file of the firmware: behind the others, within   *)
(* the shares of the entries so far.                                       *)
LEMMA NewItemShare ==
  ASSUME SmallDevice, NEW m \in Image, Formatted(m), Laid(m, m.cnt), m.cnt # MaxFileCnt,
         NEW name \in AppNames
  PROVE  LET e == NewItem(m, name, AppSize[name])
         IN /\ e \in TocItem /\ e.name = name
            /\ e.size = AppSize[name]
            /\ e.start = Capacity - Df(m)
            /\ SuperSize <= e.start
            /\ \A i \in 0 .. m.cnt - 1 : End(m.toc[i]) <= e.start
            /\ End(e) <= SuperSize + (m.cnt + 1) * Share
            /\ SuperSize + (m.cnt + 1) * Share < Capacity
<1>. DEFINE e == NewItem(m, name, AppSize[name])
            n == m.cnt
<1>0. n \in Slots /\ (n # 0 => n - 1 \in Slots) /\ m.toc \in [Slots -> TocItem]
  BY NextSlot DEF Image
<1>1. e \in TocItem /\ e.name = name
  BY <1>0, NewItemType, AppNamesAreNames, Shares DEF NewItem
<1>2. /\ Share \in Nat /\ n * Share \in Nat /\ (n + 1) * Share = n * Share + Share
      /\ SuperSize + (n + 1) * Share < Capacity
      /\ SuperSize + n * Share < Capacity
      /\ AppSize[name] \in Nat /\ AppSize[name] <= Share
  BY <1>0, SlotSucc, Shares
<1>3. e.size = AppSize[name]
  <2>1. AppSize[name] \in 0 .. U16 - 1 /\ U16 \in Nat
    BY AppAssumption, SizesAssumption DEF Bytes16
  <2>. QED  BY <2>1, CutIsIdentity DEF NewItem
<1>4. /\ e.start = Capacity - Df(m)
      /\ SuperSize <= e.start
      /\ e.start <= SuperSize + n * Share
      /\ \A i \in 0 .. n - 1 : End(m.toc[i]) <= e.start
  <2>1. CASE n = 0
    <3>1. e.start = SuperSize /\ Df(m) = Capacity - SuperSize
      BY <2>1 DEF NewItem, Df
    <3>2. 0 .. n - 1 = {}
      BY <2>1, EmptyRange, Zenon
    <3>. QED  BY <1>2, <3>1, <3>2, SizesAssumption
  <2>2. CASE n # 0
    <3>. DEFINE prev == m.toc[n - 1]
    <3>0. n - 1 \in 0 .. n - 1 /\ n \in Nat /\ n > 0 /\ (n - 1) + 1 = n
      BY <1>0, <2>2, SlotsBelow, Zenon
    <3>1. prev \in TocItem
      BY <1>0, <2>2
    <3>2. Behind(m, n - 1, prev)
      BY <3>0 DEF Laid
    <3>3. /\ End(prev) \in Nat /\ prev.start \in Nat /\ prev.start <= End(prev)
          /\ SuperSize <= prev.start
          /\ End(prev) <= SuperSize + n * Share
      <4>1. End(prev) <= SuperSize + ((n - 1) + 1) * Share
        BY <3>2 DEF Behind
      <4>2. SuperSize <= prev.start
        BY <3>2 DEF Behind
      <4>. QED  BY <3>0, <3>1, <4>1, <4>2, ItemEnd
    <3>4. End(prev) % U16 = End(prev)
      <4>1. End(prev) \in 0 .. U16 - 1 /\ U16 \in Nat
        BY <1>2, <3>3, SizesAssumption DEF SmallDevice
      <4>. QED  BY <4>1, CutIsIdentity
    <3>5. e.start = End(prev) /\ Df(m) = Capacity - End(prev)
      BY <2>2, <3>0, <3>4 DEF NewItem, Df
    <3>6. ASSUME NEW i \in 0 .. n - 1 PROVE End(m.toc[i]) <= e.start
      <4>1. CASE i = n - 1
        BY <3>3, <3>5, <4>1
      <4>2. CASE i # n - 1
        <5>1. i \in 0 .. (n - 1) - 1 /\ i \in Slots
          BY <1>0, <2>2, <4>2, SlotsBelow, Zenon
        <5>2. End(m.toc[i]) <= prev.start
          BY <3>2, <5>1 DEF Behind
        <5>3. End(m.toc[i]) \in Nat
          BY <1>0, <5>1, ItemEnd
        <5>. QED  BY <3>3, <3>5, <5>2, <5>3
      <4>. QED  BY <4>1, <4>2
    <3>. QED  BY <3>3, <3>5, <3>6, SizesAssumption
  <2>. QED  BY <2>1, <2>2
<1>5. End(e) <= SuperSize + (n + 1) * Share
  <2>1. End(e) = e.start + e.size /\ e.start \in Nat
    BY <1>1, ItemEnd DEF End
  <2>. QED  BY <1>2, <1>3, <1>4, <2>1, SizesAssumption
<1>. QED  BY <1>1, <1>2, <1>3, <1>4, <1>5

LEMMA NewItemBehind ==
  ASSUME SmallDevice, NEW m \in Image, Formatted(m), Laid(m, m.cnt),
         NEW name \in AppNames, ~ Refused(m, name, AppSize[name])
  PROVE  Behind(m, m.cnt, NewItem(m, name, AppSize[name]))
<1>. DEFINE e == NewItem(m, name, AppSize[name])
<1>1. m.cnt # MaxFileCnt /\ Absent(m, name)
  BY DEF Refused
<1>2. /\ e.name = name /\ SuperSize <= e.start
      /\ End(e) <= SuperSize + (m.cnt + 1) * Share
      /\ \A i \in 0 .. m.cnt - 1 : End(m.toc[i]) <= e.start
  BY <1>1, NewItemShare
<1>3. \A i \in 0 .. m.cnt - 1 : m.toc[i].name # name
  <2>1. \A i \in 0 .. m.cnt - 1 : i \in Slots
    BY <1>1, NextSlot, SlotIntervals
  <2>. QED  BY <1>1, <2>1 DEF Absent
<1>. QED  BY <1>2, <1>3 DEF Behind

(* A step inside create() changes the entry at row, then the count.        *)
LEMMA BreakCreate ==
  ASSUME PieceInv, pc \in CreateSteps, NEW m \in Interrupted
  PROVE  /\ m \in Image /\ row \in Slots
         /\ \A i \in Slots \ {row} : m.toc[i] = media.toc[i]
         /\ \A i \in 0 .. row - 1 : i \in Slots /\ m.toc[i] = media.toc[i]
         /\ \/ m.cnt = row
            \/ m.cnt = row + 1 /\ m.toc[row] = item
<1>. USE DEF CreateSteps, SealSteps
<1>0. PowerTypeOK /\ Pieces /\ row \in Slots /\ media \in Image /\ Writing
  BY DEF PieceInv, PowerTypeOK, TypeOK, Writing
<1>1. m \in Completed => /\ \A i \in Slots \ {row} : m.toc[i] = media.toc[i]
                         /\ m.cnt = row \/ (m.cnt = row + 1 /\ m.toc[row] = item)
  <2>. SUFFICES ASSUME m \in Completed
                PROVE  /\ \A i \in Slots \ {row} : m.toc[i] = media.toc[i]
                       /\ m.cnt = row \/ (m.cnt = row + 1 /\ m.toc[row] = item)
    OBVIOUS
  <2>1. CASE pc = "create item"
    <3>1. m.toc = [media.toc EXCEPT ![row] = item] /\ m.cnt = media.cnt /\ media.cnt = row
      BY <1>0, <2>1, CompletedFields DEF Pieces
    <3>. QED  BY <1>0, <3>1 DEF Image
  <2>2. CASE pc = "create count"
    <3>1. m.toc = media.toc /\ m.cnt = row + 1 /\ media.toc[row] = item
      BY <1>0, <2>2, CompletedFields DEF Pieces
    <3>. QED  BY <3>1
  <2>3. CASE pc = "create seal"
    <3>1. m.toc = media.toc /\ m.cnt = media.cnt /\ media.cnt = row + 1 /\ media.toc[row] = item
      BY <1>0, <2>3, CompletedFields DEF Pieces
    <3>. QED  BY <3>1
  <2>. QED  BY <2>1, <2>2, <2>3
<1>2. media.cnt = row \/ (media.cnt = row + 1 /\ media.toc[row] = item)
  BY <1>0 DEF Pieces
<1>3. m \in Image
  BY <1>0, InterruptedFields
<1>4. \A i \in Slots \ {row} : m.toc[i] = media.toc[i]
  BY <1>0, <1>1, InterruptedFields
<1>5. m.cnt = row \/ (m.cnt = row + 1 /\ m.toc[row] = item)
  <2>1. pc = "create item" => media.cnt = row
    BY <1>0 DEF Pieces
  <2>2. m = media \/ m \in Completed \/ (pc = "create item" /\ m.cnt = media.cnt)
    BY <1>0, InterruptedFields
  <2>. QED  BY <1>1, <1>2, <2>1, <2>2
<1>6. \A i \in 0 .. row - 1 : i \in Slots \ {row}
  BY <1>0, SlotsBelow
<1>. QED  BY <1>0, <1>3, <1>4, <1>5, <1>6

LEMMA TrustedBefore ==
  ASSUME Trusted', missed => missed'
  PROVE  Trusted
  BY DEF Trusted

(* A checksum that agrees after a step inside a piece, and not by chance,  *)
(* agrees because nothing was written.                                     *)
LEMMA NoCollision ==
  ASSUME PieceInv, media' \in Interrupted, pc \notin SealSteps, ~ Collides, media'.sealed
  PROVE  media' = media
<1>1. SameContent(media, media')
  BY DEF Collides
<1>. QED  BY <1>1, InterruptedFields DEF PieceInv

(* A table that an interrupted mkfs() leaves has no files, if it is a      *)
(* table at all.                                                           *)
LEMMA BreakMkfs ==
  ASSUME PieceInv, pc \in MkfsSteps, media' \in Interrupted,
         missed' = (missed \/ Collides), Trusted', FsckOk(media')
  PROVE  media'.cnt = 0
<1>. USE DEF MkfsSteps, SealSteps
<1>0. /\ PowerTypeOK /\ Pieces /\ Writing /\ media \in Image /\ media' \in Image
      /\ media'.sealed /\ media'.magic
  BY InterruptedFields DEF PieceInv, PowerTypeOK, TypeOK, Writing, FsckOk, Formatted
<1>1. CASE pc = "mkfs head"
  <2>1. ~ FsckOk(media) /\ media' # media
    BY <1>0, <1>1 DEF Pieces
  <2>2. NewBoard /\ ~ SameContent(media, media')
    <3>1. Collides
      BY <1>1, <2>1, NoCollision, <1>0
    <3>. QED  BY <3>1 DEF Trusted, Collides
  <2>3. CASE media' \in Completed
    BY <1>0, <1>1, <2>3, CompletedFields
  <2>4. CASE media'.cnt = media.cnt /\ media'.toc = media.toc
    <3>1. media \in Images
      BY <1>0, <2>2, <2>4 DEF SameContent, Pieces, Image
    <3>. DEFINE m == [media EXCEPT !.magic = TRUE, !.sealed = TRUE]
    <3>2. m \in Image /\ m.magic /\ m.sealed /\ m.cnt = media.cnt /\ m.toc = media.toc
      BY <1>0 DEF Image
    <3>. HIDE DEF m
    <3>3. SameContent(m, media')
      <4>1. m.magic = media'.magic
        BY <1>0, <3>2 DEF Image
      <4>. QED  BY <2>4, <3>2, <4>1, Zenon DEF SameContent
    <3>4. m.sealed = media'.sealed
      BY <1>0, <3>2 DEF Image
    <3>5. m = media'
      BY <1>0, <3>2, <3>3, <3>4, SameImage, Zenon
    <3>. QED  BY <2>2, <2>4, <3>1, <3>5, Zenon DEF NewBoard, m
  <2>. QED  BY <1>0, <1>1, <2>1, <2>3, <2>4, InterruptedFields
<1>2. CASE pc \in {"mkfs row", "mkfs seal"}
  <2>1. media.cnt = 0
    BY <1>0, <1>2 DEF Pieces
  <2>2. media' \in Completed => media'.cnt = media.cnt
    BY <1>0, <1>2, CompletedFields
  <2>. QED  BY <1>0, <1>2, <2>1, <2>2, InterruptedFields
<1>. QED  BY <1>1, <1>2

(* After an interruption anywhere a table that passes fsck() is as good as *)
(* one that was never interrupted.                                         *)
LEMMA BreakLaid ==
  ASSUME PieceInv, Kept, Break, Trusted', FsckOk(media')
  PROVE  Laid(media', media'.cnt)
<1>0. /\ media' \in Interrupted /\ missed' = (missed \/ Collides) /\ PowerTypeOK
      /\ Trusted
  BY TrustedBefore DEF Break, PieceInv
<1>1. CASE ~ Writing
  BY <1>0, <1>1, InterruptedFields DEF Kept
<1>2. CASE pc \in MkfsSteps
  <2>1. media'.cnt = 0
    BY <1>0, <1>2, BreakMkfs
  <2>. QED  BY <2>1, EmptyRange DEF Laid
<1>3. CASE pc \in CreateSteps
  <2>1. Laid(media, row) /\ Behind(media, row, item)
    BY <1>0, <1>3 DEF Kept
  <2>2. /\ row \in Slots
        /\ \A i \in 0 .. row - 1 : media'.toc[i] = media.toc[i]
        /\ media'.cnt = row \/ (media'.cnt = row + 1 /\ media'.toc[row] = item)
    BY <1>0, <1>3, BreakCreate
  <2>3. Laid(media', row) /\ Behind(media', row, item)
    BY <2>1, <2>2, SlotSucc, LaidSame, BehindSame
  <2>. QED  BY <2>2, <2>3, LaidNext
<1>. QED  BY <1>1, <1>2, <1>3 DEF Writing

LEMMA KeptInit == PowerInit => Kept
<1>. SUFFICES ASSUME PowerInit PROVE Kept
  OBVIOUS
<1>1. ~ FsckOk(media)
  BY ImagesAssumption DEF PowerInit, Init, FsckOk
<1>. QED  BY <1>1 DEF PowerInit, Kept, Serving, CreateSteps

LEMMA KeptStep ==
  ASSUME SmallDevice
  PROVE  PieceInv /\ Kept /\ [PowerNext]_pvars => Kept'
<1>. SUFFICES ASSUME PieceInv, Kept, [PowerNext]_pvars, Trusted'
              PROVE  /\ pc' \in Serving => FsckOk(media')
                     /\ (~ Writing)' /\ FsckOk(media') => Laid(media', media'.cnt)
                     /\ pc' \in CreateSteps => Laid(media', row') /\ Behind(media', row', item')
  BY DEF Kept
<1>. USE DEF Serving, CreateSteps, MkfsSteps, Writing
<1>0. PieceInv' /\ PowerTypeOK /\ Pieces /\ Pieces' /\ media \in Image
  BY PieceStep DEF PieceInv, PowerTypeOK, TypeOK
<1>1. CASE FirstMount \/ SecondMount
  <2>1. Idle /\ Mount /\ UNCHANGED missed
    BY <1>0, <1>1 DEF FirstMount, SecondMount, Pieces, Starting
  <2>2. UNCHANGED media /\ (last'.ret = "SUCCESS" => FsckOk(media))
    BY <2>1, MountIdle, Zenon
  <2>3. Trusted
    BY <2>1, TrustedBefore
  <2>. QED  BY <1>1, <2>2, <2>3 DEF FirstMount, SecondMount, Goto, Kept
<1>2. CASE MkfsHead \/ MkfsRow
  BY <1>2 DEF MkfsHead, MkfsRow
<1>3. CASE MkfsSeal
  <2>1. pc = "mkfs seal" /\ pc' = "remount" /\ media' \in Completed
    BY <1>3 DEF MkfsSeal, Goto
  <2>2. media'.cnt = 0
    BY <1>0, <2>1, CompletedFields DEF Pieces
  <2>. QED  BY <2>1, <2>2, EmptyRange DEF Laid
<1>4. ASSUME NEW name \in AppNames, TryOpen(name)
      PROVE  /\ pc' \in Serving => FsckOk(media')
             /\ (~ Writing)' /\ FsckOk(media') => Laid(media', media'.cnt)
             /\ pc' \notin CreateSteps
  <2>1. /\ pc = "ready" /\ pc' \in {"ready", "missing"} /\ UNCHANGED missed /\ Open(name)
    BY <1>4 DEF TryOpen
  <2>2. UNCHANGED media
    BY <2>1, Zenon DEF Open, Halt, Nothing
  <2>. QED  BY <2>1, <2>2, TrustedBefore DEF Kept
<1>5. CASE TryCreate
  <2>0. pc = "missing" /\ UNCHANGED media /\ UNCHANGED missed /\ Trusted
    BY <1>5, TrustedBefore DEF TryCreate, vars
  <2>1. FsckOk(media) /\ Laid(media, media.cnt)
    BY <2>0 DEF Kept
  <2>2. CASE pc' = "halted"
    BY <2>0, <2>1, <2>2
  <2>3. CASE /\ ~ Refused(media, item.name, AppSize[item.name])
             /\ pc' = "create item"
             /\ row' = media.cnt
             /\ item' = NewItem(media, item.name, AppSize[item.name])
    <3>1. Formatted(media) /\ item.name \in AppNames
      BY <1>0, <2>0, <2>1 DEF FsckOk, Pieces
    <3>2. Behind(media, media.cnt, NewItem(media, item.name, AppSize[item.name]))
      BY <1>0, <2>1, <2>3, <3>1, NewItemBehind
    <3>. QED  BY <2>0, <2>1, <2>3, <3>2
  <2>. QED  BY <1>5, <2>2, <2>3, Zenon DEF TryCreate
<1>6. CASE CreateStep
  <2>0. /\ pc \in CreateSteps /\ media' \in Interrupted /\ UNCHANGED row /\ UNCHANGED item
        /\ pc' \in {"create count", "create seal", "create open"} /\ Trusted
    <3>1. media' \in Completed /\ missed' = (missed \/ Collides)
      BY <1>6 DEF CreateStep, WritePiece
    <3>2. pc' \in {"create count", "create seal", "create open"}
      BY <1>6 DEF CreateStep, Goto, Following
    <3>. QED  BY <1>6, <3>1, <3>2, TrustedBefore DEF CreateStep, Goto, Interrupted
  <2>1. Laid(media, row) /\ Behind(media, row, item)
    BY <2>0 DEF Kept
  <2>2. row \in Slots /\ media' \in Image /\ \A i \in 0 .. row - 1 : media'.toc[i] = media.toc[i]
    BY <2>0, BreakCreate
  <2>3. Laid(media', row) /\ Behind(media', row, item)
    BY <2>1, <2>2, SlotSucc, LaidSame, BehindSame
  <2>4. CASE pc' \in {"create count", "create seal"}
    BY <2>0, <2>3, <2>4
  <2>5. CASE pc' = "create open"
    <3>1. media'.cnt = row + 1 /\ media'.toc[row] = item /\ Formatted(media')
      BY <1>0, <2>0, <2>5 DEF Pieces
    <3>2. Laid(media', media'.cnt)
      BY <2>2, <2>3, <3>1, LaidNext
    <3>3. FsckOk(media')
      BY <2>2, <3>1, <3>2, LaidPasses
    <3>. QED  BY <2>5, <3>2, <3>3
  <2>. QED  BY <2>0, <2>4, <2>5
<1>7. CASE CreateOpen
  <2>1. /\ pc = "create open" /\ pc' \in {"ready", "halted"}
        /\ UNCHANGED media /\ UNCHANGED missed
    BY <1>7 DEF CreateOpen
  <2>. QED  BY <2>1, TrustedBefore DEF Kept
<1>8. ASSUME NEW i \in Slots, CloseFile(i)
      PROVE  /\ FsckOk(media')
             /\ Laid(media', media'.cnt)
             /\ pc' \notin CreateSteps
  <2>1. pc = "ready" /\ pc' = "ready" /\ UNCHANGED missed /\ Close(i)
    BY <1>8 DEF CloseFile, Goto
  <2>2. UNCHANGED media
    BY <2>1, Zenon DEF Close, Halt, Nothing
  <2>. QED  BY <2>1, <2>2, TrustedBefore DEF Kept
<1>9. CASE Fault \/ PowerCut
  <2>1. Break /\ pc' \in {"remount", "halted", "mount"}
    BY <1>9 DEF Fault, FaultOutcome, PowerCut
  <2>. QED  BY <2>1, BreakLaid
<1>10. CASE UNCHANGED pvars
  <2>1. UNCHANGED media /\ UNCHANGED pc /\ UNCHANGED row /\ UNCHANGED item /\ UNCHANGED missed
    BY <1>10 DEF pvars, vars
  <2>. QED  BY <2>1, TrustedBefore DEF Kept
<1>. QED
  BY <1>1, <1>2, <1>3, <1>4, <1>5, <1>6, <1>7, <1>8, <1>9, <1>10, Zenon DEF PowerNext, Step

-----------------------------------------------------------------------------
(* The fourth layer: tables that no checksum missed.                       *)

LEMMA NoFilesPass ==
  ASSUME NEW m \in Image, m.magic, m.sealed, m.cnt = 0
  PROVE  FsckOk(m) /\ Formatted(m)
<1>1. Files(m) = {}
  BY EmptyRange DEF Files
<1>2. m.cnt <= MaxFileCnt
  BY SizesAssumption
<1>. QED  BY <1>1, <1>2 DEF FsckOk, Formatted

(* The files of the firmware find room in the table and on the device, so  *)
(* create() refuses none that is not there.                                *)
LEMMA NamesLeaveRoom ==
  ASSUME NEW m \in Image, Formatted(m), Laid(m, m.cnt), NEW name \in AppNames, Absent(m, name)
  PROVE  m.cnt # MaxFileCnt
<1>. SUFFICES ASSUME m.cnt = MaxFileCnt PROVE FALSE
  OBVIOUS
<1>. DEFINE f == [i \in 0 .. MaxFileCnt |-> IF i = MaxFileCnt THEN name ELSE m.toc[i].name]
<1>1. /\ MaxFileCnt \in Nat /\ 0 .. MaxFileCnt = Slots \cup {MaxFileCnt}
      /\ MaxFileCnt \notin Slots /\ Slots = 0 .. m.cnt - 1
  BY SizesAssumption DEF Slots
<1>2. \A i \in Slots : Behind(m, i, m.toc[i])
  BY <1>1 DEF Laid
<1>3. f \in [0 .. MaxFileCnt -> AppNames]
  BY <1>1, <1>2 DEF Behind
<1>4. /\ IsFiniteSet(0 .. MaxFileCnt) /\ Cardinality(0 .. MaxFileCnt) = MaxFileCnt + 1
      /\ IsFiniteSet(AppNames) /\ Cardinality(AppNames) <= MaxFileCnt
      /\ Cardinality(AppNames) \in Nat
  BY <1>1, FS_Interval, FS_CardinalityType, AppAssumption
<1>5. PICK x, y \in 0 .. MaxFileCnt : x # y /\ f[x] = f[y]
  <2>1. Cardinality(AppNames) < Cardinality(0 .. MaxFileCnt)
    BY <1>1, <1>4
  <2>. HIDE DEF f
  <2>2. PICK S : S = 0 .. MaxFileCnt
    OBVIOUS
  <2>3. IsFiniteSet(S) /\ Cardinality(AppNames) < Cardinality(S) /\ f \in [S -> AppNames]
    BY <1>3, <1>4, <2>1, <2>2
  <2>4. \E x, y \in S : x # y /\ f[x] = f[y]
    BY <1>4, <2>3, FS_PigeonHole
  <2>. QED  BY <2>2, <2>4
<1>6. ASSUME NEW i \in 0 .. MaxFileCnt, NEW j \in 0 .. MaxFileCnt, i < j
      PROVE  f[i] # f[j]
  <2>1. i \in Slots /\ i \in 0 .. j - 1 /\ (j # MaxFileCnt => j \in Slots)
    BY <1>1, <1>6 DEF Slots
  <2>2. CASE j = MaxFileCnt
    BY <1>1, <2>1, <2>2 DEF Absent
  <2>3. CASE j # MaxFileCnt
    <3>1. m.toc[i].name # m.toc[j].name
      BY <1>2, <2>1, <2>3 DEF Behind
    <3>. QED  BY <1>1, <2>1, <2>3, <3>1
  <2>. QED  BY <2>2, <2>3
<1>7. x < y \/ y < x
  BY <1>1, <1>5
<1>. QED  BY <1>5, <1>6, <1>7

LEMMA NewItemFits ==
  ASSUME SmallDevice, NEW m \in Image, Formatted(m), Laid(m, m.cnt),
         NEW name \in AppNames, Absent(m, name)
  PROVE  ~ (Df(m) < AppSize[name]) /\ ~ Refused(m, name, AppSize[name])
<1>. DEFINE e == NewItem(m, name, AppSize[name])
<1>1. m.cnt # MaxFileCnt
  BY NamesLeaveRoom
<1>2. /\ e \in TocItem /\ e.size = AppSize[name] /\ e.start = Capacity - Df(m)
      /\ End(e) <= SuperSize + (m.cnt + 1) * Share
      /\ SuperSize + (m.cnt + 1) * Share < Capacity
  BY <1>1, NewItemShare
<1>3. (m.cnt + 1) * Share \in Nat
  BY <1>1, NextSlot, SlotSucc, Shares
<1>4. End(e) < Capacity /\ End(e) \in Nat
  BY <1>2, <1>3, ItemEnd, SizesAssumption
<1>5. AppSize[name] \in Nat /\ AppSize[name] # 0 /\ name \notin LongNames
  BY Shares, AppAssumption
<1>6. End(e) = e.start + AppSize[name] /\ e.start \in Nat
  BY <1>2, ItemEnd DEF End
<1>7. ~ (Df(m) < AppSize[name])
  <2>1. Df(m) \in Int
    <3>1. m.cnt > 0 => m.toc[m.cnt - 1] \in TocItem
      BY <1>1, NextSlot DEF Image
    <3>. QED  BY <3>1, ItemEnd, SizesAssumption DEF Df
  <2>. QED  BY <1>2, <1>4, <1>5, <1>6, <2>1, SizesAssumption
<1>8. ~ (End(e) > Capacity)
  BY <1>4, SizesAssumption
<1>. QED  BY <1>1, <1>5, <1>7, <1>8 DEF Refused

(* Handles that stay as they are cover the same files in a table that has  *)
(* these files.                                                            *)
LEMMA CoversKept ==
  ASSUME \A i \in OpenSlots : Covers(i),
         \A i \in OpenSlots' : i \in OpenSlots /\ fat'[i] = fat[i],
         \A i \in Slots : i < Held => i < Held' /\ media'.toc[i] = media.toc[i],
         todo' \subseteq todo
  PROVE  (\A i \in OpenSlots : Covers(i))'
<1>. SUFFICES ASSUME NEW i \in OpenSlots' PROVE Covers(i)'
  OBVIOUS
<1>1. Covers(i) /\ i \in Slots /\ fat'[i] = fat[i]
  BY DEF OpenSlots
<1>. HIDE DEF Held
<1>2. i < Held' /\ media'.toc[i] = media.toc[i]
  BY <1>1 DEF Covers
<1>. QED  BY <1>1, <1>2, Zenon DEF Covers

LEMMA CoversAfterOpen ==
  ASSUME TypeOK, NEW id \in Slots, fat' = [fat EXCEPT ![id] = Opened(@, media.toc[id])],
         \A i \in OpenSlots : Covers(i), UNCHANGED media, id < Held',
         \A i \in Slots : i < Held => i < Held',
         todo' = todo \ {media.toc[id].name}
  PROVE  (\A i \in OpenSlots : Covers(i))'
<1>. SUFFICES ASSUME NEW i \in OpenSlots' PROVE Covers(i)'
  OBVIOUS
<1>0. fat \in [Slots -> Handle] /\ i \in Slots
  BY DEF TypeOK, OpenSlots
<1>1. CASE i = id
  <2>1. /\ fat'[i].start = media.toc[id].start
        /\ fat'[i].size = media.toc[id].size
    <3>1. fat'[i] = Opened(fat[id], media.toc[id])
      BY <1>0, <1>1
    <3>. QED  BY <1>0, <3>1 DEF Opened, Handle
  <2>. QED  BY <1>1, <2>1, Zenon DEF Covers
<1>2. CASE i # id
  <2>1. fat'[i] = fat[i] /\ i \in OpenSlots
    BY <1>0, <1>2 DEF OpenSlots
  <2>2. Covers(i)
    BY <2>1
  <2>3. media.toc[i].name \notin todo'
    BY <2>2 DEF Covers
  <2>4. i < Held'
    BY <1>0, <2>2 DEF Covers
  <2>. QED  BY <2>1, <2>2, <2>3, <2>4, Zenon DEF Covers
<1>. QED  BY <1>1, <1>2

(* What open() of a stored name does.                                      *)
LEMMA OpensFile ==
  ASSUME NEW call, NEW name, OpenOn(call, media, name),
         \A id \in Slots : FoundAt(media, name, id) => ~ fat[id].mtd
  PROVE  \/ Absent(media, name) /\ last'.ret = "nullptr" /\ UNCHANGED ram
         \/ \E id \in Slots : /\ FoundAt(media, name, id)
                              /\ fat' = [fat EXCEPT ![id] = Opened(@, media.toc[id])]
                              /\ last'.ret = "file"
<1>1. CASE Absent(media, name) /\ Returns(call, "nullptr") /\ UNCHANGED ram
  BY <1>1 DEF Returns
<1>2. ASSUME NEW id \in Slots, FoundAt(media, name, id),
             fat' = [fat EXCEPT ![id] = Opened(@, media.toc[id])],
             Returns(call, "file")
      PROVE  /\ FoundAt(media, name, id)
             /\ fat' = [fat EXCEPT ![id] = Opened(@, media.toc[id])]
             /\ last'.ret = "file"
  BY <1>2 DEF Returns
<1>. QED  BY <1>1, <1>2, Zenon DEF OpenOn

(* After an interruption that no checksum missed a table that passes       *)
(* fsck() has no entry behind its last file.                               *)
LEMMA BreakUnused ==
  ASSUME PieceInv, Clean, Break, ~ missed', FsckOk(media')
  PROVE  Unused(media')
<1>. USE DEF MkfsSteps, CreateSteps, SealSteps
<1>0. /\ media' \in Interrupted /\ ~ missed /\ ~ Collides /\ media'.sealed
      /\ PowerTypeOK /\ Pieces /\ row \in Slots /\ media \in Image
  BY DEF Break, FsckOk, Formatted, PieceInv, PowerTypeOK, TypeOK
<1>1. ASSUME media' = media, pc \in {"mkfs head", "mkfs row", "create count"} PROVE FALSE
  BY <1>0, <1>1 DEF Pieces, Clean
<1>2. CASE ~ Writing
  <2>1. media' = media
    BY <1>0, <1>2, InterruptedFields
  <2>. QED  BY <1>0, <1>2, <2>1 DEF Clean
<1>3. CASE pc \in {"mkfs head", "mkfs row", "create count"}
  BY <1>0, <1>1, <1>3, NoCollision
<1>4. CASE pc = "mkfs seal"
  <2>1. media'.toc = EmptyTable
    <3>1. media.toc = EmptyTable
      BY <1>0, <1>4 DEF Pieces
    <3>2. media' \in Completed => media'.toc = media.toc
      BY <1>0, <1>4, CompletedFields DEF Writing
    <3>. QED  BY <1>0, <1>4, <3>1, <3>2, InterruptedFields
  <2>. QED  BY <2>1 DEF Unused, EmptyTable
<1>5. CASE pc = "create item"
  <2>1. media' = media /\ media.cnt = row /\ media.toc[row] = EmptyItem
    BY <1>0, <1>5, NoCollision DEF Pieces, Clean
  <2>2. \A i \in Slots : i > row => media.toc[i] = EmptyItem
    BY <1>0, <1>5 DEF Clean
  <2>3. \A i \in Slots \ Files(media) : i = row \/ i > row
    BY <1>0, <2>1 DEF Files, Slots
  <2>. QED  BY <2>1, <2>2, <2>3, Zenon DEF Unused
<1>6. CASE pc = "create seal"
  <2>1. media.cnt = row + 1 /\ \A i \in Slots : i > row => media.toc[i] = EmptyItem
    BY <1>0, <1>6 DEF Pieces, Clean
  <2>2. media'.toc = media.toc /\ media'.cnt = media.cnt
    <3>1. media' \in Completed => media'.toc = media.toc /\ media'.cnt = media.cnt
      BY <1>0, <1>6, CompletedFields DEF Writing
    <3>. QED  BY <1>0, <1>6, <3>1, InterruptedFields
  <2>3. \A i \in Slots \ Files(media') : i > row
    BY <1>0, <2>1, <2>2 DEF Files, Slots
  <2>. QED  BY <2>1, <2>2, <2>3, Zenon DEF Unused
<1>. QED  BY <1>2, <1>3, <1>4, <1>5, <1>6 DEF Writing

(* What the layers below say of a table that no checksum missed.           *)
LEMMA CleanServing ==
  ASSUME PieceInv, Kept, Clean, ~ missed, pc \in Serving
  PROVE  /\ FsckOk(media) /\ Formatted(media) /\ Unused(media)
         /\ Laid(media, media.cnt) /\ media \in Image
         /\ \A i \in OpenSlots : Covers(i)
<1>1. Trusted /\ ~ Writing /\ media \in Image
  BY DEF Trusted, Writing, Serving, MkfsSteps, CreateSteps, PieceInv, PowerTypeOK, TypeOK
<1>2. FsckOk(media)
  BY <1>1 DEF Kept
<1>3. Unused(media) /\ \A i \in OpenSlots : Covers(i)
  BY <1>1, <1>2 DEF Clean
<1>. QED  BY <1>1, <1>2, <1>3 DEF Kept, FsckOk

LEMMA CleanInit == PowerInit => Clean
<1>. SUFFICES ASSUME PowerInit PROVE Clean
  OBVIOUS
<1>1. ~ FsckOk(media)
  BY ImagesAssumption DEF PowerInit, Init, FsckOk
<1>2. OpenSlots = {}
  BY DEF PowerInit, Init, RamInit, OpenSlots, Closed
<1>. QED  BY <1>1, <1>2 DEF PowerInit, Clean, CreateSteps

LEMMA CleanMount ==
  ASSUME PieceInv, Counts, Clean, FirstMount \/ SecondMount
  PROVE  Clean'
<1>. USE DEF MkfsSteps, CreateSteps, Writing
<1>1. Idle /\ Mount /\ OpenSlots = {} /\ UNCHANGED <<faulted, missed>>
  BY NoHandleAtStart DEF FirstMount, SecondMount, Goto, PieceInv, Pieces, Starting
<1>2. UNCHANGED media /\ OpenSlots' = {} /\ (last'.ret # "SUCCESS" => ~ FsckOk(media))
  BY <1>1, MountIdle, Zenon DEF OpenSlots
<1>3. ~ missed /\ FsckOk(media) => Unused(media)
  BY DEF Clean, FirstMount, SecondMount
<1>4. CASE FirstMount
  <2>1. pc' \in {"ready", "mkfs head"}
    BY <1>4 DEF FirstMount, Goto
  <2>. QED  BY <1>1, <1>2, <1>3, <2>1 DEF Clean
<1>5. CASE SecondMount
  <2>1. pc = "remount" /\ (pc' = "ready" \/ (pc' = "halted" /\ ~ FsckOk(media)))
    BY <1>2, <1>5 DEF SecondMount, Goto
  <2>2. pc' = "halted" => faulted
    BY <2>1 DEF Clean
  <2>. QED  BY <1>1, <1>2, <1>3, <2>1, <2>2 DEF Clean
<1>. QED  BY <1>4, <1>5

LEMMA CleanMkfs ==
  ASSUME PieceInv, Counts, Clean, MkfsHead \/ MkfsRow \/ MkfsSeal
  PROVE  Clean'
<1>. USE DEF MkfsSteps, CreateSteps, SealSteps, Writing
<1>0. /\ PowerTypeOK /\ Pieces /\ media \in Image /\ UNCHANGED ram /\ UNCHANGED faulted
      /\ pc \in MkfsSteps /\ media' \in Completed /\ media' \in Interrupted
  BY DEF PieceInv, PowerTypeOK, TypeOK, MkfsHead, MkfsRow, MkfsSeal, WritePiece, Goto, Interrupted
<1>1. OpenSlots' = {}
  BY <1>0, NoHandleAtStart, Zenon DEF OpenSlots, ram, Starting
<1>2. CASE MkfsHead \/ MkfsRow
  <2>1. /\ pc \in {"mkfs head", "mkfs row"} /\ pc' \in {"mkfs row", "mkfs seal"}
        /\ missed' = (missed \/ Collides)
    BY <1>2 DEF MkfsHead, MkfsRow, WritePiece
  <2>2. ASSUME ~ missed', media'.sealed PROVE FALSE
    <3>1. media' = media
      BY <2>1, <2>2, <1>0, NoCollision
    <3>2. CASE pc = "mkfs head"
      <4>1. media.magic /\ media.cnt = 0 /\ ~ FsckOk(media)
        BY <1>0, <3>1, <3>2, CompletedFields DEF Pieces
      <4>. QED  BY <1>0, <2>2, <3>1, <4>1, NoFilesPass
    <3>3. CASE pc = "mkfs row"
      BY <2>1, <2>2, <3>1, <3>3 DEF Clean
    <3>. QED  BY <2>1, <3>2, <3>3
  <2>. QED  BY <1>1, <2>1, <2>2 DEF Clean
<1>3. CASE MkfsSeal
  <2>1. pc = "mkfs seal" /\ pc' = "remount"
    BY <1>3 DEF MkfsSeal, Goto
  <2>2. /\ media' \in Image /\ media'.magic /\ media'.cnt = 0 /\ media'.sealed
        /\ media'.toc = EmptyTable
    BY <1>0, <2>1, CompletedFields DEF Pieces
  <2>3. FsckOk(media')
    BY <2>2, NoFilesPass
  <2>4. Unused(media')
    BY <2>2 DEF Unused, EmptyTable
  <2>. QED  BY <1>1, <2>1, <2>3, <2>4 DEF Clean
<1>. QED  BY <1>2, <1>3

LEMMA CleanTryOpen ==
  ASSUME PieceInv, Counts, Kept, Clean, NEW name \in AppNames, TryOpen(name)
  PROVE  Clean'
<1>. USE DEF MkfsSteps, CreateSteps, Writing
<1>0. /\ pc = "ready" /\ name \in todo /\ Open(name) /\ Mounted
      /\ UNCHANGED <<row, faulted, missed>> /\ TypeOK
      /\ pc' \in {"ready", "missing"}
  BY DEF TryOpen, Counts, Serving, PieceInv, PowerTypeOK
<1>1. OpenOn("open", media, name) /\ UNCHANGED media
  BY <1>0, Zenon DEF Open
<1>2. CASE missed
  BY <1>0, <1>2 DEF Clean
<1>3. CASE ~ missed
  <2>1. /\ FsckOk(media) /\ Unused(media) /\ \A i \in OpenSlots : Covers(i)
        /\ media \in Image
    BY <1>0, <1>3, CleanServing DEF Serving
  <2>2. Held = media.cnt /\ Held' = media.cnt
    BY <1>0, <1>1 DEF Held
  <2>3. \A id \in Slots : FoundAt(media, name, id) => ~ fat[id].mtd
    BY <1>0, <2>1 DEF FoundAt, OpenSlots, Covers
  <2>4. \A i \in Slots : i < Held => i < Held' /\ media'.toc[i] = media.toc[i]
    BY <1>1, <2>2
  <2>5. CASE Absent(media, name) /\ last'.ret = "nullptr" /\ UNCHANGED ram
    <3>1. pc' = "missing" /\ item'.name = name /\ UNCHANGED todo
      <4>1. pc' = "missing" /\ item' = [EmptyItem EXCEPT !.name = name] /\ UNCHANGED todo
        BY <2>5 DEF TryOpen
      <4>. QED  BY <4>1 DEF EmptyItem
    <3>2. \A i \in OpenSlots' : i \in OpenSlots /\ fat'[i] = fat[i]
      BY <2>5, Zenon DEF OpenSlots, ram
    <3>3. todo' \subseteq todo
      BY <3>1
    <3>4. (\A i \in OpenSlots : Covers(i))'
      BY <2>1, <2>4, <3>2, <3>3, CoversKept
    <3>. QED  BY <1>0, <1>1, <2>1, <2>5, <3>1, <3>4 DEF Clean
  <2>6. CASE \E id \in Slots : /\ FoundAt(media, name, id)
                               /\ fat' = [fat EXCEPT ![id] = Opened(@, media.toc[id])]
                               /\ last'.ret = "file"
    <3>1. PICK id \in Slots : /\ FoundAt(media, name, id)
                              /\ fat' = [fat EXCEPT ![id] = Opened(@, media.toc[id])]
                              /\ last'.ret = "file"
      BY <2>6
    <3>2. pc' = "ready" /\ todo' = todo \ {media.toc[id].name}
      BY <3>1 DEF TryOpen, FoundAt
    <3>3. id < Held'
      <4>1. id \in Files(media)
        BY <2>1, <3>1, AppNamesAreNames DEF FoundAt, Unused, EmptyItem
      <4>2. id < media.cnt
        BY <2>1, <4>1, FilesBelow
      <4>. QED  BY <2>2, <4>2
    <3>4. (\A i \in OpenSlots : Covers(i))'
      BY <1>0, <1>1, <2>1, <2>4, <3>1, <3>2, <3>3, CoversAfterOpen
    <3>. QED  BY <1>0, <1>1, <2>1, <3>2, <3>4 DEF Clean
  <2>. QED  BY <1>1, <2>3, <2>5, <2>6, OpensFile, Zenon
<1>. QED  BY <1>2, <1>3

LEMMA CleanTryCreate ==
  ASSUME SmallDevice, PieceInv, Counts, Kept, Clean, TryCreate
  PROVE  Clean'
<1>. USE DEF MkfsSteps, CreateSteps, Writing
<1>0. /\ pc = "missing" /\ PowerTypeOK /\ Pieces /\ pc' \in {"halted", "create item"}
      /\ UNCHANGED media /\ UNCHANGED fat /\ UNCHANGED <<todo, faulted, missed>>
  BY DEF TryCreate, PieceInv, vars
<1>1. CASE missed
  BY <1>0, <1>1 DEF Clean
<1>2. CASE ~ missed
  <2>1. /\ FsckOk(media) /\ Formatted(media) /\ Unused(media) /\ Laid(media, media.cnt)
        /\ media \in Image /\ \A i \in OpenSlots : Covers(i)
    BY <1>0, <1>2, CleanServing DEF Serving
  <2>2. Absent(media, item.name) /\ item.name \in AppNames
    BY <1>0, <1>2 DEF Clean, Pieces
  <2>3. pc' = "create item" /\ row' = media.cnt /\ ~ Refused(media, item.name, AppSize[item.name])
    BY <2>1, <2>2, NewItemFits, Zenon DEF TryCreate
  <2>4. media.cnt \in Slots
    BY <2>1, <2>3, NextSlot DEF Refused
  <2>5. /\ \A i \in Slots : i > row' => media'.toc[i] = EmptyItem
        /\ media'.toc[row'] = EmptyItem
    <3>1. \A i \in Slots : i > media.cnt \/ i = media.cnt => i \notin Files(media)
      BY <2>4, SlotOrder, SlotsBelow DEF Files
    <3>2. \A i \in Slots : i > media.cnt \/ i = media.cnt => media.toc[i] = EmptyItem
      BY <2>1, <3>1 DEF Unused
    <3>. QED  BY <1>0, <2>3, <2>4, <3>2, Zenon
  <2>6. (\A i \in OpenSlots : Covers(i))'
    <3>1. Held = media.cnt /\ Held' = media.cnt
      BY <1>0, <2>3 DEF Held
    <3>2. \A i \in Slots : i < Held => i < Held' /\ media'.toc[i] = media.toc[i]
      BY <1>0, <3>1
    <3>3. \A i \in OpenSlots' : i \in OpenSlots /\ fat'[i] = fat[i]
      BY <1>0, Zenon DEF OpenSlots
    <3>. QED  BY <1>0, <2>1, <3>2, <3>3, CoversKept
  <2>. QED  BY <2>3, <2>5, <2>6 DEF Clean
<1>. QED  BY <1>1, <1>2

LEMMA CleanCreateStep ==
  ASSUME PieceInv, Clean, CreateStep
  PROVE  Clean'
<1>. USE DEF MkfsSteps, CreateSteps, SealSteps, Writing
<1>0. /\ pc \in CreateSteps /\ PowerTypeOK /\ Pieces /\ Pieces'
      /\ media' \in Completed /\ media' \in Interrupted /\ missed' = (missed \/ Collides)
      /\ UNCHANGED fat /\ UNCHANGED <<row, item, todo, faulted>>
      /\ pc' \in {"create count", "create seal", "create open"}
      /\ (pc' = "create count" => pc = "create item")
  <2>1. pc' = Following[pc] /\ pc \in CreateSteps
    BY DEF CreateStep, Goto
  <2>2. /\ pc' \in {"create count", "create seal", "create open"}
        /\ (pc' = "create count" => pc = "create item")
    BY <2>1 DEF Following
  <2>3. PieceInv'
    BY CreateStepStep
  <2>4. UNCHANGED fat
    BY DEF CreateStep, ram
  <2>. QED  BY <2>1, <2>2, <2>3, <2>4 DEF CreateStep, WritePiece, Goto, PieceInv, Interrupted
<1>1. CASE missed'
  BY <1>0, <1>1 DEF Clean
<1>2. CASE ~ missed'
  <2>1. ~ missed /\ ~ Collides
    BY <1>0, <1>2
  <2>2. /\ row \in Slots
        /\ \A i \in Slots \ {row} : media'.toc[i] = media.toc[i]
        /\ \A i \in 0 .. row - 1 : media'.toc[i] = media.toc[i]
    BY <1>0, BreakCreate
  <2>3. \A i \in Slots : i > row' => media'.toc[i] = EmptyItem
    <3>1. \A i \in Slots : i > row => media.toc[i] = EmptyItem
      BY <1>0, <2>1 DEF Clean
    <3>2. \A i \in Slots : i > row => i # row
      BY <2>2, SlotOrder
    <3>. QED  BY <1>0, <2>2, <3>1, <3>2
  <2>4. ASSUME pc' = "create count", media'.sealed PROVE FALSE
    <3>1. pc = "create item" /\ media' = media
      BY <1>0, <2>1, <2>4, NoCollision
    <3>2. media.toc[row] = EmptyItem /\ media.toc[row] = item /\ item.name \in AppNames
      BY <1>0, <2>1, <2>4, <3>1 DEF Clean, Pieces
    <3>. QED  BY <3>2, AppNamesAreNames DEF EmptyItem
  <2>5. (\A i \in OpenSlots : Covers(i))'
    <3>1. \A i \in OpenSlots : Covers(i)
      BY <2>1 DEF Clean
    <3>2. Held = row /\ Held' = row
      BY <1>0 DEF Held
    <3>3. \A i \in Slots : i < Held => i < Held' /\ media'.toc[i] = media.toc[i]
      <4>1. \A i \in Slots : i < row => i # row
        BY <2>2, SlotOrder
      <4>. QED  BY <2>2, <3>2, <4>1
    <3>4. \A i \in OpenSlots' : i \in OpenSlots /\ fat'[i] = fat[i]
      BY <1>0, Zenon DEF OpenSlots
    <3>. QED  BY <1>0, <3>1, <3>3, <3>4, CoversKept
  <2>6. ASSUME pc' = "create open" PROVE Unused(media')
    <3>1. media'.cnt = row + 1 /\ row' = row
      BY <1>0, <2>6 DEF Pieces
    <3>2. \A i \in Slots \ Files(media') : i > row
      BY <2>2, <3>1, SlotOrder, Zenon DEF Files
    <3>. QED  BY <2>3, <3>1, <3>2 DEF Unused
  <2>. QED  BY <1>0, <2>3, <2>4, <2>5, <2>6 DEF Clean
<1>. QED  BY <1>1, <1>2

LEMMA CleanCreateOpen ==
  ASSUME PieceInv, Counts, Kept, Clean, CreateOpen
  PROVE  Clean'
<1>. USE DEF MkfsSteps, CreateSteps, Writing
<1>0. /\ pc = "create open" /\ OpenOn("create", media, item.name) /\ UNCHANGED media
      /\ UNCHANGED <<row, faulted, missed>>
      /\ PowerTypeOK /\ TypeOK /\ Pieces /\ row \in Slots
      /\ fat \in [Slots -> Handle]
      /\ media.cnt = row + 1 /\ media.toc[row] = item /\ item.name \in AppNames
  BY DEF CreateOpen, PieceInv, PowerTypeOK, TypeOK, Pieces
<1>1. /\ pc' \in {"ready", "halted"}
      /\ last'.ret = "file" => pc' = "ready" /\ todo' = todo \ {item.name}
  BY DEF CreateOpen
<1>2. CASE missed
  BY <1>0, <1>1, <1>2 DEF Clean
<1>3. CASE ~ missed
  <2>1. /\ FsckOk(media) /\ Unused(media) /\ Laid(media, media.cnt)
        /\ media \in Image /\ \A i \in OpenSlots : Covers(i)
    BY <1>0, <1>3, CleanServing DEF Serving
  <2>2. Held = row /\ Held' = media.cnt
    BY <1>0, <1>1 DEF Held
  <2>3. /\ \A i \in Slots : i < Held => i < Held' /\ media'.toc[i] = media.toc[i]
        /\ row < Held'
    BY <1>0, <2>2, SlotNext, Zenon
  <2>4. row \notin OpenSlots
    BY <1>0, <2>1, <2>2, SlotOrder, Zenon DEF Covers
  <2>5. ASSUME NEW id \in Slots, FoundAt(media, item.name, id) PROVE id = row
    <3>1. id \in Files(media)
      <4>1. media.toc[id] # EmptyItem
        <5>1. media.toc[id].name = item.name /\ EmptyItem.name = NoName
          BY <2>5 DEF FoundAt, EmptyItem
        <5>. QED  BY <1>0, <5>1, AppNamesAreNames
      <4>. QED  BY <2>1, <4>1 DEF Unused
    <3>2. Behind(media, row, item)
      <4>1. row \in 0 .. media.cnt - 1
        BY <1>0, SlotSucc, SlotIntervals
      <4>. QED  BY <1>0, <2>1, <4>1 DEF Laid
    <3>3. id \in 0 .. row - 1 \/ id = row
      <4>1. id \in 0 .. row
        BY <1>0, <3>1, SlotSucc, Zenon DEF Files
      <4>. QED  BY <1>0, <4>1, SlotIntervals
    <3>. QED  BY <2>5, <3>2, <3>3 DEF Behind, FoundAt
  <2>6. \A id \in Slots : FoundAt(media, item.name, id) => ~ fat[id].mtd
    BY <2>4, <2>5 DEF OpenSlots
  <2>7. PICK id \in Slots : /\ FoundAt(media, item.name, id)
                            /\ fat' = [fat EXCEPT ![id] = Opened(@, media.toc[id])]
                            /\ last'.ret = "file"
    <3>1. ~ Absent(media, item.name)
      BY <1>0 DEF Absent
    <3>. QED  BY <1>0, <2>6, <3>1, OpensFile, Zenon
  <2>8. id = row /\ pc' = "ready" /\ todo' = todo \ {media.toc[id].name}
    BY <1>0, <1>1, <2>5, <2>7
  <2>9. (\A i \in OpenSlots : Covers(i))'
    <3>1. /\ TypeOK /\ id \in Slots /\ UNCHANGED media /\ id < Held'
          /\ fat' = [fat EXCEPT ![id] = Opened(@, media.toc[id])]
          /\ \A i \in OpenSlots : Covers(i)
          /\ \A i \in Slots : i < Held => i < Held'
          /\ todo' = todo \ {media.toc[id].name}
      BY <1>0, <2>1, <2>3, <2>7, <2>8, Zenon
    <3>. QED  BY <3>1, CoversAfterOpen, Zenon
  <2>. QED  BY <1>0, <2>1, <2>8, <2>9 DEF Clean
<1>. QED  BY <1>2, <1>3

LEMMA CleanClose ==
  ASSUME PieceInv, Clean, NEW i \in Slots, CloseFile(i)
  PROVE  Clean'
<1>. USE DEF MkfsSteps, CreateSteps, Writing
<1>0. /\ pc = "ready" /\ pc' = "ready" /\ Close(i) /\ TypeOK
      /\ UNCHANGED <<row, item, todo, faulted, missed>>
  BY DEF CloseFile, Goto, PieceInv, PowerTypeOK
<1>1. UNCHANGED media /\ \/ UNCHANGED fat
                         \/ fat' = [fat EXCEPT ![i] = Closed]
  BY <1>0, Zenon DEF Close, Nothing, Halt, ram
<1>2. \A j \in OpenSlots' : j \in OpenSlots /\ fat'[j] = fat[j]
  <2>1. CASE UNCHANGED fat
    BY <2>1, Zenon DEF OpenSlots
  <2>2. CASE fat' = [fat EXCEPT ![i] = Closed]
    BY <1>0, <2>2 DEF OpenSlots, Closed, TypeOK
  <2>. QED  BY <1>1, <2>1, <2>2
<1>3. CASE ~ missed
  <2>1. \A j \in OpenSlots : Covers(j)
    BY <1>3 DEF Clean
  <2>2. Held = media.cnt /\ Held' = media.cnt
    BY <1>0, <1>1 DEF Held
  <2>3. (\A j \in OpenSlots : Covers(j))'
    BY <1>0, <1>1, <1>2, <2>1, <2>2, CoversKept
  <2>. QED  BY <1>0, <1>1, <2>3 DEF Clean
<1>. QED  BY <1>0, <1>3 DEF Clean

(* A handle keeps to the entries that were complete before the step that   *)
(* was interrupted.                                                        *)
LEMMA BreakHeld ==
  ASSUME PieceInv, pc \notin MkfsSteps, media' \in Interrupted,
         pc' \in {"remount", "halted"}, UNCHANGED row
  PROVE  \A i \in Slots : i < Held => i < Held' /\ media'.toc[i] = media.toc[i]
<1>. USE DEF MkfsSteps, CreateSteps, Writing
<1>0. PowerTypeOK /\ Pieces /\ row \in Slots
  BY DEF PieceInv, PowerTypeOK
<1>1. Held' = media'.cnt
  BY DEF Held
<1>2. \A i \in Slots : i < row => i < row + 1
  BY <1>0, SlotNext
<1>3. CASE pc \in CreateSteps
  <2>1. /\ \A i \in Slots \ {row} : media'.toc[i] = media.toc[i]
        /\ media'.cnt \in {row, row + 1}
    BY <1>3, BreakCreate
  <2>2. Held = row
    BY <1>3 DEF Held
  <2>3. \A i \in Slots : i < row => i # row
    BY <1>0, SlotOrder, Zenon
  <2>. QED  BY <1>1, <1>2, <2>1, <2>2, <2>3
<1>4. CASE pc \notin CreateSteps
  <2>1. media' = media
    BY <1>0, <1>4, InterruptedFields
  <2>2. Held = media.cnt \/ (Held = row /\ media.cnt = row + 1)
    BY <1>0, <1>4 DEF Held, Pieces
  <2>. QED  BY <1>1, <1>2, <2>1, <2>2
<1>. QED  BY <1>3, <1>4

LEMMA CleanFault ==
  ASSUME PieceInv, Counts, Clean, Fault
  PROVE  Clean'
<1>. USE DEF MkfsSteps, CreateSteps, Writing
<1>0. /\ Break /\ media' \in Interrupted /\ missed' = (missed \/ Collides)
      /\ pc' \in {"remount", "halted"} /\ faulted' = TRUE
      /\ UNCHANGED fat /\ UNCHANGED <<row, item, todo>>
  BY DEF Fault, Break, FaultOutcome, ram
<1>1. OpenSlots' = OpenSlots
  BY <1>0, Zenon DEF OpenSlots
<1>2. ASSUME ~ missed' PROVE (\A i \in OpenSlots : Covers(i))'
  <2>1. CASE pc \in MkfsSteps
    <3>1. OpenSlots' = {}
      BY <1>1, <2>1, NoHandleAtStart DEF Starting
    <3>. QED  BY <3>1
  <2>2. CASE pc \notin MkfsSteps
    <3>1. \A i \in OpenSlots : Covers(i)
      BY <1>0, <1>2 DEF Clean
    <3>2. \A i \in Slots : i < Held => i < Held' /\ media'.toc[i] = media.toc[i]
      BY <1>0, <2>2, BreakHeld
    <3>. QED  BY <1>0, <1>1, <3>1, <3>2, CoversKept
  <2>. QED  BY <2>1, <2>2
<1>3. ~ missed' /\ FsckOk(media') => Unused(media')
  BY <1>0, BreakUnused
<1>. QED  BY <1>0, <1>2, <1>3 DEF Clean

LEMMA CleanPowerCut ==
  ASSUME PieceInv, Clean, PowerCut
  PROVE  Clean'
<1>0. Break /\ pc' = "mount" /\ fat' = [i \in Slots |-> Closed]
  BY DEF PowerCut
<1>1. OpenSlots' = {}
  BY <1>0, OpenSlotsAfterRestart
<1>2. ~ missed' /\ FsckOk(media') => Unused(media')
  BY <1>0, BreakUnused
<1>. QED  BY <1>0, <1>1, <1>2 DEF Clean, MkfsSteps, CreateSteps

LEMMA CleanStep ==
  ASSUME SmallDevice
  PROVE  PieceInv /\ Counts /\ Kept /\ Clean /\ [PowerNext]_pvars => Clean'
<1>. SUFFICES ASSUME PieceInv, Counts, Kept, Clean, [PowerNext]_pvars PROVE Clean'
  OBVIOUS
<1>1. CASE UNCHANGED pvars
  <2>1. /\ UNCHANGED media /\ UNCHANGED fat /\ UNCHANGED pc /\ UNCHANGED row
        /\ UNCHANGED item /\ UNCHANGED todo /\ UNCHANGED faulted /\ UNCHANGED missed
    BY <1>1 DEF pvars, vars
  <2>2. OpenSlots' = OpenSlots /\ Held' = Held
    BY <2>1, Zenon DEF OpenSlots, Held
  <2>3. (\A i \in OpenSlots : Covers(i))' <=> \A i \in OpenSlots : Covers(i)
    BY <2>1, <2>2, Zenon DEF Covers
  <2>. QED  BY <2>1, <2>2, <2>3 DEF Clean, Writing
<1>2. CASE PowerNext
  BY <1>2, CleanMount, CleanMkfs, CleanTryOpen, CleanTryCreate, CleanCreateStep,
     CleanCreateOpen, CleanClose, CleanFault, CleanPowerCut, Zenon
  DEF PowerNext, Step
<1>. QED  BY <1>1, <1>2

-----------------------------------------------------------------------------
(* The theorems.                                                           *)

LEMMA PowerInvariant ==
  ASSUME SmallDevice, FitsCounter
  PROVE  PowerSpec => []PowerInv
<1>1. PowerInit => PowerInv
  BY PieceInit, CountsInit, KeptInit, CleanInit DEF PowerInv
<1>2. PowerInv /\ [PowerNext]_pvars => PowerInv'
  BY PieceStep, CountsStep, KeptStep, CleanStep DEF PowerInv
<1>. QED  BY <1>1, <1>2, PTL DEF PowerSpec

(* The firmware reaches none of its checks unless a transfer failed since  *)
(* the last start or a checksum missed a half-written table: NvramInit()   *)
(* mounts what it formats, and the files of the firmware are opened or     *)
(* created at every start, whatever was interrupted before.                *)
THEOREM FirmwareKeepsRunning ==
  SmallDevice /\ FitsCounter => (PowerSpec => []HaltsOnlyOnFault)
<1>. SUFFICES ASSUME SmallDevice, FitsCounter PROVE PowerSpec => []HaltsOnlyOnFault
  OBVIOUS
<1>1. PowerInv => HaltsOnlyOnFault
  BY DEF PowerInv, Clean, HaltsOnlyOnFault
<1>. QED  BY <1>1, PowerInvariant, PTL

(* An open handle covers a file of the table after any interruption that   *)
(* no checksum missed.                                                     *)
THEOREM HandlesStayOnFiles ==
  SmallDevice /\ FitsCounter => (PowerSpec => []HandlesStored)
<1>. SUFFICES ASSUME SmallDevice, FitsCounter PROVE PowerSpec => []HandlesStored
  OBVIOUS
<1>1. PowerInv => HandlesStored
  <2>. SUFFICES ASSUME PowerInv, ~ missed, NEW i \in OpenSlots
                PROVE  /\ fat[i].tip <= fat[i].size
                       /\ i \in Files(media)
                       /\ fat[i].start = media.toc[i].start
                       /\ fat[i].size = media.toc[i].size
    BY DEF HandlesStored, HandleSafe
  <2>0. /\ PowerTypeOK /\ Pieces /\ Counts /\ Clean /\ i \in Slots /\ row \in Slots
        /\ fat[i] \in Handle /\ media \in Image /\ media.cnt \in Nat
    <3>1. /\ PowerTypeOK /\ Pieces /\ Counts /\ Clean /\ i \in Slots
          /\ row \in Slots /\ media \in Image /\ fat \in [Slots -> Handle]
      BY DEF PowerInv, PieceInv, PowerTypeOK, TypeOK, OpenSlots
    <3>. QED  BY <3>1, SizesAssumption DEF Image
  <2>1. Covers(i)
    BY <2>0 DEF Clean
  <2>2. i < media.cnt
    <3>1. Held = media.cnt \/ (Held = row /\ media.cnt \in {row, row + 1})
      BY <2>0 DEF Held, Pieces, CreateSteps
    <3>2. i \in Nat /\ row \in Nat
      BY <2>0, SlotsBelow
    <3>. QED  BY <2>0, <2>1, <3>1, <3>2 DEF Covers
  <2>3. i \in Files(media)
    BY <2>0, <2>2 DEF Files, Slots
  <2>4. fat[i].tip = 0
    BY <2>0 DEF Counts
  <2>5. fat[i].tip <= fat[i].size
    BY <2>0, <2>4, SizesAssumption DEF Handle, Bytes16
  <2>. QED  BY <2>1, <2>3, <2>5 DEF Covers
<1>. QED  BY <1>1, PowerInvariant, PTL

-----------------------------------------------------------------------------
(* What the store promises.                                                *)

Prefix(m, n) == {m.toc[i] : i \in 0 .. n - 1}

LEMMA PrefixSame ==
  ASSUME NEW m, NEW new, NEW n, \A i \in 0 .. n - 1 : new.toc[i] = m.toc[i]
  PROVE  Prefix(new, n) = Prefix(m, n)
  BY DEF Prefix

LEMMA PrefixNext ==
  ASSUME NEW m, NEW n \in Slots
  PROVE  Prefix(m, n + 1) = Prefix(m, n) \cup {m.toc[n]}
<1>1. 0 .. (n + 1) - 1 = (0 .. n - 1) \cup {n}
  BY SlotSucc, SlotIntervals
<1>. QED  BY <1>1, Zenon DEF Prefix

LEMMA PrefixNone == \A m : Prefix(m, 0) = {}
  BY EmptyRange DEF Prefix

(* The state of the store and its files, before and after a step.          *)
LEMMA StateCases ==
  /\ pc \in CreateSteps => StateOf = "adding" /\ StoredFiles = Prefix(media, row)
  /\ pc \in MkfsSteps => StateOf = "lost" /\ StoredFiles = {}
  /\ ~ Writing /\ FsckOk(media) => StateOf = "valid" /\ StoredFiles = Prefix(media, media.cnt)
  /\ ~ Writing /\ ~ FsckOk(media) => StateOf = "lost" /\ StoredFiles = {}
  BY DEF StateOf, StoredFiles, Prefix, Files, Writing, MkfsSteps, CreateSteps

LEMMA StateCasesNext ==
  /\ pc' \in CreateSteps => StateOf' = "adding" /\ StoredFiles' = Prefix(media', row')
  /\ pc' \in MkfsSteps => StateOf' = "lost" /\ StoredFiles' = {}
  /\ pc' \notin MkfsSteps \cup CreateSteps /\ FsckOk(media') =>
       StateOf' = "valid" /\ StoredFiles' = Prefix(media', media'.cnt)
  /\ pc' \notin MkfsSteps \cup CreateSteps /\ ~ FsckOk(media') =>
       StateOf' = "lost" /\ StoredFiles' = {}
  BY DEF StateOf, StoredFiles, Prefix, Files, MkfsSteps, CreateSteps

(* The file create() adds is apart from the others.                        *)
LEMMA NewFileApart ==
  ASSUME PieceInv, pc \in CreateSteps, Behind(media, row, item)
  PROVE  item \in Store!Extent /\ \A old \in Prefix(media, row) : Store!Apart(old, item)
<1>1. item \in TocItem /\ item.name \in AppNames
  BY DEF PieceInv, PowerTypeOK, Pieces
<1>2. item \in Store!Extent
  BY <1>1 DEF Store!Extent, TocItem
<1>3. ASSUME NEW i \in 0 .. row - 1 PROVE Store!Apart(media.toc[i], item)
  BY DEF Behind, End, Store!Apart, Store!Before
<1>. QED  BY <1>2, <1>3 DEF Prefix

LEMMA PromiseInit == PowerInit => Store!Init
<1>. SUFFICES ASSUME PowerInit PROVE Store!Init
  OBVIOUS
<1>1. ~ FsckOk(media) /\ ~ Writing
  BY ImagesAssumption DEF PowerInit, Init, FsckOk, Writing, MkfsSteps, CreateSteps
<1>. QED  BY <1>1, StateCases DEF Store!Init

(* A step of the firmware is a step of the store, or none.                 *)
StorePromised == Store!Next \/ (StateOf' = StateOf /\ StoredFiles' = StoredFiles)

(* A transfer that fails, or power that does, anywhere.                    *)
LEMMA PromiseBreak ==
  ASSUME NewBoard, PieceInv, Kept, Break, pc' \notin MkfsSteps \cup CreateSteps
  PROVE  StorePromised
<1>0. media' \in Interrupted /\ missed' = (missed \/ Collides) /\ PowerTypeOK /\ Trusted /\ Trusted'
  BY DEF Break, PieceInv, Trusted
<1>1. CASE ~ Writing
  <2>1. media' = media
    BY <1>0, <1>1, InterruptedFields
  <2>2. StateOf' = StateOf /\ StoredFiles' = StoredFiles
    BY <1>1, <2>1, StateCases, StateCasesNext, Zenon
  <2>. QED  BY <2>2 DEF StorePromised
<1>2. CASE pc \in MkfsSteps
  <2>1. CASE FsckOk(media')
    <3>1. media'.cnt = 0
      BY <1>0, <1>2, <2>1, BreakMkfs
    <3>2. /\ StateOf = "lost" /\ StateOf' = "valid"
          /\ StoredFiles = {} /\ StoredFiles' = {}
      BY <1>2, <2>1, <3>1, StateCases, StateCasesNext, PrefixNone, Zenon
    <3>. QED  BY <3>2 DEF StorePromised, Store!Next, Store!Format
  <2>2. CASE ~ FsckOk(media')
    BY <1>2, <2>2, StateCases, StateCasesNext DEF StorePromised
  <2>. QED  BY <2>1, <2>2
<1>3. CASE pc \in CreateSteps
  <2>1. Laid(media, row) /\ Behind(media, row, item)
    BY <1>0, <1>3 DEF Kept
  <2>2. /\ row \in Slots
        /\ \A i \in 0 .. row - 1 : media'.toc[i] = media.toc[i]
        /\ \/ media'.cnt = row
           \/ media'.cnt = row + 1 /\ media'.toc[row] = item
    BY <1>0, <1>3, BreakCreate
  <2>3. StateOf = "adding" /\ StoredFiles = Prefix(media, row)
    BY <1>3, StateCases
  <2>4. Prefix(media', row) = Prefix(media, row)
    BY <2>2, PrefixSame
  <2>5. CASE ~ FsckOk(media')
    BY <2>3, <2>5, StateCasesNext DEF StorePromised, Store!Next, Store!Lose
  <2>6. CASE FsckOk(media') /\ media'.cnt = row
    <3>1. StateOf' = "valid" /\ StoredFiles' = StoredFiles
      BY <2>3, <2>4, <2>6, StateCasesNext
    <3>. QED  BY <2>3, <3>1 DEF StorePromised, Store!Next, Store!Abandon
  <2>7. CASE FsckOk(media') /\ media'.cnt = row + 1 /\ media'.toc[row] = item
    <3>1. StateOf' = "valid" /\ StoredFiles' = Prefix(media', row + 1)
      BY <2>7, StateCasesNext
    <3>2. StoredFiles' = StoredFiles \cup {item}
      BY <2>2, <2>3, <2>4, <2>7, <3>1, PrefixNext
    <3>3. item \in Store!Extent /\ \A old \in StoredFiles : Store!Apart(old, item)
      BY <1>3, <2>1, <2>3, NewFileApart
    <3>. QED  BY <2>3, <3>1, <3>2, <3>3 DEF StorePromised, Store!Next, Store!Commit
  <2>. QED  BY <2>2, <2>5, <2>6, <2>7
<1>. QED  BY <1>1, <1>2, <1>3 DEF Writing

LEMMA PromiseCreateStep ==
  ASSUME NewBoard, PieceInv, Kept, PieceInv', Kept', CreateStep
  PROVE  StorePromised
<1>. USE DEF CreateSteps, MkfsSteps, Writing
<1>0. /\ pc \in CreateSteps /\ media' \in Interrupted /\ UNCHANGED row /\ UNCHANGED item
      /\ pc' \in {"create count", "create seal", "create open"} /\ Trusted /\ Trusted'
  <2>1. media' \in Completed
    BY DEF CreateStep, WritePiece
  <2>2. pc' \in {"create count", "create seal", "create open"}
    BY DEF CreateStep, Goto, Following
  <2>. QED  BY <2>1, <2>2 DEF CreateStep, Goto, Interrupted, Trusted
<1>1. /\ row \in Slots
      /\ \A i \in 0 .. row - 1 : media'.toc[i] = media.toc[i]
  BY <1>0, BreakCreate
<1>2. Prefix(media', row) = Prefix(media, row)
  BY <1>1, PrefixSame
<1>3. StateOf = "adding" /\ StoredFiles = Prefix(media, row)
  BY <1>0, StateCases
<1>4. CASE pc' \in {"create count", "create seal"}
  <2>1. StateOf' = StateOf /\ StoredFiles' = StoredFiles
    BY <1>0, <1>2, <1>3, <1>4, StateCasesNext
  <2>. QED  BY <2>1 DEF StorePromised
<1>5. CASE pc' = "create open"
  <2>1. FsckOk(media')
    BY <1>0, <1>5 DEF Kept, Serving
  <2>2. media'.cnt = row + 1 /\ media'.toc[row] = item
    BY <1>0, <1>5 DEF PieceInv, Pieces
  <2>3. StateOf' = "valid" /\ StoredFiles' = StoredFiles \cup {item}
    BY <1>1, <1>2, <1>3, <1>5, <2>1, <2>2, StateCasesNext, PrefixNext
  <2>4. item \in Store!Extent /\ \A old \in StoredFiles : Store!Apart(old, item)
    <3>1. Behind(media, row, item)
      BY <1>0 DEF Kept
    <3>. QED  BY <1>0, <1>3, <3>1, NewFileApart
  <2>. QED  BY <1>3, <2>3, <2>4 DEF StorePromised, Store!Next, Store!Commit
<1>. QED  BY <1>0, <1>4, <1>5

LEMMA PromiseStep ==
  ASSUME SmallDevice, NewBoard
  PROVE  PieceInv /\ Kept /\ [PowerNext]_pvars => StorePromised
<1>. SUFFICES ASSUME PieceInv, Kept, [PowerNext]_pvars PROVE StorePromised
  OBVIOUS
<1>. USE DEF CreateSteps, MkfsSteps, Writing
<1>0. /\ PieceInv' /\ Kept' /\ Trusted /\ Trusted'
      /\ PowerTypeOK /\ Pieces /\ Pieces' /\ media \in Image
  BY PieceStep, KeptStep DEF Trusted, PieceInv, PowerTypeOK, TypeOK
<1>1. ASSUME ~ Writing, (~ Writing)', media' = media PROVE StorePromised
  <2>1. StateOf' = StateOf /\ StoredFiles' = StoredFiles
    BY <1>1, StateCases, StateCasesNext
  <2>. QED  BY <2>1 DEF StorePromised
<1>2. CASE FirstMount \/ SecondMount
  <2>1. Idle /\ Mount /\ pc \in {"mount", "remount"} /\ pc' \in {"ready", "mkfs head", "halted"}
        /\ (pc' = "mkfs head" => last'.ret # "SUCCESS")
    BY <1>0, <1>2 DEF FirstMount, SecondMount, Goto, Pieces, Starting
  <2>2. UNCHANGED media /\ (last'.ret # "SUCCESS" => ~ FsckOk(media))
    BY <2>1, MountIdle, Zenon
  <2>3. CASE pc' = "mkfs head"
    BY <2>1, <2>2, <2>3, StateCases, StateCasesNext DEF StorePromised
  <2>. QED  BY <1>1, <2>1, <2>2, <2>3
<1>3. CASE MkfsHead \/ MkfsRow
  <2>1. pc \in MkfsSteps /\ pc' \in MkfsSteps
    BY <1>3 DEF MkfsHead, MkfsRow
  <2>. QED  BY <2>1, StateCases, StateCasesNext DEF StorePromised
<1>4. CASE MkfsSeal
  <2>1. pc = "mkfs seal" /\ pc' = "remount" /\ media' \in Completed
    BY <1>4 DEF MkfsSeal, Goto
  <2>2. media' \in Image /\ media'.magic /\ media'.cnt = 0 /\ media'.sealed
    BY <1>0, <2>1, CompletedFields DEF Pieces, SealSteps
  <2>3. FsckOk(media')
    BY <2>2, NoFilesPass
  <2>4. /\ StateOf = "lost" /\ StateOf' = "valid"
        /\ StoredFiles = {} /\ StoredFiles' = {}
    BY <2>1, <2>2, <2>3, StateCases, StateCasesNext, PrefixNone
  <2>. QED  BY <2>4 DEF StorePromised, Store!Next, Store!Format
<1>5. ASSUME NEW name \in AppNames, TryOpen(name) PROVE StorePromised
  <2>1. pc = "ready" /\ pc' \in {"ready", "missing"} /\ Open(name)
    BY <1>5 DEF TryOpen
  <2>2. UNCHANGED media
    BY <2>1, Zenon DEF Open, Halt, Nothing
  <2>. QED  BY <1>1, <2>1, <2>2
<1>6. CASE TryCreate
  <2>0. pc = "missing" /\ UNCHANGED media
    BY <1>6 DEF TryCreate, vars
  <2>1. CASE pc' = "halted"
    BY <1>1, <2>0, <2>1
  <2>2. CASE pc' = "create item" /\ row' = media.cnt
    <3>1. FsckOk(media)
      BY <1>0, <2>0 DEF Kept, Serving
    <3>2. StateOf = "valid" /\ StateOf' = "adding" /\ StoredFiles' = StoredFiles
      BY <2>0, <2>2, <3>1, StateCases, StateCasesNext
    <3>. QED  BY <3>2 DEF StorePromised, Store!Next, Store!BeginAdd
  <2>. QED  BY <1>6, <2>1, <2>2, Zenon DEF TryCreate
<1>7. CASE CreateStep
  BY <1>0, <1>7, PromiseCreateStep
<1>8. CASE CreateOpen
  <2>1. pc = "create open" /\ pc' \in {"ready", "halted"} /\ UNCHANGED media
    BY <1>8 DEF CreateOpen
  <2>. QED  BY <1>1, <2>1
<1>9. ASSUME NEW i \in Slots, CloseFile(i) PROVE StorePromised
  <2>1. pc = "ready" /\ pc' = "ready" /\ Close(i)
    BY <1>9 DEF CloseFile, Goto
  <2>2. UNCHANGED media
    BY <2>1, Zenon DEF Close, Halt, Nothing
  <2>. QED  BY <1>1, <2>1, <2>2
<1>10. CASE Fault \/ PowerCut
  <2>1. Break /\ pc' \in {"remount", "halted", "mount"}
    BY <1>10 DEF Fault, FaultOutcome, PowerCut
  <2>. QED  BY <2>1, PromiseBreak
<1>11. CASE UNCHANGED pvars
  <2>1. UNCHANGED media /\ UNCHANGED pc /\ UNCHANGED row
    BY <1>11 DEF pvars, vars
  <2>2. StateOf' = StateOf /\ StoredFiles' = StoredFiles
    BY <2>1, Zenon DEF StateOf, StoredFiles
  <2>. QED  BY <2>2 DEF StorePromised
<1>. QED
  BY <1>2, <1>3, <1>4, <1>5, <1>6, <1>7, <1>8, <1>9, <1>10, <1>11, Zenon DEF PowerNext, Step

(* The firmware keeps what the store promises: whatever is interrupted,    *)
(* the files whose creation ended stay where they are, apart from each     *)
(* other, and can only be lost together, while another one is created.     *)
THEOREM StoreKeepsPromise ==
  SmallDevice /\ NewBoard => (PowerSpec => KeepsPromise)
<1>. SUFFICES ASSUME SmallDevice, NewBoard PROVE PowerSpec => KeepsPromise
  OBVIOUS
<1>1. PowerInit => PieceInv /\ Kept /\ Store!Init
  BY PieceInit, KeptInit, PromiseInit
<1>2. PieceInv /\ Kept /\ [PowerNext]_pvars => (PieceInv /\ Kept)'
  BY PieceStep, KeptStep
<1>3. PieceInv /\ Kept /\ [PowerNext]_pvars => [Store!Next]_(Store!svars)
  BY PromiseStep DEF StorePromised, Store!svars
<1>. QED  BY <1>1, <1>2, <1>3, PTL DEF PowerSpec, KeepsPromise, Store!Spec
=============================================================================
