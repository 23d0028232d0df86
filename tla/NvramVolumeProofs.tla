--------------------------- MODULE NvramVolumeProofs ---------------------------
(***************************************************************************)
(* Theorems about NvramVolume, the file system with the bytes of its       *)
(* files, for every table, device, buffer and careful caller, checked by   *)
(* TLAPS.  The invariant is the one of NvramFsProofs for a careful caller: *)
(* a transfer moves the position of one handle inside its file and leaves  *)
(* the rest of it alone.  With it every call maps to a step of NvramFiles. *)
(***************************************************************************)
EXTENDS NvramVolume, NvramFsProofs

-----------------------------------------------------------------------------
(* The invariant.                                                          *)

VolumeInv ==
  /\ TypeOK /\ HandleCount /\ StoreInv /\ CarefulInv
  /\ data \in [Area -> Byte]

(* How many bytes a transfer is cut to.                                    *)
LEMMA Clamped ==
  ASSUME NEW h \in Handle, h.tip <= h.size, NEW n \in Nat
  PROVE  /\ ClampSize(h, n) \in Nat
         /\ ClampSize(h, n) <= n
         /\ h.tip + ClampSize(h, n) <= h.size
         /\ ClampSize(h, n) # 0 => h.tip < h.size
         /\ {0, ClampSize(h, n)} \subseteq 0 .. ClampSize(h, n)
<1>1. h.tip \in Nat /\ h.size \in Nat
  BY SizesAssumption DEF Handle, Bytes16
<1>2. /\ ClampSize(h, n) \in Nat
      /\ ClampSize(h, n) <= n
      /\ h.tip + ClampSize(h, n) <= h.size
  BY <1>1 DEF ClampSize
<1>. QED  BY <1>1, <1>2

LEMMA OpenHandle ==
  ASSUME TypeOK, StoreInv, NEW i \in Slots, fat[i].mtd
  PROVE  fat[i] \in Handle /\ fat[i].tip <= fat[i].size
  BY DEF TypeOK, StoreInv, Handles, HandleOn

(* A transfer moves one position, inside the file.                         *)
LEMMA AdvanceKeepsInv ==
  ASSUME TypeOK, HandleCount, StoreInv, CarefulInv, NEW i \in Slots, fat[i].mtd,
         NEW call \in {"read", "write"}, NEW n \in Nat,
         NEW done \in 0 .. ClampSize(fat[i], n), Advance(call, i, done)
  PROVE  TypeOK' /\ HandleCount' /\ StoreInv' /\ CarefulInv'
<1>. DEFINE tip == (fat[i].tip + done) % U16
<1>1. fat[i] \in Handle /\ fat[i].tip <= fat[i].size /\ fat \in [Slots -> Handle]
  BY OpenHandle DEF TypeOK
<1>2. tip \in 0 .. fat[i].size
  BY <1>1, ClampedAdvance
<1>3. /\ fat' = [fat EXCEPT ![i].tip = tip]
      /\ Returns(call, "SUCCESS")
      /\ UNCHANGED <<media, files_opened, super_open>>
  BY DEF Advance
<1>4. tip \in Bytes16
  BY <1>1, <1>2, SizesAssumption DEF Handle, Bytes16
<1>. HIDE DEF tip
<1>5. TypeOK'
  <2>1. fat' \in [Slots -> Handle]
    BY <1>1, <1>3, <1>4 DEF Handle
  <2>2. last' \in [call: Calls, ret: Outcomes]
    <3>1. call \in Calls /\ "SUCCESS" \in Outcomes
      BY DEF Calls, Outcomes
    <3>. QED  BY <1>3, <3>1, ReturnsType
  <2>. QED  BY <1>3, <2>1, <2>2, Zenon DEF TypeOK
<1>6. OpenSlots' = OpenSlots
  BY <1>1, <1>3, OpenSlotsAfterMove
<1>7. HandleCount'
  BY <1>3, <1>6, CountKept, Zenon
<1>8. StoreInv'
  <2>1. Handles(media, fat')
    BY <1>1, <1>2, <1>3, HandlesAfterMove DEF StoreInv
  <2>2. Mounted' = Mounted
    BY <1>3 DEF Mounted
  <2>. QED  BY <1>3, <2>1, <2>2, Zenon DEF StoreInv, Used
<1>9. CarefulInv'
  BY <1>3, <1>6, CarefulKept, Zenon
<1>. QED  BY <1>5, <1>7, <1>8, <1>9

LEMMA HaltKeepsInv ==
  ASSUME TypeOK, HandleCount, StoreInv, CarefulInv, NEW call \in Calls, Halt(call)
  PROVE  TypeOK' /\ HandleCount' /\ StoreInv' /\ CarefulInv'
<1>1. Nothing(call, "HALT") /\ "HALT" \in Outcomes
  BY DEF Halt, Outcomes
<1>. QED  BY <1>1, NothingType, CountAfterNothing, StoreAfterNothing, CarefulAfterNothing

LEMMA PutType ==
  ASSUME data \in [Area -> Byte], NEW buf \in Buffers, NEW n \in 0 .. buf.len, NEW a \in Int
  PROVE  Put(a, buf, n) \in [Area -> Byte]
<1>1. buf.len \in Nat /\ buf.data \in [0 .. buf.len - 1 -> Byte]
  BY BuffersAssumption
<1>2. ASSUME NEW x \in Area, x - a \in 0 .. n - 1 PROVE buf.data[x - a] \in Byte
  <2>1. x - a \in 0 .. buf.len - 1
    BY <1>1, <1>2
  <2>. QED  BY <1>1, <2>1
<1>. QED  BY <1>2 DEF Put

LEMMA TransferKeepsInv ==
  ASSUME VolumeInv, Transfers
  PROVE  VolumeInv' /\ UNCHANGED media
<1>0. TypeOK /\ HandleCount /\ StoreInv /\ CarefulInv /\ data \in [Area -> Byte]
  BY DEF VolumeInv
<1>1. ASSUME NEW i \in Slots, NEW buf \in Buffers, FileWrite(i, buf)
      PROVE  VolumeInv' /\ UNCHANGED media
  <2>1. CASE Halt("write") /\ UNCHANGED data
    <3>1. "write" \in Calls
      BY DEF Calls
    <3>2. UNCHANGED media
      BY <2>1, Zenon DEF Halt, Nothing
    <3>. QED  BY <1>0, <2>1, <3>1, <3>2, HaltKeepsInv DEF VolumeInv
  <2>2. CASE fat[i].mtd
    <3>1. fat[i] \in Handle /\ fat[i].tip <= fat[i].size /\ buf.len \in Nat
      BY <1>0, <2>2, OpenHandle, BuffersAssumption
    <3>2. PICK done \in 0 .. ClampSize(fat[i], buf.len), put \in 0 .. ClampSize(fat[i], buf.len) :
            Advance("write", i, done) /\ data' = Put(Address(fat[i]), buf, put)
      BY <1>1, <2>2 DEF FileWrite
    <3>3. put \in 0 .. buf.len /\ Address(fat[i]) \in Int
      BY <3>1, Clamped, SizesAssumption DEF Address, Handle, Bytes16
    <3>4. data' \in [Area -> Byte]
      BY <1>0, <3>2, <3>3, PutType
    <3>5. TypeOK' /\ HandleCount' /\ StoreInv' /\ CarefulInv'
      BY <1>0, <2>2, <3>1, <3>2, AdvanceKeepsInv
    <3>. QED  BY <3>2, <3>4, <3>5 DEF VolumeInv, Advance
  <2>. QED  BY <1>1, <2>1, <2>2, Zenon DEF FileWrite
<1>2. ASSUME NEW i \in Slots, NEW n \in Lengths, FileRead(i, n)
      PROVE  VolumeInv' /\ UNCHANGED media
  <2>1. CASE Halt("read") /\ UNCHANGED data
    <3>1. "read" \in Calls
      BY DEF Calls
    <3>2. UNCHANGED media
      BY <2>1, Zenon DEF Halt, Nothing
    <3>. QED  BY <1>0, <2>1, <3>1, <3>2, HaltKeepsInv DEF VolumeInv
  <2>2. CASE fat[i].mtd
    <3>1. fat[i] \in Handle /\ fat[i].tip <= fat[i].size /\ n \in Nat
      BY <1>0, <2>2, OpenHandle, BuffersAssumption
    <3>2. PICK done \in {0, ClampSize(fat[i], n)} : Advance("read", i, done)
      BY <1>2, <2>2 DEF FileRead
    <3>3. done \in 0 .. ClampSize(fat[i], n)
      BY <3>1, <3>2, Clamped
    <3>5. TypeOK' /\ HandleCount' /\ StoreInv' /\ CarefulInv'
      BY <1>0, <2>2, <3>1, <3>2, <3>3, AdvanceKeepsInv
    <3>. QED  BY <1>0, <1>2, <3>2, <3>5 DEF VolumeInv, Advance, FileRead
  <2>. QED  BY <1>2, <2>1, <2>2, Zenon DEF FileRead
<1>. QED  BY <1>1, <1>2 DEF Transfers

(* The other calls are those of the careful caller of NvramFs.             *)
LEMMA QuietIsCareful ==
  ASSUME CarefulVolumeNext, ~ Transfers
  PROVE  CarefulNext /\ Quiet
<1>1. OtherFileCalls => FileCalls
  BY Zenon DEF OtherFileCalls, FileCalls
<1>. QED  BY <1>1, Zenon DEF CarefulVolumeNext, CarefulNext

LEMMA VolumeInvInit == VolumeInit => VolumeInv
  BY TypeInit, CountInit, StoreInit, CarefulInit DEF VolumeInit, VolumeInv

LEMMA VolumeInvStep ==
  ASSUME SmallDevice, FitsCounter
  PROVE  VolumeInv /\ [CarefulVolumeNext]_vvars => VolumeInv'
<1>. SUFFICES ASSUME VolumeInv, [CarefulVolumeNext]_vvars PROVE VolumeInv'
  OBVIOUS
<1>1. CASE Transfers
  BY <1>1, TransferKeepsInv
<1>2. CASE [CarefulNext]_vars /\ UNCHANGED data
  <2>1. TypeOK' /\ HandleCount' /\ StoreInv' /\ CarefulInv'
    BY <1>2, CarefulImplements, TypeStep, CountStep, StoreStep, CarefulStep DEF VolumeInv
  <2>. QED  BY <1>2, <2>1 DEF VolumeInv
<1>3. UNCHANGED vvars => UNCHANGED vars /\ UNCHANGED data
  BY DEF vvars
<1>. QED  BY <1>1, <1>2, <1>3, QuietIsCareful DEF Quiet

LEMMA VolumeInvariant ==
  ASSUME SmallDevice, FitsCounter
  PROVE  CarefulVolumeSpec => []VolumeInv
  BY VolumeInvInit, VolumeInvStep, PTL DEF CarefulVolumeSpec

(* A create() that stored its file returned a handle, whatever was         *)
(* transferred before.                                                     *)
THEOREM VolumeCreateIsAtomic == SmallDevice /\ FitsCounter => (CarefulVolumeSpec => CreateAtomic)
<1>. SUFFICES ASSUME SmallDevice, FitsCounter PROVE CarefulVolumeSpec => CreateAtomic
  OBVIOUS
<1>. DEFINE Step == Mounted /\ media' # media =>
                      /\ last'.ret = "file"
                      /\ \E i \in Slots : OpenSlots' = OpenSlots \cup {i} /\ i \notin OpenSlots
<1>1. VolumeInv /\ [CarefulVolumeNext]_vvars => [Step]_vars
  <2>. SUFFICES ASSUME VolumeInv, [CarefulVolumeNext]_vvars, Mounted, media' # media
                PROVE  /\ last'.ret = "file"
                       /\ \E i \in Slots : OpenSlots' = OpenSlots \cup {i} /\ i \notin OpenSlots
    OBVIOUS
  <2>1. CarefulVolumeNext /\ ~ Transfers
    BY TransferKeepsInv DEF vvars, vars
  <2>. QED  BY <2>1, QuietIsCareful, CreateReturnsHandle DEF VolumeInv
<1>. QED  BY <1>1, VolumeInvariant, PTL DEF CarefulVolumeSpec, CreateAtomic

-----------------------------------------------------------------------------
(* The files of NvramFiles.                                                *)

BytesOf(d, e) == [x \in 0 .. e.size - 1 |-> d[e.start + x]]

NamesOf(m) == {m.toc[i].name : i \in Files(m)}

Slot(m, name) == CHOOSE i \in Files(m) : m.toc[i].name = name

FileMap(m, d) == [name \in NamesOf(m) |-> BytesOf(d, m.toc[Slot(m, name)])]

LEMMA FilesNowIs ==
  /\ Used => FilesNow = FileMap(media, data)
  /\ Used' => FilesNow' = FileMap(media', data')
  BY DEF FilesNow, StoredNames, SlotOf, Bytes, FileMap, NamesOf, Slot, BytesOf

LEMMA FirstNumbers ==
  ASSUME NEW n \in Nat, 0 .. n - 1 # {}
  PROVE  Cardinality(0 .. n - 1) = n
<1>1. PICK m \in Nat : m = n - 1
  OBVIOUS
<1>2. Cardinality(0 .. m) = m + 1
  BY FS_Interval
<1>. QED  BY <1>1, <1>2

(* A table whose files are byte arrays of their own.                       *)
Good(m) == m \in Image /\ Formatted(m) /\ Sound(m)

LEMMA GoodFile ==
  ASSUME NEW m, Good(m), NEW i \in Files(m)
  PROVE  /\ i \in Slots /\ m.toc[i] \in TocItem
         /\ SuperSize <= m.toc[i].start /\ End(m.toc[i]) <= Capacity
<1>1. i \in Slots
  BY SizesAssumption DEF Good, Files, Formatted, Image, Slots
<1>. QED  BY <1>1, SizesAssumption DEF Good, Sound, Layout, Image, TocItem, Bytes16

LEMMA GoodPair ==
  ASSUME NEW m, Good(m), NEW i \in Files(m), NEW j \in Files(m), i # j
  PROVE  /\ m.toc[i].name # m.toc[j].name
         /\ End(m.toc[i]) <= m.toc[j].start \/ End(m.toc[j]) <= m.toc[i].start
<1>0. i \in Slots /\ j \in Slots
  BY GoodFile
<1>1. i < j \/ j < i
  BY <1>0 DEF Slots
<1>2. ASSUME NEW k \in Files(m), NEW l \in Files(m), k < l
      PROVE  m.toc[k].name # m.toc[l].name /\ End(m.toc[k]) <= m.toc[l].start
  <2>1. k \in 0 .. l - 1
    BY <1>2 DEF Files
  <2>2. FoundAt(m, m.toc[l].name, l)
    BY DEF Good, Sound, Reachable
  <2>. QED  BY <1>2, <2>1, <2>2 DEF Good, Sound, Layout, FoundAt
<1>. QED  BY <1>1, <1>2

LEMMA SlotIs ==
  ASSUME NEW m, Good(m), NEW i \in Files(m)
  PROVE  Slot(m, m.toc[i].name) = i
<1>1. /\ Slot(m, m.toc[i].name) \in Files(m)
      /\ m.toc[Slot(m, m.toc[i].name)].name = m.toc[i].name
  BY DEF Slot
<1>. QED  BY <1>1, GoodPair

LEMMA FileMapAt ==
  ASSUME NEW m, NEW d, Good(m)
  PROVE  /\ FileMap(m, d) = [name \in NamesOf(m) |-> FileMap(m, d)[name]]
         /\ DOMAIN FileMap(m, d) = NamesOf(m)
         /\ \A i \in Files(m) : /\ m.toc[i].name \in NamesOf(m)
                                /\ FileMap(m, d)[m.toc[i].name] = BytesOf(d, m.toc[i])
         /\ \A name \in NamesOf(m) : \E i \in Files(m) : name = m.toc[i].name
<1>1. \A i \in Files(m) : m.toc[i].name \in NamesOf(m)
  BY DEF NamesOf
<1>2. ASSUME NEW i \in Files(m) PROVE FileMap(m, d)[m.toc[i].name] = BytesOf(d, m.toc[i])
  BY <1>1, SlotIs DEF FileMap
<1>. QED  BY <1>1, <1>2 DEF FileMap, NamesOf

(* The bytes of a file and the bytes a transfer puts.                      *)
LEMMA FileInArea ==
  ASSUME NEW e \in TocItem, SuperSize <= e.start, End(e) <= Capacity
  PROVE  /\ e.start \in Nat /\ e.size \in Nat
         /\ \A x \in 0 .. e.size - 1 : e.start + x \in Area
         /\ e.size \in 0 .. Capacity - SuperSize
  BY SizesAssumption DEF TocItem, Bytes16, End, Area

LEMMA PutInside ==
  ASSUME NEW e \in TocItem, SuperSize <= e.start, End(e) <= Capacity,
         NEW a, NEW n, NEW buf
  PROVE  \A x \in 0 .. e.size - 1 :
           BytesOf(Put(a, buf, n), e)[x] =
             IF (e.start + x) - a \in 0 .. n - 1 THEN buf.data[(e.start + x) - a]
             ELSE BytesOf(data, e)[x]
<1>1. ASSUME NEW x \in 0 .. e.size - 1 PROVE e.start + x \in Area
  BY FileInArea
<1>. QED  BY <1>1 DEF BytesOf, Put

LEMMA PutOutside ==
  ASSUME NEW f \in TocItem, SuperSize <= f.start, End(f) <= Capacity,
         NEW a \in Int, NEW n \in Nat, NEW buf,
         End(f) <= a \/ a + n <= f.start
  PROVE  BytesOf(Put(a, buf, n), f) = BytesOf(data, f)
<1>1. ASSUME NEW x \in 0 .. f.size - 1
      PROVE  /\ f.start + x \in Area
             /\ (f.start + x) - a \notin 0 .. n - 1
  BY FileInArea DEF End
<1>. QED  BY <1>1 DEF BytesOf, Put

-----------------------------------------------------------------------------
(* Every call is a step of NvramFiles.                                     *)

LEMMA NothingStored ==
  /\ ~ Used => FilesNow = <<>>
  /\ ~ Used' => FilesNow' = <<>>
  BY DEF FilesNow, StoredNames

LEMMA FilesSame ==
  ASSUME UNCHANGED media, UNCHANGED data
  PROVE  FilesNow' = FilesNow
  BY FilesNowIs, NothingStored DEF Used

LEMMA UsedIsGood ==
  ASSUME VolumeInv, Used
  PROVE  Good(media)
  BY DEF VolumeInv, StoreInv, TypeOK, Good

(* An open handle that has a byte left is on a stored file.                *)
LEMMA HandleFile ==
  ASSUME VolumeInv, NEW i \in Slots, fat[i].mtd, NEW n \in Nat, ClampSize(fat[i], n) # 0
  PROVE  /\ Used /\ Good(media) /\ i \in Files(media)
         /\ fat[i].start = media.toc[i].start
         /\ fat[i].size = media.toc[i].size
         /\ fat[i].tip \in 0 .. fat[i].size - 1
<1>1. /\ fat[i] \in Handle /\ fat[i].tip <= fat[i].size
      /\ HandleOn(media, fat[i], i)
  BY OpenHandle DEF VolumeInv, StoreInv, Handles
<1>2. fat[i].tip < fat[i].size
  BY <1>1, Clamped
<1>3. fat[i].tip \in 0 .. fat[i].size - 1 /\ fat[i].size # 0
  BY <1>1, <1>2, SizesAssumption DEF Handle, Bytes16
<1>4. i \in Files(media)
  BY DEF VolumeInv, CarefulInv, OpenOnlyStored, OpenSlots
<1>5. Mounted
  <2>1. OpenSlots # {}
    BY DEF OpenSlots
  <2>2. super_open = TRUE /\ HandleCount
    BY <2>1, Zenon DEF VolumeInv, HandleCount, TypeOK
  <2>3. files_opened = 1 + Cardinality(OpenSlots) /\ Cardinality(OpenSlots) \in 0 .. MaxFileCnt
    BY <2>2, OpenSlotsBound DEF HandleCount
  <2>. QED  BY <2>3, SizesAssumption DEF Mounted
<1>6. Used /\ Good(media)
  BY <1>5, ImagesAssumption, UsedIsGood DEF VolumeInv, StoreInv, Used
<1>. QED  BY <1>1, <1>3, <1>4, <1>6 DEF HandleOn

(* The bytes of a transfer, in the file at row i and in the other files.    *)
LEMMA WriteMaps ==
  ASSUME Used, Good(media), UNCHANGED media, NEW i \in Files(media),
         NEW e, e = media.toc[i], NEW at \in 0 .. e.size - 1, NEW a, a = at + e.start,
         NEW buf \in Buffers, NEW done \in 0 .. buf.len, NEW put \in done .. buf.len,
         at + put <= e.size, data' = Put(a, buf, put),
         transfer' = [op |-> "write", name |-> e.name, at |-> at, count |-> done]
  PROVE  Stored!Next
<1>. DEFINE old == FileMap(media, data)
            new == FileMap(media, data')
<1>1. FilesNow = old /\ FilesNow' = new
  BY FilesNowIs DEF Used
<1>2. /\ e \in TocItem /\ SuperSize <= e.start /\ End(e) <= Capacity
      /\ e.size \in Nat /\ e.start \in Nat /\ at \in Nat /\ put \in Nat
  <2>1. e \in TocItem /\ SuperSize <= e.start /\ End(e) <= Capacity
    BY GoodFile
  <2>2. buf.len \in Nat
    BY BuffersAssumption
  <2>3. e.size \in Nat /\ e.start \in Nat
    BY <2>1, FileInArea
  <2>. QED  BY <2>1, <2>2, <2>3
<1>3. /\ DOMAIN old = NamesOf(media) /\ DOMAIN new = NamesOf(media)
      /\ new = [name \in NamesOf(media) |-> new[name]]
      /\ e.name \in NamesOf(media)
      /\ old[e.name] = BytesOf(data, e) /\ new[e.name] = BytesOf(data', e)
      /\ DOMAIN old[e.name] = 0 .. e.size - 1
  BY FileMapAt DEF BytesOf
<1>4. new[e.name] = Stored!Put(old[e.name], at, buf, put)
  <2>1. BytesOf(data', e) =
          [x \in 0 .. e.size - 1 |->
             IF x - at \in 0 .. put - 1 THEN buf.data[x - at] ELSE BytesOf(data, e)[x]]
    <3>1. ASSUME NEW x \in 0 .. e.size - 1
          PROVE  BytesOf(data', e)[x] = IF x - at \in 0 .. put - 1 THEN buf.data[x - at]
                                        ELSE BytesOf(data, e)[x]
      <4>1. (e.start + x) - a = x - at
        BY <1>2
      <4>2. BytesOf(data', e)[x] = IF (e.start + x) - a \in 0 .. put - 1
                                   THEN buf.data[(e.start + x) - a] ELSE BytesOf(data, e)[x]
        BY <1>2, PutInside
      <4>. QED  BY <4>1, <4>2
    <3>2. BytesOf(data', e) = [x \in 0 .. e.size - 1 |-> BytesOf(data', e)[x]]
      BY DEF BytesOf
    <3>. QED  BY <3>1, <3>2
  <2>. QED  BY <1>3, <2>1 DEF Stored!Put
<1>5. ASSUME NEW name \in NamesOf(media), name # e.name PROVE new[name] = old[name]
  <2>1. PICK j \in Files(media) : name = media.toc[j].name
    BY FileMapAt
  <2>2. PICK f : f = media.toc[j]
    OBVIOUS
  <2>3. new[name] = BytesOf(data', f) /\ old[name] = BytesOf(data, f)
    BY <2>1, <2>2, FileMapAt
  <2>4. f \in TocItem /\ SuperSize <= f.start /\ End(f) <= Capacity
    BY <2>2, GoodFile
  <2>5. End(e) <= f.start \/ End(f) <= e.start
    BY <1>5, <2>1, <2>2, GoodPair
  <2>6. BytesOf(data', f) = BytesOf(data, f)
    <3>1. a \in Int /\ (End(f) <= a \/ a + put <= f.start)
      BY <1>2, <2>4, <2>5, FileInArea DEF End
    <3>. QED  BY <1>2, <2>4, <3>1, PutOutside
  <2>. QED  BY <2>3, <2>6
<1>. HIDE DEF old, new
<1>6. new = [old EXCEPT ![e.name] = Stored!Put(@, at, buf, put)]
  BY <1>3, <1>4, <1>5
<1>7. at .. at + put - 1 \subseteq DOMAIN old[e.name]
  BY <1>2, <1>3
<1>8. Stored!Write(e.name, at, buf)
  BY <1>1, <1>6, <1>7 DEF Stored!Write
<1>9. e.name \in DOMAIN FilesNow /\ at \in DOMAIN FilesNow[e.name]
  BY <1>1, <1>3
<1>. QED  BY <1>8, <1>9, Zenon DEF Stored!Next

LEMMA WriteServes ==
  ASSUME VolumeInv, NEW i \in Slots, NEW buf \in Buffers, FileWrite(i, buf)
  PROVE  Stored!Next
<1>0. data \in [Area -> Byte] /\ TypeOK /\ StoreInv
  BY DEF VolumeInv
<1>1. CASE ~ fat[i].mtd
  <2>1. transfer' = NoTransfer /\ UNCHANGED data /\ UNCHANGED media
    BY <1>1, Zenon DEF FileWrite, Halt, Nothing
  <2>. QED  BY <2>1, FilesSame DEF Stored!Next, Stored!Other, NoTransfer, Stored!NoTransfer
<1>2. CASE fat[i].mtd
  <2>. DEFINE room == ClampSize(fat[i], buf.len)
              at == fat[i].tip
  <2>1. PICK done \in 0 .. room, put \in 0 .. room :
          /\ done <= put
          /\ Advance("write", i, done)
          /\ data' = Put(Address(fat[i]), buf, put)
          /\ transfer' = IF room = 0 THEN NoTransfer
                         ELSE [op |-> "write", name |-> NameOf(i), at |-> at, count |-> done]
    BY <1>2 DEF FileWrite
  <2>2. UNCHANGED media
    BY <2>1 DEF Advance
  <2>3. /\ fat[i] \in Handle /\ at <= fat[i].size /\ buf.len \in Nat
        /\ room \in Nat /\ room <= buf.len /\ at + room <= fat[i].size
    BY <1>0, <1>2, OpenHandle, BuffersAssumption, Clamped
  <2>4. at \in Nat /\ Address(fat[i]) \in Int
    BY <2>3, SizesAssumption DEF Address, Handle, Bytes16
  <2>5. CASE room = 0
    <3>1. put = 0
      BY <2>1, <2>5
    <3>2. 0 .. put - 1 = {}
      BY <3>1
    <3>3. data' = data
      BY <1>0, <2>1, <3>2 DEF Put
    <3>. QED
      BY <2>1, <2>2, <2>5, <3>3, FilesSame DEF Stored!Next, Stored!Other, NoTransfer, Stored!NoTransfer
  <2>6. CASE room # 0
    <3>. DEFINE item == media.toc[i]
    <3>1. /\ Used /\ Good(media) /\ i \in Files(media)
          /\ fat[i].start = item.start /\ fat[i].size = item.size
          /\ at \in 0 .. item.size - 1
      BY <1>2, <2>3, <2>6, HandleFile
    <3>2. /\ item \in TocItem /\ SuperSize <= item.start /\ End(item) <= Capacity
          /\ item.size \in Nat
      BY <3>1, GoodFile, FileInArea
    <3>3. /\ done \in 0 .. buf.len /\ put \in done .. buf.len
          /\ put \in Nat /\ at + put <= item.size
      BY <2>1, <2>3, <2>4, <3>1, <3>2
    <3>4. PICK a : a = Address(fat[i]) /\ a = at + item.start
      BY <3>1 DEF Address
    <3>5. /\ data' = Put(a, buf, put)
          /\ transfer' = [op |-> "write", name |-> item.name, at |-> at, count |-> done]
      BY <2>1, <2>6, <3>4 DEF NameOf
    <3>. QED  BY <2>2, <3>1, <3>3, <3>4, <3>5, WriteMaps
  <2>. QED  BY <2>5, <2>6
<1>. QED  BY <1>1, <1>2

LEMMA ReadServes ==
  ASSUME VolumeInv, NEW i \in Slots, NEW n \in Lengths, FileRead(i, n)
  PROVE  Stored!Next
<1>0. TypeOK /\ StoreInv /\ UNCHANGED data
  BY DEF VolumeInv, FileRead
<1>1. CASE ~ fat[i].mtd
  <2>1. transfer' = NoTransfer /\ UNCHANGED media
    BY <1>1, Zenon DEF FileRead, Halt, Nothing
  <2>. QED  BY <1>0, <2>1, FilesSame DEF Stored!Next, Stored!Other, NoTransfer, Stored!NoTransfer
<1>2. CASE fat[i].mtd
  <2>. DEFINE at == fat[i].tip
  <2>1. PICK done \in {0, ClampSize(fat[i], n)} :
          /\ Advance("read", i, done)
          /\ transfer' = IF done = 0 THEN NoTransfer
               ELSE [op |-> "read", name |-> NameOf(i), at |-> at,
                     bytes |-> [x \in 0 .. done - 1 |-> data[Address(fat[i]) + x]]]
    BY <1>2 DEF FileRead
  <2>2. UNCHANGED media /\ FilesNow' = FilesNow
    BY <1>0, <2>1, FilesSame DEF Advance
  <2>3. CASE done = 0
    BY <2>1, <2>2, <2>3 DEF Stored!Next, Stored!Other, NoTransfer, Stored!NoTransfer
  <2>4. CASE done # 0
    <3>. DEFINE item == media.toc[i]
    <3>1. /\ done = ClampSize(fat[i], n) /\ done \in Nat \ {0}
          /\ fat[i] \in Handle /\ n \in Nat /\ at + done <= fat[i].size
      BY <1>0, <1>2, <2>1, <2>4, OpenHandle, BuffersAssumption, Clamped
    <3>2. /\ Used /\ Good(media) /\ i \in Files(media)
          /\ fat[i].start = item.start /\ fat[i].size = item.size
          /\ at \in 0 .. item.size - 1
      BY <1>2, <2>4, <3>1, HandleFile
    <3>3. item.size \in Nat /\ item.start \in Nat
      BY <3>2, GoodFile, FileInArea
    <3>4. FilesNow = FileMap(media, data)
      BY <3>2, FilesNowIs
    <3>5. /\ DOMAIN FilesNow = NamesOf(media)
          /\ item.name \in NamesOf(media)
          /\ FilesNow[item.name] = BytesOf(data, item)
          /\ DOMAIN FilesNow[item.name] = 0 .. item.size - 1
      BY <3>2, <3>4, FileMapAt DEF BytesOf
    <3>. DEFINE end == at + done - 1
    <3>6. at .. end \subseteq 0 .. item.size - 1 /\ end \in 0 .. item.size - 1 /\ at <= end
      BY <3>1, <3>2, <3>3
    <3>7. end - at = done - 1
      BY <3>1, <3>2, <3>3
    <3>8. [x \in 0 .. done - 1 |-> data[Address(fat[i]) + x]] =
            [x \in 0 .. done - 1 |-> FilesNow[item.name][at + x]]
      <4>1. ASSUME NEW x \in 0 .. done - 1
            PROVE  data[Address(fat[i]) + x] = FilesNow[item.name][at + x]
        <5>1. at + x \in 0 .. item.size - 1 /\ Address(fat[i]) + x = item.start + (at + x)
          BY <3>1, <3>2, <3>3 DEF Address
        <5>. QED  BY <3>5, <5>1 DEF BytesOf
      <4>. QED  BY <4>1
    <3>9. transfer' = [ op |-> "read", name |-> item.name, at |-> at,
                        bytes |-> [x \in 0 .. end - at |-> FilesNow[item.name][at + x]] ]
      BY <2>1, <2>4, <3>7, <3>8 DEF NameOf
    <3>11. /\ item.name \in DOMAIN FilesNow /\ at \in DOMAIN FilesNow[item.name]
           /\ end \in DOMAIN FilesNow[item.name]
      BY <3>2, <3>5, <3>6
    <3>. HIDE DEF item, at, end
    <3>10. Stored!Read(item.name, at, end)
      BY <2>2, <3>5, <3>6, <3>9 DEF Stored!Read
    <3>. QED  BY <3>6, <3>10, <3>11, Zenon DEF Stored!Next
  <2>. QED  BY <2>3, <2>4
<1>. QED  BY <1>1, <1>2

LEMMA OnlyMkfsFormats ==
  ASSUME ~ Mounted, [Next]_vars, media' # media
  PROVE  media' = Fresh
<1>. USE DEF Halt, Nothing
<1>1. ~ Fsck /\ ~ Mount /\ ~ Umount /\ ~ Restart
  BY Zenon DEF Fsck, Mount, Umount, Restart
<1>2. ASSUME NEW name \in Names, NEW size \in Numbers PROVE ~ Create(name, size)
  BY Zenon DEF Create
<1>3. ~ FileCalls
  BY Zenon DEF FileCalls, Close, SetPosition, Read, Write, Advance
<1>4. ASSUME NEW name \in Names PROVE ~ Open(name)
  BY Zenon DEF Open
<1>5. Next
  BY Zenon DEF vars
<1>6. Mkfs
  BY <1>1, <1>2, <1>3, <1>4, <1>5, Zenon DEF Next, FsCalls
<1>. QED  BY <1>6, Zenon DEF Mkfs

(* A new file takes the bytes that happen to be at its addresses, and the  *)
(* files that were there keep theirs.                                      *)
LEMMA CreateServes ==
  ASSUME SmallDevice, VolumeInv, Quiet,
         NEW name \in Names, NEW size \in Nat, ~ Refused(media, name, size),
         Mounted, media' = Created(media, name, size)
  PROVE  Stored!Next
<1>1. /\ media \in Image /\ Formatted(media) /\ Sound(media) /\ data \in [Area -> Byte]
      /\ media.cnt # MaxFileCnt /\ Absent(media, name)
  BY DEF VolumeInv, TypeOK, StoreInv, Refused
<1>2. PICK e : e = NewItem(media, name, size)
  OBVIOUS
<1>3. /\ Sound(media') /\ Formatted(media') /\ media' \in Image
      /\ media.cnt \notin Files(media)
      /\ Files(media') = Files(media) \cup {media.cnt}
      /\ media'.toc[media.cnt] = e
      /\ \A i \in Files(media) : media'.toc[i] = media.toc[i]
  <2>. DEFINE new == Created(media, name, size)
  <2>1. /\ Sound(new)
        /\ media.cnt \notin Files(media)
        /\ Files(new) = Files(media) \cup {media.cnt}
        /\ new.toc[media.cnt] = e
        /\ \A i \in Files(media) : new.toc[i] = media.toc[i]
    BY <1>1, <1>2, SoundAfterCreate
  <2>2. Formatted(new) /\ new \in Image
    BY <1>1, CreatedFields, CreatedType
  <2>. HIDE DEF new
  <2>3. media' = new
    BY DEF new
  <2>. QED  BY <2>1, <2>2, <2>3
<1>4. Used /\ Used' /\ Good(media) /\ Good(media')
  BY <1>1, <1>3, ImagesAssumption DEF Used, Good
<1>. DEFINE old == FileMap(media, data)
            new == FileMap(media', data)
<1>5. FilesNow = old /\ FilesNow' = new
  BY <1>4, FilesNowIs DEF Quiet
<1>6. e.name = name
  BY <1>2 DEF NewItem
<1>7. /\ DOMAIN old = NamesOf(media)
      /\ new = [x \in NamesOf(media') |-> new[x]]
      /\ new[name] = BytesOf(data, e)
  BY <1>3, <1>4, <1>6, FileMapAt
<1>8. NamesOf(media') = NamesOf(media) \cup {name}
  BY <1>3, <1>6 DEF NamesOf
<1>9. name \notin NamesOf(media)
  BY <1>1, <1>4, GoodFile DEF NamesOf, Absent
<1>10. ASSUME NEW x \in NamesOf(media) PROVE new[x] = old[x]
  <2>1. PICK i \in Files(media) : x = media.toc[i].name
    BY <1>4, FileMapAt
  <2>2. old[x] = BytesOf(data, media.toc[i])
    BY <1>4, <2>1, FileMapAt
  <2>3. i \in Files(media') /\ media'.toc[i] = media.toc[i]
    BY <1>3
  <2>4. new[x] = BytesOf(data, media.toc[i])
    BY <1>4, <2>1, <2>3, FileMapAt
  <2>. QED  BY <2>2, <2>4
<1>11. BytesOf(data, e) \in ByteArrays
  <2>1. e \in TocItem /\ SuperSize <= e.start /\ End(e) <= Capacity
    BY <1>3, <1>4, GoodFile
  <2>2. /\ \A x \in 0 .. e.size - 1 : e.start + x \in Area
        /\ e.size \in 0 .. Capacity - SuperSize
    BY <2>1, FileInArea
  <2>3. BytesOf(data, e) \in [0 .. e.size - 1 -> Byte]
    BY <1>1, <2>2 DEF BytesOf
  <2>. QED  BY <2>2, <2>3 DEF ByteArrays
<1>. HIDE DEF old, new
<1>12. PICK c \in ByteArrays : c = new[name]
  BY <1>7, <1>11
<1>13. new = [x \in DOMAIN old \cup {name} |-> IF x = name THEN c ELSE old[x]]
  BY <1>7, <1>8, <1>9, <1>10, <1>12
<1>14. Stored!Create(name)
  BY <1>5, <1>7, <1>9, <1>12, <1>13 DEF Stored!Create, Quiet, NoTransfer, Stored!NoTransfer
<1>. QED  BY <1>14, Zenon DEF Stored!Next

LEMMA QuietServes ==
  ASSUME SmallDevice, VolumeInv, CarefulNext, Quiet
  PROVE  Stored!Next
<1>0. transfer' = NoTransfer /\ data' = data /\ [Next]_vars
  BY CarefulImplements DEF Quiet
<1>1. CASE media' = media
  BY <1>0, <1>1, FilesSame DEF Stored!Next, Stored!Other, NoTransfer, Stored!NoTransfer
<1>2. CASE media' # media /\ Mounted
  <2>1. PICK name \in Names, size \in Numbers : Create(name, size)
    BY <1>0, <1>2, OnlyCreateWrites
  <2>2. ~ Refused(media, name, size) /\ media' = Created(media, name, size)
    BY <1>2, <2>1, Zenon DEF Create, Created, Nothing, Halt
  <2>. QED  BY <1>2, <2>2, CreateServes, NumbersAssumption
<1>3. CASE media' # media /\ ~ Mounted
  <2>1. media' = Fresh
    BY <1>0, <1>3, OnlyMkfsFormats
  <2>2. Used'
    BY <2>1, FreshImage, ImagesAssumption DEF Used
  <2>3. NamesOf(media') = {}
    BY <2>1 DEF NamesOf, Files, Fresh
  <2>4. FilesNow' = FileMap(media', data')
    BY <2>2, FilesNowIs
  <2>5. FilesNow' = <<>>
    BY <2>3, <2>4 DEF FileMap
  <2>. QED  BY <1>0, <2>5 DEF Stored!Next, Stored!Format, NoTransfer, Stored!NoTransfer
<1>. QED  BY <1>1, <1>2, <1>3

LEMMA StepServes ==
  ASSUME SmallDevice, VolumeInv, [CarefulVolumeNext]_vvars
  PROVE  Stored!Next \/ UNCHANGED <<FilesNow, transfer>>
<1>1. CASE Transfers
  BY <1>1, WriteServes, ReadServes DEF Transfers
<1>2. CASE CarefulVolumeNext /\ ~ Transfers
  BY <1>2, QuietIsCareful, QuietServes
<1>3. CASE UNCHANGED vvars
  BY <1>3, FilesSame DEF vvars, vars
<1>. QED  BY <1>1, <1>2, <1>3

(* Whatever a careful application calls, in whatever order, with transfers *)
(* that break off anywhere and restarts in between: the files are byte     *)
(* arrays of their own, as NvramFiles states.                              *)
THEOREM FilesAreServed == SmallDevice /\ FitsCounter => (CarefulVolumeSpec => ServesFiles)
<1>. SUFFICES ASSUME SmallDevice, FitsCounter PROVE CarefulVolumeSpec => ServesFiles
  OBVIOUS
<1>1. VolumeInit => Stored!Init
  <2>1. VolumeInit => ~ Used /\ transfer = NoTransfer
    BY DEF VolumeInit, Init, Used
  <2>. QED  BY <2>1, NothingStored DEF Stored!Init, NoTransfer, Stored!NoTransfer
<1>2. VolumeInv /\ [CarefulVolumeNext]_vvars => [Stored!Next]_(Stored!avars)
  BY StepServes DEF Stored!avars
<1>. QED
  BY <1>1, <1>2, VolumeInvariant, PTL DEF CarefulVolumeSpec, ServesFiles, Stored!Spec
=============================================================================
