---------------------------- MODULE NvramFsProofs ----------------------------
(***************************************************************************)
(* Theorems about NvramFs for every table size, device size and set of     *)
(* names and sizes, checked by TLAPS.                                      *)
(***************************************************************************)
EXTENDS NvramFs, FiniteSetTheorems, TLAPS

-----------------------------------------------------------------------------
(* Lemmas about the superblock.                                            *)

(* An integer cut to an unsigned field fits the field.                     *)
LEMMA CutInRange ==
  ASSUME NEW w \in Nat \ {0}, NEW n \in Int
  PROVE  n % w \in 0 .. w - 1
  OBVIOUS

(* A value that fits its field is not changed by the cut.                  *)
LEMMA CutIsIdentity ==
  ASSUME NEW w \in Nat, NEW n \in 0 .. w - 1
  PROVE  n % w = n
  OBVIOUS

(* The first and the last entry of a table that is not full are slots.     *)
LEMMA NextSlot ==
  ASSUME NEW m \in Image, Formatted(m), m.cnt # MaxFileCnt
  PROVE  /\ m.cnt \in Slots
         /\ m.cnt # 0 => m.cnt - 1 \in Slots
  BY SizesAssumption DEF Image, Formatted, Slots

LEMMA NewItemType ==
  ASSUME NEW m \in Image, NEW name \in Names, NEW size \in Nat
  PROVE  m.cnt - 1 \in Slots \/ m.cnt = 0 => NewItem(m, name, size) \in TocItem
<1>. SUFFICES ASSUME m.cnt - 1 \in Slots \/ m.cnt = 0
              PROVE  NewItem(m, name, size) \in TocItem
  OBVIOUS
<1>0. U16 \in Nat \ {0} /\ SuperSize \in Bytes16
  BY SizesAssumption DEF Bytes16
<1>1. size % U16 \in Bytes16
  BY <1>0, CutInRange DEF Bytes16
<1>2. m.cnt # 0 => End(m.toc[m.cnt - 1]) % U16 \in Bytes16
  <2>. SUFFICES ASSUME m.cnt # 0 PROVE End(m.toc[m.cnt - 1]) % U16 \in Bytes16
    OBVIOUS
  <2>1. m.toc[m.cnt - 1] \in TocItem
    BY DEF Image
  <2>2. End(m.toc[m.cnt - 1]) \in Int
    BY <2>1, <1>0 DEF TocItem, End, Bytes16
  <2>. QED  BY <2>2, <1>0, CutInRange DEF Bytes16
<1>. QED  BY <1>0, <1>1, <1>2 DEF NewItem, TocItem

(* What a successful create() stores.                                      *)
Created(m, name, size) == Seal(WriteTocItem(m, NewItem(m, name, size), m.cnt))

LEMMA ImageUpdate ==
  ASSUME NEW m \in Image, NEW n \in 0 .. U8 - 1, NEW t \in [Slots -> TocItem],
         NEW b \in BOOLEAN
  PROVE  [m EXCEPT !.toc = t, !.cnt = n, !.sealed = b] \in Image
  BY DEF Image

LEMMA CreatedUpdate ==
  ASSUME NEW m \in Image, NEW name, NEW size
  PROVE  Created(m, name, size) =
           [m EXCEPT !.toc = [m.toc EXCEPT ![m.cnt] = NewItem(m, name, size)],
                     !.cnt = (m.cnt + 1) % U8, !.sealed = TRUE]
<1>. DEFINE item == NewItem(m, name, size)
<1>. HIDE DEF item
<1>1. Created(m, name, size) =
        [m EXCEPT !.toc = [m.toc EXCEPT ![m.cnt] = item],
                  !.cnt = (m.cnt + 1) % U8, !.sealed = TRUE]
  BY DEF Created, Seal, WriteTocItem, Image, item
<1>. QED  BY <1>1 DEF item

LEMMA CreatedType ==
  ASSUME NEW m \in Image, NEW name \in Names, NEW size \in Nat
  PROVE  Created(m, name, size) \in Image
<1>. DEFINE item == NewItem(m, name, size)
            t == [m.toc EXCEPT ![m.cnt] = item]
            n == (m.cnt + 1) % U8
<1>1. n \in 0 .. U8 - 1
  <2>1. m.cnt + 1 \in Int /\ U8 \in Nat \ {0}
    BY SizesAssumption DEF Image
  <2>. QED  BY <2>1, CutInRange
<1>2. t \in [Slots -> TocItem]
  <2>1. CASE m.cnt \in Slots
    <3>1. m.cnt = 0 \/ m.cnt - 1 \in Slots
      BY <2>1, SizesAssumption DEF Slots
    <3>2. item \in TocItem
      BY <3>1, NewItemType
    <3>. QED  BY <3>2 DEF Image
  <2>2. CASE m.cnt \notin Slots
    BY <2>2 DEF Image
  <2>. QED  BY <2>1, <2>2
<1>3. Created(m, name, size) = [m EXCEPT !.toc = t, !.cnt = n, !.sealed = TRUE]
  BY CreatedUpdate
<1>. HIDE DEF t, n
<1>4. [m EXCEPT !.toc = t, !.cnt = n, !.sealed = TRUE] \in Image
  BY <1>1, <1>2, ImageUpdate, Zenon
<1>. QED  BY <1>3, <1>4, Zenon

(* A successful create() appends one entry to the table and seals it.      *)
LEMMA CreatedFields ==
  ASSUME NEW m \in Image, Formatted(m), m.cnt # MaxFileCnt,
         NEW name \in Names, NEW size \in Nat
  PROVE  /\ NewItem(m, name, size) \in TocItem
         /\ Formatted(Created(m, name, size))
         /\ Created(m, name, size).cnt = m.cnt + 1
         /\ Created(m, name, size).toc = [m.toc EXCEPT ![m.cnt] = NewItem(m, name, size)]
<1>1. NewItem(m, name, size) \in TocItem
  BY NextSlot, NewItemType DEF Image
<1>2. (m.cnt + 1) % U8 = m.cnt + 1 /\ m.cnt + 1 \in 0 .. MaxFileCnt
  <2>1. m.cnt + 1 \in 0 .. MaxFileCnt /\ MaxFileCnt < U8 /\ U8 \in Nat /\ MaxFileCnt \in Nat
    BY NextSlot, SizesAssumption DEF Image, Formatted, Slots
  <2>. QED  BY <2>1, CutIsIdentity
<1>. DEFINE t == [m.toc EXCEPT ![m.cnt] = NewItem(m, name, size)]
            n == (m.cnt + 1) % U8
<1>3. Created(m, name, size) = [m EXCEPT !.toc = t, !.cnt = n, !.sealed = TRUE]
  BY CreatedUpdate
<1>4. n = m.cnt + 1 /\ n <= MaxFileCnt
  BY <1>2
<1>. HIDE DEF t, n
<1>5. /\ Created(m, name, size).cnt = n
      /\ Created(m, name, size).toc = t
      /\ Created(m, name, size).magic = m.magic
      /\ Created(m, name, size).sealed = TRUE
  BY <1>3 DEF Image
<1>. QED
  BY <1>1, <1>4, <1>5 DEF Formatted, t

-----------------------------------------------------------------------------
(* Types.                                                                  *)

LEMMA FreshImage == Fresh \in Image /\ Formatted(Fresh)
  BY SizesAssumption, NamesAssumption
  DEF Fresh, EmptyTable, EmptyItem, Image, TocItem, Bytes16, Formatted

LEMMA ClosedType == Closed \in Handle
  BY SizesAssumption DEF Closed, Handle, Bytes16

LEMMA OpenedType ==
  ASSUME NEW h \in Handle, NEW item \in TocItem
  PROVE  Opened(h, item) \in Handle
  BY DEF Opened, Handle, TocItem

LEMMA ReturnsType ==
  ASSUME NEW c \in Calls, NEW v \in Outcomes, Returns(c, v)
  PROVE  last' \in [call: Calls, ret: Outcomes]
  BY DEF Returns

LEMMA NothingType ==
  ASSUME TypeOK, NEW c \in Calls, NEW v \in Outcomes, Nothing(c, v)
  PROVE  TypeOK'
<1>1. last' \in [call: Calls, ret: Outcomes]
  BY ReturnsType DEF Nothing
<1>2. UNCHANGED media /\ UNCHANGED files_opened /\ UNCHANGED super_open /\ UNCHANGED fat
  BY Zenon DEF Nothing, ram
<1>. QED  BY <1>1, <1>2, Zenon DEF TypeOK

LEMMA CountTypes ==
  /\ 0 \in 0 .. U8 - 1 /\ 1 \in 0 .. U8 - 1
  /\ \A n \in 0 .. U8 - 1 : n > 1 => n - 1 \in 0 .. U8 - 1
  BY SizesAssumption

LEMMA TypeInit == Init => TypeOK
<1>. SUFFICES ASSUME Init PROVE TypeOK
  OBVIOUS
<1>1. media \in Image
  BY ImagesAssumption DEF Init
<1>2. files_opened \in 0 .. U8 - 1
  BY CountTypes, Zenon DEF Init, RamInit
<1>3. super_open \in BOOLEAN
  BY Zenon DEF Init, RamInit
<1>4. fat \in [Slots -> Handle]
  BY ClosedType DEF Init, RamInit
<1>5. last \in [call: Calls, ret: Outcomes]
  BY DEF Init, RamInit, Calls, Outcomes
<1>. QED  BY <1>1, <1>2, <1>3, <1>4, <1>5, Zenon DEF TypeOK

(* Opening a handle keeps the types, on whichever superblock the name is   *)
(* looked up.                                                              *)
LEMMA OpenOnType ==
  ASSUME TypeOK, NEW call \in Calls, NEW m \in Image, NEW name, OpenOn(call, m, name)
  PROVE  /\ files_opened' \in 0 .. U8 - 1
         /\ super_open' = super_open
         /\ fat' \in [Slots -> Handle]
         /\ last' \in [call: Calls, ret: Outcomes]
<1>0. "nullptr" \in Outcomes /\ "file" \in Outcomes
  BY DEF Outcomes
<1>1. last' \in [call: Calls, ret: Outcomes]
  BY <1>0, ReturnsType, Zenon DEF OpenOn
<1>2. CASE UNCHANGED ram
  BY <1>1, <1>2, Zenon DEF ram, TypeOK
<1>3. CASE ~ UNCHANGED ram
  <2>1. PICK id \in Slots :
          /\ fat' = [fat EXCEPT ![id] = Opened(@, m.toc[id])]
          /\ files_opened' = (files_opened + 1) % U8
          /\ super_open' = super_open
    BY <1>3, Zenon DEF OpenOn
  <2>2. Opened(fat[id], m.toc[id]) \in Handle
    BY OpenedType DEF TypeOK, Image
  <2>3. fat' \in [Slots -> Handle]
    BY <2>1, <2>2 DEF TypeOK
  <2>4. files_opened' \in 0 .. U8 - 1
    BY <2>1, CutInRange, SizesAssumption DEF TypeOK
  <2>. QED  BY <1>1, <2>1, <2>3, <2>4, Zenon
<1>. QED  BY <1>2, <1>3

LEMMA TypeStep == TypeOK /\ [Next]_vars => TypeOK'
<1>. SUFFICES ASSUME TypeOK, [Next]_vars PROVE TypeOK'
  OBVIOUS
<1>. USE DEF Halt
<1>0. Calls = Calls \cup {"power on", "fsck", "mkfs", "mount", "umount", "open", "create",
                          "close", "setPosition", "read", "write"}
      /\ Outcomes = Outcomes \cup {"SUCCESS", "FAILED", "nullptr", "file", "void", "HALT"}
  BY DEF Calls, Outcomes
<1>1. CASE Fsck
  <2>1. PICK v \in Outcomes : Nothing("fsck", v)
    BY <1>0, <1>1 DEF Fsck
  <2>. QED  BY <2>1, <1>0, NothingType
<1>2. CASE Mkfs
  <2>1. CASE Idle
    <3>1. last' \in [call: Calls, ret: Outcomes]
      BY <1>0, <1>2, <2>1, ReturnsType DEF Mkfs
    <3>2. media' \in Image
      BY <1>2, <2>1, FreshImage DEF Mkfs
    <3>. QED  BY <1>2, <2>1, <3>1, <3>2, Zenon DEF Mkfs, TypeOK, ram
  <2>2. CASE ~ Idle
    BY <1>0, <1>2, <2>2, NothingType DEF Mkfs
  <2>. QED  BY <2>1, <2>2
<1>3. CASE Mount
  <2>1. CASE Nothing("mount", "SUCCESS") \/ Nothing("mount", "HALT") \/ Nothing("mount", "FAILED")
    BY <1>0, <2>1, NothingType
  <2>2. CASE /\ super_open' = TRUE
             /\ files_opened' = 1
             /\ Returns("mount", "SUCCESS")
             /\ UNCHANGED <<media, fat>>
    <3>1. last' \in [call: Calls, ret: Outcomes]
      BY <1>0, <2>2, ReturnsType
    <3>. QED  BY <2>2, <3>1, CountTypes, Zenon DEF TypeOK
  <2>. QED  BY <1>3, <2>1, <2>2, Zenon DEF Mount
<1>4. CASE Umount
  <2>1. CASE files_opened > 1
    BY <1>0, <1>4, <2>1, NothingType DEF Umount
  <2>2. CASE ~ (files_opened > 1)
    <3>1. last' \in [call: Calls, ret: Outcomes]
      BY <1>0, <1>4, <2>2, ReturnsType DEF Umount
    <3>. QED  BY <1>4, <2>2, <3>1, CountTypes, Zenon DEF Umount, TypeOK
  <2>. QED  BY <2>1, <2>2
<1>5. ASSUME NEW name \in Names, Open(name) PROVE TypeOK'
  <2>1. CASE ~ Mounted
    BY <1>0, <1>5, <2>1, NothingType DEF Open
  <2>2. CASE Mounted
    <3>1. OpenOn("open", media, name) /\ UNCHANGED media
      BY <1>5, <2>2 DEF Open
    <3>2. /\ files_opened' \in 0 .. U8 - 1
          /\ super_open' = super_open
          /\ fat' \in [Slots -> Handle]
          /\ last' \in [call: Calls, ret: Outcomes]
      BY <1>0, <3>1, OpenOnType, Zenon DEF TypeOK
    <3>. QED  BY <3>1, <3>2, Zenon DEF TypeOK
  <2>. QED  BY <2>1, <2>2
<1>6. ASSUME NEW name \in Names, NEW size \in Numbers, Create(name, size) PROVE TypeOK'
  <2>1. CASE ~ Mounted \/ Refused(media, name, size)
    <3>1. PICK v \in Outcomes : Nothing("create", v)
      BY <1>0, <1>6, <2>1, Zenon DEF Create
    <3>. QED  BY <3>1, <1>0, NothingType
  <2>2. CASE Mounted /\ ~ Refused(media, name, size)
    <3>1. media' = Created(media, name, size) /\ OpenOn("create", media', name)
      BY <1>6, <2>2, Zenon DEF Create, Created
    <3>2. media' \in Image
      BY <3>1, NumbersAssumption, CreatedType DEF TypeOK
    <3>3. /\ files_opened' \in 0 .. U8 - 1
          /\ super_open' = super_open
          /\ fat' \in [Slots -> Handle]
          /\ last' \in [call: Calls, ret: Outcomes]
      BY <1>0, <3>1, <3>2, OpenOnType, Zenon
    <3>. QED  BY <3>2, <3>3, Zenon DEF TypeOK
  <2>. QED  BY <2>1, <2>2
<1>7. ASSUME NEW i \in Slots, Close(i) PROVE TypeOK'
  <2>1. CASE ~ Mounted \/ CloseIgnored(i)
    <3>1. PICK v \in Outcomes : Nothing("close", v)
      BY <1>0, <1>7, <2>1, Zenon DEF Close
    <3>. QED  BY <3>1, <1>0, NothingType
  <2>2. CASE Mounted /\ ~ CloseIgnored(i)
    <3>1. /\ fat' = [fat EXCEPT ![i] = Closed]
          /\ files_opened' = files_opened - 1
          /\ Returns("close", "void")
          /\ UNCHANGED <<media, super_open>>
      BY <1>7, <2>2, Zenon DEF Close
    <3>2. fat' \in [Slots -> Handle]
      BY <3>1, ClosedType DEF TypeOK
    <3>3. files_opened' \in 0 .. U8 - 1
      BY <2>2, <3>1, SizesAssumption DEF CloseIgnored, TypeOK
    <3>4. last' \in [call: Calls, ret: Outcomes]
      BY <1>0, <3>1, ReturnsType
    <3>. QED  BY <3>1, <3>2, <3>3, <3>4, Zenon DEF TypeOK
  <2>. QED  BY <2>1, <2>2
<1>8. ASSUME NEW i \in Slots, NEW offset \in Numbers, SetPosition(i, offset) PROVE TypeOK'
  <2>1. CASE Nothing("setPosition", "HALT") \/ Nothing("setPosition", "FAILED")
    BY <1>0, <2>1, NothingType
  <2>2. CASE /\ offset < fat[i].size
             /\ fat' = [fat EXCEPT ![i].tip = offset]
             /\ Returns("setPosition", "SUCCESS")
             /\ UNCHANGED <<media, files_opened, super_open>>
    <3>1. offset \in Bytes16 /\ fat[i] \in Handle
      BY <2>2, NumbersAssumption, SizesAssumption DEF TypeOK, Handle, Bytes16
    <3>2. fat' \in [Slots -> Handle]
      BY <2>2, <3>1 DEF TypeOK, Handle
    <3>3. last' \in [call: Calls, ret: Outcomes]
      BY <1>0, <2>2, ReturnsType
    <3>. QED  BY <2>2, <3>2, <3>3, Zenon DEF TypeOK
  <2>. QED  BY <1>8, <2>1, <2>2, Zenon DEF SetPosition
<1>9. ASSUME NEW i \in Slots, NEW call \in Calls, NEW done \in Int, Advance(call, i, done)
      PROVE TypeOK'
  <2>0. fat[i] \in Handle /\ U16 \in Nat \ {0}
    BY SizesAssumption DEF TypeOK
  <2>1. (fat[i].tip + done) % U16 \in Bytes16
    <3>1. fat[i].tip + done \in Int
      BY <2>0 DEF Handle, Bytes16
    <3>. QED  BY <2>0, <3>1, CutInRange DEF Bytes16
  <2>2. fat' \in [Slots -> Handle]
    BY <1>9, <2>0, <2>1 DEF Advance, TypeOK, Handle
  <2>3. last' \in [call: Calls, ret: Outcomes]
    BY <1>0, <1>9, ReturnsType DEF Advance
  <2>. QED  BY <1>9, <2>2, <2>3, Zenon DEF Advance, TypeOK
<1>10. ASSUME NEW i \in Slots, NEW n \in Numbers, Read(i, n) \/ Write(i, n) PROVE TypeOK'
  <2>1. ClampSize(fat[i], n) \in Int
    BY NumbersAssumption, SizesAssumption DEF ClampSize, TypeOK, Handle, Bytes16
  <2>2. CASE ~ fat[i].mtd
    BY <1>0, <1>10, <2>2, NothingType DEF Read, Write
  <2>3. CASE fat[i].mtd
    <3>1. PICK call \in Calls, done \in Int : Advance(call, i, done)
      <4>1. CASE Read(i, n)
        <5>1. \A done \in {0, ClampSize(fat[i], n)} : done \in Int
          BY <2>1
        <5>. QED  BY <1>0, <2>3, <4>1, <5>1, Zenon DEF Read
      <4>2. CASE Write(i, n)
        <5>1. \A done \in 0 .. ClampSize(fat[i], n) : done \in Int
          BY <2>1
        <5>. QED  BY <1>0, <2>3, <4>2, <5>1, Zenon DEF Write
      <4>. QED  BY <1>10, <4>1, <4>2
    <3>. QED  BY <3>1, <1>9
  <2>. QED  BY <2>2, <2>3
<1>11. CASE Restart
  <2>1. last' \in [call: Calls, ret: Outcomes]
    BY <1>0, <1>11, ReturnsType DEF Restart
  <2>2. fat' \in [Slots -> Handle]
    BY <1>11, ClosedType DEF Restart
  <2>. QED  BY <1>11, <2>1, <2>2, CountTypes, Zenon DEF Restart, TypeOK
<1>12. CASE UNCHANGED vars
  BY <1>12, Zenon DEF vars, TypeOK
<1>. QED
  BY <1>1, <1>2, <1>3, <1>4, <1>5, <1>6, <1>7, <1>8, <1>10, <1>11, <1>12, Zenon
  DEF Next, FsCalls, FileCalls

(* Every state of every run is well typed, on devices of any size.         *)
THEOREM TypeCorrect == Spec => []TypeOK
  BY TypeInit, TypeStep, PTL DEF Spec

-----------------------------------------------------------------------------
(* Counting the open handles.                                              *)

LEMMA OpenSlotsAfterOpen ==
  ASSUME fat \in [Slots -> Handle], NEW id \in Slots, NEW h, h.mtd = TRUE,
         fat' = [fat EXCEPT ![id] = h]
  PROVE  OpenSlots' = OpenSlots \cup {id}
  BY DEF OpenSlots

LEMMA OpenSlotsAfterClose ==
  ASSUME fat \in [Slots -> Handle], NEW id \in Slots, fat' = [fat EXCEPT ![id] = Closed]
  PROVE  OpenSlots' = OpenSlots \ {id}
  BY DEF OpenSlots, Closed

LEMMA OpenSlotsAfterMove ==
  ASSUME fat \in [Slots -> Handle], NEW id \in Slots, NEW n,
         fat' = [fat EXCEPT ![id].tip = n]
  PROVE  OpenSlots' = OpenSlots
  BY DEF OpenSlots, Handle

LEMMA OpenSlotsAfterRestart ==
  ASSUME fat' = [i \in Slots |-> Closed]
  PROVE  OpenSlots' = {}
  BY DEF OpenSlots, Closed

LEMMA OpenSlotsBound ==
  /\ IsFiniteSet(OpenSlots)
  /\ Cardinality(OpenSlots) \in 0 .. MaxFileCnt
  /\ \A id \in Slots \ OpenSlots : Cardinality(OpenSlots) < MaxFileCnt
<1>1. IsFiniteSet(Slots) /\ Cardinality(Slots) = MaxFileCnt
  BY FS_Interval, SizesAssumption DEF Slots
<1>2. OpenSlots \subseteq Slots
  BY DEF OpenSlots
<1>3. IsFiniteSet(OpenSlots) /\ Cardinality(OpenSlots) <= MaxFileCnt
  BY <1>1, <1>2, FS_Subset
<1>4. Cardinality(OpenSlots) \in Nat
  BY <1>3, FS_CardinalityType
<1>5. ASSUME NEW id \in Slots \ OpenSlots PROVE Cardinality(OpenSlots) < MaxFileCnt
  <2>1. OpenSlots # Slots
    BY <1>5
  <2>2. Cardinality(OpenSlots) # Cardinality(Slots)
    BY <1>1, <1>2, <2>1, FS_Subset
  <2>. QED  BY <1>1, <1>3, <1>4, <2>2, SizesAssumption
<1>. QED  BY <1>3, <1>4, <1>5, SizesAssumption

LEMMA CountKept ==
  ASSUME HandleCount, UNCHANGED files_opened, UNCHANGED super_open,
         OpenSlots' = OpenSlots
  PROVE  HandleCount'
  BY Zenon DEF HandleCount

(* A handle that open() gives out adds one to both sides of the count; the *)
(* counter cannot wrap because it counts at most every slot and the mount. *)
LEMMA CountAfterOpen ==
  ASSUME FitsCounter, TypeOK, HandleCount, Mounted,
         NEW call, NEW m, NEW name, OpenOn(call, m, name)
  PROVE  HandleCount'
<1>1. CASE UNCHANGED ram
  <2>1. UNCHANGED files_opened /\ UNCHANGED super_open /\ OpenSlots' = OpenSlots
    BY <1>1, Zenon DEF ram, OpenSlots
  <2>. QED  BY <2>1, CountKept
<1>2. CASE ~ UNCHANGED ram
  <2>1. PICK id \in Slots :
          /\ ~ fat[id].mtd
          /\ fat' = [fat EXCEPT ![id] = Opened(@, m.toc[id])]
          /\ files_opened' = (files_opened + 1) % U8
          /\ super_open' = super_open
    BY <1>2, Zenon DEF OpenOn
  <2>2. fat[id] \in Handle /\ fat \in [Slots -> Handle]
    BY DEF TypeOK
  <2>3. Opened(fat[id], m.toc[id]).mtd = TRUE
    BY <2>2 DEF Opened, Handle
  <2>4. OpenSlots' = OpenSlots \cup {id}
    BY <2>1, <2>2, <2>3, OpenSlotsAfterOpen
  <2>5. id \notin OpenSlots
    BY <2>1 DEF OpenSlots
  <2>6. Cardinality(OpenSlots') = Cardinality(OpenSlots) + 1
    BY <2>4, <2>5, OpenSlotsBound, FS_AddElement
  <2>7. super_open /\ files_opened = 1 + Cardinality(OpenSlots)
    <3>1. super_open \/ files_opened = 0
      BY Zenon DEF HandleCount
    <3>2. files_opened # 0
      BY DEF Mounted
    <3>. QED  BY <3>1, <3>2, Zenon DEF HandleCount
  <2>8. files_opened' = files_opened + 1
    <3>1. files_opened + 1 \in 0 .. U8 - 1 /\ U8 \in Nat
      BY <2>5, <2>7, OpenSlotsBound, SizesAssumption DEF FitsCounter
    <3>. QED  BY <2>1, <3>1, CutIsIdentity
  <2>9. files_opened' = 1 + Cardinality(OpenSlots')
    BY <2>6, <2>7, <2>8, OpenSlotsBound
  <2>. QED  BY <2>1, <2>7, <2>9, Zenon DEF HandleCount
<1>. QED  BY <1>1, <1>2

LEMMA CountAfterNothing ==
  ASSUME HandleCount, NEW call, NEW v, Nothing(call, v)
  PROVE  HandleCount'
<1>1. UNCHANGED files_opened /\ UNCHANGED super_open /\ OpenSlots' = OpenSlots
  BY Zenon DEF Nothing, ram, OpenSlots
<1>. QED  BY <1>1, CountKept

LEMMA CountInit == Init => HandleCount
<1>. SUFFICES ASSUME Init PROVE HandleCount
  OBVIOUS
<1>1. OpenSlots = {}
  BY DEF Init, RamInit, OpenSlots, Closed
<1>. QED  BY <1>1, Zenon DEF Init, RamInit, HandleCount

LEMMA CountStep ==
  ASSUME FitsCounter
  PROVE  TypeOK /\ HandleCount /\ [Next]_vars => HandleCount'
<1>. SUFFICES ASSUME TypeOK, HandleCount, [Next]_vars PROVE HandleCount'
  OBVIOUS
<1>. USE DEF Halt
<1>1. CASE Fsck
  BY <1>1, CountAfterNothing, Zenon DEF Fsck
<1>2. CASE Mkfs
  <2>1. CASE UNCHANGED ram
    <3>1. UNCHANGED files_opened /\ UNCHANGED super_open /\ OpenSlots' = OpenSlots
      BY <2>1, Zenon DEF ram, OpenSlots
    <3>. QED  BY <3>1, CountKept
  <2>2. CASE Nothing("mkfs", "HALT")
    BY <2>2, CountAfterNothing
  <2>. QED  BY <1>2, <2>1, <2>2, Zenon DEF Mkfs
<1>3. CASE Mount
  <2>1. CASE Nothing("mount", "SUCCESS") \/ Nothing("mount", "HALT") \/ Nothing("mount", "FAILED")
    BY <2>1, CountAfterNothing
  <2>2. CASE /\ Idle
             /\ super_open' = TRUE
             /\ files_opened' = 1
             /\ UNCHANGED <<media, fat>>
    <3>1. OpenSlots' = OpenSlots /\ OpenSlots = {}
      BY <2>2, Zenon DEF OpenSlots, HandleCount, Idle
    <3>2. files_opened' = 1 + Cardinality(OpenSlots')
      BY <2>2, <3>1, FS_EmptySet
    <3>. QED  BY <2>2, <3>2, Zenon DEF HandleCount
  <2>. QED  BY <1>3, <2>1, <2>2, Zenon DEF Mount
<1>4. CASE Umount
  <2>1. CASE files_opened > 1
    BY <1>4, <2>1, CountAfterNothing, Zenon DEF Umount
  <2>2. CASE ~ (files_opened > 1)
    <3>1. OpenSlots' = OpenSlots
      BY <1>4, <2>2, Zenon DEF Umount, OpenSlots
    <3>2. OpenSlots = {}
      <4>1. super_open => Cardinality(OpenSlots) = 0
        <5>1. super_open => files_opened = 1 + Cardinality(OpenSlots)
          BY Zenon DEF HandleCount
        <5>. QED  BY <2>2, <5>1, OpenSlotsBound DEF TypeOK
      <4>2. super_open => OpenSlots = {}
        BY <4>1, OpenSlotsBound, FS_EmptySet
      <4>. QED  BY <4>2, Zenon DEF HandleCount
    <3>. QED  BY <1>4, <2>2, <3>1, <3>2, Zenon DEF Umount, HandleCount
  <2>. QED  BY <2>1, <2>2
<1>5. ASSUME NEW name \in Names, Open(name) PROVE HandleCount'
  BY <1>5, CountAfterNothing, CountAfterOpen, Zenon DEF Open
<1>6. ASSUME NEW name \in Names, NEW size \in Numbers, Create(name, size) PROVE HandleCount'
  BY <1>6, CountAfterNothing, CountAfterOpen, Zenon DEF Create
<1>7. ASSUME NEW i \in Slots, Close(i) PROVE HandleCount'
  <2>1. CASE Nothing("close", "HALT") \/ Nothing("close", "void")
    BY <2>1, CountAfterNothing
  <2>2. CASE /\ ~ CloseIgnored(i)
             /\ fat' = [fat EXCEPT ![i] = Closed]
             /\ files_opened' = files_opened - 1
             /\ UNCHANGED <<media, super_open>>
    <3>1. OpenSlots' = OpenSlots \ {i} /\ i \in OpenSlots
      BY <2>2, OpenSlotsAfterClose DEF TypeOK, CloseIgnored, OpenSlots
    <3>2. super_open /\ files_opened = 1 + Cardinality(OpenSlots)
      BY <3>1, Zenon DEF HandleCount
    <3>3. Cardinality(OpenSlots') = Cardinality(OpenSlots) - 1
      BY <3>1, OpenSlotsBound, FS_RemoveElement
    <3>4. files_opened' = 1 + Cardinality(OpenSlots')
      BY <2>2, <3>2, <3>3, OpenSlotsBound
    <3>. QED  BY <2>2, <3>2, <3>4, Zenon DEF HandleCount
  <2>. QED  BY <1>7, <2>1, <2>2, Zenon DEF Close
<1>8. ASSUME NEW i \in Slots, NEW n,
             fat' = [fat EXCEPT ![i].tip = n],
             UNCHANGED <<media, files_opened, super_open>>
      PROVE  HandleCount'
  <2>1. OpenSlots' = OpenSlots
    BY <1>8, OpenSlotsAfterMove DEF TypeOK
  <2>. QED  BY <1>8, <2>1, CountKept, Zenon
<1>9. ASSUME NEW i \in Slots, NEW offset \in Numbers, SetPosition(i, offset)
      PROVE  HandleCount'
  BY <1>8, <1>9, CountAfterNothing, Zenon DEF SetPosition
<1>10. ASSUME NEW i \in Slots, NEW n \in Numbers, Read(i, n) \/ Write(i, n)
       PROVE  HandleCount'
  <2>1. ASSUME NEW call, NEW done, Advance(call, i, done) PROVE HandleCount'
    BY <1>8, <2>1 DEF Advance
  <2>. QED  BY <1>10, <2>1, CountAfterNothing, Zenon DEF Read, Write
<1>11. CASE Restart
  <2>1. OpenSlots' = {}
    BY <1>11, OpenSlotsAfterRestart DEF Restart
  <2>. QED  BY <1>11, <2>1, Zenon DEF Restart, HandleCount
<1>12. CASE UNCHANGED vars
  <2>1. UNCHANGED files_opened /\ UNCHANGED super_open /\ OpenSlots' = OpenSlots
    BY <1>12, Zenon DEF vars, OpenSlots
  <2>. QED  BY <2>1, CountKept
<1>. QED
  BY <1>1, <1>2, <1>3, <1>4, <1>5, <1>6, <1>7, <1>9, <1>10, <1>11, <1>12, Zenon
  DEF Next, FsCalls, FileCalls

(* files_opened always is one more than the open handles while mounted and *)
(* zero otherwise, when the table leaves the counter room for the mount.   *)
THEOREM HandlesCounted == FitsCounter => (Spec => []HandleCount)
<1>. SUFFICES ASSUME FitsCounter PROVE Spec => []HandleCount
  OBVIOUS
<1>. QED  BY TypeInit, TypeStep, CountInit, CountStep, PTL DEF Spec

-----------------------------------------------------------------------------
(* The stored files and the handles on them.                               *)

(* Sound(m) joins what makes a table good: the files lie one behind the    *)
(* other, every name leads to its file, and the entries behind the last    *)
(* file are empty, so that a handle on one of them is empty too.           *)
Reachable(m) == \A i \in Files(m) : FoundAt(m, m.toc[i].name, i)
Unused(m) == \A i \in Slots \ Files(m) : m.toc[i] = EmptyItem
Sound(m) == Layout(m) /\ Reachable(m) /\ Unused(m)

(* HandleSafe for a table m and handles f.                                 *)
HandleOn(m, h, i) ==
  /\ h.tip <= h.size
  /\ \/ i \in Files(m) /\ h.start = m.toc[i].start /\ h.size = m.toc[i].size
     \/ h.start = 0 /\ h.size = 0

LEMMA SoundFresh == Sound(Fresh)
<1>1. Files(Fresh) = {}
  BY DEF Files, Fresh
<1>2. Unused(Fresh)
  BY DEF Unused, Fresh, EmptyTable
<1>. QED  BY <1>1, <1>2 DEF Sound, Layout, Reachable

(* The entries up to entry n.                                              *)
LEMMA SlotIntervals ==
  ASSUME NEW n \in Slots
  PROVE  /\ n \in Nat
         /\ 0 .. n = (0 .. n - 1) \cup {n}
         /\ \A i \in 0 .. n - 1 : i \in Slots /\ i < n
         /\ \A i \in 0 .. n - 1 : i # n - 1 => i < n - 1
<1>1. n \in Int /\ n >= 0 /\ n < MaxFileCnt /\ MaxFileCnt \in Int
  BY SizesAssumption DEF Slots
<1>2. 0 .. n = (0 .. n - 1) \cup {n}
  BY <1>1
<1>3. \A i \in 0 .. n - 1 : i \in Slots /\ i < n /\ (i # n - 1 => i < n - 1)
  BY <1>1 DEF Slots
<1>. QED  BY <1>1, <1>2, <1>3

(* Where create() puts the file: behind all others, inside the device.     *)
LEMMA NewItemPlace ==
  ASSUME SmallDevice, NEW m \in Image, Formatted(m), Layout(m),
         NEW name \in Names, NEW size \in Nat, ~ Refused(m, name, size)
  PROVE  /\ NewItem(m, name, size).start >= SuperSize
         /\ End(NewItem(m, name, size)) <= Capacity
         /\ \A i \in Files(m) : End(m.toc[i]) <= NewItem(m, name, size).start
         /\ NewItem(m, name, size).start = Capacity - Df(m)
         /\ Df(m) \in Int
<1>. DEFINE item == NewItem(m, name, size)
<1>0. m.cnt # MaxFileCnt /\ ~ (End(item) > Capacity)
  BY DEF Refused
<1>1. item \in TocItem /\ m.cnt \in Slots
  BY <1>0, CreatedFields, NextSlot
<1>2. End(item) <= Capacity
  BY <1>0, <1>1, SizesAssumption DEF TocItem, End, Bytes16
<1>3. CASE m.cnt = 0
  <2>1. item.start = SuperSize /\ Files(m) = {}
    BY <1>3 DEF NewItem, Files
  <2>2. Df(m) = Capacity - SuperSize
    BY <1>3 DEF Df
  <2>. QED  BY <1>2, <2>1, <2>2, SizesAssumption
<1>4. CASE m.cnt # 0
  <2>. DEFINE prev == m.toc[m.cnt - 1]
  <2>1. m.cnt - 1 \in Slots /\ m.cnt - 1 \in Files(m) /\ prev \in TocItem
    BY <1>0, <1>4, NextSlot DEF Files, Image
  <2>2. prev.start >= SuperSize /\ End(prev) <= Capacity
    BY <2>1 DEF Layout
  <2>3. End(prev) \in Nat /\ End(prev) >= prev.start
    BY <2>1, SizesAssumption DEF End, TocItem, Bytes16
  <2>4. End(prev) % U16 = End(prev)
    <3>1. End(prev) \in 0 .. U16 - 1 /\ U16 \in Nat
      BY <2>2, <2>3, SizesAssumption DEF SmallDevice
    <3>. QED  BY <3>1, CutIsIdentity
  <2>5. item.start = End(prev)
    BY <1>4, <2>4 DEF NewItem
  <2>6. item.start >= SuperSize
    BY <2>1, <2>2, <2>3, <2>5, SizesAssumption DEF TocItem, Bytes16
  <2>7. ASSUME NEW i \in Files(m) PROVE End(m.toc[i]) <= item.start
    <3>1. CASE i = m.cnt - 1
      BY <2>3, <2>5, <3>1
    <3>2. CASE i # m.cnt - 1
      <4>1. i < m.cnt - 1 /\ i \in Slots
        BY <3>2, <1>1, SlotIntervals DEF Files
      <4>2. End(m.toc[i]) <= prev.start
        BY <2>1, <4>1 DEF Layout
      <4>3. End(m.toc[i]) \in Int
        BY <4>1, SizesAssumption DEF End, Image, TocItem, Bytes16
      <4>. QED  BY <2>1, <2>3, <2>5, <4>2, <4>3, SizesAssumption DEF TocItem, Bytes16
    <3>. QED  BY <3>1, <3>2
  <2>8. Df(m) = Capacity - End(prev)
    <3>1. m.cnt > 0
      BY <1>1, <1>4, SlotIntervals
    <3>. QED  BY <3>1 DEF Df
  <2>9. item.start = Capacity - Df(m) /\ Df(m) \in Int
    BY <2>3, <2>5, <2>8, SizesAssumption
  <2>. QED  BY <1>2, <2>6, <2>7, <2>9
<1>. QED  BY <1>3, <1>4

LEMMA SoundAfterCreate ==
  ASSUME SmallDevice, NEW m \in Image, Formatted(m), Sound(m),
         NEW name \in Names, NEW size \in Nat, ~ Refused(m, name, size)
  PROVE  /\ Sound(Created(m, name, size))
         /\ m.cnt \notin Files(m)
         /\ Files(Created(m, name, size)) = Files(m) \cup {m.cnt}
         /\ Created(m, name, size).toc[m.cnt] = NewItem(m, name, size)
         /\ \A i \in Files(m) : Created(m, name, size).toc[i] = m.toc[i]
<1>. DEFINE item == NewItem(m, name, size)
            new == Created(m, name, size)
<1>0. m.cnt # MaxFileCnt /\ Absent(m, name)
  BY DEF Refused
<1>1. /\ item \in TocItem
      /\ item.name = name
      /\ new.cnt = m.cnt + 1
      /\ new.toc = [m.toc EXCEPT ![m.cnt] = item]
  BY <1>0, CreatedFields DEF NewItem
<1>2. m.cnt \in Slots /\ m.cnt \in Nat /\ m.toc \in [Slots -> TocItem]
  BY <1>0, NextSlot DEF Slots, Image
<1>. HIDE DEF item, new
<1>3. Files(new) = Files(m) \cup {m.cnt} /\ Files(new) \subseteq Slots
  <2>1. new.cnt - 1 = m.cnt
    BY <1>1, <1>2
  <2>2. Files(new) = 0 .. m.cnt
    BY <2>1, Zenon DEF Files
  <2>. QED  BY <1>2, <2>2, SlotIntervals DEF Files
<1>4. new.toc[m.cnt] = item /\ \A i \in Slots \ {m.cnt} : new.toc[i] = m.toc[i]
  BY <1>1, <1>2
<1>5. m.cnt \notin Files(m) /\ \A i \in Files(m) : i < m.cnt
  BY <1>2 DEF Files
<1>6. /\ item.start >= SuperSize
      /\ End(item) <= Capacity
      /\ \A i \in Files(m) : End(m.toc[i]) <= item.start
  BY NewItemPlace DEF Sound, item
<1>7. Layout(new)
  BY <1>2, <1>3, <1>4, <1>5, <1>6 DEF Sound, Layout, Files
<1>8. Reachable(new)
  <2>1. ASSUME NEW i \in Files(m) PROVE FoundAt(new, new.toc[i].name, i)
    <3>1. FoundAt(m, m.toc[i].name, i)
      BY DEF Sound, Reachable
    <3>2. \A j \in 0 .. i : j \in Slots \ {m.cnt}
      <4>1. i \in Slots /\ i < m.cnt
        BY <1>2, SlotIntervals DEF Files
      <4>2. \A j \in 0 .. i : j \in Slots /\ j <= i
        BY <4>1, SlotIntervals
      <4>. QED  BY <1>2, <4>1, <4>2, SlotIntervals
    <3>3. \A j \in 0 .. i : new.toc[j] = m.toc[j]
      BY <3>2, <1>4
    <3>4. i \in 0 .. i /\ \A j \in 0 .. i - 1 : j \in 0 .. i
      BY DEF Files
    <3>. QED  BY <3>1, <3>3, <3>4 DEF FoundAt
  <2>2. FoundAt(new, new.toc[m.cnt].name, m.cnt)
    <3>1. \A j \in 0 .. m.cnt - 1 : j \in Slots \ {m.cnt}
      BY <1>2, SlotIntervals
    <3>. QED  BY <1>0, <1>1, <1>4, <3>1 DEF FoundAt, Absent
  <2>. QED  BY <2>1, <2>2, <1>3 DEF Reachable
<1>9. Unused(new)
  BY <1>3, <1>4 DEF Sound, Unused
<1>. QED  BY <1>3, <1>4, <1>5, <1>7, <1>8, <1>9 DEF Sound, new, item

(* A handle given out by open() covers the file of its slot, or nothing.   *)
LEMMA OpenedOn ==
  ASSUME NEW m \in Image, Unused(m), NEW i \in Slots,
         NEW h \in Handle, h.tip = 0
  PROVE  HandleOn(m, Opened(h, m.toc[i]), i)
<1>1. m.toc[i] \in TocItem
  BY DEF Image
<1>2. /\ Opened(h, m.toc[i]).tip = 0
      /\ Opened(h, m.toc[i]).start = m.toc[i].start
      /\ Opened(h, m.toc[i]).size = m.toc[i].size
  BY DEF Opened, Handle
<1>3. i \notin Files(m) => m.toc[i].start = 0 /\ m.toc[i].size = 0
  BY DEF Unused, EmptyItem
<1>4. m.toc[i].size >= 0
  BY <1>1, SizesAssumption DEF TocItem, Bytes16
<1>. QED  BY <1>2, <1>3, <1>4 DEF HandleOn

(* The invariant.  A device that was formatted once still is, as create()  *)
(* seals the table it changes; a mounted store is formatted, because only  *)
(* mount() gets past the unmounted state and it ran fsck(); and a closed   *)
(* handle has its position at zero, because open() does not reset it.      *)
Handles(m, f) ==
  \A i \in Slots : /\ f[i].mtd => HandleOn(m, f[i], i)
                   /\ ~ f[i].mtd => f[i].tip = 0

StoreInv ==
  /\ Used => Formatted(media)
  /\ Mounted => Formatted(media)
  /\ Formatted(media) => Sound(media)
  /\ Handles(media, fat)

LEMMA StoreKept ==
  ASSUME StoreInv, UNCHANGED media, UNCHANGED fat, Mounted' => Formatted(media)
  PROVE  StoreInv'
  BY Zenon DEF StoreInv, Used

LEMMA StoreAfterNothing ==
  ASSUME StoreInv, NEW call, NEW v, Nothing(call, v)
  PROVE  StoreInv'
<1>1. UNCHANGED media /\ UNCHANGED fat /\ (Mounted' => Formatted(media))
  BY Zenon DEF Nothing, ram, StoreInv, Mounted
<1>. QED  BY <1>1, StoreKept

LEMMA HandlesAllClosed ==
  ASSUME NEW m, NEW f, \A i \in Slots : f[i] = Closed
  PROVE  Handles(m, f)
  BY DEF Handles, Closed

(* A table with more files behind the ones m has is as good for handles.   *)
LEMMA HandlesGrow ==
  ASSUME NEW m, NEW new, NEW f, Handles(m, f),
         Files(m) \subseteq Files(new), \A i \in Files(m) : new.toc[i] = m.toc[i]
  PROVE  Handles(new, f)
  BY DEF Handles, HandleOn

LEMMA HandlesAfterOpen ==
  ASSUME TypeOK, NEW m \in Image, Unused(m), Handles(m, fat),
         NEW call, NEW name, OpenOn(call, m, name)
  PROVE  Handles(m, fat')
<1>1. CASE UNCHANGED ram
  BY <1>1, Zenon DEF ram
<1>2. CASE ~ UNCHANGED ram
  <2>1. PICK id \in Slots :
          /\ ~ fat[id].mtd
          /\ fat' = [fat EXCEPT ![id] = Opened(@, m.toc[id])]
    BY <1>2, Zenon DEF OpenOn
  <2>2. fat \in [Slots -> Handle]
    BY DEF TypeOK
  <2>3. fat[id].tip = 0
    BY <2>1 DEF Handles
  <2>4. HandleOn(m, Opened(fat[id], m.toc[id]), id)
    BY <2>2, <2>3, OpenedOn
  <2>5. Opened(fat[id], m.toc[id]).mtd = TRUE
    BY <2>2 DEF Opened, Handle
  <2>6. fat'[id] = Opened(fat[id], m.toc[id]) /\ \A i \in Slots \ {id} : fat'[i] = fat[i]
    BY <2>1, <2>2
  <2>. QED  BY <2>4, <2>5, <2>6 DEF Handles
<1>. QED  BY <1>1, <1>2

(* Moving the position of an open handle inside its file.                  *)
LEMMA HandlesAfterMove ==
  ASSUME fat \in [Slots -> Handle], Handles(media, fat), NEW i \in Slots, fat[i].mtd,
         NEW n \in 0 .. fat[i].size, fat' = [fat EXCEPT ![i].tip = n]
  PROVE  Handles(media, fat')
<1>1. /\ fat'[i].mtd = fat[i].mtd
      /\ fat'[i].start = fat[i].start
      /\ fat'[i].size = fat[i].size
      /\ fat'[i].tip = n
  BY DEF Handle
<1>2. \A j \in Slots \ {i} : fat'[j] = fat[j]
  OBVIOUS
<1>3. HandleOn(media, fat[i], i)
  BY DEF Handles
<1>4. n <= fat[i].size
  BY SizesAssumption DEF Handle, Bytes16
<1>5. HandleOn(media, fat'[i], i)
  BY <1>1, <1>3, <1>4 DEF HandleOn
<1>. QED  BY <1>1, <1>2, <1>5, Zenon DEF Handles

(* A transfer moves the position forward, never past the end of the file.  *)
LEMMA ClampedAdvance ==
  ASSUME NEW h \in Handle, h.tip <= h.size, NEW n \in Nat,
         NEW done \in 0 .. ClampSize(h, n)
  PROVE  (h.tip + done) % U16 \in 0 .. h.size
<1>1. /\ h.tip \in Nat /\ h.size \in Nat /\ h.size < U16 /\ U16 \in Nat
  BY SizesAssumption DEF Handle, Bytes16
<1>2. ClampSize(h, n) \in Int /\ h.tip + ClampSize(h, n) <= h.size
  BY <1>1 DEF ClampSize
<1>3. h.tip + done \in 0 .. h.size /\ h.tip + done \in 0 .. U16 - 1
  BY <1>1, <1>2
<1>. QED  BY <1>1, <1>3, CutIsIdentity

LEMMA StoreInit == Init => StoreInv
<1>. SUFFICES ASSUME Init PROVE StoreInv
  OBVIOUS
<1>1. files_opened = 0 /\ fat = [i \in Slots |-> Closed] /\ media \in Images
  BY Zenon DEF Init, RamInit
<1>2. ~ Mounted /\ ~ Formatted(media)
  BY <1>1, ImagesAssumption DEF Mounted
<1>3. Handles(media, fat)
  BY <1>1, HandlesAllClosed
<1>. QED  BY <1>1, <1>2, <1>3, Zenon DEF StoreInv, Used

LEMMA StoreStep ==
  ASSUME SmallDevice
  PROVE  TypeOK /\ HandleCount /\ StoreInv /\ [Next]_vars => StoreInv'
<1>. SUFFICES ASSUME TypeOK, HandleCount, StoreInv, [Next]_vars PROVE StoreInv'
  OBVIOUS
<1>. USE DEF Halt
<1>1. CASE Fsck
  BY <1>1, StoreAfterNothing, Zenon DEF Fsck
<1>2. CASE Mkfs
  <2>1. CASE Nothing("mkfs", "HALT")
    BY <2>1, StoreAfterNothing
  <2>2. CASE Idle /\ media' = Fresh /\ UNCHANGED ram
    <3>1. ~ Mounted' /\ fat' = fat
      BY <2>2 DEF Idle, ram, Mounted
    <3>2. \A i \in Slots : ~ fat[i].mtd
      BY <2>2, Zenon DEF Idle, HandleCount, OpenSlots
    <3>3. Handles(media', fat')
      BY <3>1, <3>2, Zenon DEF StoreInv, Handles
    <3>4. Sound(media') /\ Formatted(media')
      BY <2>2, SoundFresh, FreshImage
    <3>. QED  BY <3>1, <3>3, <3>4, Zenon DEF StoreInv, Used
  <2>. QED  BY <1>2, <2>1, <2>2, Zenon DEF Mkfs
<1>3. CASE Mount
  <2>1. CASE Nothing("mount", "SUCCESS") \/ Nothing("mount", "HALT") \/ Nothing("mount", "FAILED")
    BY <2>1, StoreAfterNothing
  <2>2. CASE FsckOk(media) /\ UNCHANGED <<media, fat>>
    BY <2>2, StoreKept, Zenon DEF FsckOk
  <2>. QED  BY <1>3, <2>1, <2>2, Zenon DEF Mount
<1>4. CASE Umount
  <2>1. CASE Nothing("umount", "FAILED")
    BY <2>1, StoreAfterNothing
  <2>2. CASE files_opened' = 0 /\ UNCHANGED <<media, fat>>
    <3>1. ~ Mounted'
      BY <2>2 DEF Mounted
    <3>. QED  BY <2>2, <3>1, StoreKept, Zenon
  <2>. QED  BY <1>4, <2>1, <2>2, Zenon DEF Umount
<1>5. ASSUME NEW name \in Names, Open(name) PROVE StoreInv'
  <2>1. CASE Nothing("open", "HALT")
    BY <2>1, StoreAfterNothing
  <2>2. CASE Mounted /\ OpenOn("open", media, name) /\ UNCHANGED media
    <3>1. Formatted(media) /\ Sound(media)
      BY <2>2 DEF StoreInv
    <3>2. Handles(media, fat')
      BY <2>2, <3>1, HandlesAfterOpen DEF StoreInv, Sound, TypeOK
    <3>. QED  BY <2>2, <3>1, <3>2, Zenon DEF StoreInv
  <2>. QED  BY <1>5, <2>1, <2>2, Zenon DEF Open
<1>6. ASSUME NEW name \in Names, NEW size \in Numbers, Create(name, size) PROVE StoreInv'
  <2>1. CASE Nothing("create", "HALT") \/ Nothing("create", "nullptr")
    BY <2>1, StoreAfterNothing
  <2>2. CASE /\ Mounted
             /\ ~ Refused(media, name, size)
             /\ media' = Created(media, name, size)
             /\ OpenOn("create", media', name)
    <3>. DEFINE new == Created(media, name, size)
    <3>1. /\ Formatted(media) /\ Sound(media) /\ Handles(media, fat)
          /\ media \in Image /\ size \in Nat
      BY <2>2, NumbersAssumption DEF StoreInv, TypeOK
    <3>2. /\ Sound(new)
          /\ Files(media) \subseteq Files(new)
          /\ \A i \in Files(media) : new.toc[i] = media.toc[i]
      BY <2>2, <3>1, SoundAfterCreate
    <3>3. Formatted(new) /\ new \in Image
      BY <2>2, <3>1, CreatedFields, CreatedType DEF Refused
    <3>. HIDE DEF new
    <3>4. Handles(new, fat)
      BY <3>1, <3>2, HandlesGrow
    <3>5. media' = new /\ OpenOn("create", new, name)
      BY <2>2 DEF new
    <3>6. Handles(new, fat')
      BY <3>2, <3>3, <3>4, <3>5, HandlesAfterOpen DEF Sound
    <3>. QED  BY <3>2, <3>3, <3>5, <3>6, Zenon DEF StoreInv
  <2>. QED  BY <1>6, <2>1, <2>2, Zenon DEF Create, Created
<1>7. ASSUME NEW i \in Slots, Close(i) PROVE StoreInv'
  <2>1. CASE Nothing("close", "HALT") \/ Nothing("close", "void")
    BY <2>1, StoreAfterNothing
  <2>2. CASE /\ Mounted
             /\ fat' = [fat EXCEPT ![i] = Closed]
             /\ UNCHANGED <<media, super_open>>
    <3>1. fat'[i] = Closed /\ \A j \in Slots \ {i} : fat'[j] = fat[j]
      BY <2>2 DEF TypeOK
    <3>2. Handles(media, fat')
      BY <3>1 DEF StoreInv, Handles, Closed
    <3>. QED  BY <2>2, <3>2, Zenon DEF StoreInv
  <2>. QED  BY <1>7, <2>1, <2>2, Zenon DEF Close
<1>8. ASSUME NEW i \in Slots, fat[i].mtd, NEW n \in 0 .. fat[i].size,
             fat' = [fat EXCEPT ![i].tip = n],
             UNCHANGED <<media, files_opened, super_open>>
      PROVE  StoreInv'
  <2>1. Handles(media, fat')
    BY <1>8, HandlesAfterMove DEF StoreInv, TypeOK
  <2>2. Mounted' = Mounted
    BY <1>8 DEF Mounted
  <2>. QED  BY <1>8, <2>1, <2>2, Zenon DEF StoreInv, Used
<1>9. ASSUME NEW i \in Slots, NEW offset \in Numbers, SetPosition(i, offset)
      PROVE  StoreInv'
  <2>1. CASE Nothing("setPosition", "HALT") \/ Nothing("setPosition", "FAILED")
    BY <2>1, StoreAfterNothing
  <2>2. CASE /\ fat[i].mtd
             /\ offset < fat[i].size
             /\ fat' = [fat EXCEPT ![i].tip = offset]
             /\ UNCHANGED <<media, files_opened, super_open>>
    <3>1. offset \in 0 .. fat[i].size
      BY <2>2, NumbersAssumption, SizesAssumption DEF TypeOK, Handle, Bytes16
    <3>. QED  BY <2>2, <3>1, <1>8
  <2>. QED  BY <1>9, <2>1, <2>2, Zenon DEF SetPosition
<1>10. ASSUME NEW i \in Slots, NEW n \in Numbers, Read(i, n) \/ Write(i, n)
       PROVE  StoreInv'
  <2>1. CASE ~ fat[i].mtd
    BY <1>10, <2>1, StoreAfterNothing, Zenon DEF Read, Write
  <2>2. CASE fat[i].mtd
    <3>1. fat[i] \in Handle /\ fat[i].tip <= fat[i].size /\ n \in Nat
      BY <2>2, NumbersAssumption DEF TypeOK, StoreInv, Handles, HandleOn
    <3>2. {0, ClampSize(fat[i], n)} \subseteq 0 .. ClampSize(fat[i], n)
      BY <3>1, SizesAssumption DEF ClampSize, Handle, Bytes16
    <3>3. PICK call \in {"read", "write"}, done \in 0 .. ClampSize(fat[i], n) :
            Advance(call, i, done)
      BY <1>10, <2>2, <3>2, Zenon DEF Read, Write
    <3>4. (fat[i].tip + done) % U16 \in 0 .. fat[i].size
      BY <3>1, ClampedAdvance
    <3>. QED  BY <2>2, <3>3, <3>4, <1>8 DEF Advance
  <2>. QED  BY <2>1, <2>2
<1>11. CASE Restart
  <2>0. files_opened' = 0 /\ fat' = [i \in Slots |-> Closed]
    BY <1>11, Zenon DEF Restart
  <2>1. Handles(media, fat') /\ ~ Mounted'
    BY <2>0, HandlesAllClosed DEF Mounted
  <2>. QED  BY <1>11, <2>1, Zenon DEF Restart, StoreInv, Used
<1>12. CASE UNCHANGED vars
  <2>1. UNCHANGED media /\ UNCHANGED fat /\ (Mounted' => Formatted(media))
    BY <1>12, Zenon DEF vars, StoreInv, Mounted
  <2>. QED  BY <2>1, StoreKept
<1>. QED
  BY <1>1, <1>2, <1>3, <1>4, <1>5, <1>6, <1>7, <1>9, <1>10, <1>11, <1>12, Zenon
  DEF Next, FsCalls, FileCalls

LEMMA StoreInvariant ==
  ASSUME SmallDevice, FitsCounter
  PROVE  Spec => [](TypeOK /\ HandleCount /\ StoreInv)
  BY TypeInit, TypeStep, CountInit, CountStep, StoreInit, StoreStep, PTL DEF Spec

(* On a device below 64 KiB no two files share a byte and none reaches the *)
(* superblock or leaves the device, after any calls and restarts.          *)
THEOREM FilesAreDisjoint == SmallDevice /\ FitsCounter => (Spec => []FilesDisjoint)
<1>. SUFFICES ASSUME SmallDevice, FitsCounter PROVE Spec => []FilesDisjoint
  OBVIOUS
<1>1. StoreInv => FilesDisjoint
  BY Zenon DEF StoreInv, Sound, FilesDisjoint
<1>. QED  BY <1>1, StoreInvariant, PTL

(* Every stored file is found under its name.                              *)
THEOREM FilesAreReachable == SmallDevice /\ FitsCounter => (Spec => []FilesReachable)
<1>. SUFFICES ASSUME SmallDevice, FitsCounter PROVE Spec => []FilesReachable
  OBVIOUS
<1>1. StoreInv => FilesReachable
  BY Zenon DEF StoreInv, Sound, Reachable, FilesReachable
<1>. QED  BY <1>1, StoreInvariant, PTL

(* Every open handle covers exactly the file of its slot, or nothing, and  *)
(* has its position inside.                                                *)
THEOREM HandlesAreSafe == SmallDevice /\ FitsCounter => (Spec => []HandleSafe)
<1>. SUFFICES ASSUME SmallDevice, FitsCounter PROVE Spec => []HandleSafe
  OBVIOUS
<1>1. StoreInv => HandleSafe
  BY Zenon DEF StoreInv, Handles, HandleOn, HandleSafe, OpenSlots
<1>. QED  BY <1>1, StoreInvariant, PTL

-----------------------------------------------------------------------------
(* What the calls on a mounted store do to the device.                     *)

LEMMA OnlyCreateWrites ==
  ASSUME Mounted, [Next]_vars, media' # media
  PROVE  \E name \in Names, size \in Numbers : Create(name, size)
<1>. USE DEF Halt, Nothing
<1>1. ~ Fsck /\ ~ Mount /\ ~ Umount /\ ~ Restart
  BY Zenon DEF Fsck, Mount, Umount, Restart
<1>2. ~ Mkfs
  BY DEF Mkfs, Idle, Mounted
<1>3. ~ FileCalls
  BY Zenon DEF FileCalls, Close, SetPosition, Read, Write, Advance
<1>4. ASSUME NEW name \in Names PROVE ~ Open(name)
  BY Zenon DEF Open
<1>5. Next
  BY Zenon DEF vars
<1>. QED  BY <1>1, <1>2, <1>3, <1>4, <1>5, Zenon DEF Next, FsCalls

(* A mounted store keeps every file it has.                                *)
THEOREM MountedStoreKeepsFiles == SmallDevice /\ FitsCounter => (Spec => FilesKept)
<1>. SUFFICES ASSUME SmallDevice, FitsCounter PROVE Spec => FilesKept
  OBVIOUS
<1>. DEFINE Step == Mounted => /\ Files(media) \subseteq Files(media')
                               /\ \A i \in Files(media) : media'.toc[i] = media.toc[i]
<1>1. TypeOK /\ StoreInv /\ [Next]_vars => [Step]_vars
  <2>. SUFFICES ASSUME TypeOK, StoreInv, [Next]_vars, Mounted, media' # media
                PROVE  /\ Files(media) \subseteq Files(media')
                       /\ \A i \in Files(media) : media'.toc[i] = media.toc[i]
    OBVIOUS
  <2>1. PICK name \in Names, size \in Numbers : Create(name, size)
    BY OnlyCreateWrites
  <2>2. ~ Refused(media, name, size) /\ media' = Created(media, name, size)
    BY <2>1, Zenon DEF Create, Created, Nothing, Halt
  <2>3. /\ Formatted(media) /\ Sound(media) /\ media \in Image /\ size \in Nat
    BY NumbersAssumption DEF StoreInv, TypeOK
  <2>. QED  BY <2>2, <2>3, SoundAfterCreate
<1>. QED  BY <1>1, StoreInvariant, PTL DEF Spec, FilesKept


(* The slot that open() takes after a create() is the one of the new file. *)
LEMMA OpensNewFile ==
  ASSUME NEW m \in Image, Formatted(m), NEW name \in Names, NEW size \in Nat,
         ~ Refused(m, name, size),
         NEW id \in Slots, FoundAt(Created(m, name, size), name, id)
  PROVE  id = m.cnt
<1>1. m.cnt # MaxFileCnt /\ \A i \in Slots : m.toc[i].name # name
  BY DEF Refused, Absent
<1>2. Created(m, name, size).toc = [m.toc EXCEPT ![m.cnt] = NewItem(m, name, size)]
  BY <1>1, CreatedFields
<1>3. id # m.cnt => Created(m, name, size).toc[id] = m.toc[id]
  BY <1>2 DEF Image
<1>. QED  BY <1>1, <1>3 DEF FoundAt

(* The free space shrinks by exactly the size of the file returned.        *)
THEOREM CreateTakesSpace == SmallDevice /\ FitsCounter => (Spec => CreateTakesItsSize)
<1>. SUFFICES ASSUME SmallDevice, FitsCounter PROVE Spec => CreateTakesItsSize
  OBVIOUS
<1>. DEFINE Step == last'.call = "create" /\ last'.ret = "file" =>
                      \E i \in OpenSlots' \ OpenSlots : Df(media') = Df(media) - fat'[i].size
<1>1. TypeOK /\ StoreInv /\ [Next]_vars => [Step]_vars
  <2>. SUFFICES ASSUME TypeOK, StoreInv, Next, last'.call = "create", last'.ret = "file"
                PROVE  \E i \in OpenSlots' \ OpenSlots :
                         Df(media') = Df(media) - fat'[i].size
    OBVIOUS
  <2>1. PICK name \in Names, size \in Numbers : Create(name, size)
    <3>1. ASSUME NEW call, NEW v, call # "create", Returns(call, v) PROVE FALSE
      BY <3>1 DEF Returns
    <3>. USE DEF Nothing, Halt
    <3>2. ~ FsCalls
      <4>1. ~ Fsck /\ ~ Mkfs
        BY <3>1 DEF Fsck, Mkfs
      <4>2. ~ Mount /\ ~ Umount
        BY <3>1 DEF Mount, Umount
      <4>. QED  BY <4>1, <4>2 DEF FsCalls
    <3>3. ~ FileCalls
      <4>1. ASSUME NEW i \in Slots PROVE ~ Close(i)
        BY <3>1 DEF Close
      <4>2. ASSUME NEW i \in Slots, NEW n \in Numbers
            PROVE  ~ SetPosition(i, n) /\ ~ Read(i, n) /\ ~ Write(i, n)
        BY <3>1 DEF SetPosition, Read, Write, Advance
      <4>. QED  BY <4>1, <4>2 DEF FileCalls
    <3>4. ASSUME NEW name \in Names PROVE ~ Open(name)
      BY <3>1 DEF Open, OpenOn
    <3>5. ~ Restart
      BY <3>1 DEF Restart
    <3>. QED  BY <3>2, <3>3, <3>4, <3>5, Zenon DEF Next
  <2>. DEFINE new == Created(media, name, size)
              item == NewItem(media, name, size)
  <2>2. /\ Mounted
        /\ ~ Refused(media, name, size)
        /\ media' = new
        /\ OpenOn("create", new, name)
    <3>1. ~ Nothing("create", "HALT") /\ ~ Nothing("create", "nullptr")
      BY DEF Nothing, Returns
    <3>. QED  BY <2>1, <3>1, Zenon DEF Create, Created, Halt
  <2>3. /\ Formatted(media) /\ Sound(media) /\ media \in Image /\ size \in Nat
    BY <2>2, NumbersAssumption DEF StoreInv, TypeOK
  <2>4. PICK id \in Slots :
          /\ FoundAt(new, name, id)
          /\ ~ fat[id].mtd
          /\ fat' = [fat EXCEPT ![id] = Opened(@, new.toc[id])]
    <3>1. ~ Returns("create", "nullptr")
      BY DEF Returns
    <3>. QED  BY <2>2, <3>1, Zenon DEF OpenOn
  <2>5. id = media.cnt
    BY <2>2, <2>3, <2>4, OpensNewFile
  <2>6. /\ item \in TocItem
        /\ new.cnt = media.cnt + 1
        /\ new.toc[id] = item
        /\ fat \in [Slots -> Handle]
    <3>1. media.cnt # MaxFileCnt
      BY <2>2 DEF Refused
    <3>2. item \in TocItem /\ new.cnt = media.cnt + 1 /\ new.toc = [media.toc EXCEPT ![id] = item]
      BY <2>3, <2>5, <3>1, CreatedFields
    <3>3. media.toc \in [Slots -> TocItem]
      BY <2>3 DEF Image
    <3>. QED  BY <3>2, <3>3, Zenon DEF TypeOK
  <2>7. /\ Opened(fat[id], item).mtd = TRUE
        /\ Opened(fat[id], item).size = item.size
    BY <2>6 DEF Opened, Handle
  <2>8. OpenSlots' = OpenSlots \cup {id} /\ id \notin OpenSlots /\ fat'[id].size = item.size
    <3>1. fat'[id] = Opened(fat[id], item)
      BY <2>4, <2>6
    <3>2. OpenSlots' = OpenSlots \cup {id}
      BY <2>4, <2>6, <2>7, OpenSlotsAfterOpen
    <3>. QED  BY <2>4, <2>7, <3>1, <3>2 DEF OpenSlots
  <2>9. Df(new) = Capacity - End(item)
    <3>1. new.cnt > 0 /\ new.cnt - 1 = id
      BY <2>5, <2>6, SlotIntervals
    <3>. QED  BY <2>6, <3>1, Zenon DEF Df
  <2>10. item.start = Capacity - Df(media) /\ Df(media) \in Int
    BY <2>2, <2>3, NewItemPlace DEF Sound
  <2>11. Df(new) = Df(media) - item.size
    BY <2>6, <2>9, <2>10, SizesAssumption DEF End, TocItem, Bytes16
  <2>. QED  BY <2>2, <2>8, <2>11
<1>. QED  BY <1>1, StoreInvariant, PTL DEF Spec, CreateTakesItsSize

-----------------------------------------------------------------------------
(* A careful caller.                                                       *)

LEMMA CarefulImplements == [CarefulNext]_vars => [Next]_vars
<1>1. ASSUME NEW name \in Names \ {NoName}, Open(name) PROVE Next
  BY <1>1 DEF Next
<1>2. ASSUME NEW name \in Names, NEW size \in Numbers, Create(name, size) PROVE Next
  BY <1>2 DEF Next
<1>. QED  BY <1>1, <1>2, Zenon DEF CarefulNext, Next

LEMMA CarefulStoreInvariant ==
  ASSUME SmallDevice, FitsCounter
  PROVE  CarefulSpec => [](TypeOK /\ HandleCount /\ StoreInv)
  BY TypeInit, TypeStep, CountInit, CountStep, StoreInit, StoreStep, CarefulImplements, PTL
  DEF CarefulSpec

(* What care adds: the table passes fsck(), and no handle is on an unused  *)
(* entry, so the entry create() fills next is never open already.          *)
CarefulInv == Mountable /\ OpenOnlyStored

LEMMA CarefulInit == Init => CarefulInv
<1>. SUFFICES ASSUME Init PROVE CarefulInv
  OBVIOUS
<1>1. fat = [i \in Slots |-> Closed] /\ media \in Images
  BY Zenon DEF Init, RamInit
<1>2. OpenSlots = {}
  BY <1>1 DEF OpenSlots, Closed
<1>3. OpenSlots \subseteq Files(media)
  BY <1>2
<1>. QED  BY <1>1, <1>3, Zenon
  DEF CarefulInv, Mountable, OpenOnlyStored, Used

LEMMA CarefulKept ==
  ASSUME CarefulInv, UNCHANGED media, OpenSlots' \subseteq OpenSlots
  PROVE  CarefulInv'
  BY Zenon DEF CarefulInv, Mountable, OpenOnlyStored, Used

LEMMA CarefulAfterNothing ==
  ASSUME CarefulInv, NEW call, NEW v, Nothing(call, v)
  PROVE  CarefulInv'
<1>1. UNCHANGED media /\ OpenSlots' \subseteq OpenSlots
  BY Zenon DEF Nothing, ram, OpenSlots
<1>. QED  BY <1>1, CarefulKept

(* A name that is not "" opens a stored file.                              *)
LEMMA OpensStored ==
  ASSUME TypeOK, NEW m \in Image, Unused(m), OpenSlots \subseteq Files(m),
         NEW call, NEW name \in Names \ {NoName}, OpenOn(call, m, name)
  PROVE  OpenSlots' \subseteq Files(m)
<1>1. CASE UNCHANGED ram
  BY <1>1, Zenon DEF ram, OpenSlots
<1>2. CASE ~ UNCHANGED ram
  <2>1. PICK id \in Slots :
          /\ FoundAt(m, name, id)
          /\ fat' = [fat EXCEPT ![id] = Opened(@, m.toc[id])]
    BY <1>2, Zenon DEF OpenOn
  <2>2. id \in Files(m)
    BY <2>1 DEF FoundAt, Unused, EmptyItem
  <2>3. fat \in [Slots -> Handle]
    BY DEF TypeOK
  <2>4. Opened(fat[id], m.toc[id]).mtd = TRUE
    BY <2>3 DEF Opened, Handle
  <2>5. OpenSlots' = OpenSlots \cup {id}
    BY <2>1, <2>3, <2>4, OpenSlotsAfterOpen
  <2>. QED  BY <2>2, <2>5
<1>. QED  BY <1>1, <1>2

(* A file of the careful caller passes the checks of fsck().               *)
LEMMA CreatedPassesFsck ==
  ASSUME SmallDevice, TypeOK, StoreInv, FsckOk(media),
         NEW name \in Names, NEW size \in Nat,
         ProperFile(name, size), ~ Refused(media, name, size)
  PROVE  FsckOk(Created(media, name, size))
<1>. DEFINE item == NewItem(media, name, size)
            new == Created(media, name, size)
<1>1. Formatted(media) /\ Sound(media) /\ media \in Image
  BY DEF ProperFile, StoreInv, TypeOK
<1>2. media.cnt # MaxFileCnt
  BY DEF Refused
<1>3. /\ item \in TocItem
      /\ Formatted(new)
      /\ new.cnt = media.cnt + 1
      /\ new.toc = [media.toc EXCEPT ![media.cnt] = item]
  BY <1>1, <1>2, CreatedFields
<1>4. media.cnt \in Slots /\ media.toc \in [Slots -> TocItem]
  BY <1>1, <1>2, NextSlot DEF Image
<1>5. /\ item.start >= SuperSize
      /\ item.start = Capacity - Df(media)
      /\ Df(media) \in Int
  BY <1>1, NewItemPlace DEF Sound
<1>6. CheckName(item.name)
  BY DEF NewItem, ProperFile, Refused, CheckName
<1>7. End(item) < Capacity
  <2>1. size \in 0 .. U16 - 1 /\ U16 \in Nat /\ size < Df(media)
    BY SizesAssumption DEF ProperFile
  <2>2. item.size = size
    BY <2>1, CutIsIdentity DEF NewItem
  <2>. QED  BY <1>5, <2>1, <2>2, SizesAssumption DEF End
<1>. HIDE DEF item, new
<1>8. ASSUME NEW i \in Files(new)
      PROVE  /\ CheckName(new.toc[i].name)
             /\ End(new.toc[i]) < Capacity
             /\ new.toc[i].start >= SuperSize
  <2>1. i = media.cnt \/ i \in Files(media)
    <3>1. new.cnt - 1 = media.cnt
      BY <1>3, <1>4, SlotIntervals
    <3>2. Files(new) = 0 .. media.cnt
      BY <3>1, Zenon DEF Files
    <3>. QED  BY <3>2, <1>4, SlotIntervals DEF Files
  <2>2. CASE i = media.cnt
    BY <2>2, <1>3, <1>4, <1>5, <1>6, <1>7
  <2>3. CASE i \in Files(media) /\ i # media.cnt
    <3>1. i \in Slots
      BY <2>3, <1>4, SlotIntervals DEF Files
    <3>2. new.toc[i] = media.toc[i]
      BY <2>3, <3>1, <1>3, <1>4
    <3>. QED  BY <2>3, <3>2, Zenon DEF FsckOk
  <2>. QED  BY <2>1, <2>2, <2>3
<1>. QED  BY <1>3, <1>8, Zenon DEF FsckOk, new

LEMMA CarefulStep ==
  ASSUME SmallDevice
  PROVE  TypeOK /\ HandleCount /\ StoreInv /\ CarefulInv /\ [CarefulNext]_vars => CarefulInv'
<1>. SUFFICES ASSUME TypeOK, HandleCount, StoreInv, CarefulInv, [CarefulNext]_vars
              PROVE  CarefulInv'
  OBVIOUS
<1>. USE DEF Halt
<1>0. fat \in [Slots -> Handle] /\ media \in Image
  BY DEF TypeOK
<1>1. CASE Fsck
  BY <1>1, CarefulAfterNothing, Zenon DEF Fsck
<1>2. CASE Mkfs
  <2>1. CASE Nothing("mkfs", "HALT")
    BY <2>1, CarefulAfterNothing
  <2>2. CASE Idle /\ media' = Fresh /\ UNCHANGED ram
    <3>1. OpenSlots' = {}
      BY <2>2, Zenon DEF Idle, HandleCount, OpenSlots, ram
    <3>2. Formatted(Fresh) /\ Files(Fresh) = {}
      BY FreshImage DEF Files, Fresh
    <3>3. FsckOk(Fresh)
      BY <3>2 DEF FsckOk
    <3>. QED  BY <2>2, <3>1, <3>3, Zenon DEF CarefulInv, Mountable, OpenOnlyStored, Used
  <2>. QED  BY <1>2, <2>1, <2>2, Zenon DEF Mkfs
<1>3. ASSUME UNCHANGED media, UNCHANGED fat PROVE CarefulInv'
  <2>1. OpenSlots' \subseteq OpenSlots
    BY <1>3, Zenon DEF OpenSlots
  <2>. QED  BY <1>3, <2>1, CarefulKept
<1>4. CASE Mount \/ Umount
  BY <1>3, <1>4, CarefulAfterNothing, Zenon DEF Mount, Umount
<1>5. ASSUME NEW name \in Names \ {NoName}, Open(name) PROVE CarefulInv'
  <2>1. CASE Nothing("open", "HALT")
    BY <2>1, CarefulAfterNothing
  <2>2. CASE Mounted /\ OpenOn("open", media, name) /\ UNCHANGED media
    <3>1. Unused(media) /\ OpenSlots \subseteq Files(media)
      BY <2>2 DEF StoreInv, Sound, CarefulInv, OpenOnlyStored
    <3>2. OpenSlots' \subseteq Files(media)
      BY <1>0, <2>2, <3>1, OpensStored
    <3>. QED  BY <2>2, <3>2, Zenon DEF CarefulInv, Mountable, OpenOnlyStored, Used
  <2>. QED  BY <1>5, <2>1, <2>2, Zenon DEF Open
<1>6. ASSUME NEW name \in Names, NEW size \in Numbers, ProperFile(name, size),
             Create(name, size)
      PROVE  CarefulInv'
  <2>1. CASE Nothing("create", "HALT") \/ Nothing("create", "nullptr")
    BY <2>1, CarefulAfterNothing
  <2>2. CASE /\ Mounted
             /\ ~ Refused(media, name, size)
             /\ media' = Created(media, name, size)
             /\ OpenOn("create", media', name)
    <3>. DEFINE new == Created(media, name, size)
    <3>0. Formatted(media) /\ Used
      BY <2>2, ImagesAssumption DEF StoreInv, Used
    <3>1. /\ Formatted(media) /\ Sound(media) /\ FsckOk(media) /\ size \in Nat
          /\ OpenSlots \subseteq Files(media)
      BY <3>0, NumbersAssumption DEF StoreInv, CarefulInv, Mountable, OpenOnlyStored
    <3>2. FsckOk(new)
      BY <1>6, <2>2, <3>1, CreatedPassesFsck
    <3>3. Sound(new) /\ Files(media) \subseteq Files(new) /\ new \in Image
      BY <1>0, <2>2, <3>1, SoundAfterCreate, CreatedType
    <3>4. name \in Names \ {NoName}
      BY <1>6, NamesAssumption DEF ProperFile
    <3>. HIDE DEF new
    <3>5. media' = new /\ OpenOn("create", new, name)
      BY <2>2 DEF new
    <3>6. OpenSlots' \subseteq Files(new)
      BY <3>1, <3>3, <3>4, <3>5, OpensStored DEF Sound
    <3>. QED  BY <3>2, <3>5, <3>6, Zenon DEF CarefulInv, Mountable, OpenOnlyStored, Used
  <2>. QED  BY <1>6, <2>1, <2>2, Zenon DEF Create, Created
<1>7. ASSUME NEW i \in Slots, Close(i) PROVE CarefulInv'
  <2>1. CASE Nothing("close", "HALT") \/ Nothing("close", "void")
    BY <2>1, CarefulAfterNothing
  <2>2. CASE fat' = [fat EXCEPT ![i] = Closed] /\ UNCHANGED <<media, super_open>>
    <3>1. OpenSlots' \subseteq OpenSlots
      BY <1>0, <2>2, OpenSlotsAfterClose
    <3>. QED  BY <2>2, <3>1, CarefulKept, Zenon
  <2>. QED  BY <1>7, <2>1, <2>2, Zenon DEF Close
<1>8. ASSUME NEW i \in Slots, NEW n, fat' = [fat EXCEPT ![i].tip = n],
             UNCHANGED <<media, files_opened, super_open>>
      PROVE  CarefulInv'
  <2>1. OpenSlots' \subseteq OpenSlots
    BY <1>0, <1>8, OpenSlotsAfterMove
  <2>. QED  BY <1>8, <2>1, CarefulKept, Zenon
<1>9. ASSUME NEW i \in Slots, NEW n \in Numbers,
             SetPosition(i, n) \/ Read(i, n) \/ Write(i, n)
      PROVE  CarefulInv'
  <2>1. ASSUME NEW call, NEW done, Advance(call, i, done) PROVE CarefulInv'
    BY <1>8, <2>1 DEF Advance
  <2>. QED  BY <1>8, <1>9, <2>1, CarefulAfterNothing, Zenon DEF SetPosition, Read, Write
<1>10. CASE Restart
  <2>1. OpenSlots' = {}
    BY <1>10, OpenSlotsAfterRestart DEF Restart
  <2>. QED  BY <1>10, <2>1, CarefulKept, Zenon DEF Restart
<1>11. CASE UNCHANGED vars
  BY <1>3, <1>11, Zenon DEF vars
<1>. QED
  BY <1>1, <1>2, <1>4, <1>5, <1>6, <1>7, <1>9, <1>10, <1>11, Zenon
  DEF CarefulNext, FsCalls, FileCalls

LEMMA CarefulInvariant ==
  ASSUME SmallDevice, FitsCounter
  PROVE  CarefulSpec => [](TypeOK /\ HandleCount /\ StoreInv /\ CarefulInv)
<1>. USE TypeInit, TypeStep, CountInit, CountStep, StoreInit, StoreStep, CarefulInit,
         CarefulStep, CarefulImplements
<1>. QED  BY PTL DEF CarefulSpec

(* A careful caller never loses its store at a restart.                    *)
THEOREM StaysMountable == SmallDevice /\ FitsCounter => (CarefulSpec => []Mountable)
<1>. SUFFICES ASSUME SmallDevice, FitsCounter PROVE CarefulSpec => []Mountable
  OBVIOUS
<1>1. CarefulInv => Mountable
  BY DEF CarefulInv
<1>. QED  BY <1>1, CarefulInvariant, PTL

(* The entry create() fills is the one whose handle it returns.            *)
LEMMA CreateReturnsHandle ==
  ASSUME TypeOK, StoreInv, CarefulInv, CarefulNext, Mounted, media' # media
  PROVE  /\ last'.ret = "file"
         /\ \E i \in Slots : OpenSlots' = OpenSlots \cup {i} /\ i \notin OpenSlots
<1>1. PICK name \in Names, size \in Numbers : Create(name, size)
  BY CarefulImplements, OnlyCreateWrites
<1>. DEFINE new == Created(media, name, size)
<1>2. ~ Refused(media, name, size) /\ media' = new /\ OpenOn("create", new, name)
  BY <1>1, Zenon DEF Create, Created, Nothing, Halt
<1>3. /\ Formatted(media) /\ media \in Image /\ size \in Nat
      /\ fat \in [Slots -> Handle] /\ OpenSlots \subseteq Files(media)
  BY NumbersAssumption DEF StoreInv, TypeOK, CarefulInv, OpenOnlyStored
<1>4. media.cnt # MaxFileCnt
  BY <1>2 DEF Refused
<1>5. /\ new.toc = [media.toc EXCEPT ![media.cnt] = NewItem(media, name, size)]
      /\ media.toc \in [Slots -> TocItem]
      /\ media.cnt \in Slots
  BY <1>3, <1>4, CreatedFields, NextSlot DEF Image
<1>6. new.toc[media.cnt].name = name
  BY <1>5 DEF NewItem
<1>7. PICK id \in Slots :
        /\ FoundAt(new, name, id)
        /\ \/ fat[id].mtd
           \/ /\ ~ fat[id].mtd
              /\ fat' = [fat EXCEPT ![id] = Opened(@, new.toc[id])]
              /\ Returns("create", "file")
  BY <1>2, <1>5, <1>6, Zenon DEF OpenOn, Absent
<1>8. id = media.cnt
  BY <1>2, <1>3, <1>7, OpensNewFile
<1>9. id \notin OpenSlots
  BY <1>3, <1>5, <1>8, SlotIntervals DEF Files
<1>10. ~ fat[id].mtd
  BY <1>9 DEF OpenSlots
<1>11. Opened(fat[id], new.toc[id]).mtd = TRUE
  BY <1>3 DEF Opened, Handle
<1>12. OpenSlots' = OpenSlots \cup {id}
  BY <1>3, <1>7, <1>10, <1>11, OpenSlotsAfterOpen
<1>13. last'.ret = "file"
  BY <1>7, <1>10 DEF Returns
<1>. QED  BY <1>9, <1>12, <1>13

(* For a careful caller a create() that stored its file returned a handle. *)
THEOREM CreateIsAtomic == SmallDevice /\ FitsCounter => (CarefulSpec => CreateAtomic)
<1>. SUFFICES ASSUME SmallDevice, FitsCounter PROVE CarefulSpec => CreateAtomic
  OBVIOUS
<1>. DEFINE Step == Mounted /\ media' # media =>
                      /\ last'.ret = "file"
                      /\ \E i \in Slots : OpenSlots' = OpenSlots \cup {i} /\ i \notin OpenSlots
<1>1. TypeOK /\ StoreInv /\ CarefulInv /\ [CarefulNext]_vars => [Step]_vars
  BY CreateReturnsHandle
<1>. QED  BY <1>1, CarefulInvariant, PTL DEF CarefulSpec, CreateAtomic
=============================================================================
