----------------------------- MODULE NvramVolume -----------------------------
(***************************************************************************)
(* The file system with the bytes of its files.  NvramFs says where a      *)
(* handle points; here the transfers of File::read() and File::write() of  *)
(* src/nvram_file.cpp move bytes between a buffer of the caller and the    *)
(* device, whose read and write do what MtdBytes states and MtdBus         *)
(* implements.                                                             *)
(***************************************************************************)
EXTENDS NvramFs

CONSTANTS
  Byte,       \* values of a byte
  Buffers,    \* what the application writes: [len, data]
  Lengths     \* how many bytes it asks to read

Area == SuperSize .. Capacity - 1

ASSUME BuffersAssumption ==
  /\ \A b \in Buffers : b.len \in Nat /\ b.data \in [0 .. b.len - 1 -> Byte]
  /\ Lengths \subseteq Nat

VARIABLES
  data,       \* the bytes of the device behind the superblock
  transfer    \* what the last call transferred: the file of the handle, its
              \* position before the call, the count or the bytes

vvars == <<vars, data, transfer>>

NoTransfer == [op |-> "none"]

VolumeInit == Init /\ data \in [Area -> Byte] /\ transfer = NoTransfer

-----------------------------------------------------------------------------
(* Where the position of a handle is on the device.                        *)
Address_NoTip(h) == h.start               \* fault: every transfer starts at byte 0

Address(h) == h.tip + h.start

NameOf(i) == media.toc[i].name

(* The device with the first n bytes of a buffer from address a on.        *)
Put(a, buf, n) ==
  [x \in Area |-> IF x - a \in 0 .. n - 1 THEN buf.data[x - a] ELSE data[x]]

(* File::write(): the position moves by the bytes the device is sure of; a *)
(* transfer that breaks off may have put some more.                        *)
FileWrite(i, buf) ==
  /\ Running
  /\ \/ ~ fat[i].mtd /\ Halt("write") /\ transfer' = NoTransfer /\ UNCHANGED data
     \/ /\ fat[i].mtd
        /\ \E done, put \in 0 .. ClampSize(fat[i], buf.len) :
             /\ done <= put
             /\ Advance("write", i, done)
             /\ data' = Put(Address(fat[i]), buf, put)
             /\ transfer' = IF ClampSize(fat[i], buf.len) = 0 THEN NoTransfer
                            ELSE [op |-> "write", name |-> NameOf(i), at |-> fat[i].tip, count |-> done]

(* File::read(): all the bytes that are left, up to n, or none.            *)
FileRead(i, n) ==
  /\ Running
  /\ UNCHANGED data
  /\ \/ ~ fat[i].mtd /\ Halt("read") /\ transfer' = NoTransfer
     \/ /\ fat[i].mtd
        /\ \E done \in {0, ClampSize(fat[i], n)} :
             /\ Advance("read", i, done)
             /\ transfer' = IF done = 0 THEN NoTransfer
                  ELSE [op |-> "read", name |-> NameOf(i), at |-> fat[i].tip,
                        bytes |-> [x \in 0 .. done - 1 |-> data[Address(fat[i]) + x]]]

(* The calls that transfer no bytes of a file.                             *)
Quiet == transfer' = NoTransfer /\ UNCHANGED data

Transfers ==
  \E i \in Slots :
    \/ \E buf \in Buffers : FileWrite(i, buf)
    \/ \E n \in Lengths : FileRead(i, n)

OtherFileCalls ==
  \E i \in Slots : Close(i) \/ \E n \in Numbers : SetPosition(i, n)

(* The careful caller of NvramFs.                                          *)
CarefulVolumeNext ==
  \/ Transfers
  \/ OtherFileCalls /\ Quiet
  \/ FsCalls /\ Quiet
  \/ (\E name \in Names \ {NoName} : Open(name)) /\ Quiet
  \/ /\ \E name \in Names, size \in Numbers : ProperFile(name, size) /\ Create(name, size)
     /\ Quiet
  \/ Restart /\ Quiet

CarefulVolumeSpec == VolumeInit /\ [][CarefulVolumeNext]_vvars

-----------------------------------------------------------------------------
(* Properties.                                                             *)

(* The files of NvramFiles: the stored files under their names, with the   *)
(* bytes of the device at their addresses.                                 *)
StoredNames == IF Used THEN {media.toc[i].name : i \in Files(media)} ELSE {}
SlotOf(name) == CHOOSE i \in Files(media) : media.toc[i].name = name
Bytes(item) == [x \in 0 .. item.size - 1 |-> data[item.start + x]]

FilesNow == [name \in StoredNames |-> Bytes(media.toc[SlotOf(name)])]

ByteArrays == UNION {[0 .. n - 1 -> Byte] : n \in 0 .. Capacity - SuperSize}

Stored == INSTANCE NvramFiles WITH Contents <- ByteArrays, files <- FilesNow

(* Files are byte arrays of their own: whatever order of calls, restarts   *)
(* and transfers that break off, a write changes bytes of its file only,   *)
(* in order and at the position, the count it returns is in place, a read  *)
(* returns the bytes of its file, and create() disturbs no other file.     *)
ServesFiles == Stored!Spec
=============================================================================
