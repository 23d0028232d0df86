------------------------------ MODULE NvramPower ------------------------------
(***************************************************************************)
(* The store through power cuts and failing transfers.  The firmware of    *)
(* src/test_app/main.cpp starts with NvramInit(), which mounts the store   *)
(* or formats it, and opens its files with NvramTryOpen(), which creates   *)
(* the missing ones.  mkfs() and create() of src/nvram_fs.cpp write the    *)
(* superblock piece by piece; each piece is a step here, so power may fail *)
(* or a transfer may break off between two pieces and inside one.          *)
(*                                                                         *)
(* The other calls do not write, and are the actions of NvramFs.           *)
(***************************************************************************)
EXTENDS NvramFs

CONSTANTS
  AppNames,     \* the files of the firmware
  AppSize       \* AppSize[n]: the size it asks for file n

(* Files the store can hold together, with a byte to spare.                *)
ASSUME AppAssumption ==
  /\ AppNames \subseteq AlnumNames \ LongNames
  /\ IsFiniteSet(AppNames) /\ Cardinality(AppNames) <= MaxFileCnt
  /\ AppSize \in [AppNames -> Bytes16 \ {0}]
  /\ \A n \in AppNames : SuperSize + MaxFileCnt * AppSize[n] < Capacity

VARIABLES
  pc,        \* where the firmware is
  row,       \* table entry being written
  item,      \* what create() writes there
  todo,      \* files still to be opened by NvramTryOpen()
  faulted,   \* a transfer broke off since the last start
  missed     \* the checksum agreed with a half-written table since the last format

pvars == <<vars, pc, row, item, todo, faulted, missed>>

MkfsSteps == {"mkfs head", "mkfs row", "mkfs seal"}
CreateSteps == {"create item", "create count", "create seal"}

PowerTypeOK ==
  /\ TypeOK
  /\ pc \in MkfsSteps \cup CreateSteps \cup
            {"mount", "remount", "ready", "missing", "create open", "halted"}
  /\ row \in Slots
  /\ item \in TocItem
  /\ todo \subseteq AppNames
  /\ faulted \in BOOLEAN
  /\ missed \in BOOLEAN

PowerInit ==
  /\ Init
  /\ pc = "mount"
  /\ row = 0
  /\ item = EmptyItem
  /\ todo = AppNames
  /\ faulted = FALSE
  /\ missed = FALSE

-----------------------------------------------------------------------------
(* Writing a piece of the superblock.                                      *)

SameContent(m1, m2) == m1.magic = m2.magic /\ m1.cnt = m2.cnt /\ m1.toc = m2.toc

(* A change of the count alone is one byte, which a CRC-8 always notices.  *)
OneByte(m1, m2) == m1.magic = m2.magic /\ m1.toc = m2.toc

(* What can become of the agreement of table and checksum when the table   *)
(* changes from that of m1 to that of m2 and the checksum byte stays.      *)
Agree(m1, m2) ==
  IF SameContent(m1, m2) THEN {m1.sealed}
  ELSE IF m1.sealed /\ OneByte(m1, m2) THEN {FALSE}
  ELSE BOOLEAN

Stored(m2) == {[m2 EXCEPT !.sealed = s] : s \in Agree(media, m2)}

(* The contents once the piece of the current step is written.             *)
Written_FirstSlot(m) ==                   \* fault: every entry goes to the first slot
  CASE pc = "mkfs head"    -> [m EXCEPT !.magic = TRUE, !.cnt = 0]
    [] pc = "mkfs row"     -> [m EXCEPT !.toc[row] = EmptyItem]
    [] pc = "create item"  -> [m EXCEPT !.toc[0] = item]
    [] pc = "create count" -> [m EXCEPT !.cnt = (row + 1) % U8]

Written(m) ==
  CASE pc = "mkfs head"    -> [m EXCEPT !.magic = TRUE, !.cnt = 0]
    [] pc = "mkfs row"     -> [m EXCEPT !.toc[row] = EmptyItem]
    [] pc = "create item"  -> [m EXCEPT !.toc[row] = item]
    [] pc = "create count" -> [m EXCEPT !.cnt = (row + 1) % U8]

(* An entry of which only some bytes are new.  The beginning of a new name *)
(* may be any name; the end of an old one is behind a zero byte.           *)
MixedNames(old, new) == IF new \in {old, NoName} THEN {old, new} ELSE Names

Mixed(old, new) ==
  [ name:  MixedNames(old.name, new.name),
    start: {old.start, new.start},
    size:  {old.size, new.size} ]

(* The contents when power or the bus fails inside the piece.  Bytes are   *)
(* written in order; a single byte is written or not.                      *)
TornContents ==
  CASE pc = "mkfs head" -> {[media EXCEPT !.magic = TRUE]}
    [] pc = "mkfs row" -> {[media EXCEPT !.toc[row] = t] : t \in Mixed(media.toc[row], EmptyItem)}
    [] pc = "create item" -> {[media EXCEPT !.toc[row] = t] : t \in Mixed(media.toc[row], item)}
    [] OTHER -> {}

SealSteps == {"mkfs seal", "create seal"}
Writing == pc \in MkfsSteps \cup CreateSteps

(* The device after the step, and after the step was interrupted.          *)
Completed == IF pc \in SealSteps THEN {Seal(media)} ELSE Stored(Written(media))
Interrupted ==
  {media} \cup (IF Writing THEN Completed \cup UNION {Stored(m2) : m2 \in TornContents} ELSE {})

(* A checksum that agrees without having been computed for the table.      *)
Collides == media'.sealed /\ ~ SameContent(media, media') /\ pc \notin SealSteps

WritePiece ==
  /\ media' \in Completed
  /\ missed' = (missed \/ Collides)

-----------------------------------------------------------------------------
(* NvramInit(): mount, else format and mount.                              *)

Goto(next) == pc' = next /\ UNCHANGED <<row, item, todo, faulted>>

FirstMount ==
  /\ pc = "mount"
  /\ Mount
  /\ Goto(IF last'.ret = "SUCCESS" THEN "ready" ELSE "mkfs head")
  /\ UNCHANGED missed

SecondMount ==
  /\ pc = "remount"
  /\ Mount
  /\ Goto(IF last'.ret = "SUCCESS" THEN "ready" ELSE "halted")
  /\ UNCHANGED missed

MkfsHead ==
  /\ pc = "mkfs head"
  /\ WritePiece
  /\ pc' = "mkfs row" /\ row' = 0
  /\ UNCHANGED <<ram, last, item, todo, faulted>>

LastRow_Over == row = MaxFileCnt          \* fault: one entry too many

LastRow_Skipped == row + 2 >= MaxFileCnt  \* fault: the last entry is not cleared

LastRow == row + 1 = MaxFileCnt

MkfsRow ==
  /\ pc = "mkfs row"
  /\ WritePiece
  /\ IF LastRow THEN pc' = "mkfs seal" /\ UNCHANGED row
                ELSE row' = row + 1 /\ UNCHANGED pc
  /\ UNCHANGED <<ram, last, item, todo, faulted>>

MkfsSeal ==
  /\ pc = "mkfs seal"
  /\ media' \in Completed
  /\ missed' = FALSE
  /\ Returns("mkfs", "SUCCESS")
  /\ Goto("remount")
  /\ UNCHANGED ram

-----------------------------------------------------------------------------
(* NvramTryOpen(): open, else create.                                      *)

TryOpen(name) ==
  /\ pc = "ready" /\ name \in todo
  /\ Open(name)
  /\ IF last'.ret = "file"
       THEN pc' = "ready" /\ todo' = todo \ {name} /\ UNCHANGED item
       ELSE pc' = "missing" /\ item' = [EmptyItem EXCEPT !.name = name] /\ UNCHANGED todo
  /\ UNCHANGED <<row, faulted, missed>>

(* create() up to its first write, on the name that open() did not find.   *)
TryCreate ==
  LET name == item.name
      size == AppSize[name]
  IN /\ pc = "missing"
     /\ \/ /\ Df(media) < size \/ Refused(media, name, size)
           /\ pc' = "halted"
           /\ UNCHANGED <<row, item>>
        \/ /\ Df(media) >= size /\ ~ Refused(media, name, size)
           /\ pc' = "create item"
           /\ row' = media.cnt
           /\ item' = NewItem(media, name, size)
     /\ UNCHANGED <<vars, todo, faulted, missed>>

Following == [ s \in CreateSteps |->
  CASE s = "create item"  -> "create count"
    [] s = "create count" -> "create seal"
    [] s = "create seal"  -> "create open" ]

CreateStep ==
  /\ pc \in CreateSteps
  /\ WritePiece
  /\ Goto(Following[pc])
  /\ UNCHANGED <<ram, last>>

CreateOpen ==
  /\ pc = "create open"
  /\ OpenOn("create", media, item.name) /\ UNCHANGED media
  /\ IF last'.ret = "file"
       THEN pc' = "ready" /\ todo' = todo \ {item.name}
       ELSE pc' = "halted" /\ UNCHANGED todo
  /\ UNCHANGED <<row, item, faulted, missed>>

(* Once all files are open the firmware uses and closes them.              *)
CloseFile(i) ==
  /\ pc = "ready" /\ todo = {}
  /\ Close(i)
  /\ Goto("ready")
  /\ UNCHANGED missed

-----------------------------------------------------------------------------
(* What may go wrong, in the middle of a piece or between two.             *)

Break ==
  /\ media' \in Interrupted
  /\ missed' = (missed \/ Collides)

(* A transfer of the superblock fails.  mkfs() returns and NvramInit() goes *)
(* on to the second mount(); everywhere else a check halts the firmware.    *)
FaultOutcome == IF pc \in MkfsSteps THEN "remount" ELSE "halted"

Fault ==
  /\ pc # "halted"
  /\ pc = "ready" => todo # {}             \* no transfer of the superblock then
  /\ Break
  /\ pc' = FaultOutcome
  /\ faulted' = TRUE
  /\ UNCHANGED <<ram, last, row, item, todo>>

(* Power fails and returns, or a halted board is restarted.                *)
PowerCut ==
  /\ Break
  /\ files_opened' = 0
  /\ super_open' = FALSE
  /\ fat' = [i \in Slots |-> Closed]
  /\ Returns("power on", "void")
  /\ pc' = "mount"
  /\ todo' = AppNames
  /\ faulted' = FALSE
  /\ UNCHANGED <<row, item>>

Step ==
  \/ FirstMount \/ SecondMount
  \/ MkfsHead \/ MkfsRow \/ MkfsSeal
  \/ \E name \in AppNames : TryOpen(name)
  \/ TryCreate \/ CreateStep \/ CreateOpen

PowerNext ==
  \/ Step
  \/ \E i \in Slots : CloseFile(i)
  \/ Fault
  \/ PowerCut

(* The processor runs.  Nothing is assumed about power and bus.            *)
PowerSpec == PowerInit /\ [][PowerNext]_pvars /\ WF_pvars(Step)

-----------------------------------------------------------------------------
(* Properties.                                                             *)

(* The store promises what NvramStore says: a file whose creation ended is *)
(* never moved, changed or lost, except by a power cut or a failed transfer *)
(* inside the creation of another file.                                    *)
StateOf == IF pc \in CreateSteps THEN "adding"
           ELSE IF pc \notin MkfsSteps /\ FsckOk(media) THEN "valid" ELSE "lost"

StoredFiles ==
  CASE StateOf = "adding" -> {media.toc[i] : i \in 0 .. row - 1}
    [] StateOf = "valid"  -> {media.toc[i] : i \in Files(media)}
    [] StateOf = "lost"   -> {}

Store == INSTANCE NvramStore
           WITH FileNames <- AppNames, Bytes <- Bytes16, stored <- StoredFiles, state <- StateOf

KeepsPromise == Store!Spec

(* A board whose memory cannot be taken for a table with files when mkfs() *)
(* has written nothing but the magic, whatever its checksum byte is.       *)
NewBoard ==
  \A m \in Images : m.cnt = 0 \/ ~ FsckOk([m EXCEPT !.magic = TRUE, !.sealed = TRUE])

(* The firmware never stops at one of its checks unless a transfer failed  *)
(* or a checksum missed a half-written table: what it formats it can mount, *)
(* what it creates it can open, and its files fit at every start.          *)
HaltsOnlyOnFault == pc = "halted" => faulted \/ missed

(* Whatever was interrupted before the last start, every handle covers a   *)
(* file of the table, unless a checksum missed a half-written table.       *)
HandlesStored == missed \/ HandleSafe

(* When power and bus stop failing, every file is open in the end (or what *)
(* failed since the last start keeps the board halted).                    *)
FilesServed ==
  <>[][~ PowerCut /\ ~ Fault]_pvars =>
    <>[](\/ pc = "ready" /\ todo = {}
         \/ pc = "halted" /\ (faulted \/ missed))

=============================================================================
