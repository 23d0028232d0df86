----------------------------- MODULE LegacyEeprom -----------------------------
(***************************************************************************)
(* The two libraries that came before this one: src/legacy/c, streams over *)
(* parts of an I2C EEPROM, and src/legacy/cpp, a file system whose table   *)
(* of files is part of the firmware, stored at the start of the EEPROM and *)
(* formatted when it differs.  Both cut a write at page boundaries and go  *)
(* on after a piece that failed, C at the old position with the next bytes *)
(* of the caller, C++ at the next position.  One thread uses each file; C  *)
(* gives the bus back before the chip has programmed, C++ holds a mutex.   *)
(***************************************************************************)
EXTENDS Integers, FiniteSets

CONSTANTS
  FileCnt,     \* EEPROM_FS_MAX_FILE_COUNT, the files of either library
  Start,       \* first byte of each file: startpage and pageoffset, barrier_low
  Size,        \* inode size, barrier_hi - barrier_low
  PageSize,    \* bytes of a page; the table of files takes the first page
  Capacity,    \* bytes of the EEPROM
  Lengths,     \* the lengths of reads and writes that are called
  Stm32F1,     \* STM32F1XX_I2C: the I2C cell cannot read a single byte
  MaxFaults,   \* bound: transfers the bus spoils
  MaxSent      \* bound: bytes a C write may consume of its buffer and behind it

Files == 1 .. FileCnt
Pages == Capacity \div PageSize
PageOf(a) == a \div PageSize
FileOf(a) == IF \E f \in Files : a \in Start[f] .. Start[f] + Size[f] - 1
               THEN CHOOSE f \in Files : a \in Start[f] .. Start[f] + Size[f] - 1
               ELSE 0

(* What the constructor of EepromFs checks of its table, and the order of  *)
(* the last two files, which it leaves out.                                *)
Overlap(f) == Start[f - 1] + Size[f - 1] > Start[f]
TableFits == Start[1] >= PageSize /\ \A f \in Files \ {1} : ~ Overlap(f)

(* What EepromFileOpen() checks of the barriers of a stream.               *)
BarriersFit ==
  \A f \in Files : Size[f] > 0 /\ PageSize < Capacity /\ Start[f] + Size[f] <= Capacity

ASSUME LayoutAssumption ==
  /\ FileCnt \in Nat \ {0} /\ PageSize \in Nat \ {0}
  /\ Capacity \in Nat /\ Capacity % PageSize = 0
  /\ Start \in [Files -> Nat] /\ Size \in [Files -> Nat]
  /\ TableFits /\ BarriersFit
  /\ Lengths \subseteq Nat \ {0} /\ Stm32F1 \in BOOLEAN
  /\ MaxFaults \in Nat /\ MaxSent \in Nat

VARIABLES
  lib,      \* "c" or "cpp"
  mem,      \* each cell: the address its byte was meant for, -f for a byte from
            \* behind the buffer of the writer of file f, Old for an older byte
  toc,      \* the records of the table that agree with the firmware
  busy,     \* the thread whose page the chip is programming, or Nobody
  mutex,    \* the thread that holds EepromMtd::mutex, or Nobody
  boot,     \* where mount() is, and the next page or record of mkfs()
  opened,   \* the open files
  files_opened,
  tip,      \* position of each file
  call,     \* the write call of each thread
  faults,   \* transfers the bus spoiled
  failed,   \* history: a piece of a write was not taken
  halt      \* what chDbgCheck() or chDbgPanic() said, "" while running

rom == <<mem, toc>>
files == <<opened, files_opened, tip>>
vars == <<lib, rom, busy, mutex, boot, files, call, faults, failed, halt>>

Old == 0
Nobody == 0
Idle == [n |-> 0, from |-> 0, sent |-> 0, written |-> 0, phase |-> "idle", ok |-> TRUE]

At(step) == boot.step = step
Goto(step, i) == boot' = [step |-> step, next |-> i]

(* C streams need no mount.                                                *)
PowerUp ==
  /\ busy' = Nobody /\ mutex' = Nobody
  /\ Goto(IF lib = "c" THEN "up" ELSE "down", 0)
  /\ opened' = {} /\ files_opened' = 0 /\ tip' = [f \in Files |-> 0]
  /\ call' = [f \in Files |-> Idle]

Init ==
  /\ lib \in {"c", "cpp"}
  /\ mem = [a \in 0 .. Capacity - 1 |-> Old]
  /\ toc = {}
  /\ busy = Nobody /\ mutex = Nobody
  /\ boot = [step |-> IF lib = "c" THEN "up" ELSE "down", next |-> 0]
  /\ opened = {} /\ files_opened = 0 /\ tip = [f \in Files |-> 0]
  /\ call = [f \in Files |-> Idle]
  /\ faults = 0 /\ failed = FALSE /\ halt = ""

(* A halted system keeps nothing but its EEPROM.                           *)
Halt(why) == halt' = why /\ PowerUp /\ UNCHANGED <<lib, rom>>

Running == halt = ""
Up == Running /\ At("up")
Quiet(f) == call[f].phase = "idle"
Spoiled == faults < MaxFaults /\ faults' = faults + 1
Healthy == UNCHANGED faults

-----------------------------------------------------------------------------
(* C++: mount(), with fsck() and mkfs() inside.                            *)

FsckOk_First == 1 \in toc                 \* fault: the first record only

FsckOk == toc = Files

Mount ==
  /\ Running /\ lib = "cpp"
  /\ \/ At("up") /\ Halt("misuse") /\ Healthy
     \/ /\ At("down")
        /\ Goto(IF FsckOk THEN "load" ELSE "erase", 0)
        /\ Healthy /\ UNCHANGED <<lib, rom, busy, mutex, files, call, halt>>
     \/ At("down") /\ Spoiled /\ Halt("MTD broken")
  /\ UNCHANGED failed

(* massErase(), page by page, the table first; mkfs() does not look at what *)
(* it returns.                                                             *)
Erase ==
  /\ Running /\ At("erase")
  /\ \/ /\ mem' = [a \in DOMAIN mem |-> IF PageOf(a) = boot.next THEN Old ELSE mem[a]]
        /\ toc' = {}
        /\ IF boot.next + 1 = Pages THEN Goto("record", 1) ELSE Goto("erase", boot.next + 1)
        /\ Healthy
     \/ /\ Spoiled
        /\ Goto("record", 1)
        /\ toc' \in {toc, {}} /\ UNCHANGED mem
  /\ UNCHANGED <<lib, busy, mutex, files, call, failed, halt>>

(* The bytes of a record one by one: one that is cut short agrees with the *)
(* firmware only if it did before.                                         *)
Record ==
  /\ Running /\ At("record")
  /\ \/ /\ toc' = toc \cup {boot.next}
        /\ IF boot.next = FileCnt THEN Goto("check", 0) ELSE Goto("record", boot.next + 1)
        /\ Healthy /\ UNCHANGED <<lib, mem, busy, mutex, files, call, halt>>
     \/ Spoiled /\ Halt("MTD broken")
  /\ UNCHANGED failed

(* The second fsck(), and reading the inode table.                         *)
Load ==
  /\ Running /\ (At("check") \/ At("load"))
  /\ \/ At("check") /\ ~ FsckOk /\ Halt("mkfs created FS with errors") /\ Healthy
     \/ /\ (At("load") \/ FsckOk)
        /\ Goto("up", 0)
        /\ files_opened' = 1
        /\ Healthy /\ UNCHANGED <<lib, rom, busy, mutex, opened, tip, call, halt>>
     \/ Spoiled /\ Halt("MTD broken")
  /\ UNCHANGED failed

Umount ==
  /\ Up /\ lib = "cpp"
  /\ IF files_opened > 1 THEN Halt("misuse") /\ UNCHANGED <<faults, failed>>
     ELSE /\ files_opened' = 0
          /\ Goto("down", 0)
          /\ UNCHANGED <<lib, rom, busy, mutex, opened, tip, call, faults, failed, halt>>

-----------------------------------------------------------------------------
(* Opening, closing, moving.                                               *)

CountAfterOpen == IF lib = "cpp" THEN (files_opened + 1) % 256 ELSE files_opened

(* C++ reads the table record by record until it finds the name.           *)
Open(f) ==
  /\ Up /\ f \notin opened /\ mutex = Nobody
  /\ \/ /\ (lib = "c" \/ f \in toc)
        /\ opened' = opened \cup {f}
        /\ files_opened' = CountAfterOpen
        /\ tip' = [tip EXCEPT ![f] = 0]
        /\ Healthy /\ UNCHANGED <<lib, rom, busy, mutex, boot, call, halt>>
     \/ lib = "cpp" /\ Spoiled /\ Halt("MTD broken")
  /\ UNCHANGED failed

CountAfterClose_Kept == files_opened      \* fault: close() does not count

CountAfterClose == IF lib = "cpp" THEN (files_opened - 1) % 256 ELSE files_opened

(* C resets the position here, C++ when the file is opened again.          *)
Close(f) ==
  /\ Up /\ f \in opened /\ Quiet(f)
  /\ opened' = opened \ {f}
  /\ files_opened' = CountAfterClose
  /\ tip' = [tip EXCEPT ![f] = 0]
  /\ UNCHANGED <<lib, rom, busy, mutex, boot, call, faults, failed, halt>>

(* C: to the end at most.                                                  *)
Lseek_Free(f, offset) == offset           \* fault: any offset is taken

Lseek(f, offset) == IF offset > Size[f] THEN Size[f] ELSE offset

(* C++: the end is refused, too.                                           *)
SetPosition(f, offset) == IF offset >= Size[f] THEN tip[f] ELSE offset

Sought(f, offset) == IF lib = "c" THEN Lseek(f, offset) ELSE SetPosition(f, offset)

Seek(f, offset) ==
  /\ Up /\ f \in opened /\ Quiet(f)
  /\ tip' = [tip EXCEPT ![f] = Sought(f, offset)]
  /\ UNCHANGED <<lib, rom, busy, mutex, boot, opened, files_opened, call, faults, failed, halt>>

Clamp_NoTip(f, n) == IF n > Size[f] THEN Size[f] - tip[f] ELSE n     \* fault

Clamp(f, n) == IF tip[f] + n > Size[f] THEN Size[f] - tip[f] ELSE n

-----------------------------------------------------------------------------
(* Reading n bytes, what it leaves as the position.  One byte on an STM32F1 *)
(* is two bytes read from here, or from one byte before the last, and then *)
(* a seek that counts from behind them.                                    *)

Single(f, n) == Stm32F1 /\ n = 1
Last(f) == tip[f] + 1 >= Size[f]
Read2(f) == tip[f] + 2

(* C: in a file of one byte nothing is left to read behind the seek.       *)
AfterC(f, n, ok) ==
  CASE ~ Single(f, n)                    -> IF ok THEN Lseek(f, tip[f] + n) ELSE tip[f]
    [] Single(f, n) /\ ~ Last(f)         -> IF ok THEN Lseek(f, Read2(f) + 1) ELSE tip[f]
    [] Single(f, n) /\ Last(f)           -> IF ok \/ tip[f] = 0 THEN Size[f] ELSE tip[f] - 1

(* C++: the seek behind the last byte is refused.                          *)
AfterCpp(f, n, ok) ==
  CASE ~ Single(f, n)                    -> IF ok THEN tip[f] + n ELSE tip[f]
    [] Single(f, n) /\ ~ Last(f) /\ ok   -> IF Read2(f) + 1 >= Size[f] THEN Read2(f) ELSE Read2(f) + 1
    [] Single(f, n) /\ ~ Last(f) /\ ~ ok -> tip[f]
    [] Single(f, n) /\ Last(f)           -> IF ok THEN Size[f] ELSE tip[f] - 1

After(f, n, ok) == IF lib = "c" THEN AfterC(f, n, ok) ELSE AfterCpp(f, n, ok)

(* In a file of one byte the C++ workaround calls itself for ever.         *)
Endless(f, n) == Single(f, n) /\ lib = "cpp" /\ Size[f] = 1

(* A C reader gets no answer from a chip that is programming.              *)
Answers == busy = Nobody

Read(f, n) ==
  /\ Up /\ f \in opened /\ Quiet(f) /\ mutex = Nobody
  /\ LET m == Clamp(f, n)
     IN /\ m > 0
        /\ IF Endless(f, m) THEN Halt("stack overflow") /\ Healthy
           ELSE /\ \/ tip' = [tip EXCEPT ![f] = After(f, m, Answers)] /\ Healthy
                   \/ tip' = [tip EXCEPT ![f] = After(f, m, FALSE)] /\ Spoiled
                /\ UNCHANGED <<lib, rom, busy, mutex, boot, opened, files_opened, call, halt>>
  /\ UNCHANGED failed

-----------------------------------------------------------------------------
(* Writing.                                                                *)

(* Bytes of calls that are over are forgotten: they are Old again.         *)
Underway(a, f) ==
  \E g \in Files \ {f} : ~ Quiet(g) /\ a \in call[g].from .. call[g].from + call[g].n - 1

Write(f, n) ==
  /\ Up /\ f \in opened /\ Quiet(f)
  /\ LET m == Clamp(f, n)
         from == Start[f] + tip[f]
     IN /\ m > 0
        /\ IF lib = "cpp" /\ tip[f] + m > Size[f] THEN Halt("Overflow error")
           ELSE /\ call' = [call EXCEPT ![f] = [Idle EXCEPT !.n = m, !.from = from, !.phase = "ready"]]
                /\ mem' = [a \in DOMAIN mem |-> IF Underway(a, f) THEN mem[a] ELSE Old]
                /\ UNCHANGED <<lib, toc, busy, mutex, boot, files, halt>>
  /\ UNCHANGED <<faults, failed>>

OnePage(c) == PageOf(c.from) = PageOf(c.from + c.n - 1)

HeadLen_Page(c) == PageSize               \* fault: the first piece is a page

HeadLen(c) == (PageOf(c.from) + 1) * PageSize - c.from

(* The head up to the page boundary, pages, and a tail: what is left is    *)
(* counted from the bytes that were written.                               *)
PieceLen(c) ==
  IF OnePage(c) THEN c.n
  ELSE IF c.sent = 0 THEN HeadLen(c)
  ELSE IF c.n - c.written > PageSize THEN PageSize
  ELSE c.n - c.written

LastPiece(c) == OnePage(c) \/ (c.sent > 0 /\ c.n - c.written <= PageSize)

(* absoffset of C++ advances past every piece, the position of C past      *)
(* those that were written.                                                *)
PieceAt(f) == IF lib = "cpp" THEN call[f].from + call[f].sent ELSE Start[f] + tip[f]

(* The byte at cell i of the piece: bp advances past every piece.          *)
Payload_Again(f, i) == call[f].from + i   \* fault: bp does not advance

Payload(f, i) ==
  IF call[f].sent + i < call[f].n THEN call[f].from + call[f].sent + i ELSE -f

Store(f, k) ==
  [ a \in DOMAIN mem |->
      IF a \in PieceAt(f) .. PieceAt(f) + k - 1 THEN Payload(f, a - PieceAt(f)) ELSE mem[a] ]

Holder_Nobody(f) == Nobody                \* fault: the mutex is not held while the chip works

Holder(f) == IF lib = "cpp" THEN f ELSE Nobody

(* The driver of C compares an offset in the file, that of C++ an address. *)
OutOfDevice(f, n) == IF lib = "c" THEN tip[f] + n > Capacity ELSE PieceAt(f) + n > Capacity
InOnePage(f, n) == PageOf(PieceAt(f)) = PageOf(PieceAt(f) + n - 1)

(* The transfer: all of it, or the bus fails after some bytes, or the chip *)
(* is still programming for another thread and does not answer.            *)
Transfer(f, n) ==
  \/ /\ Answers
     /\ mem' = Store(f, n) /\ busy' = f
     /\ call' = [call EXCEPT ![f].phase = "sent", ![f].ok = TRUE]
     /\ Healthy /\ UNCHANGED failed
  \/ /\ Answers /\ Spoiled
     /\ \E k \in 0 .. n : mem' = Store(f, k) /\ busy' = IF k = 0 THEN Nobody ELSE f
     /\ call' = [call EXCEPT ![f].phase = "sent", ![f].ok = FALSE]
     /\ failed' = TRUE
  \/ /\ ~ Answers
     /\ call' = [call EXCEPT ![f].phase = "sent", ![f].ok = FALSE]
     /\ Healthy /\ failed' = TRUE /\ UNCHANGED <<mem, busy>>

Send(f) ==
  /\ Up /\ call[f].phase = "ready" /\ mutex = Nobody
  /\ LET n == PieceLen(call[f])
     IN /\ call[f].sent + n <= MaxSent
        /\ IF OutOfDevice(f, n)
             THEN Halt("Transaction out of device bounds") /\ UNCHANGED <<faults, failed>>
           ELSE IF ~ InOnePage(f, n)
             THEN Halt("Data can not be fitted in single page") /\ UNCHANGED <<faults, failed>>
           ELSE /\ Transfer(f, n)
                /\ mutex' = Holder(f)
                /\ UNCHANGED <<lib, toc, boot, files, halt>>

(* chThdSleep(write_time), then the loop of write().                       *)
Unlocked_OnSuccess(f) == IF call[f].ok THEN Nobody ELSE mutex        \* fault

Unlocked(f) == IF mutex = f THEN Nobody ELSE mutex

Taken(f) == IF call[f].ok THEN PieceLen(call[f]) ELSE 0
WrittenBy(f) == call[f].written + Taken(f)

(* C moves with every piece, C++ when write() has returned.                *)
TipAfterPiece(f) == IF lib = "c" THEN Lseek(f, tip[f] + Taken(f)) ELSE tip[f]
TipAfterWrite(f) == IF lib = "c" THEN TipAfterPiece(f) ELSE tip[f] + WrittenBy(f)

Wake(f) ==
  /\ Up /\ call[f].phase = "sent"
  /\ busy' = IF busy = f THEN Nobody ELSE busy
  /\ mutex' = Unlocked(f)
  /\ IF LastPiece(call[f])
       THEN /\ call' = [call EXCEPT ![f] = Idle]
            /\ tip' = [tip EXCEPT ![f] = TipAfterWrite(f)]
       ELSE /\ call' = [call EXCEPT ![f].phase = "ready", ![f].written = WrittenBy(f),
                                    ![f].sent = @ + PieceLen(call[f])]
            /\ tip' = [tip EXCEPT ![f] = TipAfterPiece(f)]
  /\ UNCHANGED <<lib, rom, boot, opened, files_opened, faults, failed, halt>>

(* The chip may be ready before the thread wakes up.                       *)
ChipDone ==
  /\ busy # Nobody
  /\ busy' = Nobody
  /\ UNCHANGED <<lib, rom, mutex, boot, files, call, faults, failed, halt>>

(* Power is lost, or a halted system is started again.                     *)
Restart ==
  /\ halt' = "" /\ PowerUp
  /\ mem' = [a \in DOMAIN mem |-> Old]
  /\ UNCHANGED <<lib, toc, faults, failed>>

Step(f) == Send(f) \/ Wake(f)

Next ==
  \/ Mount \/ Erase \/ Record \/ Load \/ Umount
  \/ \E f \in Files :
       \/ Open(f) \/ Close(f) \/ Step(f)
       \/ \E offset \in 0 .. Size[f] + 1 : Seek(f, offset)
       \/ \E n \in Lengths : Read(f, n) \/ Write(f, n)
  \/ ChipDone \/ Restart

(* The operating system runs every thread and serves those that wait for   *)
(* the mutex in turn.                                                      *)
Fairness == \A f \in Files : WF_vars(Wake(f)) /\ SF_vars(Send(f))

Spec == Init /\ [][Next]_vars /\ Fairness

-----------------------------------------------------------------------------
(* Properties.                                                             *)

(* files_opened of C++, a uint8_t, counts the mount and every file.        *)
CountFits == FileCnt + 1 < 256

CallRecord ==
  [ n: 0 .. Capacity, from: 0 .. Capacity, sent: 0 .. MaxSent, written: 0 .. Capacity,
    phase: {"idle", "ready", "sent"}, ok: BOOLEAN ]

TypeOK ==
  /\ lib \in {"c", "cpp"}
  /\ mem \in [0 .. Capacity - 1 -> -FileCnt .. Capacity - 1]
  /\ toc \subseteq Files /\ opened \subseteq Files
  /\ busy \in 0 .. FileCnt /\ mutex \in 0 .. FileCnt
  /\ boot.step \in {"down", "erase", "record", "check", "load", "up"}
  /\ files_opened \in 0 .. FileCnt + 1
  /\ tip \in [Files -> Nat]
  /\ call \in [Files -> CallRecord]
  /\ \A f \in Files : call[f].phase # "idle" => f \in opened /\ call[f].written < call[f].n

(* No byte lands outside of the file it was written to: never in C, even   *)
(* when pieces fail, and in C++ as long as none does.                      *)
Writer(v) == IF v < 0 THEN -v ELSE FileOf(v)
StaysInFile ==
  (lib = "c" \/ ~ failed) => \A a \in DOMAIN mem : mem[a] # Old => Writer(mem[a]) = FileOf(a)

(* The count a write returns is of bytes that are in place, whatever other *)
(* threads did meanwhile, as long as no piece failed.                      *)
StoresWhatItReturns ==
  [][ \A f \in Files :
        call[f].phase = "sent" /\ Quiet(f)' /\ LastPiece(call[f]) /\ ~ failed' /\ f \in opened' =>
          /\ WrittenBy(f) = call[f].n
          /\ \A a \in call[f].from .. call[f].from + call[f].n - 1 : mem'[a] = a ]_vars

(* Without a failed transfer only wrong use halts: mount() when mounted,   *)
(* umount() with open files, and reading a file of a single byte.          *)
HaltsOnlyOnFault == halt \notin {"", "misuse", "stack overflow"} => failed \/ faults > 0

(* C++: a thread that gets the mutex finds the chip ready.                 *)
ReadyWhenFree == lib = "cpp" /\ mutex = Nobody => busy = Nobody

(* C++: what is mounted is the whole table, wherever an earlier mkfs() was *)
(* cut off and whatever it ignored.                                        *)
MountedIsWhole == files_opened > 0 => toc = Files

(* The position stays in the file through failed writes and single reads.  *)
TipInside == \A f \in Files : tip[f] \in 0 .. Size[f]

(* C++: a write returns or halts, however many of its pieces fail.         *)
WritesEnd == \A f \in Files : lib = "cpp" /\ ~ Quiet(f) ~> Quiet(f)

(* The claim of EepromMtd::write() and of eeprom_write(): "Transaction out *)
(* of device bounds" does not happen.                                      *)
InDevice == halt # "Transaction out of device bounds"
=============================================================================
