-------------------------------- MODULE Spi25 --------------------------------
(***************************************************************************)
(* The SPI drivers src/mtd_25aa.cpp (EEPROM and FRAM) and src/mtd_s25.cpp  *)
(* (NOR flash) against the chip.  A write is enabled, sent, and waited for *)
(* by the clock and by the busy bit of the chip.  A chip that is working   *)
(* takes no command, and says nothing about it.  Time passes in ticks of   *)
(* the system, also while a thread of higher priority keeps the driver     *)
(* waiting.                                                                *)
(***************************************************************************)
EXTENDS Naturals

CONSTANTS
  Devices,       \* the devices; one of them is on the board
  DriverOf,      \* "25aa" or "s25", for each device
  ProgramTime,   \* cfg.programtime in ticks, 0 for FRAM
  EraseTime,     \* cfg.erasetime in ticks
  ChipTimes,     \* how long the chip of a device may need to program
  EraseTimes,    \* how long it may need to erase
  SleepTime,     \* ticks of osalThreadSleepMilliseconds(2)
  Pages,         \* pages of the memory
  Values,        \* contents of a page
  Blank,         \* contents of an erased page
  Garbage        \* what a working chip answers to a read

ASSUME DevicesAssumption ==
  /\ DriverOf \in [Devices -> {"25aa", "s25"}]
  /\ ProgramTime \in [Devices -> Nat] /\ EraseTime \in [Devices -> Nat]
  /\ ChipTimes \in [Devices -> SUBSET Nat] /\ EraseTimes \in [Devices -> SUBSET (Nat \ {0})]
  /\ SleepTime \in Nat
  /\ Pages # {}
  /\ \A d \in Devices : ProgramTime[d] = 0 => DriverOf[d] = "25aa" /\ ChipTimes[d] = {0}
  /\ \A d \in Devices : ProgramTime[d] # 0 => 0 \notin ChipTimes[d]
  /\ Blank \notin Values /\ Garbage \notin Values \cup {Blank}

VARIABLES
  dev,       \* the device
  mem,       \* the pages
  chip,      \* the chip: write enable latch, error bit, ticks left, what it does
  pc,        \* where the driver is
  call,      \* the call: arguments, second wait of bus_erase(), outcome
  elapsed,   \* ticks since wait_op_complete() started
  lost,      \* the chip missed the write enable command of this call
  expect     \* history: what each page may contain, by the outcomes of all calls

vars == <<dev, mem, chip, pc, call, elapsed, lost, expect>>

Flash == DriverOf[dev] = "s25"
Contents == Values \cup {Blank}
Busy == chip.left > 0

NoJob == [op |-> "none"]
NoCall == [op |-> "none", page |-> CHOOSE p \in Pages : TRUE, value |-> Blank,
           second |-> FALSE, ok |-> TRUE, got |-> Blank]

Init ==
  /\ dev \in Devices
  /\ mem = [p \in Pages |-> Blank]
  /\ chip = [wel |-> FALSE, err |-> FALSE, left |-> 0, job |-> NoJob]
  /\ pc = "idle"
  /\ call = NoCall
  /\ elapsed = 0
  /\ lost = FALSE
  /\ expect = [p \in Pages |-> {Blank}]

-----------------------------------------------------------------------------
(* The chip.                                                               *)

Carried(job) ==
  IF job.op = "write" THEN [mem EXCEPT ![job.page] = job.value] ELSE [p \in Pages |-> Blank]

Job == [op |-> call.op, page |-> call.page, value |-> call.value]

(* It takes a command when it is ready and enabled.                        *)
Command ==
  IF Busy \/ ~ chip.wel THEN UNCHANGED <<mem, chip>>
  ELSE \E d \in IF call.op = "write" THEN ChipTimes[dev] ELSE EraseTimes[dev] :
         IF d = 0
           THEN mem' = Carried(Job) /\ chip' = [chip EXCEPT !.wel = FALSE]
           ELSE chip' = [chip EXCEPT !.left = d, !.job = Job] /\ UNCHANGED mem

(* When it is done the latch falls.  Flash may find that it failed.        *)
Work ==
  \/ ~ Busy /\ UNCHANGED <<mem, chip>>
  \/ chip.left > 1 /\ chip' = [chip EXCEPT !.left = @ - 1] /\ UNCHANGED mem
  \/ /\ chip.left = 1
     /\ \E failed \in BOOLEAN :
          /\ failed => Flash
          /\ mem' = IF failed THEN mem ELSE Carried(chip.job)
          /\ chip' = [wel |-> FALSE, err |-> chip.err \/ failed, left |-> 0, job |-> NoJob]

-----------------------------------------------------------------------------
(* The driver.                                                             *)

Goto(label) == pc' = label /\ UNCHANGED <<call, elapsed, expect>>

(* bus_write(), bus_read() or bus_erase() returns.  A failed call may have *)
(* done its work or not; nobody sees whether the chip missed the enable of *)
(* an erase.                                                               *)
Outcome(ok) ==
  [ p \in Pages |->
      CASE call.op = "write" /\ p = call.page ->
             IF ok THEN {call.value} ELSE expect[p] \cup {call.value}
        [] call.op = "erase" -> IF ok /\ ~ lost THEN {Blank} ELSE expect[p] \cup {Blank}
        [] OTHER -> expect[p] ]

Return(ok) ==
  /\ pc' = "idle"
  /\ call' = [call EXCEPT !.ok = ok]
  /\ expect' = Outcome(ok)
  /\ UNCHANGED elapsed

(* wait_op_complete() begins; bus_erase() calls it twice.                  *)
BeginWait(second) ==
  /\ pc' = "sleep" /\ elapsed' = 0
  /\ call' = [call EXCEPT !.second = second]
  /\ UNCHANGED expect

(* The caller erases a page of flash before it writes it.                  *)
Call ==
  /\ pc = "idle"
  /\ \/ \E p \in Pages, v \in Values :
          /\ Flash => expect[p] = {Blank}
          /\ call' = [NoCall EXCEPT !.op = "write", !.page = p, !.value = v]
          /\ pc' = "enable"
     \/ Flash /\ call' = [NoCall EXCEPT !.op = "erase"] /\ pc' = "enable"
     \/ \E p \in Pages : call' = [NoCall EXCEPT !.op = "read", !.page = p] /\ pc' = "command"
  /\ lost' = FALSE
  /\ UNCHANGED <<dev, mem, chip, elapsed, expect>>

(* Write enable; mtd_s25.cpp looks whether the chip took it.               *)
Enable ==
  /\ pc = "enable"
  /\ \/ Busy /\ UNCHANGED <<chip, lost>>
     \/ ~ Busy /\ chip' = [chip EXCEPT !.wel = TRUE] /\ UNCHANGED lost
     \/ ~ Busy /\ Flash /\ lost' = TRUE /\ UNCHANGED chip
  /\ Goto(IF Flash THEN "check" ELSE "command")
  /\ UNCHANGED <<dev, mem>>

Enabled_Assumed == TRUE                   \* fault: the latch is not looked at

Enabled == chip.wel

Check ==
  /\ pc = "check"
  /\ IF Enabled THEN Goto("command")
     ELSE IF call.op = "erase" THEN BeginWait(TRUE)
     ELSE Return(FALSE)
  /\ UNCHANGED <<dev, mem, chip, lost>>

SendRead ==
  /\ pc = "command" /\ call.op = "read"
  /\ pc' = "idle"
  /\ call' = [call EXCEPT !.got = IF Busy THEN Garbage ELSE mem[call.page]]
  /\ UNCHANGED <<dev, mem, chip, elapsed, lost, expect>>

SendWrite ==
  /\ pc = "command" /\ call.op # "read"
  /\ Command
  /\ IF ProgramTime[dev] = 0 THEN Return(TRUE) ELSE BeginWait(FALSE)
  /\ UNCHANGED <<dev, lost>>

Window == IF call.second THEN EraseTime[dev] ELSE ProgramTime[dev]

Rest_Short ==                             \* fault: one tick too few
  IF Flash THEN SleepTime ELSE IF ProgramTime[dev] = 0 THEN 0 ELSE ProgramTime[dev] - 1

Rest == IF Flash THEN SleepTime ELSE ProgramTime[dev]

Awake_Equal == elapsed = Rest             \* fault: misses a tick and sleeps for ever

Awake == elapsed >= Rest

Wake ==
  /\ pc = "sleep" /\ Awake
  /\ Goto(IF Flash THEN "test" ELSE "poll")
  /\ UNCHANGED <<dev, mem, chip, lost>>

(* bus_erase() ignores how the first wait ended.                           *)
Again_Always == ~ call.second             \* fault: a write waits twice as well

Again_Never == FALSE                      \* fault: bus_erase() waits once

Again == call.op = "erase" /\ ~ call.second

WaitOver(ok) == IF Again THEN BeginWait(TRUE) ELSE Return(ok)

(* The loop of mtd_s25.cpp: while there is time, look at the busy bit.     *)
Test ==
  /\ pc = "test"
  /\ IF elapsed < Window THEN Goto("poll") ELSE WaitOver(FALSE)
  /\ UNCHANGED <<dev, mem, chip, lost>>

Poll ==
  /\ pc = "poll"
  /\ IF ~ Flash THEN Return(~ Busy)
     ELSE IF Busy THEN Goto("test")
     ELSE WaitOver(~ chip.err)
  /\ UNCHANGED <<dev, mem, chip, lost>>

Step == Enable \/ Check \/ SendRead \/ SendWrite \/ Wake \/ Test \/ Poll

(* The clock runs while the driver or the chip is at work.  The count of   *)
(* ticks stops where no comparison sees the difference.                    *)
Waiting == pc \in {"sleep", "test", "poll"}
Horizon == LET t == {SleepTime, ProgramTime[dev], EraseTime[dev]}
           IN CHOOSE m \in t : \A n \in t : n <= m

Tick ==
  /\ Waiting \/ Busy
  /\ Work
  /\ elapsed' = IF Waiting /\ elapsed < Horizon THEN elapsed + 1 ELSE elapsed
  /\ UNCHANGED <<dev, pc, call, lost, expect>>

Next == Call \/ Step \/ Tick

(* The driver runs and time passes.                                        *)
Spec == Init /\ [][Next]_vars /\ WF_vars(Step) /\ WF_vars(Tick)

-----------------------------------------------------------------------------
(* Properties.                                                             *)

TypeOK ==
  /\ dev \in Devices
  /\ mem \in [Pages -> Contents]
  /\ chip.wel \in BOOLEAN /\ chip.err \in BOOLEAN /\ chip.left \in Nat
  /\ chip.left = 0 <=> chip.job = NoJob
  /\ pc \in {"idle", "enable", "check", "command", "sleep", "test", "poll"}
  /\ call \in [ op: {"none", "read", "write", "erase"}, page: Pages, value: Contents,
                second: BOOLEAN, ok: BOOLEAN, got: Contents \cup {Garbage} ]
  /\ call.second => call.op = "erase"
  /\ elapsed \in 0 .. Horizon
  /\ lost \in BOOLEAN
  /\ expect \in [Pages -> SUBSET Contents]

(* A read returns what the reported outcomes of the earlier calls allow:   *)
(* what was reported written is there, and nothing else changed.           *)
ReadsBack == pc = "idle" /\ call.op = "read" => call.got \in expect[call.page]

(* The number of written bytes that write() returns: what is reported as    *)
(* written is in the memory.                                               *)
WrittenIsStored ==
  pc = "idle" /\ call.op = "write" /\ call.ok => mem[call.page] = call.value

(* No call returns while the chip is still at work, so that the next one   *)
(* finds a chip that takes commands.                                       *)
ChipRests == pc = "idle" => ~ Busy

(* A chip that keeps to its times is only reported to have failed when it  *)
(* missed a command or found an error: programtime is the worst case.      *)
EepromInTime ==
  ~ Flash /\ pc = "idle" /\ call.op = "write" => call.ok

(* The polling loop ends, and every call returns.                          *)
CallsReturn == pc # "idle" ~> pc = "idle"
=============================================================================
