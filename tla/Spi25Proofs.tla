----------------------------- MODULE Spi25Proofs -----------------------------
(***************************************************************************)
(* Proofs about Spi25, for every device, every time and any number of      *)
(* pages.  The types need nothing; the rest needs chips that keep to the   *)
(* times the driver is configured with, and the run spi_late_chip shows    *)
(* what happens without.                                                   *)
(***************************************************************************)
EXTENDS Spi25, TLAPS

(* The configured times are the worst case: programtime for a page, and    *)
(* erasetime for an erase, which only flash has.                           *)
ChipsKeepTime ==
  \A d \in Devices :
    /\ ChipTimes[d] \subseteq 0 .. ProgramTime[d]
    /\ DriverOf[d] = "s25" => EraseTimes[d] \subseteq 0 .. EraseTime[d]

-----------------------------------------------------------------------------
(* The inductive invariant.                                                *)

Jobs == [op: {"write", "erase"}, page: Pages, value: Contents]

(* The types, with what the chip works on.                                 *)
Shape ==
  /\ dev \in Devices
  /\ mem \in [Pages -> Contents]
  /\ chip \in [wel: BOOLEAN, err: BOOLEAN, left: Nat, job: Jobs \cup {NoJob}]
  /\ chip.left = 0 <=> chip.job = NoJob
  /\ pc \in {"idle", "enable", "check", "command", "sleep", "test", "poll"}
  /\ call \in [ op: {"none", "read", "write", "erase"}, page: Pages, value: Contents,
                second: BOOLEAN, ok: BOOLEAN, got: Contents \cup {Garbage} ]
  /\ call.second => call.op = "erase"
  /\ pc \in {"enable", "check", "sleep", "test", "poll"} => call.op \in {"write", "erase"}
  /\ pc = "command" => call.op # "none"
  /\ elapsed \in 0 .. Horizon
  /\ lost \in BOOLEAN
  /\ expect \in [Pages -> SUBSET Contents]

(* The driver: what has been made sure of when it gets to a place.         *)
Control ==
  /\ call.op = "erase" => Flash
  /\ pc \in {"check", "test"} => Flash
  /\ pc = "check" => chip.wel \/ lost
  /\ pc = "command" /\ call.op # "read" => chip.wel
  /\ pc \in {"enable", "check", "command"} => ~ call.second
  /\ Waiting => ProgramTime[dev] # 0
  /\ ~ Flash => ~ chip.err

(* What is left to the chip fits into what is left of the wait; during the *)
(* first wait of bus_erase() into the whole of the second.                 *)
Clock ==
  /\ ~ Waiting => ~ Busy
  /\ Waiting /\ Busy =>
       /\ chip.job = Job
       /\ call.op = "write" => chip.left + elapsed <= ProgramTime[dev]
       /\ call.op = "erase" => chip.left <= EraseTime[dev]
       /\ call.second => chip.left + elapsed <= EraseTime[dev]
  /\ pc = "poll" /\ ~ Flash => ProgramTime[dev] <= elapsed

(* What the call is to leave in a page, if it concerns it.                 *)
Intended(p) ==
  IF call.op = "erase" THEN {Blank} ELSE IF p = call.page THEN {call.value} ELSE {}

(* A page holds what the earlier calls allow, or already what this one     *)
(* wants; a chip that rests and found no error has done what it was told.  *)
Data ==
  /\ ~ Waiting => \A p \in Pages : mem[p] \in expect[p]
  /\ Waiting => \A p \in Pages : mem[p] \in expect[p] \cup Intended(p)
  /\ Waiting /\ ~ Busy /\ ~ chip.err /\ ~ (call.op = "erase" /\ lost) =>
       \A p \in Pages : Intended(p) # {} => mem[p] \in Intended(p)

(* What a call that returned reported.                                     *)
Reports == ReadsBack /\ WrittenIsStored /\ EepromInTime

SafeInv == Control /\ Clock /\ Data /\ Reports

-----------------------------------------------------------------------------
(* Lemmas about the operators.                                             *)

(* Horizon is the longest of the three times.                              *)
LEMMA HorizonBounds ==
  ASSUME dev \in Devices
  PROVE  /\ Horizon \in Nat
         /\ SleepTime <= Horizon
         /\ ProgramTime[dev] <= Horizon
         /\ EraseTime[dev] <= Horizon
<1> DEFINE t == {SleepTime, ProgramTime[dev], EraseTime[dev]}
<1>1. SleepTime \in Nat /\ ProgramTime[dev] \in Nat /\ EraseTime[dev] \in Nat
  BY DevicesAssumption
<1>2. \E m \in t : \A n \in t : n <= m
  BY <1>1
<1>3. Horizon \in t /\ \A n \in t : n <= Horizon
  BY <1>2 DEF Horizon
<1> QED BY <1>1, <1>3

(* The memory after a job is a memory.                                     *)
LEMMA CarriedType ==
  ASSUME mem \in [Pages -> Contents], NEW job \in Jobs
  PROVE  Carried(job) \in [Pages -> Contents]
BY DEF Carried, Jobs, Contents

(* What a call reports is about contents of pages.                         *)
LEMMA OutcomeType ==
  ASSUME Shape, NEW ok \in BOOLEAN
  PROVE  Outcome(ok) \in [Pages -> SUBSET Contents]
<1>1. ASSUME NEW p \in Pages PROVE Outcome(ok)[p] \in SUBSET Contents
  <2>1. expect[p] \in SUBSET Contents /\ call.value \in Contents /\ Blank \in Contents
    BY DEF Shape, Contents
  <2> QED BY <2>1 DEF Outcome
<1> QED BY <1>1 DEF Outcome

(* A command leaves the chip and the memory what they are; a chip that     *)
(* takes it is busy with the job of the call, or has done it at once.      *)
LEMMA CommandEffect ==
  ASSUME Shape, Command, call.op \in {"write", "erase"}
  PROVE  \/ (Busy \/ ~ chip.wel) /\ UNCHANGED <<mem, chip>>
         \/ /\ ~ Busy /\ chip.wel
            /\ mem' = Carried(Job) /\ mem' \in [Pages -> Contents]
            /\ chip' = [chip EXCEPT !.wel = FALSE]
            /\ 0 \in IF call.op = "write" THEN ChipTimes[dev] ELSE EraseTimes[dev]
         \/ /\ ~ Busy /\ chip.wel /\ UNCHANGED mem
            /\ \E d \in (IF call.op = "write" THEN ChipTimes[dev] ELSE EraseTimes[dev]) \ {0} :
                 chip' = [chip EXCEPT !.left = d, !.job = Job]
<1>1. Job \in Jobs
  BY DEF Job, Jobs, Shape
<1>2. Carried(Job) \in [Pages -> Contents]
  BY <1>1, CarriedType DEF Shape
<1> QED BY <1>2 DEF Command

(* A chip about to be done has a job to do.                                *)
LEMMA WorkDone ==
  ASSUME Shape, chip.left = 1
  PROVE  chip.job \in Jobs /\ Carried(chip.job) \in [Pages -> Contents]
<1>1. chip.job \in Jobs
  BY DEF Shape
<1> QED BY <1>1, CarriedType DEF Shape

(* A board keeps its device, and with it the horizon.                      *)
LEMMA SameDevice ==
  ASSUME dev' = dev
  PROVE  Horizon' = Horizon /\ Flash' = Flash
BY DEF Horizon, Flash

-----------------------------------------------------------------------------
(* The types are an invariant, whatever the chips do.                      *)

LEMMA ShapeInit ==
  Init => Shape
<1> SUFFICES ASSUME Init PROVE Shape
  OBVIOUS
<1>1. 0 \in 0 .. Horizon
  BY HorizonBounds DEF Init
<1>2. (CHOOSE p \in Pages : TRUE) \in Pages
  BY DevicesAssumption
<1> QED BY <1>1, <1>2 DEF Init, Shape, NoCall, Contents

LEMMA ShapeStep ==
  Shape /\ [Next]_vars => Shape'
<1> SUFFICES ASSUME Shape, [Next]_vars PROVE Shape'
  OBVIOUS
<1>h. Horizon \in Nat /\ 0 \in 0 .. Horizon
  BY HorizonBounds DEF Shape
<1>r. ASSUME NEW ok \in BOOLEAN, Return(ok), UNCHANGED <<dev, mem, chip, lost>>
      PROVE  Shape'
  <2>1. expect' \in [Pages -> SUBSET Contents]
    BY <1>r, OutcomeType DEF Return
  <2>2. elapsed' \in 0 .. Horizon'
    BY <1>r, SameDevice DEF Return, Shape
  <2> QED BY <1>r, <2>1, <2>2 DEF Return, Shape
<1>b. ASSUME NEW second \in BOOLEAN, BeginWait(second), UNCHANGED <<dev, mem, chip, lost>>,
             call.op \in {"write", "erase"}, second => call.op = "erase"
      PROVE  Shape'
  BY <1>b, <1>h, SameDevice DEF BeginWait, Shape
<1>w. ASSUME NEW ok \in BOOLEAN, WaitOver(ok), UNCHANGED <<dev, mem, chip, lost>>,
             call.op \in {"write", "erase"}
      PROVE  Shape'
  BY <1>w, <1>r, <1>b DEF WaitOver, Again
<1>g. ASSUME NEW label \in {"command", "check", "test", "poll"}, Goto(label),
             UNCHANGED <<dev, mem, lost>>, chip' = chip, call.op \in {"write", "erase"}
      PROVE  Shape'
  BY <1>g, SameDevice DEF Goto, Shape
<1>1. CASE Call
  <2>1. (CHOOSE p \in Pages : TRUE) \in Pages
    BY DevicesAssumption
  <2>2. NoCall \in [ op: {"none", "read", "write", "erase"}, page: Pages, value: Contents,
                     second: BOOLEAN, ok: BOOLEAN, got: Contents \cup {Garbage} ]
    BY <2>1 DEF NoCall, Contents
  <2>3. /\ call' \in [ op: {"read", "write", "erase"}, page: Pages, value: Contents,
                       second: BOOLEAN, ok: BOOLEAN, got: Contents \cup {Garbage} ]
        /\ ~ call'.second
        /\ (pc' = "enable" /\ call'.op \in {"write", "erase"}) \/ pc' = "command"
    <3>1. Values \subseteq Contents
      BY DEF Contents
    <3>2. NoCall.second = FALSE
      BY DEF NoCall
    <3> QED BY <1>1, <2>2, <3>1, <3>2 DEF Call
  <2>4. UNCHANGED <<dev, mem, chip, elapsed, expect>> /\ lost' \in BOOLEAN
    BY <1>1 DEF Call
  <2> QED BY <2>3, <2>4, SameDevice DEF Shape
<1>2. CASE Enable
  <2>1. /\ UNCHANGED <<dev, mem, call, elapsed, expect>>
        /\ pc' \in {"check", "command"} /\ call.op \in {"write", "erase"}
        /\ lost' \in BOOLEAN
        /\ chip' = chip \/ chip' = [chip EXCEPT !.wel = TRUE]
    BY <1>2 DEF Enable, Goto, Shape
  <2> QED BY <2>1, SameDevice DEF Shape
<1>3. CASE Check
  <2>1. call.op \in {"write", "erase"}
    BY <1>3 DEF Check, Shape
  <2> QED BY <1>3, <2>1, <1>g, <1>b, <1>r DEF Check
<1>4. CASE SendRead
  <2>1. mem[call.page] \in Contents
    BY DEF Shape
  <2> QED BY <1>4, <2>1, SameDevice DEF SendRead, Shape
<1>5. CASE SendWrite
  <2>1. call.op \in {"write", "erase"} /\ dev' = dev /\ lost' = lost
    BY <1>5 DEF SendWrite, Shape
  <2>2. /\ mem' \in [Pages -> Contents]
        /\ chip' \in [wel: BOOLEAN, err: BOOLEAN, left: Nat, job: Jobs \cup {NoJob}]
        /\ chip'.left = 0 <=> chip'.job = NoJob
    <3>1. Command
      BY <1>5 DEF SendWrite
    <3>2. CASE UNCHANGED <<mem, chip>>
      BY <3>2 DEF Shape
    <3>3. CASE ~ Busy /\ mem' \in [Pages -> Contents] /\ chip' = [chip EXCEPT !.wel = FALSE]
      BY <3>3 DEF Shape
    <3>4. CASE /\ ~ Busy /\ UNCHANGED mem
               /\ \E d \in (IF call.op = "write" THEN ChipTimes[dev]
                                                 ELSE EraseTimes[dev]) \ {0} :
                    chip' = [chip EXCEPT !.left = d, !.job = Job]
      <4>1. PICK d \in Nat \ {0} : chip' = [chip EXCEPT !.left = d, !.job = Job]
        BY <3>4, DevicesAssumption DEF Shape
      <4>2. Job \in Jobs /\ Job # NoJob
        BY <2>1 DEF Job, Jobs, NoJob, Shape
      <4> QED BY <3>4, <4>1, <4>2 DEF Shape
    <3> QED BY <2>1, <3>1, <3>2, <3>3, <3>4, CommandEffect
  <2>3. CASE Return(TRUE)
    <3>1. expect' \in [Pages -> SUBSET Contents]
      BY <2>3, OutcomeType DEF Return
    <3> QED BY <2>1, <2>2, <2>3, <3>1, SameDevice DEF Return, Shape
  <2>4. CASE BeginWait(FALSE)
    BY <2>1, <2>2, <2>4, <1>h, SameDevice DEF BeginWait, Shape
  <2> QED BY <1>5, <2>3, <2>4 DEF SendWrite
<1>6. CASE Wake
  BY <1>6, <1>g DEF Wake, Shape
<1>7. CASE Test
  <2>1. call.op \in {"write", "erase"}
    BY <1>7 DEF Test, Shape
  <2> QED BY <1>7, <2>1, <1>g, <1>w DEF Test
<1>8. CASE Poll
  <2>1. call.op \in {"write", "erase"}
    BY <1>8 DEF Poll, Shape
  <2>2. (~ Busy) \in BOOLEAN /\ (~ chip.err) \in BOOLEAN
    BY DEF Busy
  <2> QED BY <1>8, <2>1, <2>2, <1>g, <1>w, <1>r DEF Poll
<1>9. CASE Tick
  <2>1. UNCHANGED <<dev, pc, call, lost, expect>>
    BY <1>9 DEF Tick
  <2>2. elapsed' \in 0 .. Horizon'
    BY <1>9, <1>h, SameDevice DEF Tick, Shape
  <2>3. /\ mem' \in [Pages -> Contents]
        /\ chip' \in [wel: BOOLEAN, err: BOOLEAN, left: Nat, job: Jobs \cup {NoJob}]
        /\ chip'.left = 0 <=> chip'.job = NoJob
    <3>1. Work
      BY <1>9 DEF Tick
    <3>2. CASE UNCHANGED <<mem, chip>>
      BY <3>2 DEF Shape
    <3>3. CASE chip.left > 1 /\ chip' = [chip EXCEPT !.left = @ - 1] /\ UNCHANGED mem
      BY <3>3 DEF Shape
    <3>4. CASE /\ chip.left = 1
               /\ \E failed \in BOOLEAN :
                    /\ failed => Flash
                    /\ mem' = IF failed THEN mem ELSE Carried(chip.job)
                    /\ chip' = [wel |-> FALSE, err |-> chip.err \/ failed,
                                left |-> 0, job |-> NoJob]
      BY <3>4, WorkDone DEF Shape
    <3> QED BY <3>1, <3>2, <3>3, <3>4 DEF Work
  <2> QED BY <2>1, <2>2, <2>3 DEF Shape
<1>10. CASE UNCHANGED vars
  BY <1>10, SameDevice DEF vars, Shape
<1> QED BY <1>1, <1>2, <1>3, <1>4, <1>5, <1>6, <1>7, <1>8, <1>9, <1>10 DEF Next, Step

THEOREM ShapeInvariant ==
  Spec => []Shape
<1> QED BY ShapeInit, ShapeStep, PTL DEF Spec

(* TypeOK: the state of the driver and of the chip has its types.          *)
THEOREM Typing ==
  Spec => []TypeOK
<1>1. Shape => TypeOK
  BY DEF Shape, TypeOK
<1> QED BY <1>1, ShapeInvariant, PTL

-----------------------------------------------------------------------------
(* What holds when the chips keep to their times.                          *)

LEMMA SafeInit ==
  Init => SafeInv
<1> SUFFICES ASSUME Init PROVE SafeInv
  OBVIOUS
<1>1. call.op = "none" /\ ~ call.second
  BY DEF Init, NoCall
<1>2. pc = "idle" /\ ~ Waiting /\ ~ Busy /\ ~ chip.err
  BY DEF Init, Waiting, Busy
<1>3. \A p \in Pages : mem[p] \in expect[p]
  BY DEF Init
<1> QED BY <1>1, <1>2, <1>3
  DEF SafeInv, Control, Clock, Data, Reports, ReadsBack, WrittenIsStored, EepromInTime

(* A call that returns from its last wait.                                 *)
LEMMA ReturnSafe ==
  ASSUME Shape, SafeInv, Waiting, ~ Busy, NEW ok \in BOOLEAN, ok => ~ chip.err, Flash \/ ok,
         Return(ok), UNCHANGED <<dev, mem, chip, lost>>
  PROVE  SafeInv'
<1>1. /\ pc' = "idle" /\ call' = [call EXCEPT !.ok = ok] /\ expect' = Outcome(ok)
      /\ call.op \in {"write", "erase"}
  BY DEF Return, Waiting, Shape
<1>2. /\ call'.op = call.op /\ call'.page = call.page /\ call'.value = call.value
      /\ call'.second = call.second /\ call'.ok = ok
  BY <1>1 DEF Shape
<1>3. Flash' = Flash /\ Busy' = Busy /\ ~ Waiting'
  BY <1>1 DEF Flash, Busy, Waiting
<1>4. ASSUME NEW p \in Pages PROVE mem'[p] \in expect'[p]
  <2>1. mem[p] \in expect[p] \cup Intended(p)
    BY DEF SafeInv, Data
  <2>2. ok /\ ~ (call.op = "erase" /\ lost) /\ Intended(p) # {} => mem[p] \in Intended(p)
    BY DEF SafeInv, Data
  <2>3. expect'[p] = CASE call.op = "write" /\ p = call.page ->
                            IF ok THEN {call.value} ELSE expect[p] \cup {call.value}
                       [] call.op = "erase" ->
                            IF ok /\ ~ lost THEN {Blank} ELSE expect[p] \cup {Blank}
                       [] OTHER -> expect[p]
    BY <1>1 DEF Outcome
  <2>4. CASE call.op = "write" /\ p = call.page
    BY <2>1, <2>2, <2>3, <2>4 DEF Intended
  <2>5. CASE call.op = "write" /\ p # call.page
    BY <2>1, <2>3, <2>5 DEF Intended
  <2>6. CASE call.op = "erase"
    BY <2>1, <2>2, <2>3, <2>6 DEF Intended
  <2> QED BY <1>1, <2>4, <2>5, <2>6
<1>5. Control'
  BY <1>1, <1>2, <1>3 DEF SafeInv, Control
<1>6. Clock'
  BY <1>1, <1>3 DEF Clock
<1>7. Data'
  BY <1>3, <1>4 DEF Data
<1>8. Reports'
  <2>1. call.op = "write" /\ ok => mem[call.page] = call.value
    <3>1. call.page \in Pages
      BY DEF Shape
    <3>2. call.op = "write" => Intended(call.page) = {call.value}
      BY DEF Intended
    <3> QED BY <3>1, <3>2 DEF SafeInv, Data
  <2> QED BY <1>1, <1>2, <1>3, <2>1 DEF Reports, ReadsBack, WrittenIsStored, EepromInTime
<1> QED BY <1>5, <1>6, <1>7, <1>8 DEF SafeInv

(* The second wait of an erase begins where the first one ends.            *)
LEMMA AgainSafe ==
  ASSUME Shape, SafeInv, Waiting, Flash, Again, BeginWait(TRUE),
         UNCHANGED <<dev, mem, chip, lost>>
  PROVE  SafeInv'
<1>1. /\ pc' = "sleep" /\ elapsed' = 0 /\ expect' = expect
      /\ call' = [call EXCEPT !.second = TRUE] /\ call.op = "erase"
  BY DEF BeginWait, Again
<1>2. /\ call'.op = "erase" /\ call'.page = call.page /\ call'.value = call.value
      /\ call'.second
  BY <1>1 DEF Shape
<1>3. Flash' = Flash /\ Busy' = Busy /\ Waiting' /\ Job' = Job
  BY <1>1, <1>2 DEF Flash, Busy, Waiting, Job
<1>4. \A p : Intended(p)' = Intended(p)
  BY <1>1, <1>2 DEF Intended
<1>5. Control'
  BY <1>1, <1>2, <1>3 DEF SafeInv, Control
<1>6. Clock'
  <2>1. Busy => chip.left <= EraseTime[dev] /\ chip.job = Job
    BY <1>1 DEF SafeInv, Clock
  <2>2. chip.left \in Nat /\ EraseTime[dev] \in Nat
    BY DevicesAssumption DEF Shape
  <2> QED BY <1>1, <1>2, <1>3, <2>1, <2>2 DEF Clock
<1>7. Data'
  BY <1>1, <1>2, <1>3, <1>4 DEF SafeInv, Data
<1>8. Reports'
  BY <1>1 DEF Reports, ReadsBack, WrittenIsStored, EepromInTime
<1> QED BY <1>5, <1>6, <1>7, <1>8 DEF SafeInv

(* The loop goes on.                                                       *)
LEMMA GotoSafe ==
  ASSUME Shape, SafeInv, Waiting, NEW label \in {"test", "poll"}, Goto(label),
         label = "test" => Flash, Flash \/ ProgramTime[dev] <= elapsed,
         UNCHANGED <<dev, mem, chip, lost>>
  PROVE  SafeInv'
<1>1. pc' = label /\ UNCHANGED <<call, elapsed, expect>>
  BY DEF Goto
<1>2. Flash' = Flash /\ Busy' = Busy /\ Waiting' /\ Job' = Job
  BY <1>1 DEF Flash, Busy, Waiting, Job
<1>3. \A p : Intended(p)' = Intended(p)
  BY <1>1 DEF Intended
<1>4. Control'
  BY <1>1, <1>2 DEF SafeInv, Control
<1>5. Clock'
  BY <1>1, <1>2 DEF SafeInv, Clock
<1>6. Data'
  BY <1>1, <1>2, <1>3 DEF SafeInv, Data
<1>7. Reports'
  BY <1>1 DEF Reports, ReadsBack, WrittenIsStored, EepromInTime
<1> QED BY <1>4, <1>5, <1>6, <1>7 DEF SafeInv

LEMMA CallSafe ==
  ASSUME Shape, SafeInv, Call
  PROVE  SafeInv'
<1>1. pc = "idle" /\ UNCHANGED <<dev, mem, chip, elapsed, expect>>
  BY DEF Call
<1>2. Flash' = Flash /\ Busy' = Busy /\ ~ Waiting /\ ~ Busy
  BY <1>1 DEF Flash, Busy, Waiting, SafeInv, Clock
<1>3. /\ ~ call'.second
      /\ pc' = "enable" \/ (pc' = "command" /\ call'.op = "read")
      /\ call'.op = "erase" => Flash
  BY <1>1 DEF Call, NoCall
<1>4. ~ Waiting'
  BY <1>3 DEF Waiting
<1>5. Control'
  BY <1>1, <1>2, <1>3, <1>4 DEF SafeInv, Control
<1>6. Clock'
  BY <1>2, <1>3, <1>4 DEF Clock
<1>7. Data'
  BY <1>1, <1>2, <1>4 DEF SafeInv, Data
<1>8. Reports'
  BY <1>3 DEF Reports, ReadsBack, WrittenIsStored, EepromInTime
<1> QED BY <1>5, <1>6, <1>7, <1>8 DEF SafeInv

LEMMA EnableSafe ==
  ASSUME Shape, SafeInv, Enable
  PROVE  SafeInv'
<1>1. /\ pc = "enable" /\ UNCHANGED <<dev, mem, call, elapsed, expect>>
      /\ call.op \in {"write", "erase"}
      /\ pc' = IF Flash THEN "check" ELSE "command"
  BY DEF Enable, Goto, Shape
<1>2. ~ Waiting /\ ~ Waiting' /\ ~ Busy /\ Flash' = Flash
  BY <1>1 DEF Waiting, Flash, SafeInv, Clock
<1>3. \/ chip' = [chip EXCEPT !.wel = TRUE]
      \/ Flash /\ lost' /\ chip' = chip
  BY <1>2 DEF Enable
<1>4. /\ chip'.wel \/ (Flash /\ lost')
      /\ chip'.err = chip.err /\ chip'.left = chip.left
  BY <1>3 DEF Shape
<1>5. Control'
  BY <1>1, <1>2, <1>4 DEF SafeInv, Control
<1>6. Clock'
  BY <1>1, <1>2, <1>4 DEF Clock, Busy
<1>7. Data'
  BY <1>1, <1>2 DEF SafeInv, Data
<1>8. Reports'
  BY <1>1 DEF Reports, ReadsBack, WrittenIsStored, EepromInTime
<1> QED BY <1>5, <1>6, <1>7, <1>8 DEF SafeInv

LEMMA CheckSafe ==
  ASSUME Shape, SafeInv, Check
  PROVE  SafeInv'
<1>1. pc = "check" /\ UNCHANGED <<dev, mem, chip, lost>> /\ call.op \in {"write", "erase"}
  BY DEF Check, Shape
<1>2. ~ Waiting /\ ~ Busy /\ Flash /\ (chip.wel \/ lost) /\ ~ call.second
  BY <1>1 DEF Waiting, SafeInv, Clock, Control
<1>3. Flash' /\ ~ Busy' /\ ProgramTime[dev] # 0
  BY <1>1, <1>2, DevicesAssumption DEF Flash, Busy, Shape
<1>4. \A p \in Pages : mem'[p] \in expect[p]
  BY <1>1, <1>2 DEF SafeInv, Data
<1>5. CASE chip.wel
  <2>1. pc' = "command" /\ UNCHANGED <<call, elapsed, expect>>
    BY <1>5 DEF Check, Enabled, Goto
  <2>2. ~ Waiting'
    BY <2>1 DEF Waiting
  <2>3. Control'
    BY <1>1, <1>2, <1>3, <1>5, <2>1, <2>2 DEF Control
  <2>4. Clock' /\ Data'
    BY <1>3, <1>4, <2>1, <2>2 DEF Clock, Data
  <2>5. Reports'
    BY <2>1 DEF Reports, ReadsBack, WrittenIsStored, EepromInTime
  <2> QED BY <2>3, <2>4, <2>5 DEF SafeInv
<1>6. CASE ~ chip.wel /\ call.op = "erase"
  <2>1. /\ pc' = "sleep" /\ expect' = expect
        /\ call' = [call EXCEPT !.second = TRUE]
    BY <1>6 DEF Check, Enabled, BeginWait
  <2>2. call'.op = "erase" /\ Waiting' /\ lost'
    BY <1>1, <1>2, <1>6, <2>1 DEF Waiting, Shape
  <2>3. Control'
    BY <1>1, <1>3, <2>1, <2>2 DEF Control
  <2>4. Clock' /\ Data'
    BY <1>3, <1>4, <2>1, <2>2 DEF Clock, Data
  <2>5. Reports'
    BY <2>1 DEF Reports, ReadsBack, WrittenIsStored, EepromInTime
  <2> QED BY <2>3, <2>4, <2>5 DEF SafeInv
<1>7. CASE ~ chip.wel /\ call.op = "write"
  <2>1. pc' = "idle" /\ expect' = Outcome(FALSE) /\ call' = [call EXCEPT !.ok = FALSE]
    BY <1>7 DEF Check, Enabled, Return
  <2>2. ~ Waiting' /\ call'.op = "write" /\ ~ call'.ok
    BY <1>7, <2>1 DEF Waiting, Shape
  <2>3. \A p \in Pages : mem'[p] \in expect'[p]
    BY <1>4, <1>7, <2>1 DEF Outcome
  <2>4. Control'
    BY <1>1, <1>3, <2>1, <2>2 DEF Control
  <2>5. Clock' /\ Data'
    BY <1>3, <2>1, <2>2, <2>3 DEF Clock, Data
  <2>6. Reports'
    BY <1>3, <2>2 DEF Reports, ReadsBack, WrittenIsStored, EepromInTime
  <2> QED BY <2>4, <2>5, <2>6 DEF SafeInv
<1> QED BY <1>1, <1>5, <1>6, <1>7

LEMMA SendReadSafe ==
  ASSUME Shape, SafeInv, SendRead
  PROVE  SafeInv'
<1>1. /\ pc = "command" /\ call.op = "read" /\ pc' = "idle"
      /\ UNCHANGED <<dev, mem, chip, elapsed, lost, expect>>
  BY DEF SendRead
<1>2. ~ Waiting /\ ~ Waiting' /\ ~ Busy /\ ~ Busy' /\ Flash' = Flash
  BY <1>1 DEF Waiting, Busy, Flash, SafeInv, Clock
<1>3. call' = [call EXCEPT !.got = mem[call.page]]
  BY <1>2 DEF SendRead
<1>4. call'.op = "read" /\ call'.page = call.page /\ call'.got = mem[call.page]
  BY <1>1, <1>3 DEF Shape
<1>5. Control'
  BY <1>1, <1>2, <1>4 DEF SafeInv, Control
<1>6. Clock' /\ Data'
  BY <1>1, <1>2 DEF SafeInv, Clock, Data
<1>7. Reports'
  <2>1. call.page \in Pages /\ mem[call.page] \in expect[call.page]
    BY <1>2 DEF Shape, SafeInv, Data
  <2> QED BY <1>1, <1>4, <2>1 DEF Reports, ReadsBack, WrittenIsStored, EepromInTime
<1> QED BY <1>5, <1>6, <1>7 DEF SafeInv

(* A memory without a busy time has done the write when the call returns;  *)
(* any other has begun with it when the wait begins.                       *)
LEMMA SendWriteSafe ==
  ASSUME ChipsKeepTime, Shape, SafeInv, SendWrite
  PROVE  SafeInv'
<1>1. pc = "command" /\ UNCHANGED <<dev, lost>> /\ call.op \in {"write", "erase"} /\ Command
  BY DEF SendWrite, Shape
<1>2. /\ ~ Waiting /\ ~ Busy /\ chip.wel /\ ~ call.second /\ Flash' = Flash
      /\ call.op = "erase" => Flash
      /\ ~ Flash => ~ chip.err
      /\ \A p \in Pages : mem[p] \in expect[p]
  BY <1>1 DEF Waiting, Flash, SafeInv, Control, Clock, Data
<1>3. call.page \in Pages
  BY DEF Shape
<1> DEFINE T == IF call.op = "write" THEN ChipTimes[dev] ELSE EraseTimes[dev]
<1>4. CASE ProgramTime[dev] = 0
  <2>1. ~ Flash /\ ChipTimes[dev] = {0} /\ call.op = "write"
    BY <1>1, <1>2, <1>4, DevicesAssumption DEF Flash, Shape
  <2>2. mem' = Carried(Job) /\ chip' = [chip EXCEPT !.wel = FALSE]
    BY <1>1, <1>2, <2>1, CommandEffect
  <2>3. /\ pc' = "idle" /\ expect' = Outcome(TRUE) /\ call' = [call EXCEPT !.ok = TRUE]
        /\ ~ Waiting'
    BY <1>4 DEF SendWrite, Return, Waiting
  <2>4. /\ call'.op = "write" /\ call'.page = call.page /\ call'.value = call.value
        /\ call'.ok /\ ~ call'.second
    BY <1>2, <2>1, <2>3 DEF Shape
  <2>5. mem' = [mem EXCEPT ![call.page] = call.value]
    BY <2>1, <2>2 DEF Carried, Job
  <2>6. ASSUME NEW p \in Pages PROVE mem'[p] \in expect'[p]
    <3>1. expect'[p] = IF p = call.page THEN {call.value} ELSE expect[p]
      BY <2>1, <2>3 DEF Outcome
    <3>2. mem'[p] = IF p = call.page THEN call.value ELSE mem[p]
      BY <2>5 DEF Shape
    <3> QED BY <1>2, <3>1, <3>2
  <2>7. ~ Busy' /\ chip'.err = chip.err
    BY <1>2, <2>2 DEF Busy, Shape
  <2>8. Control'
    BY <1>2, <2>1, <2>3, <2>4, <2>7 DEF Control
  <2>9. Clock' /\ Data'
    BY <2>3, <2>6, <2>7 DEF Clock, Data
  <2>10. Reports'
    <3>1. mem'[call.page] = call.value
      BY <1>3, <2>5 DEF Shape
    <3> QED BY <2>4, <3>1 DEF Reports, ReadsBack, WrittenIsStored, EepromInTime
  <2> QED BY <2>8, <2>9, <2>10 DEF SafeInv
<1>5. CASE ProgramTime[dev] # 0
  <2>1. /\ call.op = "write" => /\ 0 \notin ChipTimes[dev]
                               /\ ChipTimes[dev] \subseteq 0 .. ProgramTime[dev]
        /\ call.op = "erase" => /\ 0 \notin EraseTimes[dev]
                               /\ EraseTimes[dev] \subseteq 0 .. EraseTime[dev]
    BY <1>2, <1>5, DevicesAssumption DEF ChipsKeepTime, Flash, Shape
  <2>2. /\ mem' = mem
        /\ \E d \in T \ {0} : chip' = [chip EXCEPT !.left = d, !.job = Job]
    BY <1>1, <1>2, <2>1, CommandEffect
  <2>3. PICK d \in T \ {0} : chip' = [chip EXCEPT !.left = d, !.job = Job]
    BY <2>2
  <2>4. /\ d \in Nat \ {0}
        /\ call.op = "write" => d <= ProgramTime[dev]
        /\ call.op = "erase" => d <= EraseTime[dev]
    BY <1>1, <2>1, <2>3, DevicesAssumption DEF Shape
  <2>5. chip'.left = d /\ chip'.job = Job /\ chip'.err = chip.err /\ Busy'
    BY <2>3, <2>4 DEF Shape, Busy
  <2>6. /\ pc' = "sleep" /\ elapsed' = 0 /\ expect' = expect
        /\ call' = [call EXCEPT !.second = FALSE] /\ Waiting'
    BY <1>5 DEF SendWrite, BeginWait, Waiting
  <2>7. /\ call'.op = call.op /\ call'.page = call.page /\ call'.value = call.value
        /\ ~ call'.second /\ Job' = Job
    BY <2>6 DEF Shape, Job
  <2>8. Control'
    BY <1>1, <1>2, <1>5, <2>5, <2>6, <2>7 DEF Control
  <2>9. Clock'
    BY <1>1, <2>4, <2>5, <2>6, <2>7 DEF Clock
  <2>10. Data'
    BY <1>2, <2>2, <2>5, <2>6 DEF Data
  <2>11. Reports'
    BY <2>6 DEF Reports, ReadsBack, WrittenIsStored, EepromInTime
  <2> QED BY <2>8, <2>9, <2>10, <2>11 DEF SafeInv
<1> QED BY <1>4, <1>5

(* A chip of flash whose window is over is not at work any more.           *)
LEMMA WindowOver ==
  ASSUME Shape, SafeInv, pc = "test", ~ (elapsed < Window), ~ Again
  PROVE  ~ Busy
<1>1. Waiting /\ call.op \in {"write", "erase"} /\ elapsed \in Nat /\ chip.left \in Nat
  BY HorizonBounds DEF Waiting, Shape
<1>2. /\ ProgramTime[dev] \in Nat /\ EraseTime[dev] \in Nat
      /\ call.second => call.op = "erase"
  BY DevicesAssumption DEF Shape
<1>3. SUFFICES ASSUME Busy PROVE FALSE
  OBVIOUS
<1>4. chip.left + elapsed <= Window
  BY <1>1, <1>2, <1>3 DEF SafeInv, Clock, Window, Again
<1>5. Window \in Nat
  BY <1>2 DEF Window
<1> QED BY <1>1, <1>3, <1>4, <1>5 DEF Busy

LEMMA WakeSafe ==
  ASSUME Shape, SafeInv, Wake
  PROVE  SafeInv'
<1>1. pc = "sleep" /\ Awake /\ UNCHANGED <<dev, mem, chip, lost>> /\ Waiting
  BY DEF Wake, Waiting
<1>2. Flash \/ ProgramTime[dev] <= elapsed
  BY <1>1, DevicesAssumption, HorizonBounds DEF Awake, Rest, Shape
<1>3. CASE Flash
  BY <1>1, <1>2, <1>3, GotoSafe DEF Wake
<1>4. CASE ~ Flash
  BY <1>1, <1>2, <1>4, GotoSafe DEF Wake
<1> QED BY <1>3, <1>4

LEMMA TestSafe ==
  ASSUME Shape, SafeInv, Test
  PROVE  SafeInv'
<1>1. pc = "test" /\ Flash /\ Waiting /\ UNCHANGED <<dev, mem, chip, lost>>
  BY DEF Test, Waiting, SafeInv, Control
<1>2. CASE elapsed < Window
  BY <1>1, <1>2, GotoSafe DEF Test
<1>3. CASE ~ (elapsed < Window) /\ Again
  BY <1>1, <1>3, AgainSafe DEF Test, WaitOver
<1>4. CASE ~ (elapsed < Window) /\ ~ Again
  BY <1>1, <1>4, WindowOver, ReturnSafe DEF Test, WaitOver
<1> QED BY <1>2, <1>3, <1>4

LEMMA PollSafe ==
  ASSUME Shape, SafeInv, Poll
  PROVE  SafeInv'
<1>1. pc = "poll" /\ Waiting /\ UNCHANGED <<dev, mem, chip, lost>>
  BY DEF Poll, Waiting
<1>2. CASE ~ Flash
  <2>1. /\ ProgramTime[dev] <= elapsed /\ call.op = "write" /\ ~ chip.err
        /\ Return(~ Busy)
    BY <1>1, <1>2 DEF Poll, SafeInv, Control, Clock, Shape
  <2>2. elapsed \in Nat /\ chip.left \in Nat /\ ProgramTime[dev] \in Nat
    BY DevicesAssumption, HorizonBounds DEF Shape
  <2>3. ~ Busy
    BY <1>1, <2>1, <2>2 DEF SafeInv, Clock, Busy
  <2>4. Return(TRUE)
    BY <2>1, <2>3 DEF Return, Outcome
  <2> QED BY <1>1, <2>1, <2>3, <2>4, ReturnSafe
<1>3. CASE Flash /\ Busy
  BY <1>1, <1>3, GotoSafe DEF Poll
<1>4. CASE Flash /\ ~ Busy /\ Again
  BY <1>1, <1>4, AgainSafe DEF Poll, WaitOver
<1>5. CASE Flash /\ ~ Busy /\ ~ Again
  <2>1. (~ chip.err) \in BOOLEAN /\ Return(~ chip.err)
    BY <1>5 DEF Poll, WaitOver
  <2> QED BY <1>1, <1>5, <2>1, ReturnSafe
<1> QED BY <1>2, <1>3, <1>4, <1>5

(* A tick takes one from what is left and adds at most one to what passed. *)
LEMMA TickSafe ==
  ASSUME Shape, SafeInv, Tick
  PROVE  SafeInv'
<1>1. UNCHANGED <<dev, pc, call, lost, expect>> /\ Waiting /\ Waiting'
  BY DEF Tick, SafeInv, Clock, Waiting
<1>2. /\ elapsed \in Nat /\ elapsed' \in Nat
      /\ elapsed <= elapsed' /\ elapsed' <= elapsed + 1
      /\ chip.left \in Nat /\ ProgramTime[dev] \in Nat /\ EraseTime[dev] \in Nat
  BY HorizonBounds, DevicesAssumption DEF Tick, Shape
<1>3. Flash' = Flash /\ Job' = Job /\ \A p : Intended(p)' = Intended(p)
  BY <1>1 DEF Flash, Job, Intended
<1>4. Reports'
  BY <1>1 DEF Reports, ReadsBack, WrittenIsStored, EepromInTime, Waiting
<1>5. pc' = "poll" /\ ~ Flash' => ProgramTime[dev]' <= elapsed'
  BY <1>1, <1>2, <1>3 DEF SafeInv, Clock
<1>6. Work
  BY DEF Tick
<1>7. CASE ~ Busy /\ UNCHANGED <<mem, chip>>
  <2>1. ~ Busy'
    BY <1>7 DEF Busy
  <2>2. Control'
    BY <1>1, <1>3, <1>7 DEF SafeInv, Control
  <2>3. Clock'
    BY <1>1, <1>5, <2>1 DEF Clock
  <2>4. Data'
    BY <1>1, <1>3, <1>7, <2>1 DEF SafeInv, Data
  <2> QED BY <1>4, <2>2, <2>3, <2>4 DEF SafeInv
<1>8. CASE chip.left > 1 /\ chip' = [chip EXCEPT !.left = @ - 1] /\ UNCHANGED mem
  <2>1. /\ chip'.left = chip.left - 1 /\ chip'.wel = chip.wel /\ chip'.err = chip.err
        /\ chip'.job = chip.job
    BY <1>8 DEF Shape
  <2>2. Busy /\ Busy'
    BY <1>2, <1>8, <2>1 DEF Busy
  <2>3. Control'
    BY <1>1, <1>3, <2>1 DEF SafeInv, Control
  <2>4. Clock'
    BY <1>1, <1>2, <1>3, <1>5, <2>1, <2>2 DEF SafeInv, Clock
  <2>5. Data'
    BY <1>1, <1>3, <1>8, <2>2 DEF SafeInv, Data
  <2> QED BY <1>4, <2>3, <2>4, <2>5 DEF SafeInv
<1>9. CASE /\ chip.left = 1
           /\ \E failed \in BOOLEAN :
                /\ failed => Flash
                /\ mem' = IF failed THEN mem ELSE Carried(chip.job)
                /\ chip' = [wel |-> FALSE, err |-> chip.err \/ failed,
                            left |-> 0, job |-> NoJob]
  <2>1. PICK failed \in BOOLEAN :
          /\ failed => Flash
          /\ mem' = IF failed THEN mem ELSE Carried(chip.job)
          /\ chip' = [wel |-> FALSE, err |-> chip.err \/ failed, left |-> 0, job |-> NoJob]
    BY <1>9
  <2>2. ~ Busy' /\ Busy
    BY <1>9, <2>1 DEF Busy
  <2>3. chip'.err = (chip.err \/ failed)
    BY <2>1
  <2>4. Control'
    BY <1>1, <1>3, <2>1, <2>3 DEF SafeInv, Control, Waiting
  <2>5. Clock'
    BY <1>1, <1>5, <2>2 DEF Clock
  <2>6. chip.job = Job /\ call.op \in {"write", "erase"} /\ call.page \in Pages
    BY <1>1, <2>2 DEF SafeInv, Clock, Shape, Waiting
  <2>7. ASSUME NEW p \in Pages
        PROVE  IF failed \/ Intended(p) = {} THEN mem'[p] = mem[p]
                                            ELSE mem'[p] \in Intended(p)
    <3>1. CASE failed
      BY <2>1, <3>1
    <3>2. CASE ~ failed /\ call.op = "write"
      <4>1. mem' = [mem EXCEPT ![call.page] = call.value]
        BY <2>1, <2>6, <3>2 DEF Carried, Job
      <4> QED BY <3>2, <4>1 DEF Intended, Shape
    <3>3. CASE ~ failed /\ call.op = "erase"
      <4>1. mem' = [q \in Pages |-> Blank]
        BY <2>1, <2>6, <3>3 DEF Carried, Job
      <4> QED BY <3>3, <4>1 DEF Intended
    <3> QED BY <2>6, <3>1, <3>2, <3>3
  <2>8. Data'
    <3>1. ASSUME NEW p \in Pages
          PROVE  /\ mem'[p] \in expect[p] \cup Intended(p)
                 /\ ~ failed /\ Intended(p) # {} => mem'[p] \in Intended(p)
      <4>1. mem[p] \in expect[p] \cup Intended(p)
        BY <1>1 DEF SafeInv, Data
      <4> QED BY <2>7, <4>1
    <3>2. ~ chip'.err => ~ failed
      BY <2>1, <2>3
    <3> QED BY <1>1, <1>3, <3>1, <3>2 DEF Data
  <2> QED BY <1>4, <2>4, <2>5, <2>8 DEF SafeInv
<1> QED BY <1>6, <1>7, <1>8, <1>9 DEF Work

LEMMA SafeStep ==
  ChipsKeepTime /\ Shape /\ SafeInv /\ [Next]_vars => SafeInv'
<1> SUFFICES ASSUME ChipsKeepTime, Shape, SafeInv, [Next]_vars PROVE SafeInv'
  OBVIOUS
<1>1. CASE Step
  BY <1>1, EnableSafe, CheckSafe, SendReadSafe, SendWriteSafe, WakeSafe, TestSafe, PollSafe
  DEF Step
<1>2. CASE UNCHANGED vars
  BY <1>2 DEF vars, SafeInv, Control, Clock, Data, Reports, ReadsBack, WrittenIsStored,
              EepromInTime, Waiting, Busy, Flash, Job, Intended
<1> QED BY <1>1, <1>2, CallSafe, TickSafe DEF Next

(* Chips that keep to their times make the whole invariant one.            *)
THEOREM SafeInvariant ==
  ChipsKeepTime => (Spec => []SafeInv)
<1> SUFFICES ASSUME ChipsKeepTime PROVE Spec => []SafeInv
  OBVIOUS
<1>1. Shape /\ SafeInv /\ [Next]_vars => SafeInv'
  BY SafeStep
<1> QED BY <1>1, SafeInit, ShapeInvariant, PTL DEF Spec

(* ChipRests: no call returns while the chip is still at work, because the *)
(* wait of the driver outlasts what the chip may need.                     *)
THEOREM Rests ==
  ChipsKeepTime => (Spec => []ChipRests)
<1> SUFFICES ASSUME ChipsKeepTime PROVE Spec => []ChipRests
  OBVIOUS
<1>1. SafeInv => ChipRests
  BY DEF SafeInv, Clock, ChipRests, Waiting
<1>2. Spec => []SafeInv
  BY SafeInvariant
<1> QED BY <1>1, <1>2, PTL

(* ReadsBack: a read returns what the outcomes of the earlier calls allow, *)
(* also after failed writes and erases that missed their enable.           *)
THEOREM ReadsWhatWasReported ==
  ChipsKeepTime => (Spec => []ReadsBack)
<1> SUFFICES ASSUME ChipsKeepTime PROVE Spec => []ReadsBack
  OBVIOUS
<1>1. SafeInv => ReadsBack
  BY DEF SafeInv, Reports
<1>2. Spec => []SafeInv
  BY SafeInvariant
<1> QED BY <1>1, <1>2, PTL

(* WrittenIsStored: what bus_write() reports as written is in the memory.  *)
(* The run spi_late_chip breaks it with a chip slower than configured.     *)
THEOREM WritesAreStored ==
  ChipsKeepTime => (Spec => []WrittenIsStored)
<1> SUFFICES ASSUME ChipsKeepTime PROVE Spec => []WrittenIsStored
  OBVIOUS
<1>1. SafeInv => WrittenIsStored
  BY DEF SafeInv, Reports
<1>2. Spec => []SafeInv
  BY SafeInvariant
<1> QED BY <1>1, <1>2, PTL

(* EepromInTime: the one look of the EEPROM driver at the busy bit never   *)
(* comes too early.                                                        *)
THEOREM EepromNeverTooEarly ==
  ChipsKeepTime => (Spec => []EepromInTime)
<1> SUFFICES ASSUME ChipsKeepTime PROVE Spec => []EepromInTime
  OBVIOUS
<1>1. SafeInv => EepromInTime
  BY DEF SafeInv, Reports
<1>2. Spec => []SafeInv
  BY SafeInvariant
<1> QED BY <1>1, <1>2, PTL

=============================================================================
