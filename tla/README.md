# A TLA+ model of the 24aa NVRAM library

The library in this repository keeps a small file system on an I2C or SPI memory chip of a
microcontroller board.  This directory models it in TLA+, checks the models with TLC on small
instances and proves the most important invariants with TLAPS for every value of the constants.
`PROJECT.json` lists, in machine-readable form, the components, the runs, which source lines
every definition models, the hazards, the findings and the theorems.

## 1. The system

| Component | Source | State | Operations |
|---|---|---|---|
| `Fs` | `src/src/nvram_fs.cpp` | superblock on the device (magic, count, file table, CRC-8); in RAM `files_opened`, the superblock file, the table of handles `fat` | `mkfs` `fsck` `mount` `umount` `create` `open` `close` `df` |
| `File` | `src/src/nvram_file.cpp` | device pointer, start, size and position, 16 bits each | `read` `write` `setPosition` `getSize` `getPosition` |
| `MtdBase` | `src/src/mtd_base.cpp` | the shared `writebuf`, the bus mutex | `read` `write`, splitting of writes at page and buffer boundaries, `acquire`/`release` |
| `Mtd24aa` | `src/src/mtd_24aa.cpp` | the I2C bus; the chip is busy while it programs | one I2C transaction per piece, timeout from the length, sleep after a write |
| `Mtd25aa` | `src/src/mtd_25aa.cpp` | the SPI bus; write-enable latch and busy bit of the chip | write enable, write, polling of the busy bit with a timeout |
| `Mtd25` | `src/src/mtd_s25.cpp` | as above, for NOR flash | as above, and `bus_erase`; not built against the current headers |
| boot and example | `src/test_app/main.cpp` | - | `NvramInit` (mount, else format and mount, else halt), `NvramTryOpen` |
| legacy C++ | `src/legacy/cpp/` | the earlier file system with a reference table in the firmware | `mkfs` `fsck` `mount` `open` `close` `read` `write` |
| legacy C | `src/legacy/c/` | file streams over an I2C EEPROM | `open` `lseek` `read` `write` `close` |
| test suite | `src/src/nvram_test_suite.cpp` | three buffers of one length, whatever the device holds | `nvram::TestSuite`: tests on the raw device, then on files |
| legacy test suites and example | `src/legacy/.../*testsuit*`, `src/legacy/cpp/example/` | - | not modelled |

How they interact: the application calls `Fs` for handles and then reads and writes through
`File`; `Fs` itself keeps its superblock in a `File` over the first bytes of the device; every
`File` transfer becomes one `MtdBase::read` or `MtdBase::write`, which cuts a write into pieces
that fit the chip's page and the bus buffer and sends each with the driver's `bus_write` under
the bus mutex.  Errors travel back as byte counts: a short count stops a write, and `Fs` turns a
short count of its own transfers into a halt (`osalDbgCheck`), except in `mkfs`, which returns
`OSAL_FAILED`.  A halted or switched-off board starts again with `NvramInit`, which formats a
store it cannot mount.

### What is hard, and what makes each part correct

* **Fs, sequences of calls.**  Handles copy the table entry they were opened on, one counter
  serves as the mounted flag and as the number of open files, `find` looks at unused entries
  too, and sizes are cut to 16 bits.  Correct means: files never overlap, a handle stays
  inside its file, a name leads to its file, and what `create` accepts can be mounted again.
* **Fs, power cuts and bus errors.**  A create is three writes (entry, count, checksum) that a
  power cut may separate.  Correct would mean that old files survive; the checksum can only
  tell that something is wrong, and `NvramInit` then formats.
* **MtdBase, splitting.**  A piece that crosses a page wraps inside the chip.  Correct means:
  pieces tile the request, none crosses a page or the buffer, and a failure reports the prefix
  that was written.
* **MtdBase, threads.**  The mutex covers one bus transaction.  Correct means: the shared
  buffer is never refilled under a running transfer, and one thread's bytes are never sent as
  another's.
* **Mtd25aa and Mtd25.**  The chip ignores a write while it is busy.  Correct means: success is
  reported only for data the chip took, and an idle chip is not reported as failed.
* **Legacy.**  Both libraries go on after a piece of a write has failed, each in its own way, and
  the C driver lets other threads meet a programming chip.  Correct means: what a write returns is
  in place, nothing lands outside of its file, and `mount` never accepts a table that was
  formatted halfway.
* **The test suite.**  A suite that passes should mean something.  Correct means: it passes on the
  right chip, fails on chips of another geometry, and notices a transfer that broke off.

## 2. Modules

| Module | Models | Status |
|---|---|---|
| `NvramFs` | every public call of `Fs` and `File`, restarts | done |
| `MCNvramFs` | constant values for TLC | done |
| `NvramFsProofs` | theorems about `NvramFs` | done |
| `NvramPower` | extends `NvramFs`: the writes of `mkfs` and `create` as steps, power cuts, bus errors, the boot code | done |
| `NvramStore` | abstract: what a store keeps when power may fail; `NvramPower` implements it | done |
| `MCNvramPower` | constant values for TLC | done |
| `MtdBus` | `MtdBase::read/write` over `Mtd24aa`: splitting, threads, mutex, shared buffer, busy chip, failing transfers | done |
| `MtdBytes` | abstract: what a byte device promises to several threads; `MtdBus` implements it | done |
| `MCMtdBus` | constant values for TLC | done |
| `MtdBusProofs` | theorems about `MtdBus` | done |
| `Spi25` | `Mtd25aa` and `Mtd25` against a chip with write-enable latch and busy bit, and the clock | done |
| `MCSpi25` | constant values for TLC | done |
| `NvramVolume` | extends `NvramFs`: the bytes that `File::read` and `File::write` move | done |
| `NvramFiles` | abstract: named byte arrays; `NvramVolume` implements it | done |
| `MCNvramVolume` | constant values for TLC | done |
| `NvramSuite` | extends `NvramFs`: the test program as a script of calls, over a chip that may be the wrong one | done |
| `MCNvramSuite` | constant values for TLC | done |
| `LegacyEeprom` | both legacy libraries: table, streams, split writes, driver, threads, failed transfers, power cuts | done |
| `MCLegacyEeprom` | constant values for TLC | done |
| `Crc8` | the CRC table of `nvram_fs.cpp` against its polynomial; extended by `MCNvramPower` | done, TLC only |
| `Spi25Proofs` | theorems about `Spi25` | done |
| `NvramPowerProofs` | `NvramPower` implements `NvramStore`; halts only after a failure | done |
| `NvramVolumeProofs` | `NvramVolume` implements `NvramFiles`, from the invariants of `NvramFsProofs` | done |
| `LegacyProofs` | theorems about `LegacyEeprom` | done |
| `NvramSuiteProofs` | `NvramSuite`: buffers, wrong chips | done |
| `NvramSuitePassProofs` | extends it: the suite passes on the right chip, and finds the transfers it lost | done |

The modules compose downwards: the application's calls are `NvramFs`; `NvramPower` refines their
writes of the superblock to the single `File::write` and adds the boot code; `MtdBus` is what one such
`File` transfer does on the bus.  What `NvramPower` takes for granted of a write (bytes in order, a
prefix when it fails, the count returned) is what `MtdBytes` states and `MtdBus` implements.
`NvramVolume` stands beside `NvramPower`: it takes the superblock as `NvramFs` does and follows the
bytes of the files.  `NvramSuite` is a client of `NvramFs` and of the device below it at the same time.

### NvramFs and the code

| Model | Code |
|---|---|
| `media` | the superblock on the device: `magic` (is the magic word there), `cnt` (the count byte), `toc` (the table), `sealed` (the stored checksum equals `nvramcrc` of magic, count and table) |
| `files_opened`, `super_open`, `fat` | `Fs::files_opened`, `super.mtd != nullptr`, `Fs::fat` |
| `last` | the last call and what it returned; `"HALT"` is a failed `osalDbgCheck` or `osalDbgAssert`, after which only `Restart` is possible |
| `Fsck` `Mkfs` `Mount` `Umount` `Open` `Create` `Close` | the methods of `Fs` |
| `SetPosition` `Read` `Write` | the methods of `File` on the handle of a slot |
| `Restart` | a reset or power cycle between two calls: RAM is constructed anew |
| `Df` `FoundAt`/`Absent` `CheckName` `FsckOk` `NewItem` `WriteTocItem` `Seal` `ClampSize` | the helpers of the same name |

Abstractions.  Names are model values, classified by what the code asks of them: empty,
alphanumeric, too long.  The checksum is the Boolean "stored and computed agree": `seal`
makes it true, a table write leaves it false until then (here `create` does both in one
step, so the choice of value in between is not visible).  `U8` and `U16` stand for 2^8 and 2^16,
so that the cuts to 8 and 16 bits happen inside small instances.  A read moves
the position by all or nothing of what was asked, a write by any prefix, which covers every
failure the driver can report.  Transfers of the superblock itself succeed; when one fails the
code halts (or `mkfs` returns failure), which `NvramPower` models.  A `File` pointer given to
`close` is one that `open` returned.  The application calls from one thread: `Fs` has no lock
and claims none.

`Images` are superblocks a device may hold before its first `mkfs`; none of them has magic, count
and checksum right (`ImagesAssumption`).

`clamp_size` adds position and length in 32 bits (`nvram_file.cpp:115`); the model's sum has no width, so a
length close to 2^32, which no buffer has, is outside of it.

Two callers are distinguished.  `Spec` lets the caller do anything.  `CarefulSpec` is the caller
that creates on a mounted store only, uses alphanumeric names and 16-bit sizes, never fills the
last byte and never opens `""`: what a user of the library has to keep to, since
`create` does not check it.

### NvramPower and the code

| Model | Code |
|---|---|
| `pc` | where the firmware is: in one of the two `mount()` calls of `NvramInit`, before a write of `mkfs` or `create`, in `NvramTryOpen` (`missing`: `open` returned nothing), halted |
| `row`, `item` | the table entry being written (`i` of `mkfs`, `super.tip` index of `create`) and its new contents |
| `todo` | the files `main` has still to open |
| `FirstMount` `SecondMount` | the two `mount()` calls of `NvramInit` (the action `Mount` of `NvramFs`) |
| `MkfsHead` `MkfsRow` `MkfsSeal` | the writes of `mkfs`: magic and count, each entry, checksum |
| `TryOpen` `TryCreate` `CreateStep` `CreateOpen` | `NvramTryOpen`: `open`, the tests of `df()` and `create`, its three writes, its final `open` |
| `CloseFile` | the use of the files once all are open |
| `Fault` | a transfer fails, after any of its bytes: `mkfs` returns `OSAL_FAILED` and `NvramInit` goes on to its second `mount()`, everything else halts |
| `PowerCut` | power fails between two writes or inside one, and comes back |
| `faulted`, `missed` | history: a transfer failed since the last start; the checksum agreed with a half-written table since the last format |

A write that is interrupted leaves an entry whose name, start and size are each old or new (a cut between
the two bytes of a start or a size, which gives a third value, is not modelled); a name
made of two (the beginning of the new one, or of both) may be any name of the instance, the empty one
included.  The CRC is not computed: when the table changes and the checksum byte does not, the two
may agree or not (`Agree`), except that a sealed table whose count byte alone changed never agrees,
because a CRC-8 notices every change of a single byte.  The history variable `missed` remembers that a
collision happened, so that properties can speak of the case that it did not.  The call of
`nvramTestSuite()` that `main` makes on start, which formats the device, is left out: it is test code,
and with it no file would outlive a start.

Two facts came out of this model.  A power cut inside a `create` loses *all* files, not only the new
one: the checksum is stale until the third write, the next `mount()` refuses the table, and
`NvramInit` formats it.  `NvramStore` states exactly this weak promise (`Lose` only from `adding`), and
`KeepsPromise` shows that nothing weaker happens, whether or not the checksum misses something.  And
when it does miss a half-written entry, that entry is a ghost behind the last file: `fsck` does not
look at it, `find` does.

### MtdBus and the code

| Model | Code |
|---|---|
| `mem`, `busy` | the chip: its memory, and whether it is programming (it does not answer then) |
| `mutex`, `writebuf` | `MtdBase::mutex`, `MtdBase::writebuf` (address, then the bytes `memcpy` puts behind it) |
| `call[t]` | the arguments of `MtdBase::write`/`read` in thread `t`, the bytes written so far, what the transfer returned, the bytes read |
| `ByPage`, `ByBuffer` | the length of the next piece in `split_by_page`, `split_by_buffer` |
| `Call` | entry of `MtdBase::write` or `read` |
| `Acquire` `Fill` `SendWrite` `SendRead` `Wait` `Release` | the statements of `Mtd24aa::bus_write` and `bus_read` in their order; `Release` also returns to the loop that splits the write |
| `Cell`, `Program` | the chip (external): inside one write its address counter wraps in the page |

A write that fails has put any number of its bytes; a timeout is one way to fail.  A chip that is
programming does not answer.  It is ready when `cfg.programtime` is over, the worst case of its
data sheet.  Requests are inside the device and not empty: `File::read` and `File::write` see to that.
`MTD_USE_MUTUAL_EXCLUSION` is on; without it (mutant `MutexFree_Ignored`) the promise is broken.  The
debug hooks around `read` and `write` are left out.

### Spi25 and the code

| Model | Code |
|---|---|
| `dev` | which device is on the board: `"25aa"` stands for `mtd_25aa.cpp` (EEPROM, or FRAM when `programtime` is 0), `"s25"` for `mtd_s25.cpp` |
| `chip` | the write enable latch, the error bits, the ticks until the chip is ready and what it does until then; it takes no command meanwhile, and the latch falls when it is done |
| `pc`, `call` | where `bus_write`, `bus_read` or `bus_erase` is; its arguments, whether `bus_erase` is in its second wait, what it returned |
| `elapsed` | system time since the last `wait_op_complete` began |
| `Enable` `Check` | the write enable; `spi_write_enable` of `mtd_s25.cpp` reads the latch back, `mtd_25aa.cpp` does not |
| `SendWrite` `SendRead` | the transfer of the command |
| `Wake` `Test` `Poll` | the sleep, the loop condition and one look at the status register of `wait_op_complete` |
| `Tick` | one tick of system time, for chip and driver; any number may pass between two steps of the driver |
| `lost`, `expect` | history: the chip missed this write enable; what each page may contain after the outcomes reported so far |

The mutex is held from the beginning to the end of `bus_write`, `bus_read` and `bus_erase`, so one call
at a time is enough here; splitting and threads are `MtdBus`.  A page is one value.  The caller erases
flash before it writes it: nothing below it does.  A flash chip may miss a write enable and may report
an error, which are the two things `mtd_s25.cpp` looks for; nothing resets the error bits, as in the
code.  `bus_erase` reports success although the write enable was lost and nothing was erased: no
document promises otherwise, and `expect` allows it (`lost`).

### NvramVolume and the code

`data` is the memory behind the superblock; `transfer` says what the last call moved, of which file and
from which position of its handle on.  `FileWrite` and
`FileRead` are `File::write` and `File::read` with the call of the device that they end in: a write may
put more bytes than it reports when it breaks off, a read gives all that is left or nothing.  All other
calls are those of `NvramFs` and leave `data` alone: the code writes no byte of a file on its own, and
neither `mkfs` nor `create` clears one.  `NvramFiles` knows no addresses: a file is a function from
positions to bytes under a name.  `ServesFiles` maps a stored file to its bytes on the device and an
unusable superblock to no files; every step must then be a step of `NvramFiles`.

### NvramSuite and the code

| Model | Code |
|---|---|
| `Called`, `Suite` | the calls `nvram::TestSuite()` makes, in order, one operator per function of the file |
| `pc`, `df`, `verdict` | the next call; the local variable of `file_creation_test()`; running, passed, or halted by `osalDbgCheck` |
| `ctx` | the `TestContext`: geometry of the device as configured, length of the buffers |
| `chip` | the chip on the board: its page and its memory, which may differ from the configuration |
| `mem`, `media` | the bytes of the chip; when a store is formatted, `media` stands for its superblock |
| `filebuf` | the buffer of the context that `addres_translate_test` reads into, which nothing clears |
| `lost` | history: the calls whose transfer broke off; any may, after any of its bytes (a read whose count is checked: before the first) |
| `NvramSetStep` | a piece of the `nvramset` that `mkfs_and_mount_test` ignores: once one broke off, `nvramset` has returned and the others are not sent |
| `CompareStep` | the read and the `memcmp` of `__file_addres_translate_test`, which never looks at the count of the read |
| `WriteStep` `ReadStep` | a transfer of the raw device, split as `MtdBus` splits it, into a chip that wraps at its own page and ignores address bits it has no memory for |
| `FsStep` `DfStep` | a call of `Fs`, an action of `NvramFs`, and the test of its result |
| `CtorStep` `SeekStep` `PutStep` `GetStep` | calls of `File` |

Loops of the suite are written out: the script depends on the context only.  `rand()` is a fixed
sequence of bytes without repetition at page distance.  The code does not look at the results of four
transfers: the watermark of `__file_addres_translate_test` (`nvram_test_suite.cpp:261`), its `f.write`
(`:266`) and its read (`:271`), and the `nvramset` of `mkfs_and_mount_test` (`:521`).  In all the other cases a
transfer that broke off halts the suite.  `MayBeLost` lists three of the four: a watermark may be lost
unnoticed where the memory was erased already, the read where the buffer still held the right bytes,
pieces of `nvramset` because `mkfs` follows.  That `f.write` is not among them is what `LostTransfersFound`
says.  Bytes that did not arrive leave `filebuf` as it was: before the first of the three tests
with what the misaligned writes and the caller put there (`Stale`).  The transfers that `mkfs`, `mount`, `create`
and `df` make for the superblock go through here, and break off in `NvramPower`.  `file_put_test` gets the size of the
device cut to 16 bits.  The buffers of a paged device must be as long as the device: `write_misalign`
fills `refbuf` up to `offset + len` (`BuffersHold` holds with that context).  The overlap test
compares the first half of what it reads; `WrongChipFound` shows that wrong chips are found all the same.

### LegacyEeprom and the code

| Model | Code |
|---|---|
| `lib` | which library: the C streams (`src/legacy/c`) or the C++ file system (`src/legacy/cpp`) |
| `mem` | for each cell, which byte of which write it holds: the address the byte was meant for, `-f` for a byte from behind the buffer of the writer of file `f`, `Old` for anything older |
| `toc` | which records of the stored table agree with the firmware |
| `busy`, `mutex` | the chip is programming; the mutex of `EepromMtd` |
| `boot` | where `mount()` is, with `mkfs()` page by page and record by record |
| `call[f]` | the write call of the thread that uses file `f`: request, bytes sent (`bp`, `absoffset`), bytes written, where it is |
| `Write` `Send` `Wake` | entry of `write()`; the checks and the transfer of one piece; the end of the sleep and the loop |
| `PieceLen` `PieceAt` `Payload` | the length of the next piece, its place (C++ `absoffset`, C the position), its bytes (`bp`) |
| `Read`, `AfterC`, `AfterCpp` | reading, with the two-byte workaround of the STM32F1 |
| `Mount` `Erase` `Record` `Load` `Umount` `Open` `Close` `Seek` | the calls of the same purpose |
| `Transfer` | a transfer that succeeds, fails after any byte, or meets a programming chip |
| `Restart` | power is lost anywhere and comes back; also after a halt |

The sum of position and count that a request is clamped by has 32 bits in the code and no width here: counts
are those of buffers, far below 2^32.

The two libraries share their loop over pieces and differ in what a failed piece does: C keeps its
position and takes the next bytes of the caller, so that the pieces that follow put wrong bytes inside
the file or halt at a page boundary; C++ goes on at the next address, so that the bytes that are
left are too many at the end.  One thread uses a file.  The conversion of a record to bytes is
abstracted to "agrees or not"; a name that fills its field is not terminated when it is read back, and is
excluded.  A file of a single byte, in which the C++ read recurses without end on an STM32F1, is
in the model (`Endless`) and not in the instance.

## 3. Runs

Instances: table of 2 entries, superblock of 3 bytes, device of 9 bytes (`U16` = 16, `U8` = 8), names
`a`, `b` (proper), `dotted`, `long`, `""`; sizes and offsets 0, 1, 2, 5 and 17 (one more than
`U16`).  That is enough for a full table, a full device, exact fits, cut sizes, double opens and
closes, and every order of up to two files.  The `power_` runs use a device of 8 bytes, files `a`
(1 byte) and `b` (2 bytes), an erased or an arbitrary count byte on the new device, and no bound on
the number of power cuts and faults.  The `mtd_` runs have two threads; `mtd_eeprom` has 3 pages of 2
bytes and writes of a whole page, a byte, and parts of three pages (first, full and last piece);
`mtd_fram` has 6 bytes and a driver buffer of two, with writes of 1, 4 and 5 bytes (tail only, no
tail, both).  `spi_drivers` has two pages, two values, a `programtime` of 3 ticks with chips that need 1,
2 or 3, an `erasetime` of 6 with erases of 4 or 6 (longer than the first wait of `bus_erase`), and a
first sleep of 2 ticks; `elapsed` is counted up to the longest of these.  `fs_careful_caller` has bytes
0 and 1, writes of one byte, of two different ones and of more than a file holds, reads of 1, 2
and 6.  `nvram_suite` lets up to three transfers break off (`MaxLost`: watermark, write and read of one
test, so that no two of them can hide a third), after 0, 5, 15 or 30 bytes (`Breaks`: before, inside and behind the bytes of the file), and has a device of 64 bytes as 8 pages with one long buffer, or as an FRAM with
buffers of half its size, five chips, files of 20 and 15 bytes, all multiplied from the sizes of the
code so that its arithmetic stays meaningful.  The `legacy_` runs have pages of two bytes, a
file of 4 bytes from the middle of a page on, one of 3 bytes behind it up to the end of the device,
requests of 1 byte and of the whole file, and three failing transfers (`MaxFaults`), enough for every
piece of a write to fail; `MaxSent` bounds only a C write that never gets a byte through.  Calls are not bounded in
number in any run.

Seen with TLC while modelling, without a run of their own: a size of 65536 passes "zero size
forbidden" and is stored as 0; `open("")` returns a handle on an unused entry; with 255 table entries
`files_opened` wraps to "unmounted".  `CarefulSpec` and the hypothesis `FitsCounter` exclude them.
`mount()` on a mounted store without open files does not return early as its comment says
(`nvram_fs.cpp:415`) but halts in `fsck`.  With a `programtime` of 2 ms or less the loop of
`mtd_s25.cpp:176` never looks at the chip and every write is reported as failed.  When the checksum misses
a half-written entry, `find` opens it as a file, and the `create` over it ends in `nullptr`.

| Run | Shows |
|---|---|
| `fs_any_caller` | `TypeOK`, `HandleCount`, `FilesDisjoint`, `HandleSafe`, `FilesReachable`, `FilesKept`, `CreateTakesItsSize` hold for any caller on a device below 2^16 |
| `fs_careful_caller` | `Mountable`, `CreateAtomic` and `ServesFiles` (the refinement of `NvramFiles`) hold for the careful caller and the bytes it writes |
| `fs_exact_fit` | violated: a file that fills the device makes the store fail `fsck`, so the next boot formats it |
| `fs_64k_device` | violated: on a 64 KiB device a full store accepts a file at address 0 and `df()` grows |
| `power_cuts` | `KeepsPromise` (the refinement of `NvramStore`), `HandlesStored`, `HaltsOnlyOnFault`, `FilesServed` hold under any power cuts and bus errors |
| `mtd_eeprom` | `PieceFits`, `ChipReady`, `DeliversBytes` (the refinement of `MtdBytes`) and `CallsReturn` hold for two threads |
| `mtd_fram` | `PieceFits` and `DeliversBytes` hold when writes are cut at the driver buffer |
| `spi_drivers` | `ReadsBack`, `ChipRests`, `EepromInTime` and `CallsReturn` hold for chips that keep to their times |
| `spi_late_chip` | violated: after a write that timed out, the next one is ignored by the chip and reported as done |
| `nvram_suite` | the test suite passes on the right chip (`SuitePasses`) and on no other (`WrongChipFound`), finds every lost transfer that leaves something wrong, a `File::write` whose count nobody looks at included (`LostTransfersFound`), compares what is on the chip although it ignores the count of the read (`ComparedIsStored`), and keeps inside its buffers (`BuffersHold`) |
| `legacy_eeprom` | without failed transfers no write leaves its file, and in C not even with them (`StaysInFile`); what a write returns is in place (`StoresWhatItReturns`); no thread finds the C++ driver's chip programming (`ReadyWhenFree`); `MountedIsWhole`, `TipInside`, `HaltsOnlyOnFault` hold; C++ writes end (`WritesEnd`) |
| `legacy_overrun` | violated: after a failed piece the C++ `write()` runs over the end of the device |

Deadlock is checked in every run but `nvram_suite`, whose program ends: `Restart`, `PowerCut` or `Call`
is always possible somewhere.

Fairness.  No run of `NvramFs` states liveness: the library does nothing by itself, and no fairness of
the caller can be assumed.  `PowerSpec` assumes weak fairness of the firmware's own steps (the
processor runs while there is power) and nothing about power and bus: `FilesServed` says that *if* they
stop failing, all files are open in the end, or the board is halted by what failed before.  `MtdBus`
assumes that each thread runs (weak fairness of its steps) and that a thread waiting for the mutex
gets it when the mutex is free again and again (strong fairness of `Acquire`): ChibiOS hands a mutex
to waiting threads of one priority in the order they came.  Nothing is assumed about the bus: every
transfer may fail.  `Spi25` assumes that the driver's thread runs and that time passes.
`LegacyEeprom` assumes that a sleeping thread wakes up and that one that waits for the mutex gets it,
for the same reason as `MtdBus`.  `Call` is never forced.

Each property of a passing run has a mutant, an operator with a suffix such as `NewItem_Overlapping`
beside the definition it spoils; the run must then fail.

## 4. Proofs

`NvramFsProofs` proves, for every table size, device size, set of names and set of numbers that
satisfy the assumptions of `NvramFs`:

| Theorem | Statement |
|---|---|
| `TypeCorrect` | `Spec => []TypeOK` |
| `HandlesCounted` | `FitsCounter => (Spec => []HandleCount)` |
| `FilesAreDisjoint`, `FilesAreReachable`, `HandlesAreSafe` | `SmallDevice /\ FitsCounter => (Spec => []...)` |
| `MountedStoreKeepsFiles`, `CreateTakesSpace` | the same hypotheses, action properties of `Spec` |
| `StaysMountable`, `CreateIsAtomic` | the same hypotheses, for `CarefulSpec` |

`SmallDevice` (device below 2^16 bytes) and `FitsCounter` (entries plus one below 2^8) are hypotheses
and not assumptions, because the code does not enforce them (`fs_64k_device` shows what happens without
the first).

The argument.  `TypeOK` is inductive.  `HandleCount` is inductive with it: opening and closing
change both sides of the equation by one, and the counter cannot wrap because at most every slot is
open.  `StoreInv` strengthens the file properties: a mounted store is formatted (only `mount` sets
the flag, after `fsck`); a table in use is formatted (create seals what it writes) and lists files one behind the other, each reachable under
its name, with empty entries behind the last one (`Stored`); an open handle covers its entry or
nothing, and a closed handle has position zero, because `open` does not reset it (`Handles`).
`HandleCount` is needed for the step of `mkfs`: it formats only when nothing is mounted, and then no
handle is open.  For `create` the pairwise form of "one behind the other" needs no induction: the new
file starts where the last one ends.  The careful caller adds `CarefulInv`: the table passes `fsck`
and no handle is on an unused entry.

`MtdBusProofs` proves, for every page size, number of pages, buffer, number of threads and set of
requests that satisfy `ConfigAssumption` (a page and its address fit the buffer, as the comment on
the constructor demands) and `RequestAssumption` (requests are inside the device and not empty):

| Theorem | Statement |
|---|---|
| `TypeCorrect` | `Spec => []TypeOK` |
| `PiecesFit` | `Spec => []PieceFits` |
| `ChipIsReady` | `Spec => []ChipReady` |
| `ImplementsBytes` | `Spec => DeliversBytes`: `MtdBus` implements `MtdBytes` |

The argument.  `PieceFits` is not inductive: that a piece ends at a page boundary depends on where
the one before it ended.  `Position` says where a write stands between two pieces: after whole
blocks (FRAM), or at its start or the start of a later page (EEPROM); `BlockPiece` and `PagePiece`
show that from there the next piece fits and leads to such a place again or to the end.  The other
half is the mutex: `Holds` says the thread between `Acquire` and `Release` is the one that has it,
so that the buffer still contains what `Fill` put there when it is sent (`Buffered`) and the chip
programs only while somebody waits for it (`Programming`).  For the refinement, `CellInPage` turns
the chip's wrapping address counter into plain addresses for a piece within a page; then `SendWrite`
is `Progress` or `Break`, a successful `SendRead` is `Get`, the last `Release` is `Return`, and all other
steps stutter.

`Spi25Proofs` proves, for every device, all programming and erase times, any sleep and any number of
pages that satisfy `DevicesAssumption` (a memory without `programtime` is a FRAM of `mtd_25aa.cpp` that
writes at once; there is a page):

| Theorem | Statement |
|---|---|
| `Typing` | `Spec => []TypeOK` |
| `Rests`, `ReadsWhatWasReported`, `WritesAreStored`, `EepromNeverTooEarly` | `ChipsKeepTime => (Spec => []...)` for `ChipRests`, `ReadsBack`, `WrittenIsStored`, `EepromInTime` |

`ChipsKeepTime` says that the configured times are the worst case of the chip, as the driver takes for
granted; `spi_late_chip` shows what happens without.

The argument.  Everything follows from `Clock`: what is left to the chip and what has passed of the wait
together fit into the window of the wait, so a window that is over means a chip that rests.  During the
first wait of `bus_erase`, which is too short, only the second window bounds what is left, and it starts
afresh: that is why ignoring how the first wait ended is harmless.  `Control` says what the driver has
made sure of where it stands (the latch is set when a command goes out, so a resting chip takes it).
`Data` says that a page always holds what the earlier calls allow or already what this one wants, and
the latter once the chip rests without an error; `ReadsBack` and `WrittenIsStored` are not inductive
without it, because a call tells its outcome long after its command changed the chip.

`NvramPowerProofs` extends `NvramFsProofs` and proves, for every table, device, set of files of the
firmware and contents of a new memory that satisfy `AppAssumption` (there is an entry and an
equal share of the device for each file, with a byte to spare) and the assumptions of `NvramFs`:

| Theorem | Statement |
|---|---|
| `PowerTypeCorrect` | `PowerSpec => []PowerTypeOK` |
| `FirmwareKeepsRunning`, `HandlesStayOnFiles` | `SmallDevice /\ FitsCounter => (PowerSpec => []...)` for `HaltsOnlyOnFault`, `HandlesStored` |
| `StoreKeepsPromise` | `SmallDevice /\ NewBoard => (PowerSpec => KeepsPromise)`: `NvramPower` implements `NvramStore` |

`NewBoard` says that a new memory is not taken for a table with files once `mkfs` has put the magic in
front of it; it holds of an erased one and of the old data of the instance, and TLC evaluates it there with
the other hypotheses.  Without it the first format of a board could, interrupted after its first write,
leave files nobody created.

The argument.  `PowerInv` has four layers, each proved with those before it.  `Pieces` says which part of
the superblock is written while a `mkfs` or `create` is under way, and holds whatever happens.
`Counts` is `HandleCount`, and that nothing is created unless mounted.  `Kept` gives every file a share of
the device, so that the table can be filled without `create` ever being refused for space, and the
files lie one behind the other; it holds as long as tables can be trusted (on a `NewBoard`, or while no
checksum has `missed` a half-written table).  `Clean` adds what only the second of these gives: entries behind
the last file are empty, handles cover files.  The weak disjunct matters for the refinement: a
checksum that misses a half-written entry leaves a ghost behind the last file, which breaks `Clean`
and keeps `Kept`, and `NvramStore` promises only what `Kept` carries.  In the refinement the first step
of a `create` is `BeginAdd` and its checksum `Commit`; a `create` that is interrupted is `Abandon`,
`Commit` or `Lose`, depending on what the next start finds; the checksum of `mkfs` is `Format`, and
all other steps stutter.

`NvramVolumeProofs` proves, for the same constants as `NvramFsProofs` and any bytes, offsets and lengths:

| Theorem | Statement |
|---|---|
| `VolumeCreateIsAtomic` | `SmallDevice /\ FitsCounter => (CarefulVolumeSpec => CreateAtomic)` |
| `FilesAreServed` | the same hypotheses: `CarefulVolumeSpec => ServesFiles`, `NvramVolume` implements `NvramFiles` |

The argument.  Every step of the volume is a step of `CarefulSpec` on the variables of `NvramFs`, so its
invariants hold here too (`VolumeInv`).  A handle covers its entry (`HandleSafe`) and the entries are
disjoint (`FilesDisjoint`), hence a write through a handle changes the bytes of one name; the clamp
of `File` keeps it inside them.  A step that changes the superblock is a `create` while mounted and a
`mkfs` otherwise, because nothing else writes there.

`LegacyProofs` proves, for both libraries, every page size, device and layout of files that do not overlap
(`LayoutAssumption`), and any number of failing transfers:

| Theorem | Statement |
|---|---|
| `LegacyTypeCorrect`, `WritesStayInFile`, `DriversKeepRunning`, `PositionsStayInside`, `MutexCoversProgramming`, `MountsTheWholeTable` | `CountFits => (Spec => []...)` for `TypeOK`, `StaysInFile`, `HaltsOnlyOnFault`, `TipInside`, `ReadyWhenFree`, `MountedIsWhole` |
| `WritesStoreWhatTheyReturn` | `CountFits => (Spec => StoresWhatItReturns)`, an action property |

`CountFits` says that the `uint8_t` that counts the mount and the open files does not wrap; the table is part
of the firmware, which has three files.  `LayoutAssumption` includes the order of the last two files, which the
constructor of the C++ library forgets to check.

The argument.  `CallSound` relates a write between two of its pieces to the position of its file: what was
sent ends at a page boundary, C stands behind what was written, C++ where it began, and unless a piece
has failed everything sent was written.  `Piece` shows that the next piece is then part of what is left,
lies in one page and ends at a page boundary or is the last; so the assertions of the drivers do not fire
and the next call is sound again.  `InPlace` says that what was sent is on the device, and it survives the pieces
of other threads because files are apart; that they are apart when neighbours are is proved with the
least-number principle (`FilesApart`).  When a piece has failed, the C position still bounds where the
next piece goes, and that is why C keeps inside the file and C++ does not.  `MutexInv` ties the busy chip
to the holder of the mutex, `BootInv` the progress of `mount()` to the table.

`NvramSuiteProofs` and `NvramSuitePassProofs` prove, for every set of contexts and of chips, every
sequence of random bytes and every place where a transfer may break off:

| Theorem | Statement |
|---|---|
| `BuffersAreHeld` | `BuffersSuffice => (SuiteSpec => []BuffersHold)` |
| `WrongChipIsFound` | `ChipsDiffer /\ RandomDiffers => (SuiteSpec => []WrongChipFound)` |
| `SuitePassesAlways` | `BuffersSuffice /\ WholeChunks /\ DeviceSuits => (SuiteSpec => []SuitePasses)` |
| `LostTransfersAreFound` | `Granted => (SuiteSpec => []LostTransfersFound)` |
| `ComparedBytesAreStored` | `Granted => (SuiteSpec => ComparedIsStored)` |

`Granted` is the conjunction of all the hypotheses: `BuffersSuffice`, `ChipsDiffer`, `RandomDiffers`, `WholeChunks`,
`DeviceSuits` and `BufferDiffers`.

The hypotheses say what the suite takes for granted and does not check; TLC evaluates all of them for the
instance (`HypothesesHold` in `MCNvramSuite`).  `BuffersSuffice`: the buffers of the context are as long as the
tests of `write_misalign` and `addres_translate` reach.  `WholeChunks`: the 32-byte transfers of `nvramset` on an
FRAM end where the device ends.  `DeviceSuits`: the names differ, the files fit the device and 16 bits, hold
the 14 bytes of `file_test`, and the table has three entries, because the suite wants the fourth file
refused.  `ChipsDiffer` leaves out chips the suite cannot tell from the configured one: a larger memory looks
like its lower part, and with an FRAM configuration pages that end where its transfers end never wrap.  `RandomDiffers` excludes an unlucky `rand()`, whose first byte returns at the
distance of a page and so hides a byte that went to the wrong cell.  `BufferDiffers` excludes a
caller whose `filebuf` ends in 0xFF, as erased memory does: a first read that breaks off would compare that byte.

The argument.  The script is a chain of sequences, one per function of the file; lemmas about `\o` give the
place and the length of each (`MainParts`, `SmallParts`), so that a step of the suite is call `k` of one
test.  `BuffersAreHeld` asks each call of the script for its reach.  `WrongChipIsFound` needs an
invariant of the first test (`ChipInv`): on a chip of smaller or displaced pages the first byte of a later page
has run into cell 0 during the writing loop and stays there, so the reading loop meets it; with less
memory two reads meet the same cell.  `SuitePasses` is not inductive in any obvious way, because whether a comparison
holds depends on writes several calls back.  For the raw tests that is a fact about scripts: `Raw` says
that every byte a read compares is the one the latest earlier write to its address has put there, it is
closed under putting scripts in a row, and `RawMemory` carries it over to the memory.  For the tests of
files there is one assertion per call: the position of the handle and the words stored so far
(`FileTestAt`), the store with its first `n` files and which of them are open (`Opens`).  `Progress` is the
disjunction of all these places, and the inductive invariant (`PassInv`) is that the suite is at one of
them as long as the chip is right and nothing broke off.

`LostTransfersAreFound` and `ComparedBytesAreStored` rest on `LossInv`, which holds whatever broke off and on
whatever chip.  Outside of `addres_translate_test` every call of the script is `Strict`: it halts if its transfer
broke off, except for the ignored `nvramset` (`StrictParts`, `StrictLoss`).  Inside, `Standing(i, k)` says what is true
before call `k + 1` of test `i`.  The bytes of the three tests end at different places, so `filebuf` holds
what the test before compared (`Follows`), which differs from what is compared now where the longer of the two
ends; a read that breaks off before that place is found, and the memory behind it is still
erased.  A lost `f.write` is found because, before it, the last byte it writes looked written only if the byte behind it
did too (`Betrays`), and that byte is compared with 0xFF.  Before the first test no byte looked written:
the last misaligned write, or `check_erased`, compared all of them (`Looked`).

Model-checked only, and why.  Liveness (`FilesServed`, `CallsReturn`, `WritesEnd`) is beyond the
prover.  So is what the claims of the violated runs would say: they are false.  The table of `Crc8` is
compared with its polynomial entry by entry, by evaluation.

## 5. Not modelled

Left out for good: the legacy test suites and their example, the ChibiOS configuration and board files, `Makefile`s, the
debug hooks, `Mtd24aa::stm32_f1x_read_single_byte`, `File::put`, `get` and `getAndClearLastError`,
which only halt, and threads inside `Fs`, which has no lock and claims none.
