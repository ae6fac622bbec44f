# Verification of the STM32F7 QSPI flash driver

TLA+ models of the driver in `src/`, the TLC runs that check them and the TLAPS
proofs about them. Line numbers without a file name are those of
`src/src/qspi-flash.cpp`.

## The system

The driver is one C++ class, `qspi_impl`, between a task that calls it and a QSPI
NOR flash chip reached through ST's HAL.

| component | state | operations | interacts by |
|---|---|---|---|
| driver core, `qspi_impl` (`qspi-flash.cpp`, `qspi-flash.h`) | `pdevice_`, `pimpl`, `semaphore_` | `initialize`, `uninitialize`, `read`, `write`, `erase_*`, `sleep`, `reset_chip`, `enter_mem_mapped`, `exit_mem_mapped` | HAL calls; `cb_event` from the interrupt posts the semaphore the task waits on |
| quad mode helpers (`qspi-winbond.cpp`, `qspi-micron.cpp`) | none | `enter_quad_mode` | called by `initialize` through `pimpl` |
| device tables (`qspi-descr.cpp`) | constant | look-up of the JEDEC ID | read by `read_JEDEC_ID`, the helpers and the data operations |
| block device (`do_vopen` ... `do_close`) | `is_opened_`, block geometry, `lbuff_` | open, close, read and write blocks | calls the core; `block_device_lockable` holds a mutex around every call |
| page splitting (`write`) and cache maintenance (`invalidate_dcache`, `clean_dcache`) | the cache lines (external) | one page at a time; clean and invalidate a range before DMA | the DMA controller and other tasks use the same memory |
| C API (`qspi-flash-c-wrapper.cpp`) | the object it makes | forwards to the class | C callers; no lock |
| HAL handle and interrupt (external) | `State`, the transfer in flight | command, DMA and interrupt transfers, auto-polling, mapping, abort | marks the handle ready and calls the completion callbacks |
| flash chip (external) | bus mode, power-down, latches, job | obeys commands | on the bus only |

What is hard here, and hard to test on a target:

* the interrupt posts a *binary semaphore that carries no identity*: a completion
  that comes after its wait timed out is taken for the next transfer's;
* a function that gives up leaves its transfer running, the handle busy and perhaps
  the chip programming or erasing;
* `qspi_command` answers any failure with an abort, forces the handle's state and
  sends the command again, though the chip may have obeyed it the first time;
* the controller can be reset while the chip is not, at any point, so `initialize`
  meets a chip in any state, and has to talk to it in the right bus mode;
* the DMA controller does not see the data cache, and the lines at the ends of a
  buffer also hold other tasks' data;
* objects of the C interface come and go while the HAL handle and the chip live on.

What makes the core correct: it never starts work on a peripheral that is still busy
for someone else; it never makes the chip do more than was asked; as long as nothing
failed, ok means done and the chip is in the state the caller thinks; a clean
`initialize` recovers from everything; every call returns.

## Modules

* `FlashChip` - the chip's protocol state and what a command does to it (external;
  as the command sequences rely on it). A busy chip hears only status reads and the
  reset pair, a sleeping one only the release command, and a chip in quad mode does
  not understand one-line commands, nor the other way round.
* `QspiScripts` - every function of the driver as the sequence of HAL calls it makes
  (all have the shape "next call only if the last returned ok"), and the order in
  which the public operations run functions (`FirstPhase`, `NextPhase`).
* `QspiDriver` - the core: the task that runs those sequences, `qspi_command`'s abort
  and retry, the semaphore, the HAL handle, the interrupt, the chip, controller
  resets. Extends the two modules above. The safety properties are at its end.
* `QspiClaims` - two statements made by comments which the code does not keep.
* `QspiDriver_proofs`, `QspiInit_proofs`, `QspiSession_proofs` - theorems about
  `QspiDriver`, each on top of the one before; `QspiProgress_proofs`, on top of the first
  two.
* `BlockCells` - blocks and bytes. A byte is the set of its programmed bits: 0xFF is
  the empty set, programming adds bits, erasing a block empties its bytes.
* `BlockStore` - what a block device promises (abstract).
* `BlockDevice` - `do_vopen`, `do_close`, `do_read_block`, `do_write_block` (below).
  `BlockDevice_proofs` - theorems about it, the refinement of `BlockStore` among them.
* `BlockClaims` - a statement about `do_write_block` which the code does not keep.
* `DriverContract` - the outcomes a call of the driver may have: the interface
  between the core and the block device.
* `QspiCApi` - the C interface: the whole of `QspiDriver` with objects made and deleted
  around it; keeps `DriverContract`. `CApiClaims` - a statement about its results
  which the code does not keep. `QspiCApi_proofs` - theorems about the C interface.
* `DataPath` - page splitting, cache maintenance and DMA for the bytes of one `read` or
  `write`. `DataPathClaims` - a statement about `write` which the code does not keep.
  `DataPath_proofs` - theorems about it, and the arithmetic they rest on.
* `DeviceTables` - the tables of known devices, the look-up, and what is computed
  from an entry. `DeviceTables_proofs` - theorems about them.

Correspondence of state: `pdevice`, `pimpl`, `sem` are members of the class; `op`,
`phase`, `pc`, `try`, `left`, `result` are the position of the running call; `buf` is
what the running function's own receive put in its buffer; `hal`, `mine`, `answered`
the HAL handle's `State` and the transfer in flight; `chip` the chip. `owed`, `smooth`
and `session` are history: programs and erases asked for and not done; whether the
call met no failed HAL call, no timeout and no token but its own; what the results so
far entitle the caller to expect. They are read by properties only.

One action is one HAL call or one semaphore wait; between two of them the interrupt
(`Complete`), a transfer error, the end of the chip's job (`ChipDone`) or a controller
reset (`Reboot`) may come. A HAL call may fail at any time, and then the chip may or
may not have got the command; a wait may time out whenever the semaphore is 0. A
completion is never forced to come, and comes for transfers nobody waits for any
more. A buffer no receive of the function filled (`buf = "none"`) holds whatever was
there: for the three ID bytes on the stack `Identify` lets the look-up find a known
device or not.

One task calls the driver at a time: block devices are used through
`block_device_lockable`, which serialises the calls; callers of the other
functions are assumed to do the same.

### The block device

`BlockDevice` takes the driver as a layer with calls that succeed or fail, one step
each: `phase` is where `do_write_block` is ("blank": only erase, 180-188; "scan" and
"program": the first try, 195-241; "erase" and "rewrite": 243-257), `at` the index of
the running loop, `range` and `data` the call's arguments. `lbuff_` holds what the
scan's read returned and is not kept in the state. A chunk is both `lbuff_` (256 bytes)
and a flash page, so that a `write` of one chunk is one page program, and the write of
the whole range after the erase is one page after the other.

What a driver call does is `DriverContract`: `clean` says that the driver is trusted,
which an undisturbed `initialize` makes it and any failure ends, and then ok means
done. After a failure ok means nothing until the device is opened again, because a
stale token may be around: a read may give anything, programs and erases may be half
done. An `initialize` that succeeds may still leave that so. What a failed or cut short
program or erase leaves is inside its page or block.

`BlockStore` keeps `content`, the bytes whose value is promised, and whether the
device is `serving`. The mapping: promised are the cells of all blocks except those
named by a write that has not cleanly succeeded since (`unsure`, history); `serving`
is `opened /\ clean`.

The two layers meet in `DriverContract`: `Outcomes (call, trusted)` is the set of
results, effects and trust a call may end with. `QspiCApi` checks that every call of the
core, down to the single HAL calls, ends in one of them (`ContractKept`), and the
steps of `BlockDevice` are drawn from them and from nothing else. Calls on a closed
device are refused by the `block_device` in front of it (external), and the task does
not call the class directly (`sleep`, mapping, `erase_chip`) while the device is open.

### The C interface

`obj` is what the caller's pointer names: no object, a live one, or one that was
deleted. `New` gives the members their initial values and touches neither the HAL
handle nor the chip; `Delete` stops nothing. Every C function is an entry of
`ControlFunctions`, `DataFunctions`, `ChipFunctions` or `SectorFunctions`, with the
operation it forwards to; the `*_sector` functions are called with a device only
(they use `pdevice_` untested). The callback goes to the object if the pointer is not NULL,
deleted or not, as in `test-qspi-c-api.c`; `strayed` records when it went to a
deleted one. The object is a `block_device_implementable`, without a lock: callers are
assumed to take turns.

### The data path

A behaviour of `DataPath` is one `read` or `write`, made with the cache in any state, and
what the cache does afterwards. `mem` is what the DMA controller sees, `cached` and
`line` the copies the processor sees; values are told by where they come from
and whether they are the last ones stored. Between any two steps a line may be
loaded (by another task, or ahead of need), stored to by another task (outside the
buffer only) or evicted. `Transfers` is the reference for the splitting: what the
call's range has on each page. `Overhang` says how far a transfer may reach over
lines: `LineSize` is what the maintained range covers, `2 * LineSize` is no condition.
The transfer is one step: lines that come in while it runs are in `refilled`, and the
others are absent from before it to its end. The page program wraps inside its
page, as the chip does, and replaces the bytes (that they were erased is the
block device's business).

### The device tables

`DeviceTables` has the tables of `qspi-descr.cpp` with each number of dummy cycles the
comments there allow, the two nested loops one step each, the latency bytes of
the two helpers (in 8 bits), and the getters. `Uninitialize` keeps all but `pimpl`.

## Runs

Bounds: a write spans at most `MaxPages` = 2 pages, which is enough to leave one page
written and one not, and to start a page after another's failure. Nothing else is
bounded: there is no limit on calls, failures, retries or resets. Both chip families
are tried. About 37000 states.

The block device has two blocks of two one-byte chunks in `block_device` (ranges of one
block, of the second one, and across both; loops that run once, twice and four times;
18000 states), with bytes erased or programmed. `block_bits` has one chunk of three
bytes with values erased, partly and wholly programmed (16000 states): which byte of a
chunk decides, and bits an interrupted program left. All former contents, all data,
and any number of calls, failures and resets are tried.

`c_api` has the bounds of `driver_safety` and no others (118000 states). `data_path`
has pages and lines of 4 bytes, 8 cached bytes and 4 uncached ones, and a flash of three
pages (249000 states): ranges that start and end anywhere on one, two or three pages,
buffers in one line, in two, and across the border to uncached memory, and all
states of the lines. Lines shorter than 4 bytes would hide the case of
`claim_cache_tail`. `device_tables` looks up every combination of the ID bytes of the
table and some others, 0 and 0xFF included (196000 states).

| run | question |
|---|---|
| `driver_safety` | type invariant and seven safety properties, below |
| `driver_liveness` | `EveryCallReturns`: a running call ends |
| `claim_stale_token` | violated: a `read` that returns ok has filled its buffer |
| `claim_device_kept` | violated: after `uninitialize` there is no device descriptor |
| `block_device` | type invariant; `IsBlockStore`: `BlockDevice` implements `BlockStore`; `WriteAdvances`: no step of a write turns back; `WriteReturns`: a block write ends |
| `block_bits` | `IsBlockStore` with partly programmed bytes |
| `claim_erase_ignored` | violated: a block write that returns the number of blocks has stored the data |
| `c_api` | type invariant; `InitRecovers` also for an object that follows another; `DeletedQuietly`; `ContractKept` |
| `claim_c_result` | violated: the value a C function returns names the result of the class |
| `device_tables` | type invariant; `FoundIsListed`, `LatenciesAgree`, `AddressableExactly` |
| `data_path` | type invariant; `WritesItsRange`, `ReadSeesChip`, `StoresKept` |
| `claim_cache_tail` | violated: a write of a line-aligned buffer that returns ok has written its data |

The safety properties:

* `NoForeignTransfer`: past its first accepted command a function finds no transfer
  of an earlier call in flight and no memory mapping; this is what the abort in
  `qspi_command` is for.
* `BusyOrAsleepIsQuad`: a chip that is busy or asleep is in quad mode. Power-down,
  program and erase are sent on four lines only, so that the four-line
  `sleep (false)` and `reset_chip` of `initialize` are understood when they are needed.
* `NothingRunsTwice`: retries never make the chip run a program or erase twice,
  although `qspi_command` repeats commands the chip may have executed: the repeated
  erase finds the write enable latch used up.
* `SessionAgrees`: after a clean `initialize`, as long as nothing fails, the chip is
  ready (or asleep after `sleep (true)`), the handle is free, the semaphore is 0 and
  the descriptor is the chip's.
* `OkMeansDone`: in such a session ok means the buffer was filled, the write or erase
  is finished, also when commands had to be retried.
* `InitRecovers`: an `initialize` in which nothing fails and which meets no foreign
  token succeeds, in whatever state earlier calls, failures and resets left the chip.
* `CallAdvances`: each step of the driver leaves fewer HAL calls and waits that may still
  come, and nothing else adds any, so that retries, rescue and page loop are bounded.

`IsBlockStore` says of the block device: as long as no driver function fails, a
write that returns the number of blocks has stored the data, whatever it found in the
blocks (old data, half of an earlier write, half an erase); a read returns what was
stored; failures and resets harm only the blocks of the write they hit, also when
the failure came after another block of the range was erased or programmed.

Of the C interface: `ContractKept` says that every call ends as `DriverContract` allows,
objects made and deleted in between; `DeletedQuietly` that an object deleted when no
call had failed since a clean `initialize` leaves no transfer in flight, so that no
callback reaches freed memory. After a failure it may: nothing in `qspi_delete` waits.

Of the data path: `WritesItsRange` says that a write that returns ok has put the bytes
last stored in the buffer, in order, where they belong, and that no write, whole or
broken off, touches other cells; `ReadSeesChip` that after a read that returned ok the
program sees, and keeps seeing, the chip's data, save on lines brought back into the
cache while the transfer ran (there is no maintenance after it); `StoresKept` that
nothing stored around the buffer, before or during the call, is lost.

Of the tables: `FoundIsListed` says that a look-up finds a device exactly when it is
listed, and that name, entry and helper are of one manufacturer whatever look-ups went
before; `LatenciesAgree` that chip and controller count the same clocks in a read, for
each allowed number; `AddressableExactly` that sector size, count, erase size and 24-bit
addresses fit for each device.

Fairness: weak fairness of the driver's own step (`DriverStep`) and of nothing else.
Every HAL call and wait of the code has a timeout (`TIMEOUT`, `WRITE_TIMEOUT`,
`ERASE_TIMEOUT`, `CHIP_ERASE_TIMEOUT`), so the task always gets on; the interrupt, the
chip and the callers are free to do nothing. For the block device it is weak fairness of
the steps of a running write (`WriteStep`), because every driver call returns.

### What the violations show

`claim_stale_token`: a read times out, its transfer completes a moment later and
posts the semaphore, the next read starts its transfer and its `timed_wait` returns at
once: ok, with the buffer not yet written. No function drains the semaphore before it
starts a transfer, and the second transfer's completion leaves the next token, so
every later wait is one completion early. `OkMeansDone` and `InitRecovers` hold because
they exclude that situation (`session`, `smooth`).

`claim_device_kept`: `uninitialize` (341) clears `pimpl`, not `pdevice_`, which is what
`get_sector_size`, `get_sector_count`, `get_memory_type` and the data operations test.

`claim_erase_ignored`: the results of `erase_sector` (186, 249) are dropped. A write of
erased bytes whose erase fails returns the number of blocks and leaves the old data; other
data is programmed over what is there. `IsBlockStore` holds because it promises nothing
of a write in which any driver function failed, reported or not.

`claim_cache_tail`: the maintained range is the length rounded down to a line, plus a
line, from the line of the start (`qspi-flash.h:298`, `:310`). It misses the last line when
start and length reach over by more than a line together. A caller who aligns
buffers does not avoid it: `write` splits at the flash page, the second part starts in
the middle of a line, and its end is programmed from memory the cache has not been
written back to. In `data_path` that case is excluded by `Overhang`.

`claim_c_result`: `type_not_found` is 10, `qspi_type_not_found` is 4, and the wrapper
casts.

## Proofs

Every safety invariant and action property the passing runs check, and the refinement of
the block store, is also a theorem, for every value of the constants. Assumptions on
constants: `MaxPagesAssumption` (positive) and `FittedAssumption` (known families) for the
driver; `SizesAssumption` for pages, lines, blocks and memories (positive, and what the
hardware fixes of their alignment); `DummiesAssumption` (the numbers of dummy cycles the
comments of `qspi-descr.cpp` allow) and `BytesAssumption` of the tables (a byte is below
256); `BytesAssumption` of the block device (programming a value a byte may have on another
gives one it may have); `FailingAssumption` (what may fail is a function of the driver).
TLC evaluates them in the runs. The invariants that make the theorems inductive were
checked with TLC first.

| module | theorem | property |
|---|---|---|
| `QspiDriver_proofs` | `TypeCorrect`, `PeripheralNotShared`, `RescueIsHeard`, `NeverTwice` | `TypeOK`, `NoForeignTransfer`, `BusyOrAsleepIsQuad`, `NothingRunsTwice` |
| `QspiInit_proofs` | `InitializeRecovers` | `InitRecovers` |
| `QspiProgress_proofs` | `CallsAdvance` | `CallAdvances` |
| `QspiSession_proofs` | `SessionsHold`, `ResultsHold` | `SessionAgrees`, `OkMeansDone` |
| `QspiCApi_proofs` | `CTypesHold`, `NewObjectRecovers`, `QuietDeletion`, `DriverKeepsContract` | `CTypeOK`, `InitRecovers`, `DeletedQuietly`, `ContractKept` |
| `BlockDevice_proofs` | `BlockTypes`, `DeviceIsStore`, `WritesAdvance` | `TypeOK`, `IsBlockStore`, `WriteAdvances` |
| `DeviceTables_proofs` | `TablesTyped`, `LookupIsExact`, `LatencyIsAgreed`, `SectorsFit` | `TypeOK`, `FoundIsListed`, `LatenciesAgree`, `AddressableExactly` |
| `DataPath_proofs` | `DataPathTypes`, `StoresAreKept`, `WriteStoresBuffer`, `ReadDeliversFlash` | `TypeOK`, `StoresKept`, `WritesItsRange`, `ReadSeesChip` |

### The driver

All rest on `ScriptsWellFormed`, what the sequences have in common, proved sequence by
sequence. The first four properties need little more than themselves: `PageLeft` (pages are
left while one is written), `MineInFlight` (a transfer marked as the running function's
is in flight, was started past the first step, and transmits only for `page_write`), and
`OnceInv` (a function sets the write enable latch in its first step only, a job that
starts uses the latch up, and as long as either is there the call still owes that job).

`InitRecovers` and `SessionAgrees` speak of the moment between two calls, and cannot be
inductive: what the chip is then depends on what it was at every step of the sequences
before. `Known` says what that is during an undisturbed `initialize`. `TokenInv`: a token
that is there belongs to the wait the task is in. `IdInv`: an ID read that answered found a
chip that listens on one line, one that did not, a chip in quad mode. `InitChip`: before
each step of each function what the chip is, what the step before has set in it
(the reset enable, the latch of the status register, the quad enable bit, the dummy
cycles), and that a repeated command may find its effect already there. `InitDone`: what
the function leaves. Around them, that a busy chip is awake, and which functions
each operation runs. Nothing is said of the chip before the first ID read: that is why
the theorem holds for whatever the chip was left as.

`SessionKnown` adds the session: `Sound` (in a session the call met no trouble, and whatever
is in flight is its own), `ReadAt`, `PageAt` and `EraseAt` (at each step what the chip
is, what is owed, and what a token in the semaphore means: the buffer was filled, the
job was polled to its end), and `Fits` (a data call is made of a chip that is ready, or
sleeps and will not hear it; `sleep` and `initialize` of either). A repeated erase is the
hard case: the chip may run it already, and then must not have its latch set.

`CInv` takes all that over to the C interface. `CNextIsNext` makes every step but
`qspi_new` one of the driver; `NewKeeps` shows that a new object, whose members start
over while HAL handle and chip go on, disturbs none of it. `ReturnOfCall` says how a call
that returns may have changed the session, and with `OkMeansDone` that is the contract.

`CallsAdvance` is what can be proved of termination. `Moves` says how a step of the driver
changes its position: one on, from a failed try to the abort and from that to the
second try, or out of the function; `NextIsLess` that the functions which may follow
make fewer steps than were allowed for (`StepsAfter`), for each operation. With two tries
and an abort for each step of a sequence, `initialize` takes at most 54 steps and a write
18 for each page.

### The block device

`DeviceIsStore` starts from the contract `DriverKeepsContract` ends with, so the two
together carry from the HAL calls to the blocks. The invariant adds `Progress` to the
types: as long as the driver is trusted, the chunks behind a scan, a program or a rewrite
hold the data, a chunk to be programmed is in each byte erased or already right, what a
rewrite has not come to is erased, and so are the blocks behind an erase. The lemmas of
the four kinds of step (`ScanStep`, `ProgramStep`, `EraseStep`, `RebootKeeps`) also say
that cells outside the call's range stay as they are. Blocks, chunks and cells are
joined by arithmetic only (`InRange`, `NextBlock`, `ChunkStep`, `ChunksFill`). The mapping,
step by step:

| step of `BlockDevice` | of `BlockStore` |
|---|---|
| `Open`, `Close` | `OpenOrClose` |
| `ReadBlock` | `Read`, or `FailRead` if the call failed |
| `WriteBlock` | `BeginWrite`: the cells it names are no longer promised |
| a step inside the loops | none, or `Falter` if it ended the trust |
| the last step, returning `Count` | `EndWrite`: with the trust kept, the cells are promised again, with the data |
| a step returning -1 | `FailWrite` |
| `Reboot` | `Reset` |

`WritesAdvance` is what can be proved of termination: each step of a write has less left
than the one before (`StepsLeft`), whatever the calls return, so that a write takes at
most `Count + 3 * Chunks - 1` steps.

### The tables

`LookInv` says what the two loops know on their way: the entries passed so far do not
match while nothing was found, and what was found is all of one manufacturer. The rest
(`CursorsInv`) is that the cursors stay inside the tables. The theorems about latencies and
sectors go through the entries one by one (`EntryFacts`); they are about these tables, not
about any.

### The data path

`ArgsInv` ties position and rest of the call together; `KeptInv` says that whatever the
program stored is in the cache where the cache has the line, and in memory where it is
not dirty. From them: `PartInMemory` (when a part is programmed, memory has what the
program stored in it) and `WrittenInv` (so has the flash, for the parts behind), and for
a read `BufferAbsent` and `BufferRead` (during the transfer no line of the buffer is
cached, but for those brought back). `PartStaysOnItsPage` and `TransferIsMaintained` are
their arithmetic, for every address, pointer and length.

`WriteStoresBuffer` and `ReadDeliversFlash` assume `Overhang <= LineSize`: no transfer
reaches further over its lines than what is maintained. Without it they are false
(`claim_cache_tail`); `StoresAreKept` needs no such assumption.

### Only model-checked

Liveness: `EveryCallReturns` and `WriteReturns`. Both need fairness, hence ENABLED, which
is beyond the prover; the parts without fairness are `CallsAdvance` and `WritesAdvance`. The
violations are counterexamples, and need no proof.

## Not modelled

Addresses inside the core (they are in `DataPath` and `DeviceTables`); the time a
transfer takes, and with it the ticks of the timeouts and how much fits into the 10 ms
of one read; memory allocation (the helper objects are never freed); the
memory-mapped accesses themselves and their cache lines; two tasks inside the driver at
once. A block write of no blocks (which does nothing), a `write` of no bytes (a page
program without data, up to the HAL), and the geometry tests of `do_vopen` (114), which no
entry of the device tables fails (`AddressableExactly`). `qspi_power` is declared
(`qspi-flash-c-api.h:69`) and defined nowhere. The target tests, but for their callbacks.

## Plan

All components that keep state or do arithmetic are modelled, and what the runs check of
safety is proved. What is left: `CallAdvances` for objects made and deleted through the
C interface (`CNextIsNext` carries it over), and shorter proofs where lemmas of
`DataPath_proofs` and `BlockDevice_proofs` say the same.
