# Verification of the SPIM driver (spim_driver_Dolphine_test)

This directory holds TLA+ models of the SPI-master (SPIM) driver under
`src/peripherals/spim_driver_Dolphine_test/`, of the flash test that drives it,
and of two tests that program the SPIM through the uDMA directly. It also holds
the TLC configurations that model-check the models and the TLAPS proofs about
them.

## The system

- **Driver_SPI.c.** It holds one record per SPIM. The record has these fields:
  - `buzy`, the transaction flag;
  - `callback`;
  - `data_left`;
  - `bitsword` and `sizefactor`;
  - the four-word command block `buffer_cmd`: CFG, SOT, RUN, EOT.

  The driver's operations are:
  - `Initialize` ungates the clock, registers the callback, unmasks the EOT
    event and clears `buzy`.
  - `Uninitialize` aborts and then gates the clock.
  - `Control` has two sub-protocols. The misc sub-protocol handles bus speed
    and abort. The mode sub-protocol sets the clock divider and the word size.
    Both rewrite the SOT and EOT words.
  - `Send`, `Receive` and `Transfer` work the same way. Each one:
    1. rejects the call while `buzy`;
    2. writes the RUN and EOT words;
    3. enqueues its data buffer(s) on the uDMA TX/RX channels;
    4. enqueues `buffer_cmd` itself on the CMD channel;
    5. sets `buzy`.
  - `GetStatus` reads `buzy`.
  - `GetDataCount` computes `data_left` minus what the channel SIZE registers
    still hold.
- **The hardware.** The uDMA CMD channel reads `buffer_cmd` **by reference**,
  one word at a time, into the SPIM. A RUN word moves data through the TX/RX
  channels. An EOT word raises the SPIM0 EOT event in the SoC event FIFO, but
  only if `Initialize` unmasked it.
- **Driver_IRQ.c.** `irq_handler` reads the event id. The SPIM0 EOT id is
  dispatched to `DD_SPI_IrqCallback`, and every other id is dropped. The
  callback calls the user callback and then clears `buzy`
  **unconditionally**.
- **Clients.** `test.c` drives a flash memory through the driver. Its discipline:
  - it calls `Initialize` first;
  - it calls `Control` only while idle;
  - after every transfer it spins on `GetStatus().busy`.

  Two more tests program the uDMA directly, without the driver:
  - `spim_flash_interrupt_handler/test.c` queues a page program, then loops:
    queue a read of the flash status into `wip_write`, wait until
    `__irq_handler` has incremented the global `var`, mask `wip_write &= 1`,
    repeat while it is non-zero. `var` is never reset.
  - `spim_flash_interrupt/test_spim_flash_interrupt_ver3.c` reads the ID,
    programs a page, polls WIP and reads the page back. Each transfer is
    awaited by `wait_spi_rx_event`/`wait_spi_tx_event`, which unmask the SoC
    event *after* the transfer was queued and spin on the interrupt
    controller's status bit.

## Modules

| module | what it models |
|---|---|
| `SpiDriver` | Driver record, every state-changing driver operation, the completion interrupt, the hardware the driver relies on, and the client |
| `SpiDriverAbstract` | What the driver promises: one transaction at a time (`busy`, `inflight`) |
| `MCSpiDriver` | Constant values for TLC |
| `SpiDriverProofs` | TLAPS proofs about `SpiDriver`, including the refinement of `SpiDriverAbstract` |
| `SpiFlashTest` | `test.c` (`main`, `WaitFlashReady`) run against `SpiDriver` and a flash WIP bit |
| `MCSpiFlashTest` | Constant values for TLC |
| `SpiFlashTestProofs` | TLAPS proofs of `TestTypeOK` and `ReadyOnReturn` for every driver configuration |
| `RawSpimIrqTest` | `spim_flash_interrupt_handler/test.c` with its own uDMA, event and flash model |
| `MCRawSpimIrqTest` | The TLC entry point of `RawSpimIrqTest` |
| `RawSpimIrqTestProofs` | TLAPS proofs of `RawTypeOK` and `ExitOnlyWhenDone` for every channel depth |
| `RawSpimPollTest` | `test_spim_flash_interrupt_ver3.c` with its own uDMA, event and flash model |
| `RawSpimPollTestProofs` | TLAPS proofs of `PollTypeOK`, `WaitSeesCompletion` and `ReturnsZero` |

**State of `SpiDriver`:**
- The driver fields, each named as in the C struct.
- `buffer_cmd[i]`: a word `[op, arg]`. The `op` is the command code. The `arg`
  is the part a property looks at:
  - the clock divider, for CFG;
  - the item count, for RUN;
  - the pending bit, for EOT.
- `clockOn`: the SPIM bit of the uDMA clock-gating register.
- `eotMask`: the EOT bit of the FC event mask.
- `cmdCh`: the CMD-channel jobs. Each job records how far it has read.
- `dataCh`: the TX/RX jobs. Each job holds the bytes left and the element size.
- `spim`: the words the SPIM has fetched but not yet executed.
- `eotPending`: the EOT events waiting in the FIFO.
- `req`: a history variable holding the items the last accepted transfer asked
  for.

**Actions.** Each driver call is one action that models the whole function:
- `DD_SPI_Initialize` and `DD_SPI_Uninitialize`;
- `DD_SPI_Control_Misc` and `DD_SPI_Control_Mode`, with the shared tail
  `ControlTail` (Driver_SPI.c 330-347);
- `DD_SPI_Send`, `DD_SPI_Receive` and `DD_SPI_Transfer`;
- `irq_handler`, which includes `DD_SPI_IrqCallback`.

Only accepted calls are actions. A rejected call (busy, or `Send(0)`) changes
nothing, so it is a stutter step.

The rejected-baud path of `Control` is modelled as follows. On that path, and
in INACTIVE mode, the local `clockdiv` is never assigned, yet line 318 reads
it. The model chooses its value from the constant `UninitDivs`.

**Hardware actions.** `HwFetch`, `HwMove(d)` and `HwExec` model the hardware,
which is not repository code. The hardware model makes these assumptions:
- a job enqueued on a full channel (depth `ChanDepth`, current plus pending) is
  lost;
- a zero-byte buffer is not queued;
- a uDMA channel clear does not recall the words the SPIM has already fetched;
- an EOT that is masked is dropped;
- nothing moves while the clock is gated.

**Client.** The client is any sequence of driver calls. The constant
`ClientMay` lifts parts of the `test.c` discipline:
- `abort_busy`: the client may abort while busy;
- `reconfigure_busy`: the client may call `Control`, `Initialize` or
  `Uninitialize` while busy;
- `before_init`: the client may transfer before `Initialize`.

`ClientMay = {}` is exactly the `test.c` discipline.

**Fairness.** `FairSpec` assumes weak fairness of the three hardware actions and
of `irq_handler`. The reasons:
- clocked hardware does not stall;
- `DD_IRQ_Init` unmasks the SoC event line, so a queued event is taken.

The client owes nothing: the driver has no thread and no timer, and a program
may stop calling it.

### The abstract driver (SpiDriverAbstract)

The spec (sections 3 and 5) promises one transaction at a time. The abstract
state is `busy` (what `GetStatus` reports) and `inflight` (the hardware still
works on the transaction). Its actions are:
- `Start`: an idle driver accepts a transaction;
- `Finish`: the hardware ends it;
- `Complete`: busy clears once the hardware is done;
- `Abort`: busy and inflight clear at once.

`SpiDriver` maps onto it with `busy <- buzy` and `inflight <- InFlight`, where
`InFlight` says that a command word, a data job or a fetched word is still in
the hardware (`~HwIdle`). `AbsSpec` and `AbsFairSpec` are the abstract
specifications as properties of `SpiDriver`.

### The flash test (SpiFlashTest)

`main()` is a table `Prog` of statements, and `pc` indexes it. The statements
are `init`, `ctl`, `send`, `erase`, `program`, `recv`, `wait`, `wfr` and
`check`. The table is the RDID prologue followed by the `quad_mode` loop body
`LoopBody` twice. `WaitFlashReady` has its own location `wf` and its local
`status`.

The model's actions:
- **Setup**, **Call**, **Wait** and **Check** cover `main()`. **Call** is the
  driver action itself (`DD_SPI_Send`/`DD_SPI_Receive`), or `Rejected`, which
  is the call on a busy driver returning `DD_DRIVER_ERROR_BUSY` with nothing
  changed. test.c drops the return code. `ret` keeps it only for the
  `CallsAccepted` property.
- **WfrEnter**, **WfrCheck**, **WfrWait** and **WfrCall** cover
  `WaitFlashReady`. WfrCheck reads bit 0 of `status`: `status & 0x01 != 0`
  parses as `status & 1` in C, which is the same bit.
- **RxMove** is the SPIM clocking in an RX element. The last element of a
  status read writes the flash's WIP bit into `status`. `rxDst` records where
  the queued RX job writes.
- **FlashDone** ends an erase or a page program. A `4P4E` or page-data Send
  that the driver accepts sets `wip`.

The data bytes and the quad flag are abstracted away. Each compare of `main()`
therefore either goes on or returns 0.

`TestFairSpec` is weak fairness of the program (the FC runs only `test.c`), of
the clocked hardware, of `irq_handler` and of the flash's internal operation.

### The interrupt-handler test (RawSpimIrqTest)

The state of the model:
- `loc`: where `main()` is;
- `var`, capped at `VarCap`: the test only compares it with 0;
- `wip_write` and `tmp`. `tmp` is the value loaded for `wip_write &= 1`.
  `Load` and `Store` are separate steps, because the RX channel may write
  `wip_write` in between.
- the CMD channel as a sequence of `"prog"`/`"read"` jobs, and the RX job
  count;
- the SoC event mask bit, the interrupt mask bit and the pending bit;
- the flash's `wip`.

`IrqHandler` is `__irq_handler` (`var++`). `ExecProg` starts the page program
and `ExecRead` writes the status byte (3 while programming, 0 after) into
`wip_write`. The end of a read raises the event only if the SoC mask lets it
through.

The hardware assumptions are shared with `SpiDriver`:
- an enqueue on a full channel is lost;
- RX_DATA stalls until an RX job is queued;
- a masked event is dropped.

### The polling test (RawSpimPollTest)

`Steps` is the table of `main()`:
1. enqueue the ID read, then wait RX;
2. enqueue the program, then wait TX;
3. enqueue the WIP read, then wait RX;
4. the do-while test;
5. enqueue the page read, then wait RX;
6. the compare.

A command buffer is reduced to its data and EOT words (`Words`). The erase is
commented out in the source and is not modelled.

The wait functions are **WaitEnter** (unmask), **WaitSpin** (leave once the
status bit is set) and **WaitExit** (clear the bit, mask again). **ExecCmd**
runs the head word:
- a data word waits for its job;
- the end of the job raises the channel's event if it is unmasked;
- `eotProg` starts the program;
- `rxStatus` and `rxPage` read the flash, and a page read while the flash is
  busy yields `"busy"`.

The model has no constants. Every wait that returns leaves the data channels
empty, so channel depth plays no part.

## Runs

### Driver runs

These runs use `MCSpiDriver`. The shared bounds are:
- `FreqPeriph = 1024`;
- bauds {2, 3, 512, 1024}. Baud 2 gives divider 0 (accepted, since
  1024/512 < 2 ≤ 1024), baud 3 gives 170, and 512 and 1024 give 1 and 0;
- data bits {8, 16, 40}. 40 exercises the "bits > 32 becomes 8" fallback, and
  8 and 16 give two size factors;
- `MaxItems = 2`, so the runs reach 0, 1 (the single-byte Send path) and a
  buffered count;
- channel and SPIM depth 2, which lets a second job queue up behind the first.

| run | cfg | expect | what it shows |
|---|---|---|---|
| careful_client | MCSpiDriver.cfg | pass (8002 states) | Under the `test.c` discipline, all of these hold: `IdleMeansDone` (idle means the hardware is done and no EOT is pending); `CmdIntegrity` (no word the CMD channel has still to read is ever rewritten); `DataCountSound` (GetDataCount never wraps or exceeds `data_left`); `BusyEventuallyClears`; `CompletionOnlyWhenDone`; the inductive invariant `IdleInv`; and `AbsSpec`/`AbsFairSpec`, i.e. the driver implements the abstract transaction, liveness included |
| abort_live | SpiAbortLive.cfg | pass | A client that aborts in flight still sees busy clear. Depths 1 and one baud/width keep it small; `eotPending ≤ 2` bounds the FIFO |
| abort_stale_eot | SpiAbortStale.cfg | violation | Abort, then start a new transfer. The SPIM still executes the old EOT, and the interrupt clears `buzy` of the new transfer while its data is still queued |
| datacount_exact | SpiDataCountExact.cfg | violation | `Send(1)` never sets `data_left`, so GetDataCount does not return 1 once the channels drain (spec §4.2, §8) |
| bus_speed | SpiBusSpeed.cfg | violation | `GET_BUS_SPEED` returns `F/div` where `div = F/(2·baud)`, which is twice the speed that was set. It divides by zero when `div = 0` |
| cfg_uninit | SpiCfgUninit.cfg | violation | A rejected baud, or INACTIVE mode, puts the uninitialized `clockdiv` into the CFG word |

**Why these bounds are enough.** Each property concerns one transfer overlapping
at most one stale job or event. Depth 2 holds the second job, and two items
distinguish the one-item path from the buffered path. Every action and every
`Client` disjunct fires in careful_client or abort_live. Every property of a
passing run is broken by a mutant of the code (`Mut_*` in each module, listed in
PROJECT.json).

### Test-program runs

| run | module / cfg | expect | what it shows |
|---|---|---|---|
| flash_test | MCSpiFlashTest / SpiFlashTest.cfg | pass (1579 states) | `ReadyOnReturn`: whenever `WaitFlashReady` returns, the flash has finished its erase or program. `TestTerminates`: under `TestFairSpec` every busy wait of `main()` ends |
| flash_calls_rejected | MCSpiFlashTest / SpiFlashCalls.cfg | violation | `CallsAccepted`: a Send of test.c is rejected as busy (see Findings) |
| raw_irq_test | MCRawSpimIrqTest / RawSpimIrqTest.cfg | pass (364 states) | `ExitOnlyWhenDone`: the polling loop of the interrupt-handler test ends only after the page program |
| raw_irq_stale_read | MCRawSpimIrqTest / RawReadBeforeUse.cfg | violation | `ReadBeforeUse`: from the second iteration on, the loop masks `wip_write` while its own read is still queued |
| raw_poll_test | RawSpimPollTest / RawSpimPollTest.cfg | pass (100 states) | `WaitSeesCompletion`: a wait that returns leaves no data job queued. `ReturnsZero`: a run that reaches the end compares a fully programmed page |
| raw_poll_lost_event | RawSpimPollTest / RawPollLostEvent.cfg | violation | `PollTerminates`: a transfer that ends before its wait unmasks the event leaves the wait spinning for ever |

The test-program runs use these bounds:
- `SpiFlashTest`: baud 3, width 8, `MaxItems = 2` (so `Many` is 2) and depths
  2. `main()` is the prologue and two loop passes. The second pass starts with
  the state the first one left, which is where a stale status or a call still
  in flight shows up.
- `RawSpimIrqTest`: `ChanDepth = 2` and `VarCap = 2`. The channel holds the
  read just queued behind a stale one, and `var` reaches a second interrupt.
  The proof below covers every depth and cap.
- `RawSpimPollTest`: no constants, and the state space is complete.

The three test-program modules run with `CHECK_DEADLOCK FALSE`. The programs
end (`pc = Done` or `loc = "done"`), and with them the system stops.

### What TLC showed outside the runs

Two more results came up while modelling. Neither is kept as a run; the
hazard list refers to them.
- With `ClientMay = {"reconfigure_busy"}`, `AbsSpec` fails on
  Initialize, Send, Initialize. The second `Initialize` clears `buzy` while
  the transaction is still in the hardware, which the abstract spec only
  allows as an Abort. test.c never does this.
- `RawTerminates` (`<>(loc = "done")`) fails under `RawFairSpec`. Each
  iteration loads `wip_write` (still 1), the status read then writes 0, and
  the store writes the stale 1 back. The race can repeat for ever, so the
  loop never ends even though the flash is idle. This needs the same
  unlucky timing on every iteration.

## Findings
Each finding is the counterexample of a violation run.
- **abort_stale_eot** (code_bug, `spim_driver_Dolphine_test/Driver_SPI.c:518`): DD_SPI_AbortTransfer clears the uDMA channels but not the words the SPIM already fetched nor an EOT event already raised; DD_SPI_IrqCallback then clears buzy without checking which transfer ended, so the late EOT of the aborted transfer reports the next transfer complete while its data is still moving. Spec section 3 says busy is cleared only by the completion of the transaction or by an abort.
- **datacount_exact** (spec_code_divergence, `spim_driver_Dolphine_test/Driver_SPI.c:376`): Send with num == 1 takes the single-byte path and never assigns data_left, so GetDataCount returns whatever the previous transfer left (0 after Initialize); spec section 4.2 says Send sets dataRemaining = count and section 8 says GetDataCount reaches N once both channels are empty.
- **bus_speed** (code_bug, `spim_driver_Dolphine_test/Driver_SPI.c:285`): GET_BUS_SPEED returns FreqPeriph / clockdiv while SET_BUS_SPEED computed clockdiv = FreqPeriph / (2 * arg): the reported speed is twice the one set, and a divider of 0 (arg above FreqPeriph/2 passes the range check at line 272) makes the division by zero.
- **cfg_uninit** (code_bug, `spim_driver_Dolphine_test/Driver_SPI.c:318`): In the mode sub-protocol the local clockdiv is assigned only for MASTER mode with an accepted baud (line 304); on a rejected baud or in INACTIVE mode line 318 writes the uninitialized value into the CFG command word, which the next transfer sends to the SPIM.
- **flash_calls_rejected** (code_bug, `spim_driver_Dolphine_test/test.c:69`): WaitFlashReady tests status right after Receive(&status, 1, 0) returned, before the RX channel wrote it; when the previous poll already read WIP = 0 it returns with that Receive still in flight, so the 4READ Send at line 145 or 202 is rejected as busy and, its return code being ignored, the test reads back without a read command.
- **raw_irq_stale_read** (code_bug, `spim_flash_interrupt_handler/test.c:190`): var is set by __irq_handler and never reset, so from the second iteration the while (var == 0) wait passes at once and line 196 masks the wip_write of an earlier read while the read just queued is still on the uDMA; the comment at lines 186-188 says the wait catches this iteration's interrupt.
- **raw_poll_lost_event** (code_bug, `spim_flash_interrupt/test_spim_flash_interrupt_ver3.c:76`): wait_spi_rx_event and wait_spi_tx_event unmask the SPIM0 event in the SoC event unit only after the transfer was queued (lines 279-283, 351-355, 373-376, 388-393); a transfer that ends before that has its event dropped and the while loop on the interrupt controller status never ends.

## Proofs

### SpiDriverProofs

**Assumptions.** The proofs rest on the ASSUMEs of `SpiDriver`: `FreqPeriph`
positive, bauds positive, data bits in 0..63, `MaxItems` positive, depths
positive.

**TypeCorrect: `Spec => []TypeOK`.** This holds for every constant value and
every client. The proof has one step per action, and it uses lemmas on:
- the enqueue helpers;
- `ClockDiv` staying in 0..255;
- `SizeFactor`;
- singleton sequences.

**IdleMeansDoneCorrect and CompletionCorrect.** Both are proved under the
hypothesis `ClientMay = {}`. `IdleMeansDone` is not inductive as it stands: a
busy state with an EOT still in the hardware must be known to end that
transfer. So the proof goes through `IdleInv`, which says:
- `buzy` implies the EOT event is unmasked;
- no EOT word is at CFG, SOT or RUN (`NoEarlyEot`);
- at most one command job is queued;
- idle means the hardware is quiet;
- a pending event means the hardware is quiet and exactly one event is pending;
- while busy with no pending event, exactly one EOT lies ahead as the last word
  to execute (`OneEotAhead`);
- every queued data job has a RUN word ahead that drains it (`DataAhead`).

TLC checks `IdleInv` as an invariant of careful_client. TLAPS proves three
facts:
- `Init => IdleInv`;
- that every step preserves it (lemma `IdleStep`, one case per action);
- `IdleInv => IdleMeansDone`.

The theorem `IdleInvariant` (`ClientMay = {} => (Spec => []IdleInv)`) states
the invariant itself, and the next three proofs build on it.

`CompletionOnlyWhenDone` follows from the same invariant, because
`irq_handler` is only enabled when an event is pending.

**RefinementCorrect: `ClientMay = {} => (Spec => AbsSpec)`.** The proof
needs `IdleInv` in both states of a step, so it uses the invariant proved
above. `InFlightIff` shows that under `IdleInv`, `InFlight` holds exactly when
`buzy` is set and no EOT is pending. `EotStep` classifies every step: it
leaves `eotPending` alone, adds an EOT without touching `buzy`, or clears
`buzy`. `AbsStep` then splits on `buzy` before and after the step:
- idle to idle: a stutter;
- idle to busy: `Start`;
- busy to idle: `Complete` (an EOT was pending) or `Abort`;
- busy to busy: a stutter, or `Finish` when the EOT reaches the FIFO.

Initial states map to the abstract `Init`, and the theorem follows by PTL.

**CmdIntegrityCorrect: `ClientMay = {} => (Spec => []CmdIntegrity)`.** The
uDMA reads `buffer_cmd` by reference, so a word the SPIM has not fetched yet
must still be what was queued. `CmdIntegrity` is inductive on top of
`IdleInv`. The proof (lemma `CmdStep`) shows three things:
- a client call rewrites `buffer_cmd` only when `IdleInv` says the CMD channel
  is empty, and then queues a fresh job that is a copy of the new buffer;
- `HwFetch` only advances the head job's `pos`;
- every other action leaves both the channel and the buffer alone.

**DataCountSoundCorrect: `ClientMay = {} => (Spec => []DataCountSound)`.**
`DD_SPI_GetDataCount` subtracts what the two channels still hold from
`data_left`, as a `uint32_t`. It needs the strengthening `DataInv`:
- each data channel holds at most one job;
- while `buzy`, the items the channels still hold (`ChanItems`, bytes divided
  by the element size) are at most `data_left`.

A transfer queues one job of `num * 2^sizefactor` bytes, and `ItemDiv` turns
that back into `num` items. A uDMA move only shrinks a job (`MoveShrinks`).
`IdleInv` gives that a client starts a transfer only when the channels are
empty (`ClientIdle`, `DataStart`). `DataInv` was checked by TLC on careful_client
before it was proved.

**What only TLC checks:**
- The liveness properties `BusyEventuallyClears` and `AbsFairSpec`, since
  TLAPS does not handle fairness or ENABLED.
- The abort client (`ClientMay = {"abort_busy"}`): `IdleInv` does not hold
  there, as abort_stale_eot shows.
- `DataCountExact`, `BusSpeedRoundTrip` and `CfgFromBaud`, which are about
  the integer conversions of one configuration at a time and are checked
  over the run's bounded inputs.
- The violated properties.

No module of the project uses a RECURSIVE operator, so nothing is left to
TLC for that reason.

### SpiFlashTestProofs

**TestTypeCorrect and ReadyOnReturnCorrect: `TestSpec => []TestTypeOK` and
`TestSpec => []ReadyOnReturn`**, for every driver configuration and baud rate.
The strengthening `FlashInv` adds two facts:
- `WaitFlashReady` runs only at a `"wfr"` statement of `Prog`;
- while it runs, a status of 0 means the flash has finished.

The argument needs no fact about the driver. No statement inside
`WaitFlashReady` starts an erase or a program, and the RX channel writes 0
into `status` only while the flash is idle. The statement after each
`WaitFlashReady` is a `Send` of a command byte, which starts nothing either
(`ProgFacts`). The liveness property `TestTerminates` stays with TLC.

### RawSpimIrqTestProofs

**ExitOnlyWhenDoneCorrect: `RawSpec => []ExitOnlyWhenDone`**, for every
`ChanDepth` and every `VarCap` allowed by `RawAssumption`. `ExitOnlyWhenDone`
is not inductive: it says nothing about the value the loop is about to test.
The strengthening `RawInv` adds:
- before `Start`, the channel is empty and nothing has happened;
- the program job can only be at the head of the CMD channel;
- while it is queued, no interrupt has happened and the flash is idle. So a
  read, and an interrupt, come only after the program has started;
- once `var # 0` or an interrupt is pending, `wip_write = 0` means the flash
  has finished;
- past the wait `var # 0`, and at the store `tmp = 0` means the flash has
  finished.

The step proof has one case per action. The lemmas `EnqueueCmdFacts` and
`TailFacts` give what appending and removing a job do to the channel's
indices. TLC checks `RawInv` on the run's instance (364 states) as well.
`RawTypeCorrect` (`RawSpec => []RawTypeOK`) follows from the same invariant.

### RawSpimPollTestProofs

**PollTypeCorrect, WaitSeesCompletionCorrect and ReturnsZeroCorrect.** Each
is `PollSpec => []P`, and each follows from one inductive invariant,
`PollInv`. TLC checked `PollInv` as an invariant of raw_poll_test before it
was proved. The model has no constants, but its reachable set is still
stated and proved symbolically. `ChanAt(pc)` lists, for each statement of
`main()`, the CMD channel contents and the RX/TX job counts that can be
current there. `PollInv` adds:
- the wait functions' mask and pending bit agree with the statement being
  waited on;
- a pending event means both data channels are empty;
- the flash is idle before the page program is fetched and from the end of
  the WIP loop on;
- in the WIP loop, a 0 in `wip_write` read after the last queued read means
  the flash has finished;
- the page read back is `"page"` once it has been executed;
- `error = 0`.

The step proof has one case per action. `EnqChan` and `ExecChan` show that
queueing a command buffer and executing the head word keep the channel in
`ChanAt`, and `ChanMoves` shows that a wait that returns moves to the next
statement's channel set. `ConsTwo` and `ConsThree` give the concatenations
of the literal command buffers. The liveness property `PollTerminates` is
violated (raw_poll_lost_event) and is not a theorem.

## Not modelled

- `GetDriver`, `GetVersion`, `GetCapabilities` and `PowerControl`: they change
  no state.
- The driver list entries for `spi_id > 0`.
- Frame format, bit order, the quad flag and the payload bytes. The compares
  of the test programs are therefore either nondeterministic (`SpiFlashTest`)
  or reduced to "was the flash busy when the page was read"
  (`RawSpimPollTest`).
- The register save of `irq_handler`'s inline asm, which skips a0-a2.
- The effects of the user callback. test.c passes `NULL`.
- The uDMA and the flash beyond what the tests observe. The raw-test models
  hard-code their own job-level uDMA, and the size of a transfer that is not
  a multiple of the element size is not modelled.
- The `printf` calls and clock/pad setup of the test programs.

## Plan for later work

1. Runs with `before_init` (a transfer before Initialize stays busy).
2. A callback that calls back into the driver.
