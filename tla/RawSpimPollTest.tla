--------------------------- MODULE RawSpimPollTest --------------------------
(***************************************************************************)
(* src/peripherals/spim_flash_interrupt/test_spim_flash_interrupt_ver3.c: *)
(* read the flash ID, program a page, poll WIP until it reads 0, read the *)
(* page back.  Each transfer is queued on the uDMA and then awaited by     *)
(* wait_spi_rx_event or wait_spi_tx_event, which unmask the SPIM0 RX or   *)
(* TX SoC event, spin on the SOC_EVT bit of the interrupt controller's     *)
(* status, then clear the bit and mask the event again.                    *)
(*                                                                         *)
(* A command buffer is reduced to its data and EOT words (Words); the     *)
(* SPIM runs a data word once the RX or TX job it moves data through is    *)
(* queued, and the end of that job raises its SoC event, which the SoC     *)
(* event unit drops unless the FC mask lets it through.  Every wait leaves *)
(* the data channels empty or never returns, so they never hold more than  *)
(* one job and their depth plays no part.                                  *)
(***************************************************************************)
EXTENDS Naturals, Sequences

VARIABLES
  pc,         \* index in Steps of what main() does next
  wl,         \* location inside the wait function, "none" outside
  cmdCh,      \* words of the queued command buffers not yet run
  rxJobs,     \* RX channel jobs
  txJobs,     \* TX channel jobs
  evMask,     \* SoC events the FC mask lets through, a subset of {"RX", "TX"}
  pend,       \* SOC_EVT bit of the interrupt controller's status
  wip,        \* the flash's write-in-progress bit
  wip_write,  \* main's int wip_write
  rx_page,    \* main's rx_page: "none", the "page" or what a busy flash sent
  error       \* main's int error

pollVars == <<pc, wl, cmdCh, rxJobs, txJobs, evMask, pend, wip, wip_write,
              rx_page, error>>

Step(op, arg) == [op |-> op, arg |-> arg]

\* main(), lines 271-407 (the erase is commented out in the source).
Steps ==
  << Step("enq", "id"),   Step("wait", "RX"),     \* Check ID
     Step("enq", "prog"), Step("wait", "TX"),     \* write the flash page
     Step("enq", "wip"),  Step("wait", "RX"),     \* do { read WIP
     Step("test", 5),                             \* } while (wip_write != 0)
     Step("enq", "read"), Step("wait", "RX"),     \* read data
     Step("check", 0) >>                          \* compare with page

Done == Len(Steps) + 1

\* The words of each command buffer that move data or end the transfer:
\* tx_buffer_cmd_read_ID, _program, _read_WIP and _read.
Words(k) ==
  CASE k = "id"   -> <<"rx", "eot">>
    [] k = "prog" -> <<"tx", "eotProg">>
    [] k = "wip"  -> <<"rxStatus", "eot">>
    [] k = "read" -> <<"tx", "rxPage", "eot">>

UsesRx(k) == k \in {"id", "wip", "read"}
UsesTx(k) == k \in {"prog", "read"}

RxWords == {"rx", "rxStatus", "rxPage"}

StatusByte == IF wip THEN 3 ELSE 0

PollInit ==
  /\ pc = 1
  /\ wl = "none"
  /\ cmdCh = << >>
  /\ rxJobs = 0
  /\ txJobs = 0
  /\ evMask = {}
  /\ pend = FALSE
  /\ wip = FALSE
  /\ wip_write = 0
  /\ rx_page = "none"
  /\ error = 0

-----------------------------------------------------------------------------
(* main().                                                                  *)

\* plp_udma_enqueue of the RX and TX buffers a command uses, then of the
\* command buffer itself.
Enqueue ==
  /\ pc < Done /\ Steps[pc].op = "enq"
  /\ LET k == Steps[pc].arg IN
       /\ rxJobs' = rxJobs + (IF UsesRx(k) THEN 1 ELSE 0)
       /\ txJobs' = txJobs + (IF UsesTx(k) THEN 1 ELSE 0)
       /\ cmdCh' = cmdCh \o Words(k)
  /\ pc' = pc + 1
  /\ UNCHANGED <<wl, evMask, pend, wip, wip_write, rx_page, error>>

\* Mutant: the do-while test dropped, one WIP read and on.
Mut_LoopTest_Once ==
  /\ pc < Done /\ Steps[pc].op = "test"
  /\ wip_write' = wip_write % 2
  /\ pc' = pc + 1
  /\ UNCHANGED <<wl, cmdCh, rxJobs, txJobs, evMask, pend, wip, rx_page, error>>

\* Mutant: wip_write &= ~1, the mask inverted.
Mut_LoopTest_AndNot ==
  /\ pc < Done /\ Steps[pc].op = "test"
  /\ wip_write' = wip_write - (wip_write % 2)
  /\ pc' = IF wip_write - (wip_write % 2) # 0 THEN Steps[pc].arg ELSE pc + 1
  /\ UNCHANGED <<wl, cmdCh, rxJobs, txJobs, evMask, pend, wip, rx_page, error>>

\* wip_write &= 1;  } while (wip_write != 0);
LoopTest ==
  /\ pc < Done /\ Steps[pc].op = "test"
  /\ wip_write' = wip_write % 2
  /\ pc' = IF wip_write % 2 # 0 THEN Steps[pc].arg ELSE pc + 1
  /\ UNCHANGED <<wl, cmdCh, rxJobs, txJobs, evMask, pend, wip, rx_page, error>>

\* for (i = 0; i < TEST_PAGE_SIZE; ++i) if (rx_page[i] != page[i + 4]) error++;
\* a page read while the flash programs differs somewhere.
Check ==
  /\ pc < Done /\ Steps[pc].op = "check"
  /\ error' = IF rx_page = "page" THEN error ELSE error + 1
  /\ pc' = pc + 1
  /\ UNCHANGED <<wl, cmdCh, rxJobs, txJobs, evMask, pend, wip, wip_write, rx_page>>

-----------------------------------------------------------------------------
(* wait_spi_rx_event and wait_spi_tx_event.                                 *)

\* soc_eu_fcEventMask_setEvent and rt_irq_mask_set.
WaitEnter ==
  /\ pc < Done /\ Steps[pc].op = "wait" /\ wl = "none"
  /\ evMask' = evMask \cup {Steps[pc].arg}
  /\ wl' = "spin"
  /\ UNCHANGED <<pc, cmdCh, rxJobs, txJobs, pend, wip, wip_write, rx_page, error>>

\* while (!((hal_itc_status_value_get() >> ARCHI_FC_EVT_SOC_EVT) & 1))
\*   rt_irq_wait_for_interrupt();
WaitSpin ==
  /\ wl = "spin"
  /\ pend
  /\ wl' = "clear"
  /\ UNCHANGED <<pc, cmdCh, rxJobs, txJobs, evMask, pend, wip, wip_write,
                 rx_page, error>>

\* Mutant: rt_irq_clr left out, the status bit stays set.
Mut_WaitExit_NoClr ==
  /\ wl = "clear"
  /\ evMask' = evMask \ {Steps[pc].arg}
  /\ wl' = "none"
  /\ pc' = pc + 1
  /\ UNCHANGED <<cmdCh, rxJobs, txJobs, pend, wip, wip_write, rx_page, error>>

\* rt_irq_clr, rt_irq_mask_clr, soc_eu_fcEventMask_clearEvent; return.
WaitExit ==
  /\ wl = "clear"
  /\ pend' = FALSE
  /\ evMask' = evMask \ {Steps[pc].arg}
  /\ wl' = "none"
  /\ pc' = pc + 1
  /\ UNCHANGED <<cmdCh, rxJobs, txJobs, wip, wip_write, rx_page, error>>

-----------------------------------------------------------------------------
(* The uDMA, the SPIM and the flash.                                        *)

\* The SPIM runs the head word.  A data word waits for its channel's job and
\* raises the channel's event at the job's end; the WIP read lands in
\* wip_write; the program's CS release starts the page program.
ExecCmd ==
  /\ cmdCh # << >>
  /\ LET w == Head(cmdCh)
         rx == w \in RxWords
         tx == w = "tx" IN
       /\ rx => rxJobs > 0
       /\ tx => txJobs > 0
       /\ cmdCh' = Tail(cmdCh)
       /\ rxJobs' = rxJobs - (IF rx THEN 1 ELSE 0)
       /\ txJobs' = txJobs - (IF tx THEN 1 ELSE 0)
       /\ pend' = (pend \/ (rx /\ "RX" \in evMask) \/ (tx /\ "TX" \in evMask))
       /\ wip' = (wip \/ w = "eotProg")
       /\ wip_write' = IF w = "rxStatus" THEN StatusByte ELSE wip_write
       /\ rx_page' = IF w = "rxPage" THEN (IF wip THEN "busy" ELSE "page")
                      ELSE rx_page
  /\ UNCHANGED <<pc, wl, evMask, error>>

\* The flash finishes the page program.
FlashDone ==
  /\ wip
  /\ wip' = FALSE
  /\ UNCHANGED <<pc, wl, cmdCh, rxJobs, txJobs, evMask, pend, wip_write,
                 rx_page, error>>

Main == Enqueue \/ LoopTest \/ Check \/ WaitEnter \/ WaitSpin \/ WaitExit

PollNext == Main \/ ExecCmd \/ FlashDone

PollSpec == PollInit /\ [][PollNext]_pollVars

\* The core, the clocked uDMA and SPIM, and the flash progress.
PollFairSpec ==
  /\ PollSpec
  /\ WF_pollVars(Main)
  /\ WF_pollVars(ExecCmd)
  /\ WF_pollVars(FlashDone)

-----------------------------------------------------------------------------
(* Properties.                                                             *)

PollTypeOK ==
  /\ pc \in 1..Done
  /\ wl \in {"none", "spin", "clear"}
  /\ cmdCh \in Seq(RxWords \cup {"tx", "eot", "eotProg"})
  /\ rxJobs \in Nat /\ txJobs \in Nat
  /\ evMask \subseteq {"RX", "TX"}
  /\ pend \in BOOLEAN /\ wip \in BOOLEAN
  /\ wip_write \in {0, 1, 3}
  /\ rx_page \in {"none", "page", "busy"}
  /\ error \in {0, 1}

(* A wait returns only once the transfer it waits for has moved its data: *)
(* when main() goes on past wait_spi_rx_event or wait_spi_tx_event no data *)
(* job is left on the RX or TX channel, so the buffer it reads next (the   *)
(* ID, wip_write, rx_page) holds what the flash sent.                      *)
WaitSeesCompletion ==
  (pc > 1 /\ wl = "none" /\ Steps[pc - 1].op = "wait")
    => rxJobs = 0 /\ txJobs = 0

(* The test passes when it returns: the page read back at line 388 runs   *)
(* after the flash has finished the page program, so the compare at line   *)
(* 403 finds the programmed data and main() returns error = 0.             *)
ReturnsZero == pc = Done => error = 0

(* The test reaches the compare: every wait ends.                          *)
PollTerminates == <>(pc = Done)

=============================================================================
