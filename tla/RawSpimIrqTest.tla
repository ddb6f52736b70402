--------------------------- MODULE RawSpimIrqTest ---------------------------
(***************************************************************************)
(* src/peripherals/spim_flash_interrupt_handler/test.c: a page program    *)
(* queued straight on the uDMA, then a loop that reads the flash status   *)
(* register into wip_write through the RX channel and waits for the       *)
(* SPIM0 RX event, counted by __irq_handler in the global var, until WIP  *)
(* reads 0.  var is never reset.                                           *)
(*                                                                         *)
(* A CMD job is one of the two command buffers: "prog" (tx_buffer_cmd_     *)
(* program, with its TX page) or "read" (tx_buffer_cmd_read_WIP).  All RX *)
(* jobs write the 4 bytes of wip_write, so rxJobs counts them.  A channel *)
(* holds ChanDepth jobs (current and pending); an enqueue on a full one    *)
(* is lost.  The status byte is WIP | WEL << 1: 3 while the flash          *)
(* programs, 0 once it is done.                                            *)
(***************************************************************************)
EXTENDS Naturals, Sequences

CONSTANTS
  ChanDepth,   \* jobs a uDMA channel holds
  VarCap       \* var saturates here; the test only compares it with 0

ASSUME RawAssumption == ChanDepth \in Nat \ {0} /\ VarCap \in Nat \ {0}

VARIABLES
  loc,        \* where main() is
  var,        \* int var, incremented by __irq_handler
  wip_write,  \* main's int wip_write, target of the RX channel
  tmp,        \* the value the CPU loaded for wip_write &= 1
  cmdCh,      \* CMD channel jobs
  rxJobs,     \* RX channel jobs
  socMask,    \* SPIM0_RX bit of the SoC event unit's FC mask
  irqMask,    \* SOC_EVT bit of the FC interrupt mask
  irqPend,    \* SOC_EVT interrupt pending
  wip         \* the flash's write-in-progress bit

rawVars == <<loc, var, wip_write, tmp, cmdCh, rxJobs, socMask, irqMask,
             irqPend, wip>>

Locs == {"start", "arm", "wait", "load", "store", "tail", "done"}

StatusByte == IF wip THEN 3 ELSE 0

\* plp_udma_enqueue on a channel with ChanDepth jobs is lost.
EnqueueCmd(job) ==
  IF Len(cmdCh) >= ChanDepth THEN cmdCh ELSE Append(cmdCh, job)

\* Mutant: int wip_write; without its initializer.
Mut_RawInit_NoInit ==
  /\ loc = "start"
  /\ var = 0
  /\ wip_write \in 0..255
  /\ tmp = 0
  /\ cmdCh = << >>
  /\ rxJobs = 0
  /\ socMask = FALSE
  /\ irqMask = FALSE
  /\ irqPend = FALSE
  /\ wip = FALSE

\* The global var and main's locals as declared.
RawInit ==
  /\ loc = "start"
  /\ var = 0
  /\ wip_write = 0
  /\ tmp = 0
  /\ cmdCh = << >>
  /\ rxJobs = 0
  /\ socMask = FALSE
  /\ irqMask = FALSE
  /\ irqPend = FALSE
  /\ wip = FALSE

-----------------------------------------------------------------------------
(* main().                                                                  *)

\* Clocks on, TX page and program commands enqueued, interrupts enabled.
Start ==
  /\ loc = "start"
  /\ cmdCh' = EnqueueCmd("prog")
  /\ loc' = "arm"
  /\ UNCHANGED <<var, wip_write, tmp, rxJobs, socMask, irqMask, irqPend, wip>>

\* Top of the do-loop: unmask SPIM0_RX and SOC_EVT, enqueue the RX buffer
\* &wip_write and the read-WIP commands.
Arm ==
  /\ loc = "arm"
  /\ socMask' = TRUE
  /\ irqMask' = TRUE
  /\ rxJobs' = IF rxJobs >= ChanDepth THEN rxJobs ELSE rxJobs + 1
  /\ cmdCh' = EnqueueCmd("read")
  /\ loc' = "wait"
  /\ UNCHANGED <<var, wip_write, tmp, irqPend, wip>>

\* Mutant: the while (var == 0) spin left out.
Mut_Wait_NoSpin ==
  /\ loc = "wait"
  /\ loc' = "load"
  /\ UNCHANGED <<var, wip_write, tmp, cmdCh, rxJobs, socMask, irqMask,
                 irqPend, wip>>

\* while (var == 0) { printf(...); }
Wait ==
  /\ loc = "wait"
  /\ var # 0
  /\ loc' = "load"
  /\ UNCHANGED <<var, wip_write, tmp, cmdCh, rxJobs, socMask, irqMask,
                 irqPend, wip>>

\* wip_write &= 1 is a load, an and and a store; the RX channel may write
\* wip_write in between.
Load ==
  /\ loc = "load"
  /\ tmp' = wip_write
  /\ loc' = "store"
  /\ UNCHANGED <<var, wip_write, cmdCh, rxJobs, socMask, irqMask, irqPend, wip>>

Store ==
  /\ loc = "store"
  /\ wip_write' = tmp % 2
  /\ loc' = "tail"
  /\ UNCHANGED <<var, tmp, cmdCh, rxJobs, socMask, irqMask, irqPend, wip>>

\* rt_irq_clr, rt_irq_mask_clr, soc_eu_fcEventMask_clearEvent, then
\* } while (wip_write != 0).
LoopTail ==
  /\ loc = "tail"
  /\ irqPend' = FALSE
  /\ irqMask' = FALSE
  /\ socMask' = FALSE
  /\ loc' = IF wip_write # 0 THEN "arm" ELSE "done"
  /\ UNCHANGED <<var, wip_write, tmp, cmdCh, rxJobs, wip>>

\* __irq_handler: var = var + 1, taken while SOC_EVT is pending and unmasked.
IrqHandler ==
  /\ irqPend /\ irqMask
  /\ irqPend' = FALSE
  /\ var' = IF var < VarCap THEN var + 1 ELSE var
  /\ UNCHANGED <<loc, wip_write, tmp, cmdCh, rxJobs, socMask, irqMask, wip>>

-----------------------------------------------------------------------------
(* The uDMA, the SPIM and the flash.                                        *)

\* The SPIM runs the program commands; CS release starts the page program.
ExecProg ==
  /\ cmdCh # << >> /\ Head(cmdCh) = "prog"
  /\ cmdCh' = Tail(cmdCh)
  /\ wip' = TRUE
  /\ UNCHANGED <<loc, var, wip_write, tmp, rxJobs, socMask, irqMask, irqPend>>

\* The SPIM runs the read-WIP commands: RX_DATA stalls until an RX buffer is
\* queued, the status byte lands in wip_write, and the end of the RX job
\* raises SPIM0_RX, dropped unless the SoC event mask lets it through.
ExecRead ==
  /\ cmdCh # << >> /\ Head(cmdCh) = "read"
  /\ rxJobs > 0
  /\ cmdCh' = Tail(cmdCh)
  /\ rxJobs' = rxJobs - 1
  /\ wip_write' = StatusByte
  /\ irqPend' = (irqPend \/ socMask)
  /\ UNCHANGED <<loc, var, tmp, socMask, irqMask, wip>>

\* The flash finishes the page program.
FlashDone ==
  /\ wip
  /\ wip' = FALSE
  /\ UNCHANGED <<loc, var, wip_write, tmp, cmdCh, rxJobs, socMask, irqMask,
                 irqPend>>

Main == Start \/ Arm \/ Wait \/ Load \/ Store \/ LoopTail

RawNext == Main \/ IrqHandler \/ ExecProg \/ ExecRead \/ FlashDone

RawSpec == RawInit /\ [][RawNext]_rawVars

\* The core, the clocked uDMA and the flash progress, and a pending
\* unmasked interrupt is taken.
RawFairSpec ==
  /\ RawSpec
  /\ WF_rawVars(Main)
  /\ WF_rawVars(IrqHandler)
  /\ WF_rawVars(ExecProg)
  /\ WF_rawVars(ExecRead)
  /\ WF_rawVars(FlashDone)

-----------------------------------------------------------------------------
(* Properties.                                                             *)

RawTypeOK ==
  /\ loc \in Locs
  /\ var \in 0..VarCap
  /\ wip_write \in {0, 1, 3}
  /\ tmp \in {0, 1, 3}
  /\ cmdCh \in Seq({"prog", "read"}) /\ Len(cmdCh) <= ChanDepth
  /\ rxJobs \in 0..ChanDepth
  /\ socMask \in BOOLEAN /\ irqMask \in BOOLEAN
  /\ irqPend \in BOOLEAN /\ wip \in BOOLEAN

(* The loop of lines 173-201 ends only once the flash has finished the    *)
(* page program: the 0 it leaves on was read from the flash after the      *)
(* program, however many iterations ago.                                   *)
ExitOnlyWhenDone == loc = "done" => ~wip

(* Each iteration tests the WIP value its own read brought in: when main  *)
(* masks wip_write at line 196 no read is still queued on the uDMA.  This *)
(* is what the comment at lines 186-188 says the var spin ensures.        *)
ReadBeforeUse ==
  loc = "load" => rxJobs = 0 /\ \A i \in 1..Len(cmdCh) : cmdCh[i] # "read"

(* The test ends: once the flash is done a read brings WIP = 0 into       *)
(* wip_write, and the comment at lines 170-171 says main then moves on.    *)
RawTerminates == <>(loc = "done")

=============================================================================
