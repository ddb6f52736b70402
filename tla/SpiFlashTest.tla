---------------------------- MODULE SpiFlashTest ----------------------------
(***************************************************************************)
(* The flash test of src/peripherals/spim_driver_Dolphine_test/test.c run *)
(* against the driver and hardware of SpiDriver, with the S25FL flash at  *)
(* the other end of the bus reduced to its write-in-progress bit (WIP).   *)
(*                                                                         *)
(* main() is a table of driver calls (Prog); pc indexes it.  The return   *)
(* codes of Send and Receive are dropped by test.c: ret holds the last    *)
(* one only so that a property can talk about it.  WaitFlashReady is a    *)
(* subroutine with its own location wf and its local variable status,     *)
(* which the RX uDMA channel writes when the SPIM clocks in the byte.     *)
(* Item counts are abstracted to 1 and Many (more than one); the data     *)
(* bytes and the quad flag are left out, so each compare of main() may     *)
(* pass or end the test with return 0.                                      *)
(***************************************************************************)
EXTENDS SpiDriver

CONSTANT TestBaud   \* SPI_BAUDRATE

ASSUME TestBaudAssumption == TestBaud \in Bauds /\ BaudOK(TestBaud)

VARIABLES
  pc,       \* index in Prog of the statement main() executes next
  wf,       \* location inside WaitFlashReady, "none" outside it
  status,   \* WaitFlashReady's uint8_t status
  rxDst,    \* where the queued RX uDMA job writes
  wip,      \* the flash's write-in-progress bit
  ret       \* return code of the last Send or Receive (dropped by test.c)

testVars == <<pc, wf, status, rxDst, wip, ret>>
allVars == <<vars, testVars>>

Many == MaxItems

Stmt(op, n, p) == [op |-> op, n |-> n, p |-> p]

\* One pass of the quad_mode loop: erase, check, program, read back.
LoopBody ==
  << Stmt("send", 1, 0), Stmt("wait", 0, 0),                \* WREN
     Stmt("wait", 0, 0), Stmt("erase", Many, 0),            \* 4P4E
     Stmt("wfr", 0, 0),
     Stmt("send", Many, 1), Stmt("wait", 0, 0),             \* 4READ
     Stmt("recv", Many, 0), Stmt("wait", 0, 0),
     Stmt("check", 0, 0),                                   \* all 0xFF
     Stmt("send", 1, 0),                                    \* WREN
     Stmt("wait", 0, 0), Stmt("send", Many, 1),             \* 4PP addr
     Stmt("wait", 0, 0), Stmt("program", Many, 0),          \* page data
     Stmt("wfr", 0, 0),
     Stmt("send", Many, 1), Stmt("wait", 0, 0),             \* 4READ
     Stmt("recv", Many, 0), Stmt("wait", 0, 0),
     Stmt("check", 0, 0) >>                                 \* == TxData

\* main(): initialise, configure, read the CFI ID, then the loop twice.
Prog ==
  << Stmt("init", 0, 0), Stmt("ctl", 0, 0),
     Stmt("send", 1, 1), Stmt("wait", 0, 0),                \* RDID
     Stmt("recv", Many, 0), Stmt("wait", 0, 0),
     Stmt("check", 0, 0) >>                                 \* memcmp ID
  \o LoopBody \o LoopBody

Done == Len(Prog) + 1

\* Send and Receive as test.c calls them, accepted by an idle driver.
SendCall(n, p) == DD_SPI_Send(n, p) /\ ret' = "OK" /\ UNCHANGED rxDst

RecvCall(n, p, dst) == DD_SPI_Receive(n, p) /\ ret' = "OK" /\ rxDst' = dst

\* Either call on a busy driver: DD_DRIVER_ERROR_BUSY, nothing changed.
Rejected ==
  /\ buzy
  /\ ret' = "BUSY"
  /\ UNCHANGED <<driverVars, hwVars, req, rxDst>>

TestInit ==
  /\ Init
  /\ pc = 1
  /\ wf = "none"
  /\ status = 255
  /\ rxDst = "none"
  /\ wip = FALSE
  /\ ret = "OK"

-----------------------------------------------------------------------------
(* main().                                                                  *)

\* Initialize(NULL) and Control(MASTER | CPOL0CPHA0 | MSB | 8 bits, baud).
Setup ==
  /\ \/ Prog[pc].op = "init" /\ DD_SPI_Initialize("NULL")
     \/ Prog[pc].op = "ctl" /\ DD_SPI_Control_Mode("MASTER", 8, TestBaud)
  /\ pc' = pc + 1
  /\ UNCHANGED <<wf, status, rxDst, wip, ret>>

\* while( SPIdrv->GetStatus().busy != 0 );  one step once it reads idle.
Wait ==
  /\ Prog[pc].op = "wait"
  /\ ~DD_SPI_GetStatus
  /\ pc' = pc + 1
  /\ UNCHANGED <<vars, wf, status, rxDst, wip, ret>>

\* A compare of the received bytes: go on, or print and return 0.
Check ==
  /\ Prog[pc].op = "check"
  /\ pc' \in {pc + 1, Done}
  /\ UNCHANGED <<vars, wf, status, rxDst, wip, ret>>

\* Send and Receive; the erase and program commands start the flash's
\* internal operation when the driver accepts them.
Call ==
  /\ Prog[pc].op \in {"send", "erase", "program", "recv"}
  /\ \/ /\ Prog[pc].op = "recv"
        /\ RecvCall(Prog[pc].n, Prog[pc].p, "buffer")
        /\ UNCHANGED wip
     \/ /\ Prog[pc].op # "recv"
        /\ SendCall(Prog[pc].n, Prog[pc].p)
        /\ wip' = (wip \/ Prog[pc].op # "send")
     \/ Rejected /\ UNCHANGED wip
  /\ pc' = pc + 1
  /\ UNCHANGED <<wf, status>>

\* Mutant: uint8_t status; without its initializer, any byte on the stack.
Mut_WfrEnter_NoInit ==
  /\ Prog[pc].op = "wfr" /\ wf = "none"
  /\ status' \in 0..255
  /\ wf' = "check"
  /\ UNCHANGED <<vars, pc, rxDst, wip, ret>>

\* Call of WaitFlashReady: uint8_t status = 0xFF.
WfrEnter ==
  /\ Prog[pc].op = "wfr" /\ wf = "none"
  /\ status' = 255
  /\ wf' = "check"
  /\ UNCHANGED <<vars, pc, rxDst, wip, ret>>

-----------------------------------------------------------------------------
(* WaitFlashReady.                                                          *)

\* while( status & 0x01 != 0 ): C reads this as status & (0x01 != 0), the
\* same bit.  Leaving the loop returns to main().
WfrCheck ==
  /\ wf = "check"
  /\ IF status % 2 = 1 THEN wf' = "wait1" /\ UNCHANGED pc
                       ELSE wf' = "none" /\ pc' = pc + 1
  /\ UNCHANGED <<vars, status, rxDst, wip, ret>>

\* The two busy waits of the loop body.
WfrWait ==
  /\ wf \in {"wait1", "wait2"}
  /\ ~DD_SPI_GetStatus
  /\ wf' = IF wf = "wait1" THEN "send" ELSE "recv"
  /\ UNCHANGED <<vars, pc, status, rxDst, wip, ret>>

\* Send( &cmd, 1, PENDING ) with cmd = RDSR1, then Receive( &status, 1, 0 ).
\* Each follows a busy wait and nothing else on the FC starts a transfer,
\* so the driver accepts both.
WfrCall ==
  /\ \/ wf = "send" /\ SendCall(1, 1) /\ wf' = "wait2"
     \/ wf = "recv" /\ RecvCall(1, 0, "status") /\ wf' = "check"
  /\ UNCHANGED <<pc, status, wip>>

-----------------------------------------------------------------------------
(* The flash and the RX channel's writes.                                   *)

\* The SPIM clocks in an element of the RX job; the byte of a read of the
\* status register is the flash's WIP bit at that moment.
RxMove ==
  /\ HwMove("RX")
  /\ LET last == Head(dataCh["RX"]).left <= Head(dataCh["RX"]).step IN
       /\ status' = IF rxDst = "status" /\ last
                      THEN IF wip THEN 1 ELSE 0
                      ELSE status
       /\ rxDst' = IF last THEN "none" ELSE rxDst
  /\ UNCHANGED <<pc, wf, wip, ret>>

\* The flash finishes its erase or page program.
FlashDone ==
  /\ wip
  /\ wip' = FALSE
  /\ UNCHANGED <<vars, pc, wf, status, rxDst, ret>>

Program == Setup \/ Wait \/ Check \/ Call \/ WfrEnter \/ WfrCheck \/ WfrWait \/ WfrCall

Step ==
  \/ pc < Done /\ Program
  \/ (HwFetch \/ HwMove("TX") \/ HwExec \/ irq_handler) /\ UNCHANGED testVars
  \/ RxMove
  \/ FlashDone

TestSpec == TestInit /\ [][Step]_allVars

\* test.c is the only thread of the FC and keeps running; the hardware and
\* the interrupt progress as in SpiDriver; the flash's operation ends.
TestFairSpec ==
  /\ TestSpec
  /\ WF_allVars(pc < Done /\ Program)
  /\ WF_allVars(HwFetch /\ UNCHANGED testVars)
  /\ WF_allVars(HwMove("TX") /\ UNCHANGED testVars)
  /\ WF_allVars(RxMove)
  /\ WF_allVars(HwExec /\ UNCHANGED testVars)
  /\ WF_allVars(irq_handler /\ UNCHANGED testVars)
  /\ WF_allVars(FlashDone)

-----------------------------------------------------------------------------
(* Properties.                                                             *)

TestTypeOK ==
  /\ pc \in 1..Done
  /\ wf \in {"none", "check", "wait1", "send", "wait2", "recv"}
  /\ status \in {0, 1, 255}
  /\ rxDst \in {"none", "buffer", "status"}
  /\ wip \in BOOLEAN
  /\ ret \in {"OK", "BUSY"}

(* When WaitFlashReady returns, the flash has finished its erase or       *)
(* program: the status byte it leaves on, however stale, was read after    *)
(* the operation ended, so the read or next WREN that follows is safe.     *)
ReadyOnReturn ==
  (wf = "none" /\ pc > 1 /\ Prog[pc - 1].op = "wfr") => ~wip

(* Every Send and Receive test.c makes is accepted: the program never     *)
(* checks the return code, so a call rejected as busy is silently lost.    *)
CallsAccepted == ret = "OK"

(* The test runs to its end: no busy wait spins forever.                   *)
TestTerminates == <>(pc = Done)

=============================================================================
