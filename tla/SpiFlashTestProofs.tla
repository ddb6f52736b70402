------------------------- MODULE SpiFlashTestProofs -------------------------
(***************************************************************************)
(* Proofs about the flash test of test.c (SpiFlashTest), for every value  *)
(* of the driver's constants and of SPI_BAUDRATE.                          *)
(*                                                                         *)
(* ReadyOnReturn does not depend on the driver's state at all: inside      *)
(* WaitFlashReady main() makes no call that starts an erase or a program,  *)
(* so the flash can only finish, and the RX channel writes a 0 into status *)
(* only while the flash is idle.  The statement after each WaitFlashReady  *)
(* of main() is a Send of a command byte, which starts nothing either.     *)
(***************************************************************************)
EXTENDS SpiFlashTest, TLAPS

WfLocs == {"none", "check", "wait1", "send", "wait2", "recv"}

(***************************************************************************)
(* The inductive invariant behind ReadyOnReturn: WaitFlashReady runs only *)
(* at a "wfr" statement of Prog, and while it runs a status of 0 means the *)
(* flash has finished.                                                     *)
(***************************************************************************)
FlashInv ==
  /\ TestTypeOK
  /\ wf # "none" => pc < Done /\ Prog[pc].op = "wfr"
  /\ wf # "none" /\ status = 0 => ~wip
  /\ ReadyOnReturn

\* The statement table of main(): 49 statements, the last a compare, and a
\* "wfr" always followed by a "send".
LEMMA ProgFacts ==
  /\ Len(Prog) = 49
  /\ Done = 50
  /\ \A i \in 1..48 : Prog[i].op = "wfr" => Prog[i + 1].op = "send"
  /\ Prog[49].op = "check"
BY DEF Prog, LoopBody, Stmt, Done

LEMMA FlashInvInit == TestInit => FlashInv
<1> SUFFICES ASSUME TestInit PROVE FlashInv
  OBVIOUS
<1>1. wip \in BOOLEAN /\ ~wip
  BY Zenon DEF TestInit
<1>2. TestTypeOK
  BY <1>1, ProgFacts DEF TestInit, TestTypeOK
<1> QED
  BY <1>1, <1>2 DEF TestInit, FlashInv, ReadyOnReturn

\* A statement of main() other than the call of WaitFlashReady runs only
\* outside it and leaves the flash test's invariant to the next statement.
LEMMA MainStmtStep ==
  ASSUME FlashInv, pc < Done, Prog[pc].op # "wfr",
         pc' = pc + 1, wf' = wf, status' = status,
         wip' \in BOOLEAN,
         rxDst' \in {rxDst, "buffer"}, ret' \in {"OK", "BUSY"}
  PROVE  FlashInv'
<1>1. wf = "none"
  BY DEF FlashInv
<1>2. pc' \in 1..Done /\ Prog[pc' - 1].op # "wfr"
  BY ProgFacts DEF FlashInv, TestTypeOK
<1>4. TestTypeOK'
  BY <1>1, <1>2 DEF FlashInv, TestTypeOK
<1>5. ReadyOnReturn'
  BY <1>2, Zenon DEF ReadyOnReturn
<1> QED
  BY <1>1, <1>4, <1>5 DEF FlashInv

LEMMA FlashInvStep == FlashInv /\ [Step]_allVars => FlashInv'
<1> SUFFICES ASSUME FlashInv, [Step]_allVars PROVE FlashInv'
  OBVIOUS
<1>1. CASE pc < Done /\ Setup
  <2>1. /\ Prog[pc].op \in {"init", "ctl"} /\ pc' = pc + 1
        /\ UNCHANGED <<wf, status, rxDst, wip, ret>>
    BY <1>1 DEF Setup
  <2>2. wip' \in BOOLEAN /\ ret' \in {"OK", "BUSY"} /\ rxDst' \in {rxDst, "buffer"}
    BY <2>1, Zenon DEF FlashInv, TestTypeOK
  <2> QED
    BY <1>1, <2>1, <2>2, MainStmtStep
<1>2. CASE pc < Done /\ Wait
  <2>1. /\ Prog[pc].op = "wait" /\ pc' = pc + 1
        /\ UNCHANGED <<wf, status, rxDst, wip, ret>>
    BY <1>2 DEF Wait
  <2>2. wip' \in BOOLEAN /\ ret' \in {"OK", "BUSY"} /\ rxDst' \in {rxDst, "buffer"}
    BY <2>1, Zenon DEF FlashInv, TestTypeOK
  <2> QED
    BY <1>2, <2>1, <2>2, MainStmtStep
<1>3. CASE pc < Done /\ Check
  <2>1. /\ Prog[pc].op = "check" /\ pc' \in {pc + 1, Done}
        /\ UNCHANGED <<wf, status, rxDst, wip, ret>>
    BY <1>3 DEF Check
  <2>2. wip' \in BOOLEAN /\ ret' \in {"OK", "BUSY"} /\ rxDst' \in {rxDst, "buffer"}
    BY <2>1, Zenon DEF FlashInv, TestTypeOK
  <2>3. CASE pc' = pc + 1
    BY <1>3, <2>1, <2>2, <2>3, MainStmtStep
  <2>4. CASE pc' = Done
    <3>1. wf = "none"
      BY <2>1 DEF FlashInv
    <3>2. pc' \in 1..Done /\ Prog[pc' - 1].op # "wfr"
      BY <2>4, ProgFacts
    <3>3. TestTypeOK'
      BY <2>1, <2>2, <3>1, <3>2 DEF FlashInv, TestTypeOK
    <3>4. ReadyOnReturn'
      BY <3>2, Zenon DEF ReadyOnReturn
    <3> QED
      BY <2>1, <3>1, <3>3, <3>4 DEF FlashInv
  <2> QED
    BY <2>1, <2>3, <2>4
<1>4. CASE pc < Done /\ Call
  <2>1. /\ Prog[pc].op \in {"send", "erase", "program", "recv"} /\ pc' = pc + 1
        /\ UNCHANGED <<wf, status>>
        /\ rxDst' \in {rxDst, "buffer"} /\ ret' \in {"OK", "BUSY"}
    BY <1>4 DEF Call, SendCall, RecvCall, Rejected
  <2>2. wip' \in BOOLEAN
    <3>1. wip \in BOOLEAN
      BY DEF FlashInv, TestTypeOK
    <3>2. wip' = wip \/ wip' = (wip \/ Prog[pc].op # "send")
      BY <1>4, Zenon DEF Call
    <3> QED
      BY <3>1, <3>2, Zenon
  <2> QED
    BY <1>4, <2>1, <2>2, MainStmtStep
<1>5. CASE pc < Done /\ WfrEnter
  BY <1>5 DEF WfrEnter, FlashInv, TestTypeOK, ReadyOnReturn
<1>6. CASE pc < Done /\ WfrCheck
  <2>1. CASE status % 2 = 1
    <3>1. status # 0
      BY <2>1
    <3> QED
      BY <1>6, <2>1, <3>1 DEF WfrCheck, FlashInv, TestTypeOK, ReadyOnReturn
  <2>2. CASE status % 2 # 1
    <3>1. status = 0
      BY <2>2 DEF FlashInv, TestTypeOK
    <3>2. ~wip
      BY <1>6, <3>1 DEF WfrCheck, FlashInv
    <3>3. /\ wf = "check" /\ wf' = "none" /\ pc' = pc + 1
          /\ UNCHANGED <<status, rxDst, wip, ret>>
      BY <1>6, <2>2 DEF WfrCheck
    <3>4. Prog[pc' - 1].op = "wfr" /\ pc' \in 1..Done
      BY <3>3, ProgFacts DEF FlashInv, TestTypeOK
    <3> QED
      BY <3>2, <3>3, <3>4 DEF FlashInv, TestTypeOK, ReadyOnReturn
  <2> QED
    BY <2>1, <2>2
<1>7. CASE pc < Done /\ WfrWait
  BY <1>7 DEF WfrWait, FlashInv, TestTypeOK, ReadyOnReturn
<1>8. CASE pc < Done /\ WfrCall
  <2>1. wf \in {"send", "recv"} /\ wf' \in {"wait2", "check"}
        /\ UNCHANGED <<pc, status, wip>>
        /\ rxDst' \in {rxDst, "status"} /\ ret' = "OK"
    BY <1>8 DEF WfrCall, SendCall, RecvCall
  <2> QED
    BY <2>1 DEF FlashInv, TestTypeOK, ReadyOnReturn
<1>9. CASE (HwFetch \/ HwMove("TX") \/ HwExec \/ irq_handler) /\ UNCHANGED testVars
  BY <1>9 DEF testVars, FlashInv, TestTypeOK, ReadyOnReturn
<1>10. CASE RxMove
  <2>1. /\ status' \in {status, IF wip THEN 1 ELSE 0}
        /\ rxDst' \in {rxDst, "none"}
        /\ UNCHANGED <<pc, wf, wip, ret>>
    BY <1>10 DEF RxMove
  <2> QED
    BY <2>1 DEF FlashInv, TestTypeOK, ReadyOnReturn
<1>11. CASE FlashDone
  BY <1>11 DEF FlashDone, FlashInv, TestTypeOK, ReadyOnReturn
<1>12. CASE UNCHANGED allVars
  BY <1>12 DEF allVars, testVars, FlashInv, TestTypeOK, ReadyOnReturn
<1> QED
  BY <1>1, <1>2, <1>3, <1>4, <1>5, <1>6, <1>7, <1>8, <1>9, <1>10, <1>11, <1>12
     DEF Step, Program

(* The test's own variables keep their types: pc stays in main()'s table, *)
(* status holds 0xFF or a WIP bit the RX channel wrote, and every Send or  *)
(* Receive returns DD_DRIVER_OK or DD_DRIVER_ERROR_BUSY.                   *)
THEOREM TestTypeCorrect == TestSpec => []TestTypeOK
<1>1. FlashInv => TestTypeOK
  BY DEF FlashInv
<1> QED
  BY FlashInvInit, FlashInvStep, <1>1, PTL DEF TestSpec

(* When WaitFlashReady of test.c returns to main(), the flash has finished *)
(* the erase or page program it waited for, for every driver configuration *)
(* and baud rate, and whatever transfer of the driver is still in flight.  *)
THEOREM ReadyOnReturnCorrect == TestSpec => []ReadyOnReturn
<1>1. FlashInv => ReadyOnReturn
  BY DEF FlashInv
<1> QED
  BY FlashInvInit, FlashInvStep, <1>1, PTL DEF TestSpec

=============================================================================
