------------------------ MODULE RawSpimIrqTestProofs ------------------------
(***************************************************************************)
(* Proofs about the interrupt-handler flash test (RawSpimIrqTest), for    *)
(* every channel depth and every cap of var.                               *)
(***************************************************************************)
EXTENDS RawSpimIrqTest, TLAPS

\* The page program is still on the CMD channel.
ProgPending == \E i \in 1..Len(cmdCh) : cmdCh[i] = "prog"

(***************************************************************************)
(* The inductive invariant behind ExitOnlyWhenDone.  The program job is   *)
(* the first one queued, so a read runs only after it; an interrupt means  *)
(* a read ran; and from the first interrupt on, a 0 in wip_write (or in    *)
(* the value the CPU loaded from it) was read from a flash that had        *)
(* finished, and a finished flash stays finished.                          *)
(***************************************************************************)
RawInv ==
  /\ RawTypeOK
  /\ loc = "start" => cmdCh = << >> /\ var = 0 /\ ~irqPend /\ ~wip
  /\ \A i \in 1..Len(cmdCh) : cmdCh[i] = "prog" => i = 1
  /\ ProgPending => var = 0 /\ ~irqPend /\ ~wip
  /\ (var # 0 \/ irqPend) => (wip_write = 0 => ~wip)
  /\ loc \in {"load", "store", "tail", "done"} => var # 0
  /\ loc = "store" => (tmp = 0 => ~wip)
  /\ loc = "done" => ~wip

\* Appending to a channel that is not full: the new last job is job.
LEMMA EnqueueCmdFacts ==
  ASSUME NEW job \in {"prog", "read"},
         cmdCh \in Seq({"prog", "read"}), Len(cmdCh) <= ChanDepth,
         ChanDepth \in Nat
  PROVE  /\ EnqueueCmd(job) \in Seq({"prog", "read"})
         /\ Len(EnqueueCmd(job)) <= ChanDepth
         /\ \A i \in 1..Len(EnqueueCmd(job)) :
              EnqueueCmd(job)[i] = IF i <= Len(cmdCh) THEN cmdCh[i] ELSE job
BY DEF EnqueueCmd

\* Removing the head of the CMD channel shifts every other job down by one.
LEMMA TailFacts ==
  ASSUME cmdCh \in Seq({"prog", "read"}), cmdCh # << >>
  PROVE  /\ Tail(cmdCh) \in Seq({"prog", "read"})
         /\ Len(Tail(cmdCh)) = Len(cmdCh) - 1
         /\ \A i \in 1..Len(Tail(cmdCh)) : Tail(cmdCh)[i] = cmdCh[i + 1]
OBVIOUS

LEMMA InitRawInv == RawInit => RawInv
<1> SUFFICES ASSUME RawInit PROVE RawInv
  OBVIOUS
<1>1. RawTypeOK
  <2>1. socMask \in BOOLEAN /\ irqMask \in BOOLEAN
        /\ irqPend \in BOOLEAN /\ wip \in BOOLEAN
    BY Zenon DEF RawInit
  <2>2. cmdCh \in Seq({"prog", "read"}) /\ Len(cmdCh) <= ChanDepth
    BY RawAssumption DEF RawInit
  <2>3. var \in 0..VarCap /\ rxJobs \in 0..ChanDepth
    BY RawAssumption DEF RawInit
  <2> QED
    BY <2>1, <2>2, <2>3 DEF RawInit, RawTypeOK, Locs
<1>2. ~ProgPending
  BY DEF RawInit, ProgPending
<1> QED
  BY <1>1, <1>2 DEF RawInit, RawInv

LEMMA NextRawInv == RawInv /\ [RawNext]_rawVars => RawInv'
<1> SUFFICES ASSUME RawInv, [RawNext]_rawVars PROVE RawInv'
  OBVIOUS
<1> USE RawAssumption DEF RawInv, RawTypeOK, Locs, ProgPending
<1>1. CASE Start
  <2>1. cmdCh = << >> /\ var = 0 /\ ~irqPend /\ ~wip
    BY <1>1 DEF Start
  <2>2. cmdCh' = << "prog" >>
    BY <1>1, <2>1 DEF Start, EnqueueCmd
  <2>3. ProgPending' /\ \A i \in 1..Len(cmdCh') : cmdCh'[i] = "prog" => i = 1
    BY <2>2
  <2>4. UNCHANGED <<var, wip_write, tmp, rxJobs, socMask, irqMask, irqPend, wip>>
        /\ loc' = "arm"
    BY <1>1 DEF Start
  <2> QED
    BY <2>1, <2>2, <2>3, <2>4
<1>2. CASE Arm
  <2>1. cmdCh' \in Seq({"prog", "read"}) /\ Len(cmdCh') <= ChanDepth
        /\ \A i \in 1..Len(cmdCh') :
             cmdCh'[i] = IF i <= Len(cmdCh) THEN cmdCh[i] ELSE "read"
    BY <1>2, EnqueueCmdFacts DEF Arm
  <2>2. Len(cmdCh') \in {Len(cmdCh), Len(cmdCh) + 1}
    BY <1>2 DEF Arm, EnqueueCmd
  <2>3. ProgPending' <=> ProgPending
    <3>1. ASSUME NEW i \in 1..Len(cmdCh'), cmdCh'[i] = "prog"
          PROVE  i \in 1..Len(cmdCh) /\ cmdCh[i] = "prog"
      BY <2>1, <3>1
    <3>2. ASSUME NEW i \in 1..Len(cmdCh), cmdCh[i] = "prog"
          PROVE  i \in 1..Len(cmdCh') /\ cmdCh'[i] = "prog"
      BY <2>1, <2>2, <3>2
    <3> QED
      BY <3>1, <3>2 DEF ProgPending
  <2> QED
    BY <1>2, <2>1, <2>3 DEF Arm
<1>3. CASE Wait
  BY <1>3 DEF Wait
<1>4. CASE Load
  BY <1>4 DEF Load
<1>5. CASE Store
  <2>1. tmp % 2 \in {0, 1} /\ (tmp % 2 = 0 <=> tmp = 0)
    OBVIOUS
  <2> QED
    BY <1>5, <2>1 DEF Store
<1>6. CASE LoopTail
  BY <1>6 DEF LoopTail
<1>7. CASE IrqHandler
  <2>1. irqPend /\ ~ProgPending /\ loc # "start"
    BY <1>7 DEF IrqHandler
  <2>2. var' # 0 /\ var' \in 0..VarCap
    BY <1>7 DEF IrqHandler
  <2>3. UNCHANGED <<loc, wip_write, tmp, cmdCh, rxJobs, socMask, irqMask, wip>>
        /\ irqPend' = FALSE
    BY <1>7 DEF IrqHandler
  <2>4. ~ProgPending'
    BY <2>1, <2>3
  <2>5. wip_write' = 0 => ~wip'
    BY <2>1, <2>3
  <2> QED
    BY <2>1, <2>2, <2>3, <2>4, <2>5
<1>8. CASE ExecProg
  <2>1. Head(cmdCh) = "prog" /\ cmdCh # << >> /\ loc # "start"
    BY <1>8 DEF ExecProg
  <2>2. var = 0 /\ ~irqPend
    BY <2>1
  <2>3. /\ cmdCh' \in Seq({"prog", "read"}) /\ Len(cmdCh') = Len(cmdCh) - 1
        /\ \A i \in 1..Len(cmdCh') : cmdCh'[i] = cmdCh[i + 1]
    BY <1>8, <2>1, TailFacts DEF ExecProg
  <2>4. ~ProgPending'
    BY <2>3
  <2> QED
    BY <1>8, <2>1, <2>2, <2>3, <2>4 DEF ExecProg
<1>9. CASE ExecRead
  <2>1. Head(cmdCh) = "read" /\ cmdCh # << >> /\ loc # "start"
    BY <1>9 DEF ExecRead
  <2>2. /\ cmdCh' \in Seq({"prog", "read"}) /\ Len(cmdCh') = Len(cmdCh) - 1
        /\ \A i \in 1..Len(cmdCh') : cmdCh'[i] = cmdCh[i + 1]
    BY <1>9, <2>1, TailFacts DEF ExecRead
  <2>3. ~ProgPending'
    BY <2>1, <2>2
  <2>4. wip_write' = 0 => ~wip'
    BY <1>9 DEF ExecRead, StatusByte
  <2> QED
    BY <1>9, <2>1, <2>2, <2>3, <2>4 DEF ExecRead, StatusByte
<1>10. CASE FlashDone
  BY <1>10 DEF FlashDone
<1>11. CASE UNCHANGED rawVars
  BY <1>11 DEF rawVars
<1> QED
  BY <1>1, <1>2, <1>3, <1>4, <1>5, <1>6, <1>7, <1>8, <1>9, <1>10, <1>11
     DEF RawNext, Main

(* The variables of spim_flash_interrupt_handler/test.c keep their types: *)
(* var stays within its cap, and neither uDMA channel holds more jobs than *)
(* its depth, for every depth and cap.                                      *)
THEOREM RawTypeCorrect == RawSpec => []RawTypeOK
<1>1. RawInv => RawTypeOK
  BY DEF RawInv
<1> QED
  BY InitRawInv, NextRawInv, <1>1, PTL DEF RawSpec

(* The interrupt-handler test of spim_flash_interrupt_handler/test.c      *)
(* leaves its WIP polling loop only once the flash has finished the page   *)
(* program, for every depth of the uDMA channels and every cap on var.     *)
THEOREM ExitOnlyWhenDoneCorrect == RawSpec => []ExitOnlyWhenDone
<1>1. RawInv => ExitOnlyWhenDone
  BY DEF RawInv, ExitOnlyWhenDone
<1> QED
  BY InitRawInv, NextRawInv, <1>1, PTL DEF RawSpec

=============================================================================
