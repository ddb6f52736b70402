-------------------------- MODULE SpiDriverProofs --------------------------
(***************************************************************************)
(* Machine-checked proofs about SpiDriver, for every value of the         *)
(* constants that satisfies the ASSUMEs of SpiDriver.                      *)
(***************************************************************************)
EXTENDS SpiDriver, TLAPS

-----------------------------------------------------------------------------
(* Lemmas about the command words and the channel helpers.                *)

\* Every word Control, Send, Receive and Transfer write into buffer_cmd is
\* a word of the command set.
LEMMA WordsClosed ==
  /\ ZeroWord \in Words
  /\ SotWord \in Words
  /\ \A div \in 0..255 : CfgWord(div) \in Words
  /\ \A p \in {0, 1} : EotWord(p) \in Words
  /\ \A o \in RunOps, n \in Items : RunWord(o, n) \in Words
BY DEF Words, ZeroWord, SotWord, CfgWord, EotWord, RunWord

\* The divider SET_BUS_SPEED and the master mode compute fits in the byte
\* of the configuration word.
LEMMA ClockDivByte ==
  ASSUME NEW arg \in Bauds
  PROVE  ClockDiv(arg) \in 0..255
BY FreqAssumption, BaudsAssumption DEF ClockDiv

\* The element size the driver derives from bitsword is 1, 2 or 4 bytes.
LEMMA SizeFactorRange ==
  /\ \A bits \in Nat : SizeFactor(bits) \in 0..2
  /\ \A k \in 0..2 : Pow2(k) \in {1, 2, 4}
BY DEF SizeFactor, Pow2

\* A non-empty sequence of length at most one is the singleton of its head.
LEMMA SingletonSeq ==
  ASSUME NEW S, NEW q \in Seq(S), q # << >>, Len(q) <= 1
  PROVE  /\ Len(q) = 1
         /\ q[1] \in S
         /\ q = << q[1] >>
<1>1. Len(q) \in Nat /\ q \in [1..Len(q) -> S]
  OBVIOUS
<1>2. Len(q) # 0
  BY <1>1
<1>3. Len(q) = 1
  BY <1>1, <1>2
<1>. QED
  BY <1>1, <1>3

\* plp_udma_enqueue on a data channel keeps the channels well typed.
LEMMA EnqueueDataType ==
  ASSUME NEW ch \in [{"TX", "RX"} -> Seq(DataJob)],
         NEW d \in {"TX", "RX"}, NEW bytes \in Nat,
         sizefactor \in 0..2
  PROVE  EnqueueData(ch, d, bytes) \in [{"TX", "RX"} -> Seq(DataJob)]
<1>1. [left |-> bytes, step |-> Pow2(sizefactor)] \in DataJob
      \/ bytes = 0
  BY SizeFactorRange DEF DataJob
<1>. QED
  BY <1>1 DEF EnqueueData

\* plp_udma_enqueue on the command channel keeps it well typed.
LEMMA EnqueueCmdType ==
  ASSUME cmdCh \in Seq(Job),
         NEW blk \in [1..NB_SPIM_CMD -> Words]
  PROVE  EnqueueCmd(blk) \in Seq(Job)
<1>1. [pos |-> 0, blk |-> blk] \in Job
  BY DEF Job, NB_SPIM_CMD
<1>. QED
  BY <1>1 DEF EnqueueCmd

\* DD_SPI_AbortTransfer leaves empty, well-typed channels and a Boolean buzy.
LEMMA AbortTransferType ==
  ASSUME AbortTransfer
  PROVE  /\ cmdCh' \in Seq(Job)
         /\ dataCh' \in [{"TX", "RX"} -> Seq(DataJob)]
         /\ buzy' \in BOOLEAN
<1>1. cmdCh' \in Seq(Job) /\ dataCh' \in [{"TX", "RX"} -> Seq(DataJob)]
  BY DEF AbortTransfer
<1>2. buzy' \in BOOLEAN
  BY Zenon DEF AbortTransfer
<1>. QED
  BY <1>1, <1>2

-----------------------------------------------------------------------------
(* Type correctness.                                                       *)

\* Every driver call, hardware step and interrupt keeps the driver record,
\* the command buffer and the uDMA/SPIM queues within their types.
LEMMA TypeStep == TypeOK /\ [Next]_vars => TypeOK'
<1> SUFFICES ASSUME TypeOK, [Next]_vars PROVE TypeOK'
  OBVIOUS
<1>. USE FreqAssumption, BaudsAssumption, DataBitsAssumption, ItemsAssumption,
         UninitAssumption, DepthAssumption
<1>1. ASSUME NEW cb \in Callbacks, DD_SPI_Initialize(cb) PROVE TypeOK'
  <2>1. buzy' \in BOOLEAN /\ clockOn' \in BOOLEAN /\ eotMask' \in BOOLEAN
    BY <1>1 DEF DD_SPI_Initialize
  <2>2. callback' \in Callbacks /\ data_left' \in 0..2 * MaxItems
    BY <1>1 DEF DD_SPI_Initialize
  <2>3. UNCHANGED <<bitsword, sizefactor, buffer_cmd, cmdCh, dataCh, spim,
                    eotPending, req>>
    BY <1>1 DEF DD_SPI_Initialize
  <2>. QED
    BY <2>1, <2>2, <2>3 DEF TypeOK
<1>2. ASSUME DD_SPI_Uninitialize PROVE TypeOK'
  <2>1. AbortTransfer
    BY <1>2 DEF DD_SPI_Uninitialize
  <2>2. clockOn' \in BOOLEAN /\ eotMask' \in BOOLEAN /\ callback' \in Callbacks
    BY <1>2, Zenon DEF DD_SPI_Uninitialize, Callbacks
  <2>3. data_left' \in 0..2 * MaxItems
    BY <1>2 DEF DD_SPI_Uninitialize
  <2>4. UNCHANGED <<bitsword, sizefactor, buffer_cmd, spim, eotPending, req>>
    BY <1>2 DEF DD_SPI_Uninitialize
  <2>. QED
    BY <2>1, <2>2, <2>3, <2>4, AbortTransferType, Zenon DEF TypeOK
<1>3. ASSUME NEW code \in MiscCodes, NEW arg \in Bauds,
             DD_SPI_Control_Misc(code, arg)
      PROVE TypeOK'
  <2>1. /\ CfgWord(ClockDiv(arg)) \in Words
        /\ SotWord \in Words /\ EotWord(0) \in Words
    BY ClockDivByte, WordsClosed
  <2>2. sizefactor' \in 0..2
    BY <1>3, SizeFactorRange DEF DD_SPI_Control_Misc, ControlTail, TypeOK
  <2>3. buffer_cmd' \in [1..NB_SPIM_CMD -> Words]
    BY <1>3, <2>1 DEF DD_SPI_Control_Misc, ControlTail, TypeOK, NB_SPIM_CMD,
                      CMD_CFG_ID, CMD_SOT_ID, CMD_EOT_ID
  <2>4. /\ cmdCh' \in Seq(Job)
        /\ dataCh' \in [{"TX", "RX"} -> Seq(DataJob)]
        /\ buzy' \in BOOLEAN
    <3>1. CASE code = "ABORT_TRANSFER"
      BY <1>3, <3>1, AbortTransferType DEF DD_SPI_Control_Misc
    <3>2. CASE code # "ABORT_TRANSFER"
      BY <1>3, <3>2, Zenon DEF DD_SPI_Control_Misc, TypeOK
    <3>. QED
      BY <3>1, <3>2
  <2>. QED
    BY <1>3, <2>2, <2>3, <2>4 DEF DD_SPI_Control_Misc, TypeOK
<1>4. ASSUME NEW mode \in {"MASTER", "INACTIVE"}, NEW bits \in DataBits,
             NEW arg \in Bauds, DD_SPI_Control_Mode(mode, bits, arg)
      PROVE TypeOK'
  <2>1. PICK div \in IF mode = "MASTER" /\ BaudOK(arg) THEN {ClockDiv(arg)}
                     ELSE UninitDivs :
          LET newBits == IF bits < 1 \/ bits > 32 THEN 8 ELSE bits IN
          /\ IF mode = "MASTER"
               THEN /\ clockOn' = (clockOn \/ BaudOK(arg))
                    /\ UNCHANGED <<cmdCh, dataCh, buzy>>
               ELSE /\ AbortTransfer
                    /\ UNCHANGED clockOn
          /\ bitsword' = newBits
          /\ ControlTail([buffer_cmd EXCEPT ![CMD_CFG_ID] = CfgWord(div)],
                         newBits)
          /\ UNCHANGED <<callback, data_left, eotMask, spim, eotPending, req>>
    BY <1>4 DEF DD_SPI_Control_Mode
  <2>2. div \in 0..255
    <3>1. CASE mode = "MASTER" /\ BaudOK(arg)
      BY <3>1, ClockDivByte
    <3>2. CASE ~(mode = "MASTER" /\ BaudOK(arg))
      BY <3>2
    <3>. QED
      BY <3>1, <3>2
  <2>3. /\ CfgWord(div) \in Words
        /\ SotWord \in Words /\ EotWord(0) \in Words
    BY <2>2, WordsClosed
  <2>4. /\ bitsword' \in 0..63
        /\ sizefactor' \in 0..2
    BY <2>1, SizeFactorRange DEF ControlTail
  <2>5. buffer_cmd' \in [1..NB_SPIM_CMD -> Words]
    BY <2>1, <2>3 DEF ControlTail, TypeOK, NB_SPIM_CMD,
                      CMD_CFG_ID, CMD_SOT_ID, CMD_EOT_ID
  <2>6. /\ cmdCh' \in Seq(Job)
        /\ dataCh' \in [{"TX", "RX"} -> Seq(DataJob)]
        /\ buzy' \in BOOLEAN
        /\ clockOn' \in BOOLEAN
    <3>1. CASE mode = "MASTER"
      BY <2>1, <3>1 DEF TypeOK
    <3>2. CASE mode = "INACTIVE"
      <4>1. AbortTransfer /\ UNCHANGED clockOn
        BY <2>1, <3>2
      <4>. QED
        BY <4>1, AbortTransferType, Zenon DEF TypeOK
    <3>. QED
      BY <3>1, <3>2
  <2>. QED
    BY <2>1, <2>4, <2>5, <2>6 DEF TypeOK
<1>5. ASSUME NEW num \in Items, NEW p \in {0, 1}, DD_SPI_Send(num, p)
      PROVE TypeOK'
  <2>1. /\ RunWord("SEND_CMD", 1) \in Words /\ RunWord("TX", num) \in Words
          /\ EotWord(p) \in Words
    BY WordsClosed DEF Items, RunOps
  <2>2. /\ buffer_cmd' \in [1..NB_SPIM_CMD -> Words]
        /\ cmdCh' \in Seq(Job)
    <3>1. buffer_cmd' \in [1..NB_SPIM_CMD -> Words]
      BY <1>5, <2>1 DEF DD_SPI_Send, TypeOK, NB_SPIM_CMD, CMD_RUN_ID, CMD_EOT_ID
    <3>. QED
      BY <1>5, <3>1, EnqueueCmdType DEF DD_SPI_Send, TypeOK
  <2>3. dataCh' \in [{"TX", "RX"} -> Seq(DataJob)]
    <3>1. num * Pow2(sizefactor) \in Nat
      BY SizeFactorRange DEF TypeOK, Items
    <3>. QED
      BY <1>5, <3>1, EnqueueDataType DEF DD_SPI_Send, TypeOK
  <2>4. buzy' \in BOOLEAN
    BY <1>5, Zenon DEF DD_SPI_Send
  <2>5. /\ data_left' \in 0..2 * MaxItems
        /\ req' \in 0..2 * MaxItems
        /\ UNCHANGED <<callback, bitsword, sizefactor, clockOn, eotMask, spim,
                       eotPending>>
    BY <1>5 DEF DD_SPI_Send, TypeOK, Items
  <2>. QED
    BY <2>2, <2>3, <2>4, <2>5, Zenon DEF TypeOK
<1>6. ASSUME NEW num \in Items, NEW p \in {0, 1}, DD_SPI_Receive(num, p)
      PROVE TypeOK'
  <2>1. /\ RunWord("RX", num) \in Words /\ EotWord(p) \in Words
    BY WordsClosed DEF Items, RunOps
  <2>2. /\ buffer_cmd' \in [1..NB_SPIM_CMD -> Words]
        /\ cmdCh' \in Seq(Job)
    <3>1. buffer_cmd' \in [1..NB_SPIM_CMD -> Words]
      BY <1>6, <2>1 DEF DD_SPI_Receive, TypeOK, NB_SPIM_CMD, CMD_RUN_ID, CMD_EOT_ID
    <3>. QED
      BY <1>6, <3>1, EnqueueCmdType DEF DD_SPI_Receive, TypeOK
  <2>3. dataCh' \in [{"TX", "RX"} -> Seq(DataJob)]
    <3>1. num * Pow2(sizefactor) \in Nat
      BY SizeFactorRange DEF TypeOK, Items
    <3>. QED
      BY <1>6, <3>1, EnqueueDataType DEF DD_SPI_Receive, TypeOK
  <2>4. buzy' \in BOOLEAN
    BY <1>6, Zenon DEF DD_SPI_Receive
  <2>5. /\ data_left' \in 0..2 * MaxItems
        /\ req' \in 0..2 * MaxItems
        /\ UNCHANGED <<callback, bitsword, sizefactor, clockOn, eotMask, spim,
                       eotPending>>
    BY <1>6 DEF DD_SPI_Receive, TypeOK, Items
  <2>. QED
    BY <2>2, <2>3, <2>4, <2>5, Zenon DEF TypeOK
<1>7. ASSUME NEW num \in Items, DD_SPI_Transfer(num)
      PROVE TypeOK'
  <2>1. /\ RunWord("FUL", num) \in Words /\ EotWord(0) \in Words
    BY WordsClosed DEF Items, RunOps
  <2>2. /\ buffer_cmd' \in [1..NB_SPIM_CMD -> Words]
        /\ cmdCh' \in Seq(Job)
    <3>1. buffer_cmd' \in [1..NB_SPIM_CMD -> Words]
      BY <1>7, <2>1 DEF DD_SPI_Transfer, TypeOK, NB_SPIM_CMD, CMD_RUN_ID, CMD_EOT_ID
    <3>. QED
      BY <1>7, <3>1, EnqueueCmdType DEF DD_SPI_Transfer, TypeOK
  <2>3. dataCh' \in [{"TX", "RX"} -> Seq(DataJob)]
    <3>1. num * Pow2(sizefactor) \in Nat
      BY SizeFactorRange DEF TypeOK, Items
    <3>2. EnqueueData(dataCh, "RX", num * Pow2(sizefactor))
            \in [{"TX", "RX"} -> Seq(DataJob)]
      BY <3>1, EnqueueDataType DEF TypeOK
    <3>. QED
      BY <1>7, <3>1, <3>2, EnqueueDataType DEF DD_SPI_Transfer, TypeOK
  <2>4. buzy' \in BOOLEAN
    BY <1>7, Zenon DEF DD_SPI_Transfer
  <2>5. /\ data_left' \in 0..2 * MaxItems
        /\ req' \in 0..2 * MaxItems
        /\ UNCHANGED <<callback, bitsword, sizefactor, clockOn, eotMask, spim,
                       eotPending>>
    BY <1>7 DEF DD_SPI_Transfer, TypeOK, Items
  <2>. QED
    BY <2>2, <2>3, <2>4, <2>5, Zenon DEF TypeOK
<1>8. ASSUME HwFetch PROVE TypeOK'
  <2>1. PICK j \in Job : j = Head(cmdCh)
    BY <1>8 DEF HwFetch, TypeOK
  <2>2. spim' \in Seq(Words)
    BY <1>8, <2>1 DEF HwFetch, TypeOK, Job, NB_SPIM_CMD
  <2>3. cmdCh' \in Seq(Job)
    <3>1. CASE j.pos = NB_SPIM_CMD - 1
      BY <1>8, <2>1, <3>1 DEF HwFetch, TypeOK
    <3>2. CASE j.pos # NB_SPIM_CMD - 1
      <4>1. [j EXCEPT !.pos = j.pos + 1] \in Job
        BY <3>2 DEF Job, NB_SPIM_CMD
      <4>. QED
        BY <1>8, <2>1, <3>2, <4>1 DEF HwFetch, TypeOK
    <3>. QED
      BY <3>1, <3>2
  <2>. QED
    BY <1>8, <2>2, <2>3, Zenon DEF HwFetch, TypeOK, driverVars
<1>9. ASSUME NEW d \in {"TX", "RX"}, HwMove(d) PROVE TypeOK'
  <2>1. PICK j \in DataJob : j = Head(dataCh[d])
    BY <1>9 DEF HwMove, TypeOK
  <2>2. dataCh[d] \in Seq(DataJob) /\ dataCh[d] # << >>
    BY <1>9 DEF HwMove, TypeOK
  <2>3. dataCh' \in [{"TX", "RX"} -> Seq(DataJob)]
    <3>1. CASE j.left <= j.step
      <4>1. Tail(dataCh[d]) \in Seq(DataJob)
        BY <2>2
      <4>. QED
        BY <1>9, <2>1, <3>1, <4>1 DEF HwMove, TypeOK
    <3>2. CASE ~(j.left <= j.step)
      <4>1. [j EXCEPT !.left = j.left - j.step] \in DataJob
        BY <3>2 DEF DataJob
      <4>2. [dataCh[d] EXCEPT ![1] = [j EXCEPT !.left = j.left - j.step]]
              \in Seq(DataJob)
        BY <2>1, <2>2, <4>1
      <4>. QED
        BY <1>9, <2>1, <3>2, <4>2 DEF HwMove, TypeOK
    <3>. QED
      BY <3>1, <3>2
  <2>. QED
    BY <1>9, <2>3, Zenon DEF HwMove, TypeOK, driverVars
<1>10. ASSUME HwExec PROVE TypeOK'
  <2>1. spim' \in Seq(Words) /\ eotPending' \in Nat
    BY <1>10 DEF HwExec, TypeOK
  <2>. QED
    BY <1>10, <2>1, Zenon DEF HwExec, TypeOK, driverVars
<1>11. ASSUME irq_handler PROVE TypeOK'
  <2>1. eotPending' \in Nat
    BY <1>11 DEF irq_handler, TypeOK
  <2>2. buzy' \in BOOLEAN
    BY <1>11, Zenon DEF irq_handler, DD_SPI_IrqCallback
  <2>. QED
    BY <1>11, <2>1, <2>2, Zenon DEF irq_handler, DD_SPI_IrqCallback, TypeOK
<1>12. CASE UNCHANGED vars
  BY <1>12, Zenon DEF vars, driverVars, hwVars, TypeOK
<1>. QED
  BY <1>1, <1>2, <1>3, <1>4, <1>5, <1>6, <1>7, <1>8, <1>9, <1>10, <1>11,
     <1>12, Zenon
  DEF Next, Client, Hardware

\* The zero-initialised driver record and the reset hardware are well typed.
LEMMA TypeInit == Init => TypeOK
<1> SUFFICES ASSUME Init PROVE TypeOK
  OBVIOUS
<1>1. buffer_cmd \in [1..NB_SPIM_CMD -> Words]
  BY WordsClosed DEF Init
<1>2. cmdCh \in Seq(Job) /\ dataCh \in [{"TX", "RX"} -> Seq(DataJob)]
      /\ spim \in Seq(Words)
  BY DEF Init
<1>3. data_left \in 0..2 * MaxItems /\ req \in 0..2 * MaxItems
      /\ bitsword \in 0..63 /\ sizefactor \in 0..2 /\ eotPending \in Nat
  BY ItemsAssumption DEF Init
<1>. QED
  BY <1>1, <1>2, <1>3, Zenon DEF Init, TypeOK, Callbacks

\* The type invariant holds in every state of every behaviour.
THEOREM TypeCorrect == Spec => []TypeOK
BY TypeInit, TypeStep, PTL DEF Spec

-----------------------------------------------------------------------------
(* IdleMeansDone, for the client discipline of test.c (ClientMay = {}):  *)
(* IdleInv is inductive and implies it.                                    *)

\* The initial state is idle with empty hardware queues.
LEMMA IdleInit == Init => IdleInv
<1> SUFFICES ASSUME Init PROVE IdleInv
  OBVIOUS
<1>1. TypeOK
  BY TypeInit
<1>2. \A i \in {CMD_CFG_ID, CMD_SOT_ID, CMD_RUN_ID} : buffer_cmd[i].op # "EOT"
  BY DEF Init, ZeroWord, CMD_CFG_ID, CMD_SOT_ID, CMD_RUN_ID, NB_SPIM_CMD
<1>3. HwIdle /\ eotPending = 0 /\ Len(cmdCh) <= 1
  BY DEF Init, HwIdle
<1>4. ~buzy /\ \A d \in {"TX", "RX"} : dataCh[d] = << >>
  BY Zenon DEF Init
<1>5. ~(eotPending > 0)
  BY <1>3
<1>. QED
  BY <1>1, <1>2, <1>3, <1>4, <1>5, Zenon DEF IdleInv, NoEarlyEot, DataAhead

\* A step that leaves the driver idle with empty hardware queues and no
\* early EOT in buffer_cmd re-establishes IdleInv.
LEMMA QuietNext ==
  ASSUME TypeOK', ~buzy', HwIdle', eotPending' = 0, NoEarlyEot'
  PROVE  IdleInv'
<1>1. Len(cmdCh') <= 1 /\ ~(eotPending' > 0)
  BY DEF HwIdle
<1>2. DataAhead'
  BY Zenon DEF HwIdle, DataAhead
<1>. QED
  BY <1>1, <1>2, Zenon DEF IdleInv

\* Under the discipline of test.c the client reconfigures and aborts only
\* when GetStatus reports idle, and transfers only after Initialize.
LEMMA CarefulClient ==
  ASSUME ClientMay = {}
  PROVE  /\ MayAbort <=> ~buzy
         /\ MayReconfigure <=> ~buzy
         /\ MayTransfer <=> eotMask
BY Zenon DEF MayAbort, MayReconfigure, MayTransfer, DD_SPI_GetStatus

\* The configuration words Control writes are no EOT.
LEMMA ControlNoEot ==
  ASSUME TypeOK, NoEarlyEot, NEW c \in [1..NB_SPIM_CMD -> Words],
         c[CMD_CFG_ID].op # "EOT", c[CMD_RUN_ID].op # "EOT",
         NEW bits, ControlTail(c, bits)
  PROVE  NoEarlyEot'
BY DEF ControlTail, NoEarlyEot, SotWord, EotWord, NB_SPIM_CMD,
       CMD_CFG_ID, CMD_SOT_ID, CMD_RUN_ID, CMD_EOT_ID

\* A step that starts a transfer on idle hardware, with the EOT as the last
\* word of the one command job and data only in the channels its RUN word
\* uses, establishes IdleInv.
LEMMA StartNext ==
  ASSUME TypeOK', buzy', eotMask', eotPending' = 0, spim' = << >>,
         cmdCh' = << [pos |-> 0, blk |-> buffer_cmd'] >>,
         buffer_cmd'[CMD_EOT_ID].op = "EOT", NoEarlyEot',
         \A d \in {"TX", "RX"} :
           dataCh'[d] # << >> => d \in Dirs(buffer_cmd'[CMD_RUN_ID].op)
  PROVE  IdleInv'
<1>1. Len(cmdCh') <= 1 /\ ~(eotPending' > 0) /\ cmdCh' # << >>
  OBVIOUS
<1>2. OneEotAhead'
  BY <1>1 DEF OneEotAhead
<1>3. DataAhead'
  <2> SUFFICES ASSUME NEW d \in {"TX", "RX"}, dataCh'[d] # << >>
               PROVE  RemainingUses(d)'
    BY DEF DataAhead
  <2>1. CMD_RUN_ID \in cmdCh'[1].pos + 1..NB_SPIM_CMD
    BY DEF CMD_RUN_ID, NB_SPIM_CMD
  <2>. QED
    BY <1>1, <2>1 DEF RemainingUses
<1>. QED
  BY <1>1, <1>2, <1>3, Zenon DEF IdleInv

\* A step after which a transfer is still in flight, with its EOT ahead and
\* its data drained by RUN words ahead, keeps IdleInv.
LEMMA BusyNext ==
  ASSUME TypeOK', buzy', eotMask', eotPending' = 0, NoEarlyEot',
         Len(cmdCh') <= 1, OneEotAhead', DataAhead'
  PROVE  IdleInv'
<1>1. ~(eotPending' > 0)
  OBVIOUS
<1>. QED
  BY <1>1, Zenon DEF IdleInv

\* Facts about a state of IdleInv in which the hardware still has work:
\* a transfer is in flight and its EOT has not been raised yet.
LEMMA BusyWork ==
  ASSUME IdleInv, ~HwIdle
  PROVE  /\ buzy /\ eotMask /\ eotPending = 0
         /\ OneEotAhead
<1>1. buzy
  BY Zenon DEF IdleInv
<1>2. eotPending = 0
  <2>1. ~(eotPending > 0) /\ eotPending \in Nat
    BY Zenon DEF IdleInv, TypeOK
  <2>. QED
    BY <2>1
<1>. QED
  BY <1>1, <1>2, Zenon DEF IdleInv

\* Every step of the test.c client, the hardware or the interrupt keeps
\* IdleInv.
LEMMA IdleStep ==
  ASSUME ClientMay = {}, IdleInv, [Next]_vars
  PROVE  IdleInv'
<1>. USE FreqAssumption, BaudsAssumption, DataBitsAssumption, ItemsAssumption,
         UninitAssumption, DepthAssumption
<1>0. /\ TypeOK /\ TypeOK'
      /\ ~buzy => HwIdle /\ eotPending = 0
      /\ buffer_cmd \in [1..NB_SPIM_CMD -> Words]
      /\ NoEarlyEot
  BY TypeStep DEF IdleInv, TypeOK
<1>1. ASSUME NEW cb \in Callbacks, ~buzy, DD_SPI_Initialize(cb)
      PROVE  IdleInv'
  <2>1. ~buzy'
    BY <1>1, Zenon DEF DD_SPI_Initialize
  <2>2. HwIdle' /\ eotPending' = 0 /\ NoEarlyEot'
    BY <1>0, <1>1, Zenon DEF DD_SPI_Initialize, HwIdle, NoEarlyEot, IdleInv
  <2>. QED
    BY <1>0, <2>1, <2>2, QuietNext
<1>2. ASSUME ~buzy, DD_SPI_Uninitialize
      PROVE  IdleInv'
  <2>1. ~buzy'
    BY <1>2, Zenon DEF DD_SPI_Uninitialize, AbortTransfer
  <2>2. HwIdle' /\ eotPending' = 0 /\ NoEarlyEot'
    BY <1>0, <1>2, Zenon DEF DD_SPI_Uninitialize, AbortTransfer, HwIdle,
                             NoEarlyEot, IdleInv
  <2>. QED
    BY <1>0, <2>1, <2>2, QuietNext
<1>3. ASSUME NEW code \in MiscCodes, NEW arg \in Bauds, ~buzy,
             DD_SPI_Control_Misc(code, arg)
      PROVE  IdleInv'
  <2>1. ~buzy' /\ HwIdle' /\ eotPending' = 0
    <3>1. CASE code = "ABORT_TRANSFER"
      BY <1>0, <1>3, <3>1, Zenon DEF DD_SPI_Control_Misc, AbortTransfer, HwIdle
    <3>2. CASE code # "ABORT_TRANSFER"
      BY <1>0, <1>3, <3>2, Zenon DEF DD_SPI_Control_Misc, HwIdle
    <3>. QED
      BY <3>1, <3>2
  <2>2. NoEarlyEot'
    <3> DEFINE c == IF code = "SET_BUS_SPEED" /\ BaudOK(arg)
                      THEN [buffer_cmd EXCEPT ![CMD_CFG_ID] = CfgWord(ClockDiv(arg))]
                      ELSE buffer_cmd
    <3>1. c \in [1..NB_SPIM_CMD -> Words]
          /\ c[CMD_CFG_ID].op # "EOT" /\ c[CMD_RUN_ID].op # "EOT"
      <4>1. CfgWord(ClockDiv(arg)) \in Words
        BY ClockDivByte, WordsClosed
      <4>. QED
        BY <1>0, <4>1 DEF IdleInv, NoEarlyEot, TypeOK, CfgWord, NB_SPIM_CMD,
                         CMD_CFG_ID, CMD_RUN_ID
    <3>2. ControlTail(c, bitsword)
      BY <1>3 DEF DD_SPI_Control_Misc
    <3>. QED
      BY <1>0, <3>1, <3>2, ControlNoEot DEF IdleInv
  <2>. QED
    BY <1>0, <2>1, <2>2, QuietNext
<1>4. ASSUME NEW mode \in {"MASTER", "INACTIVE"}, NEW bits \in DataBits,
             NEW arg \in Bauds, ~buzy, DD_SPI_Control_Mode(mode, bits, arg)
      PROVE  IdleInv'
  <2>1. PICK div \in IF mode = "MASTER" /\ BaudOK(arg) THEN {ClockDiv(arg)}
                     ELSE UninitDivs :
          LET newBits == IF bits < 1 \/ bits > 32 THEN 8 ELSE bits IN
          /\ IF mode = "MASTER"
               THEN /\ clockOn' = (clockOn \/ BaudOK(arg))
                    /\ UNCHANGED <<cmdCh, dataCh, buzy>>
               ELSE /\ AbortTransfer
                    /\ UNCHANGED clockOn
          /\ bitsword' = newBits
          /\ ControlTail([buffer_cmd EXCEPT ![CMD_CFG_ID] = CfgWord(div)],
                         newBits)
          /\ UNCHANGED <<callback, data_left, eotMask, spim, eotPending, req>>
    BY <1>4 DEF DD_SPI_Control_Mode
  <2>2. ~buzy' /\ HwIdle' /\ eotPending' = 0
    <3>1. CASE mode = "MASTER"
      BY <1>0, <1>4, <2>1, <3>1, Zenon DEF HwIdle
    <3>2. CASE mode = "INACTIVE"
      BY <1>0, <1>4, <2>1, <3>2, Zenon DEF AbortTransfer, HwIdle
    <3>. QED
      BY <3>1, <3>2
  <2>3. NoEarlyEot'
    <3>1. div \in 0..255
      <4>1. CASE mode = "MASTER" /\ BaudOK(arg)
        BY <4>1, ClockDivByte
      <4>2. CASE ~(mode = "MASTER" /\ BaudOK(arg))
        BY <4>2
      <4>. QED
        BY <4>1, <4>2
    <3>2. /\ [buffer_cmd EXCEPT ![CMD_CFG_ID] = CfgWord(div)]
               \in [1..NB_SPIM_CMD -> Words]
          /\ [buffer_cmd EXCEPT ![CMD_CFG_ID] = CfgWord(div)][CMD_CFG_ID].op # "EOT"
          /\ [buffer_cmd EXCEPT ![CMD_CFG_ID] = CfgWord(div)][CMD_RUN_ID].op # "EOT"
      <4>1. CfgWord(div) \in Words
        BY <3>1, WordsClosed
      <4>. QED
        BY <1>0, <4>1 DEF IdleInv, NoEarlyEot, TypeOK, CfgWord, NB_SPIM_CMD,
                         CMD_CFG_ID, CMD_RUN_ID
    <3>. QED
      BY <1>0, <2>1, <3>2, ControlNoEot DEF IdleInv
  <2>. QED
    BY <1>0, <2>2, <2>3, QuietNext
<1>5. ASSUME NEW num \in Items, NEW p \in {0, 1}, ~buzy, eotMask, DD_SPI_Send(num, p)
      PROVE  IdleInv'
  <2>1. HwIdle /\ eotPending = 0 /\ cmdCh = << >>
    BY <1>0, <1>5 DEF HwIdle
  <2>2. buzy' /\ eotMask'
    BY <1>5, Zenon DEF DD_SPI_Send
  <2>3. eotPending' = 0 /\ spim' = << >>
    BY <1>5, <2>1 DEF DD_SPI_Send, HwIdle
  <2>4. cmdCh' = << [pos |-> 0, blk |-> buffer_cmd'] >>
    BY <1>5, <2>1 DEF DD_SPI_Send, EnqueueCmd
  <2>5. /\ buffer_cmd'[CMD_EOT_ID].op = "EOT"
        /\ buffer_cmd'[CMD_RUN_ID].op = IF num = 1 THEN "SEND_CMD" ELSE "TX"
        /\ NoEarlyEot'
    <3>1. buffer_cmd' = [buffer_cmd EXCEPT
                             ![CMD_RUN_ID] = IF num = 1 THEN RunWord("SEND_CMD", 1)
                                             ELSE RunWord("TX", num),
                             ![CMD_EOT_ID] = EotWord(p)]
      BY <1>5 DEF DD_SPI_Send
    <3>. QED
      BY <1>0, <3>1 DEF NoEarlyEot, EotWord, RunWord,
                     NB_SPIM_CMD, CMD_CFG_ID, CMD_SOT_ID, CMD_RUN_ID, CMD_EOT_ID
  <2>6. \A d \in {"TX", "RX"} :
          dataCh'[d] # << >> => d \in Dirs(buffer_cmd'[CMD_RUN_ID].op)
    <3>1. CASE num = 1
      BY <1>5, <2>1, <3>1 DEF DD_SPI_Send, HwIdle
    <3>2. CASE num # 1
      <4>1. dataCh'["RX"] = << >>
        BY <1>5, <2>1, <3>2 DEF DD_SPI_Send, EnqueueData, HwIdle
      <4>. QED
        BY <2>5, <3>2, <4>1 DEF Dirs
    <3>. QED
      BY <3>1, <3>2
  <2>. QED
    BY <1>0, <2>2, <2>3, <2>4, <2>5, <2>6, StartNext
<1>6. ASSUME NEW num \in Items, NEW p \in {0, 1}, ~buzy, eotMask, DD_SPI_Receive(num, p)
      PROVE  IdleInv'
  <2>1. HwIdle /\ eotPending = 0 /\ cmdCh = << >>
    BY <1>0, <1>6 DEF HwIdle
  <2>2. buzy' /\ eotMask'
    BY <1>6, Zenon DEF DD_SPI_Receive
  <2>3. eotPending' = 0 /\ spim' = << >>
    BY <1>6, <2>1 DEF DD_SPI_Receive, HwIdle
  <2>4. cmdCh' = << [pos |-> 0, blk |-> buffer_cmd'] >>
    BY <1>6, <2>1 DEF DD_SPI_Receive, EnqueueCmd
  <2>5. /\ buffer_cmd'[CMD_EOT_ID].op = "EOT"
        /\ buffer_cmd'[CMD_RUN_ID].op = "RX"
        /\ NoEarlyEot'
    <3>1. buffer_cmd' = [buffer_cmd EXCEPT ![CMD_EOT_ID] = EotWord(p),
                                             ![CMD_RUN_ID] = RunWord("RX", num)]
      BY <1>6 DEF DD_SPI_Receive
    <3>. QED
      BY <1>0, <3>1 DEF NoEarlyEot, EotWord, RunWord,
                     NB_SPIM_CMD, CMD_CFG_ID, CMD_SOT_ID, CMD_RUN_ID, CMD_EOT_ID
  <2>6. \A d \in {"TX", "RX"} :
          dataCh'[d] # << >> => d \in Dirs(buffer_cmd'[CMD_RUN_ID].op)
    <3>1. dataCh'["TX"] = << >>
      BY <1>6, <2>1 DEF DD_SPI_Receive, EnqueueData, HwIdle
    <3>. QED
      BY <2>5, <3>1 DEF Dirs
  <2>. QED
    BY <1>0, <2>2, <2>3, <2>4, <2>5, <2>6, StartNext
<1>7. ASSUME NEW num \in Items, ~buzy, eotMask, DD_SPI_Transfer(num)
      PROVE  IdleInv'
  <2>1. HwIdle /\ eotPending = 0 /\ cmdCh = << >>
    BY <1>0, <1>7 DEF HwIdle
  <2>2. buzy' /\ eotMask'
    BY <1>7, Zenon DEF DD_SPI_Transfer
  <2>3. eotPending' = 0 /\ spim' = << >>
    BY <1>7, <2>1 DEF DD_SPI_Transfer, HwIdle
  <2>4. cmdCh' = << [pos |-> 0, blk |-> buffer_cmd'] >>
    BY <1>7, <2>1 DEF DD_SPI_Transfer, EnqueueCmd
  <2>5. /\ buffer_cmd'[CMD_EOT_ID].op = "EOT"
        /\ buffer_cmd'[CMD_RUN_ID].op = "FUL"
        /\ NoEarlyEot'
    <3>1. buffer_cmd' = [buffer_cmd EXCEPT ![CMD_EOT_ID] = EotWord(0),
                                             ![CMD_RUN_ID] = RunWord("FUL", num)]
      BY <1>7 DEF DD_SPI_Transfer
    <3>. QED
      BY <1>0, <3>1 DEF NoEarlyEot, EotWord, RunWord,
                     NB_SPIM_CMD, CMD_CFG_ID, CMD_SOT_ID, CMD_RUN_ID, CMD_EOT_ID
  <2>6. \A d \in {"TX", "RX"} :
          dataCh'[d] # << >> => d \in Dirs(buffer_cmd'[CMD_RUN_ID].op)
    BY <2>5 DEF Dirs
  <2>. QED
    BY <1>0, <2>2, <2>3, <2>4, <2>5, <2>6, StartNext
<1>8. ASSUME HwFetch PROVE IdleInv'
  <2>1. buzy /\ eotMask /\ eotPending = 0 /\ OneEotAhead
    BY <1>8, BusyWork DEF HwFetch, HwIdle
  <2>2. PICK j \in Job : cmdCh = << j >>
    <3>1. cmdCh \in Seq(Job) /\ cmdCh # << >> /\ Len(cmdCh) <= 1
      BY <1>0, <1>8 DEF HwFetch, TypeOK, IdleInv
    <3>. QED
      BY <3>1, SingletonSeq
  <2>3. /\ spim \in Seq(Words)
        /\ spim' = Append(spim, buffer_cmd[j.pos + 1])
        /\ buffer_cmd' = buffer_cmd /\ dataCh' = dataCh
        /\ eotPending' = eotPending
        /\ \A i \in 1..Len(spim) : spim[i].op # "EOT"
    BY <1>0, <1>8, <2>1, <2>2 DEF HwFetch, TypeOK, OneEotAhead, driverVars
  <2>4. buzy' /\ eotMask' /\ NoEarlyEot'
    BY <1>0, <1>8, <2>1, <2>3, Zenon DEF HwFetch, driverVars, NoEarlyEot
  <2>5. j.pos \in 0..3 /\ j.blk \in [1..4 -> Words]
    BY DEF Job, NB_SPIM_CMD
  <2>6. CASE j.pos = NB_SPIM_CMD - 1
    <3>1. cmdCh' = << >> /\ buffer_cmd[j.pos + 1].op = "EOT"
      BY <1>8, <2>1, <2>2, <2>6 DEF HwFetch, OneEotAhead, NB_SPIM_CMD,
                                   CMD_EOT_ID
    <3>2. OneEotAhead'
      BY <2>3, <3>1 DEF OneEotAhead
    <3>3. DataAhead'
      <4> SUFFICES ASSUME NEW d \in {"TX", "RX"}, dataCh'[d] # << >>
                   PROVE  RemainingUses(d)'
        BY DEF DataAhead
      <4>1. RemainingUses(d)
        BY <1>0, <2>3 DEF IdleInv, DataAhead
      <4>2. ~(d \in Dirs(buffer_cmd[NB_SPIM_CMD].op))
        BY <3>1, <2>6 DEF Dirs, NB_SPIM_CMD
      <4>3. \E i \in 1..Len(spim) : d \in Dirs(spim[i].op)
        BY <4>1, <4>2, <2>2, <2>6 DEF RemainingUses, NB_SPIM_CMD
      <4>. QED
        BY <4>3, <2>3 DEF RemainingUses
    <3>. QED
      BY <1>0, <2>4, <2>3, <2>1, <3>1, <3>2, <3>3, BusyNext
  <2>7. CASE j.pos # NB_SPIM_CMD - 1
    <3>1. /\ cmdCh' = << [j EXCEPT !.pos = j.pos + 1] >>
          /\ buffer_cmd[j.pos + 1].op # "EOT"
          /\ j.pos + 1 \in 1..3
      BY <1>0, <1>8, <2>2, <2>5, <2>7 DEF HwFetch, NoEarlyEot, NB_SPIM_CMD,
                                         CMD_CFG_ID, CMD_SOT_ID, CMD_RUN_ID
    <3>2. OneEotAhead'
      BY <2>1, <2>3, <3>1 DEF OneEotAhead
    <3>3. DataAhead'
      <4> SUFFICES ASSUME NEW d \in {"TX", "RX"}, dataCh'[d] # << >>
                   PROVE  RemainingUses(d)'
        BY DEF DataAhead
      <4>1. RemainingUses(d)
        BY <1>0, <2>3 DEF IdleInv, DataAhead
      <4>2. CASE \E i \in 1..Len(spim) : d \in Dirs(spim[i].op)
        BY <2>3, <4>2 DEF RemainingUses
      <4>3. CASE d \in Dirs(buffer_cmd[j.pos + 1].op)
        <5>1. d \in Dirs(spim'[Len(spim')].op)
          BY <2>3, <4>3
        <5>2. Len(spim') \in 1..Len(spim')
          BY <2>3
        <5>. QED
          BY <5>1, <5>2 DEF RemainingUses
      <4>4. CASE \E k \in j.pos + 2..NB_SPIM_CMD : d \in Dirs(buffer_cmd[k].op)
        <5>1. cmdCh' # << >> /\ cmdCh'[1].pos + 1 = j.pos + 2
          BY <3>1, <2>2, <2>5 DEF Job
        <5>. QED
          BY <2>3, <4>4, <5>1 DEF RemainingUses
      <4>. QED
        <5>1. \/ \E i \in 1..Len(spim) : d \in Dirs(spim[i].op)
              \/ \E k \in j.pos + 1..NB_SPIM_CMD : d \in Dirs(buffer_cmd[k].op)
          BY <4>1, <2>2 DEF RemainingUses
        <5>2. \A k \in j.pos + 1..NB_SPIM_CMD : k = j.pos + 1 \/ k \in j.pos + 2..NB_SPIM_CMD
          BY <2>5 DEF NB_SPIM_CMD
        <5>. QED
          BY <5>1, <5>2, <4>2, <4>3, <4>4
    <3>. QED
      BY <1>0, <2>4, <2>3, <2>1, <3>1, <3>2, <3>3, BusyNext
  <2>. QED
    BY <2>6, <2>7
<1>9. ASSUME NEW d \in {"TX", "RX"}, HwMove(d) PROVE IdleInv'
  <2>1. buzy /\ eotMask /\ eotPending = 0 /\ OneEotAhead
    BY <1>9, BusyWork DEF HwMove, HwIdle
  <2>2. /\ spim' = spim /\ cmdCh' = cmdCh /\ buffer_cmd' = buffer_cmd
        /\ eotPending' = eotPending
    BY <1>9 DEF HwMove, driverVars
  <2>3. buzy' /\ eotMask'
    BY <1>9, <2>1, Zenon DEF HwMove, driverVars
  <2>4. \A e \in {"TX", "RX"} : dataCh'[e] # << >> => dataCh[e] # << >>
    BY <1>0, <1>9 DEF HwMove, TypeOK
  <2>5. DataAhead'
    BY <1>0, <2>2, <2>4 DEF IdleInv, DataAhead, RemainingUses
  <2>6. NoEarlyEot' /\ Len(cmdCh') <= 1 /\ OneEotAhead'
    BY <1>0, <2>1, <2>2 DEF IdleInv, NoEarlyEot, OneEotAhead
  <2>. QED
    BY <1>0, <2>1, <2>2, <2>3, <2>5, <2>6, BusyNext
<1>10. ASSUME HwExec PROVE IdleInv'
  <2>1. buzy /\ eotMask /\ eotPending = 0 /\ OneEotAhead
    BY <1>10, BusyWork DEF HwExec, HwIdle
  <2>2. /\ cmdCh' = cmdCh /\ dataCh' = dataCh /\ buffer_cmd' = buffer_cmd
        /\ spim' = Tail(spim) /\ spim \in Seq(Words) /\ spim # << >>
        /\ \A e \in Dirs(spim[1].op) : dataCh[e] = << >>
    BY <1>0, <1>10 DEF HwExec, driverVars, TypeOK
  <2>3. buzy' /\ eotMask'
    BY <1>10, <2>1, Zenon DEF HwExec, driverVars
  <2>4. eotPending' = IF spim[1].op = "EOT" THEN 1 ELSE 0
    BY <1>10, <2>1, <2>2 DEF HwExec
  <2>5. NoEarlyEot' /\ Len(cmdCh') <= 1
    BY <1>0, <2>2 DEF IdleInv, NoEarlyEot
  <2>6. CASE spim[1].op = "EOT"
    <3>1. cmdCh = << >> /\ Len(spim) = 1
      <4>1. 1 \in 1..Len(spim)
        BY <2>2
      <4>. QED
        BY <2>1, <2>6, <4>1 DEF OneEotAhead
    <3>2. spim' = << >>
      BY <2>2, <3>1
    <3>3. \A e \in {"TX", "RX"} : dataCh[e] = << >>
      <4> SUFFICES ASSUME NEW e \in {"TX", "RX"}, dataCh[e] # << >>
                   PROVE  FALSE
        OBVIOUS
      <4>1. RemainingUses(e)
        BY <1>0 DEF IdleInv, DataAhead
      <4>2. Dirs(spim[1].op) = {}
        BY <2>6 DEF Dirs
      <4>. QED
        BY <4>1, <4>2, <3>1 DEF RemainingUses
    <3>4. HwIdle' /\ eotPending' = 1
      BY <2>2, <2>4, <2>6, <3>1, <3>2, <3>3 DEF HwIdle
    <3>5. ~(eotPending' = 0) /\ DataAhead'
      BY <2>2, <3>3, <3>4 DEF DataAhead
    <3>. QED
      BY <1>0, <2>3, <2>5, <3>4, <3>5, Zenon DEF IdleInv
  <2>7. CASE spim[1].op # "EOT"
    <3>1. eotPending' = 0
      BY <2>4, <2>7
    <3>2. /\ Len(spim') = Len(spim) - 1
          /\ \A i \in 1..Len(spim') : spim'[i] = spim[i + 1]
      BY <2>2
    <3>3. OneEotAhead'
      <4>1. cmdCh' # << >> => buffer_cmd'[CMD_EOT_ID].op = "EOT"
        BY <2>1, <2>2 DEF OneEotAhead
      <4>2. \A i \in 1..Len(spim') :
              spim'[i].op = "EOT" => cmdCh' = << >> /\ i = Len(spim')
        <5> SUFFICES ASSUME NEW i \in 1..Len(spim'), spim'[i].op = "EOT"
                     PROVE  cmdCh' = << >> /\ i = Len(spim')
          OBVIOUS
        <5>1. i + 1 \in 1..Len(spim) /\ spim[i + 1].op = "EOT"
          BY <2>2, <3>2
        <5>2. cmdCh = << >> /\ i + 1 = Len(spim)
          BY <2>1, <5>1 DEF OneEotAhead
        <5>3. cmdCh' = << >>
          BY <2>2, <5>2
        <5>4. i = Len(spim')
          BY <3>2, <5>2
        <5>. QED
          BY <5>3, <5>4
      <4>3. cmdCh' = << >> => spim' # << >> /\ spim'[Len(spim')].op = "EOT"
        <5> SUFFICES ASSUME cmdCh = << >>
                     PROVE  spim' # << >> /\ spim'[Len(spim')].op = "EOT"
          BY <2>2
        <5>1. spim[Len(spim)].op = "EOT" /\ Len(spim) # 1
          BY <2>1, <2>2, <2>7 DEF OneEotAhead
        <5>2. Len(spim') \in 1..Len(spim') /\ Len(spim') + 1 = Len(spim)
          BY <2>2, <3>2, <5>1
        <5>3. spim'[Len(spim')] = spim[Len(spim)]
          BY <3>2, <5>2
        <5>4. spim' # << >>
          BY <5>2
        <5>. QED
          BY <5>1, <5>3, <5>4
      <4>. QED
        BY <4>1, <4>2, <4>3 DEF OneEotAhead
    <3>4. DataAhead'
      <4> SUFFICES ASSUME NEW e \in {"TX", "RX"}, dataCh'[e] # << >>
                   PROVE  RemainingUses(e)'
        BY DEF DataAhead
      <4>1. RemainingUses(e)
        BY <1>0, <2>2 DEF IdleInv, DataAhead
      <4>2. ~(e \in Dirs(spim[1].op))
        BY <2>2
      <4>3. CASE \E i \in 1..Len(spim) : e \in Dirs(spim[i].op)
        <5>1. PICK i \in 1..Len(spim) : e \in Dirs(spim[i].op)
          BY <4>3
        <5>2. i - 1 \in 1..Len(spim') /\ spim'[i - 1] = spim[i]
          BY <4>2, <5>1, <2>2, <3>2
        <5>. QED
          BY <5>1, <5>2 DEF RemainingUses
      <4>4. CASE ~\E i \in 1..Len(spim) : e \in Dirs(spim[i].op)
        BY <4>1, <4>4, <2>2 DEF RemainingUses
      <4>. QED
        BY <4>3, <4>4
    <3>. QED
      BY <1>0, <2>3, <2>5, <3>1, <3>3, <3>4, BusyNext
  <2>. QED
    BY <2>6, <2>7
<1>11. ASSUME irq_handler PROVE IdleInv'
  <2>1. HwIdle /\ eotPending = 1
    BY <1>11, Zenon DEF irq_handler, IdleInv
  <2>2. ~buzy' /\ HwIdle'
    BY <1>11, <2>1, Zenon DEF irq_handler, DD_SPI_IrqCallback, HwIdle
  <2>4. eotPending' = 0
    BY <1>11, <2>1 DEF irq_handler
  <2>3. NoEarlyEot'
    BY <1>0, <1>11 DEF irq_handler, DD_SPI_IrqCallback, NoEarlyEot
  <2>. QED
    BY <1>0, <2>2, <2>3, <2>4, QuietNext
<1>12. CASE UNCHANGED vars
  BY <1>12 DEF vars, driverVars, hwVars, IdleInv, TypeOK, NoEarlyEot, HwIdle,
               OneEotAhead, DataAhead, RemainingUses
<1>. QED
  <2>1. CASE Client
    <3>1. /\ MayAbort <=> ~buzy
          /\ MayReconfigure <=> ~buzy
          /\ MayTransfer <=> eotMask
      BY CarefulClient
    <3>2. ASSUME NEW num \in Items, NEW p \in {0, 1}, eotMask,
                 DD_SPI_Send(num, p) \/ DD_SPI_Receive(num, p)
          PROVE  IdleInv'
      <4>1. ~buzy
        BY <3>2 DEF DD_SPI_Send, DD_SPI_Receive
      <4>. QED
        BY <3>2, <4>1, <1>5, <1>6
    <3>3. ASSUME NEW num \in Items, eotMask, DD_SPI_Transfer(num)
          PROVE  IdleInv'
      BY <3>3, <1>7 DEF DD_SPI_Transfer
    <3>4. ASSUME NEW code \in MiscCodes, NEW arg \in Bauds,
                 IF code = "ABORT_TRANSFER" THEN MayAbort ELSE MayReconfigure,
                 DD_SPI_Control_Misc(code, arg)
          PROVE  IdleInv'
      <4>1. ~buzy
        BY <3>1, <3>4, Zenon
      <4>. QED
        BY <3>4, <4>1, <1>3
    <3>. QED
      BY <2>1, <3>1, <3>2, <3>3, <3>4, <1>1, <1>2, <1>4, Zenon DEF Client
  <2>2. CASE Hardware
    BY <2>2, <1>8, <1>9, <1>10 DEF Hardware
  <2>. QED
    BY <2>1, <2>2, <1>11, <1>12 DEF Next

(* With the client of test.c, which calls Control and Uninitialize only   *)
(* while DD_SPI_GetStatus reports idle, every reachable state of the       *)
(* driver and its uDMA/SPIM satisfies IdleInv, for every value of the     *)
(* constants: at most one command job is queued, an idle driver has no    *)
(* job or EOT event left, and a busy one has exactly one EOT ahead.        *)
THEOREM IdleInvariant ==
  ASSUME ClientMay = {}
  PROVE  Spec => []IdleInv
<1>1. IdleInv /\ [Next]_vars => IdleInv'
  BY IdleStep
<1>. QED
  BY <1>1, IdleInit, PTL DEF Spec

\* When GetStatus reports the driver idle, the hardware holds nothing of the
\* transfer it last started and no EOT of it is pending: for a client that
\* keeps the discipline of test.c, and every value of the constants.
THEOREM IdleMeansDoneCorrect ==
  ASSUME ClientMay = {}
  PROVE  Spec => []IdleMeansDone
<1>1. IdleInv => IdleMeansDone
  BY Zenon DEF IdleInv, IdleMeansDone
<1>. QED
  BY <1>1, IdleInvariant, PTL

\* DD_SPI_IrqCallback clears buzy blindly, but under the discipline of
\* test.c the EOT it is called for is always the last word of the transfer
\* in flight: the interrupt never releases buzy while hardware still works.
THEOREM CompletionCorrect ==
  ASSUME ClientMay = {}
  PROVE  Spec => CompletionOnlyWhenDone
<1>1. IdleInv /\ [Next]_vars => [irq_handler /\ buzy => HwIdle']_vars
  <2> SUFFICES ASSUME IdleInv, [Next]_vars, irq_handler, buzy
               PROVE  HwIdle'
    OBVIOUS
  <2>1. HwIdle
    BY Zenon DEF irq_handler, IdleInv
  <2>. QED
    BY <2>1, Zenon DEF irq_handler, HwIdle
<1>. QED
  BY <1>1, IdleInvariant, PTL DEF Spec, CompletionOnlyWhenDone


-----------------------------------------------------------------------------
(* Refinement of the abstract transaction of SpiDriverAbstract.            *)

\* Under IdleInv the hardware holds a transaction exactly while buzy is set
\* and its EOT has not yet reached the event FIFO.
LEMMA InFlightIff ==
  ASSUME IdleInv
  PROVE  InFlight <=> buzy /\ eotPending = 0
<1>1. ~buzy => ~InFlight
  BY Zenon DEF IdleInv, InFlight
<1>2. eotPending # 0 => ~InFlight
  <2>1. eotPending # 0 => eotPending > 0
    BY DEF IdleInv, TypeOK
  <2>. QED
    BY <2>1, Zenon DEF IdleInv, InFlight
<1>3. buzy /\ eotPending = 0 => InFlight
  <2> SUFFICES ASSUME buzy, eotPending = 0, HwIdle PROVE FALSE
    BY Zenon DEF InFlight
  <2>1. OneEotAhead
    BY Zenon DEF IdleInv
  <2>. QED
    BY <2>1 DEF OneEotAhead, HwIdle
<1>. QED
  BY <1>1, <1>2, <1>3, Zenon

\* The same fact of the next state.
LEMMA InFlightIffNext ==
  ASSUME IdleInv'
  PROVE  InFlight' <=> buzy' /\ eotPending' = 0
<1>1. ~buzy' => ~InFlight'
  BY Zenon DEF IdleInv, InFlight
<1>2. eotPending' # 0 => ~InFlight'
  <2>1. eotPending' # 0 => eotPending' > 0
    BY DEF IdleInv, TypeOK
  <2>. QED
    BY <2>1, Zenon DEF IdleInv, InFlight
<1>3. buzy' /\ eotPending' = 0 => InFlight'
  <2> SUFFICES ASSUME buzy', eotPending' = 0, HwIdle' PROVE FALSE
    BY Zenon DEF InFlight
  <2>1. OneEotAhead'
    BY Zenon DEF IdleInv
  <2>. QED
    BY <2>1 DEF OneEotAhead, HwIdle
<1>. QED
  BY <1>1, <1>2, <1>3, Zenon

\* Only a driver call sets buzy, and no driver call touches the event FIFO;
\* the hardware adds an EOT without touching buzy; taking one clears buzy.
LEMMA EotStep ==
  ASSUME TypeOK, [Next]_vars
  PROVE  \/ eotPending' = eotPending
         \/ eotPending' > eotPending /\ buzy' = buzy
         \/ ~buzy'
<1>1. CASE Client
  <2>1. eotPending' = eotPending
    BY <1>1 DEF Client, DD_SPI_Initialize, DD_SPI_Uninitialize,
                DD_SPI_Control_Misc, DD_SPI_Control_Mode, DD_SPI_Send,
                DD_SPI_Receive, DD_SPI_Transfer
  <2>. QED
    BY <2>1
<1>2. CASE HwFetch \/ (\E d \in {"TX", "RX"} : HwMove(d))
  BY <1>2 DEF HwFetch, HwMove
<1>3. CASE HwExec
  <2>1. buzy' = buzy
    BY <1>3 DEF HwExec, driverVars
  <2>2. eotPending' = eotPending \/ eotPending' > eotPending
    BY <1>3 DEF HwExec, TypeOK
  <2>. QED
    BY <2>1, <2>2, Zenon
<1>4. CASE irq_handler
  BY <1>4, Zenon DEF irq_handler, DD_SPI_IrqCallback
<1>5. CASE UNCHANGED vars
  BY <1>5 DEF vars, hwVars
<1>. QED
  BY <1>1, <1>2, <1>3, <1>4, <1>5 DEF Next, Hardware

\* Every step between two IdleInv states is an abstract step or a stutter.
LEMMA AbsStep ==
  ASSUME IdleInv, IdleInv', [Next]_vars
  PROVE  [Abs!Next]_(Abs!vars)
<1>1. /\ InFlight <=> buzy /\ eotPending = 0
      /\ InFlight' <=> buzy' /\ eotPending' = 0
  BY InFlightIff, InFlightIffNext
<1>2. \/ eotPending' = eotPending
      \/ eotPending' > eotPending /\ buzy' = buzy
      \/ ~buzy'
  BY EotStep DEF IdleInv
<1>3. eotPending \in Nat /\ eotPending' \in Nat
      /\ buzy \in BOOLEAN /\ buzy' \in BOOLEAN
  BY DEF IdleInv, TypeOK
<1>4. /\ ~buzy => eotPending = 0
      /\ eotPending > 0 => eotPending = 1
  BY DEF IdleInv
<1>0. InFlight \in BOOLEAN /\ InFlight' \in BOOLEAN
  BY DEF InFlight
<1>5. CASE ~buzy /\ ~buzy'
  <2>1. ~InFlight /\ ~InFlight'
    BY <1>1, <1>5, Zenon
  <2>. QED
    BY <1>0, <1>5, <2>1, <1>3, Zenon DEF Abs!vars
<1>6. CASE ~buzy /\ buzy'
  <2>1. eotPending = 0 /\ eotPending' = 0
    BY <1>2, <1>3, <1>4, <1>6
  <2>2. InFlight'
    BY <1>1, <1>6, <2>1, Zenon
  <2>. QED
    BY <1>3, <1>6, <2>2, Zenon DEF Abs!Next, Abs!Start
<1>7. CASE buzy /\ ~buzy'
  <2>1. ~InFlight'
    BY <1>1, <1>7, Zenon
  <2>2. CASE InFlight
    BY <1>0, <1>3, <1>7, <2>1, <2>2, Zenon DEF Abs!Next, Abs!Abort
  <2>3. CASE ~InFlight
    BY <1>0, <1>3, <1>7, <2>1, <2>3, Zenon DEF Abs!Next, Abs!Complete
  <2>. QED
    BY <2>2, <2>3
<1>8. CASE buzy /\ buzy'
  <2>1. eotPending # 0 => eotPending' # 0
    BY <1>2, <1>3, <1>8
  <2>2. ~InFlight => ~InFlight'
    BY <1>1, <1>8, <2>1, Zenon
  <2>3. CASE InFlight /\ ~InFlight'
    BY <1>0, <1>3, <1>8, <2>3, Zenon DEF Abs!Next, Abs!Finish
  <2>4. CASE ~(InFlight /\ ~InFlight')
    <3>1. InFlight' = InFlight
      BY <1>0, <2>2, <2>4, Zenon
    <3>. QED
      BY <1>0, <1>3, <1>8, <3>1, Zenon DEF Abs!vars
  <2>. QED
    BY <2>3, <2>4
<1>. QED
  BY <1>3, <1>5, <1>6, <1>7, <1>8

\* The driver implements the abstract transaction of SpiDriverAbstract for
\* a client that keeps the discipline of test.c: Initialize, Control and
\* abort only while idle.  buzy is cleared only by a completion that
\* follows the end of the hardware's work.
THEOREM RefinementCorrect ==
  ASSUME ClientMay = {}
  PROVE  Spec => AbsSpec
<1>1. Init => Abs!Init
  BY DEF Init, Abs!Init, InFlight, HwIdle
<1>2. IdleInv /\ IdleInv' /\ [Next]_vars => [Abs!Next]_(Abs!vars)
  BY AbsStep
<1>3. IdleInv /\ [Next]_vars => IdleInv'
  BY IdleStep
<1>. QED
  BY <1>1, <1>2, <1>3, IdleInit, PTL DEF Spec, AbsSpec, Abs!Spec


-----------------------------------------------------------------------------
(* The command buffer the uDMA reads by reference.                         *)

\* plp_udma_enqueue of buffer_cmd on an empty CMD channel queues one job
\* that has read nothing yet.
LEMMA EnqueueFresh ==
  ASSUME NEW blk, cmdCh = << >>
  PROVE  EnqueueCmd(blk) = << [pos |-> 0, blk |-> blk] >>
BY DepthAssumption DEF EnqueueCmd

\* Under the discipline of test.c every driver call starts on an idle
\* driver, whose CMD channel is empty, and leaves it empty or holding the
\* one job of the transfer it started, which has read nothing of buffer_cmd.
LEMMA ClientCmd ==
  ASSUME ClientMay = {}, IdleInv, Client
  PROVE  \/ cmdCh' = << >>
         \/ cmdCh' = << [pos |-> 0, blk |-> buffer_cmd'] >>
<1>0. ~buzy => cmdCh = << >>
  BY DEF IdleInv, HwIdle
<1>1. ASSUME MayReconfigure, NEW cb \in Callbacks, DD_SPI_Initialize(cb)
      PROVE  cmdCh' = << >>
  BY <1>0, <1>1, CarefulClient DEF DD_SPI_Initialize
<1>2. ASSUME DD_SPI_Uninitialize PROVE cmdCh' = << >>
  BY <1>2 DEF DD_SPI_Uninitialize, AbortTransfer
<1>3. ASSUME NEW code \in MiscCodes, NEW arg \in Bauds,
             IF code = "ABORT_TRANSFER" THEN MayAbort ELSE MayReconfigure,
             DD_SPI_Control_Misc(code, arg)
      PROVE  cmdCh' = << >>
  <2>1. ~buzy
    BY <1>3, CarefulClient
  <2>. QED
    BY <1>3, <2>1, <1>0 DEF DD_SPI_Control_Misc, AbortTransfer
<1>4. ASSUME NEW mode \in {"MASTER", "INACTIVE"}, NEW bits \in DataBits,
             NEW arg \in Bauds, ~buzy, DD_SPI_Control_Mode(mode, bits, arg)
      PROVE  cmdCh' = << >>
  BY <1>4, <1>0 DEF DD_SPI_Control_Mode, AbortTransfer
<1>5. ASSUME NEW num \in Items, NEW p \in {0, 1}, DD_SPI_Send(num, p)
      PROVE  cmdCh' = << [pos |-> 0, blk |-> buffer_cmd'] >>
  BY <1>5, <1>0, EnqueueFresh DEF DD_SPI_Send
<1>6. ASSUME NEW num \in Items, NEW p \in {0, 1}, DD_SPI_Receive(num, p)
      PROVE  cmdCh' = << [pos |-> 0, blk |-> buffer_cmd'] >>
  BY <1>6, <1>0, EnqueueFresh DEF DD_SPI_Receive
<1>7. ASSUME NEW num \in Items, DD_SPI_Transfer(num)
      PROVE  cmdCh' = << [pos |-> 0, blk |-> buffer_cmd'] >>
  BY <1>7, <1>0, EnqueueFresh DEF DD_SPI_Transfer
<1>8. ASSUME NEW bits \in DataBits, NEW arg \in Bauds,
             \/ MayReconfigure /\ DD_SPI_Control_Mode("MASTER", bits, arg)
             \/ MayAbort /\ DD_SPI_Control_Mode("INACTIVE", bits, arg)
      PROVE  cmdCh' = << >>
  <2>1. ~buzy
    BY <1>8, CarefulClient
  <2>. QED
    BY <1>8, <2>1, <1>4
<1>. QED
  BY <1>1, <1>2, <1>3, <1>5, <1>6, <1>7, <1>8 DEF Client

\* Every step of the test.c client, the hardware or the interrupt keeps the
\* words a queued command job has still to read as the driver wrote them.
LEMMA CmdStep ==
  ASSUME ClientMay = {}, IdleInv, CmdIntegrity, [Next]_vars
  PROVE  CmdIntegrity'
<1>0. cmdCh \in Seq(Job) /\ buffer_cmd \in [1..NB_SPIM_CMD -> Words]
  BY DEF IdleInv, TypeOK
<1>1. CASE Client
  <2>1. CASE cmdCh' = << >>
    BY <2>1 DEF CmdIntegrity
  <2>2. CASE cmdCh' = << [pos |-> 0, blk |-> buffer_cmd'] >>
    BY <2>2 DEF CmdIntegrity
  <2>. QED
    BY <1>1, <2>1, <2>2, ClientCmd
<1>2. CASE HwFetch
  <2>1. UNCHANGED buffer_cmd /\ cmdCh # << >>
    BY <1>2 DEF HwFetch, driverVars
  <2>2. CASE Head(cmdCh).pos = NB_SPIM_CMD - 1
    <3>1. cmdCh' = Tail(cmdCh)
      BY <1>2, <2>2 DEF HwFetch
    <3>. QED
      BY <1>0, <2>1, <3>1 DEF CmdIntegrity
  <2>3. CASE Head(cmdCh).pos # NB_SPIM_CMD - 1
    <3>1. cmdCh' = [cmdCh EXCEPT ![1].pos = Head(cmdCh).pos + 1]
      BY <1>2, <2>3 DEF HwFetch
    <3>2. cmdCh[1] \in Job /\ Len(cmdCh) >= 1
      BY <1>0, <2>1
    <3>3. /\ Len(cmdCh') = Len(cmdCh)
          /\ cmdCh'[1] = [cmdCh[1] EXCEPT !.pos = cmdCh[1].pos + 1]
          /\ \A k \in 2..Len(cmdCh) : cmdCh'[k] = cmdCh[k]
      BY <1>0, <3>1, <3>2
    <3>4. /\ cmdCh'[1].blk = cmdCh[1].blk
          /\ cmdCh'[1].pos = cmdCh[1].pos + 1
      BY <3>2, <3>3 DEF Job
    <3>5. SUFFICES ASSUME NEW k \in 1..Len(cmdCh'),
                          NEW i \in cmdCh'[k].pos + 1..NB_SPIM_CMD
                   PROVE  buffer_cmd'[i] = cmdCh'[k].blk[i]
      BY DEF CmdIntegrity
    <3>6. k \in 1..Len(cmdCh)
      BY <3>3
    <3>7. CASE k = 1
      <4>1. i \in cmdCh[1].pos + 1..NB_SPIM_CMD
        BY <3>2, <3>4, <3>7 DEF Job
      <4>. QED
        BY <2>1, <3>4, <3>6, <3>7, <4>1 DEF CmdIntegrity
    <3>8. CASE k # 1
      BY <2>1, <3>3, <3>6, <3>8 DEF CmdIntegrity
    <3>. QED
      BY <3>7, <3>8
  <2>. QED
    BY <2>2, <2>3
<1>3. CASE \E d \in {"TX", "RX"} : HwMove(d)
  BY <1>3 DEF HwMove, driverVars, CmdIntegrity
<1>4. CASE HwExec
  BY <1>4 DEF HwExec, driverVars, CmdIntegrity
<1>5. CASE irq_handler
  BY <1>5 DEF irq_handler, DD_SPI_IrqCallback, CmdIntegrity
<1>6. CASE UNCHANGED vars
  BY <1>6 DEF vars, driverVars, hwVars, CmdIntegrity
<1>. QED
  BY <1>1, <1>2, <1>3, <1>4, <1>5, <1>6 DEF Next, Hardware

(* The uDMA reads buffer_cmd by reference, word by word: for the test.c   *)
(* client and every value of the constants, no word a queued command job  *)
(* has still to read is rewritten by Send, Receive, Transfer or Control    *)
(* before the SPIM fetches it.                                             *)
THEOREM CmdIntegrityCorrect ==
  ASSUME ClientMay = {}
  PROVE  Spec => []CmdIntegrity
<1>1. Init => CmdIntegrity
  BY DEF Init, CmdIntegrity
<1>2. IdleInv /\ CmdIntegrity /\ [Next]_vars => CmdIntegrity'
  BY CmdStep
<1>. QED
  BY <1>1, <1>2, IdleInvariant, PTL DEF Spec

-----------------------------------------------------------------------------
(* GetDataCount.                                                           *)

\* The items the TX and RX channel SIZE registers still hold, as
\* DD_SPI_GetDataCount counts them.
ChanItems == ChanLeft("TX") \div Pow2(sizefactor)
               + ChanLeft("RX") \div Pow2(sizefactor)

(***************************************************************************)
(* The inductive form of DataCountSound for the test.c client: each data   *)
(* channel holds at most the one job of the transfer in flight, and while  *)
(* buzy what the channels still hold is at most what data_left counts.     *)
(***************************************************************************)
DataInv ==
  /\ \A d \in {"TX", "RX"} : Len(dataCh[d]) <= 1
  /\ buzy => ChanItems <= data_left

\* The byte count of a data job, divided back by the element size it was
\* made with, is the item count the driver was given; and fewer bytes left
\* never read as more items.
LEMMA ItemDiv ==
  ASSUME NEW p \in {1, 2, 4}
  PROVE  /\ \A n \in Nat : (n * p) \div p = n
         /\ \A a, b \in Nat : a <= b => a \div p <= b \div p
         /\ \A a \in Nat : a \div p \in Nat
<1>1. CASE p = 1
  BY <1>1
<1>2. CASE p = 2
  BY <1>2
<1>3. CASE p = 4
  BY <1>3
<1>. QED
  BY <1>1, <1>2, <1>3

\* plp_udma_enqueue of a buffer on an empty data channel: a job of that
\* many bytes, unless the buffer is empty; the other channel is untouched.
LEMMA EnqueueFreshData ==
  ASSUME NEW ch \in [{"TX", "RX"} -> Seq(DataJob)],
         NEW d \in {"TX", "RX"}, ch[d] = << >>, NEW bytes \in Nat
  PROVE  /\ EnqueueData(ch, d, bytes)[d] =
              IF bytes = 0 THEN << >>
              ELSE << [left |-> bytes, step |-> Pow2(sizefactor)] >>
         /\ \A o \in {"TX", "RX"} \ {d} : EnqueueData(ch, d, bytes)[o] = ch[o]
BY DepthAssumption DEF EnqueueData

\* The items the channels hold are a natural number.
LEMMA ChanItemsNat ==
  ASSUME TypeOK
  PROVE  /\ \A d \in {"TX", "RX"} : ChanLeft(d) \in Nat
         /\ ChanItems \in Nat
<1>1. \A d \in {"TX", "RX"} : ChanLeft(d) \in Nat
  <2>1. SUFFICES ASSUME NEW d \in {"TX", "RX"}, dataCh[d] # << >>
                 PROVE  Head(dataCh[d]).left \in Nat
    BY DEF ChanLeft
  <2>2. dataCh[d] \in Seq(DataJob)
    BY DEF TypeOK
  <2>3. Head(dataCh[d]) \in DataJob
    BY <2>1, <2>2
  <2>. QED
    BY <2>3 DEF DataJob
<1>2. Pow2(sizefactor) \in {1, 2, 4}
  BY SizeFactorRange DEF TypeOK
<1>. QED
  BY <1>1, <1>2, ItemDiv DEF ChanItems

\* Every call the test.c client makes finds the driver idle.
LEMMA ClientIdle ==
  ASSUME ClientMay = {}, Client
  PROVE  ~buzy
<1>1. (MayAbort => ~buzy) /\ (MayReconfigure => ~buzy)
  BY CarefulClient
<1>2. ASSUME NEW code \in MiscCodes,
             IF code = "ABORT_TRANSFER" THEN MayAbort ELSE MayReconfigure
      PROVE  ~buzy
  BY <1>1, <1>2
<1>3. ASSUME MayTransfer, NEW num \in Items, NEW p \in {0, 1},
             DD_SPI_Send(num, p) \/ DD_SPI_Receive(num, p)
      PROVE  ~buzy
  BY <1>3 DEF DD_SPI_Send, DD_SPI_Receive
<1>4. ASSUME NEW num \in Items, DD_SPI_Transfer(num)
      PROVE  ~buzy
  BY <1>4 DEF DD_SPI_Transfer
<1>. QED
  BY <1>1, <1>2, <1>3, <1>4, Zenon DEF Client

\* A Send, Receive or Transfer of test.c starts on empty channels and
\* queues at most one job on each, holding exactly the items data_left
\* counts (a single-item Send queues none and keeps the old data_left).
LEMMA DataStart ==
  ASSUME TypeOK, ~buzy, \A d \in {"TX", "RX"} : dataCh[d] = << >>,
         \/ \E num \in Items, p \in {0, 1} :
              DD_SPI_Send(num, p) \/ DD_SPI_Receive(num, p)
         \/ \E num \in Items : DD_SPI_Transfer(num)
  PROVE  DataInv'
<1>. USE ItemsAssumption
<1>. DEFINE P == Pow2(sizefactor)
            Job1(n) == << [left |-> n * P, step |-> P] >>
<1>. USE DEF P, Job1, Items
<1>0. /\ P \in {1, 2, 4} /\ sizefactor \in 0..2 /\ data_left \in Nat
      /\ dataCh \in [{"TX", "RX"} -> Seq(DataJob)]
  BY SizeFactorRange DEF TypeOK
<1>1. \A n \in Items : n * P \in Nat /\ (n * P = 0 <=> n = 0)
  BY <1>0
\* The items a channel holding nothing or one fresh job of n items shows.
<1>2. /\ \A n \in Items : (n * P) \div P = n
      /\ 0 \div P = 0
  BY <1>0, ItemDiv
<1>3a. ASSUME sizefactor' = sizefactor
       PROVE  ChanItems' = ChanLeft("TX")' \div P + ChanLeft("RX")' \div P
  BY <1>3a DEF ChanItems
<1>3. ASSUME NEW num \in Items, NEW p \in {0, 1}, DD_SPI_Send(num, p)
      PROVE  DataInv'
  <2>1. sizefactor' = sizefactor
    BY <1>3 DEF DD_SPI_Send
  <2>2. CASE num = 1
    <3>1. dataCh' = dataCh /\ data_left' = data_left
      BY <1>3, <2>2 DEF DD_SPI_Send
    <3>2. ChanLeft("TX")' = 0 /\ ChanLeft("RX")' = 0
      BY <3>1 DEF ChanLeft
    <3>3. ChanItems' = 0
      BY <1>2, <1>3a, <2>1, <3>2
    <3>. QED
      BY <1>0, <3>1, <3>3 DEF DataInv
  <2>3. CASE num # 1
    <3>1. dataCh' = EnqueueData(dataCh, "TX", num * P) /\ data_left' = num
      BY <1>3, <2>3 DEF DD_SPI_Send
    <3>2. num # 0
      BY <1>3 DEF DD_SPI_Send
    <3>3. /\ dataCh'["TX"] = IF num * P = 0 THEN << >> ELSE Job1(num)
          /\ dataCh'["RX"] = dataCh["RX"]
      <4>1. num * P \in Nat
        BY <1>1
      <4>. QED
        BY <1>0, <3>1, <4>1, EnqueueFreshData
    <3>4. dataCh'["TX"] = Job1(num) /\ dataCh'["RX"] = << >>
      BY <1>1, <3>2, <3>3
    <3>5. ChanLeft("TX")' = num * P /\ ChanLeft("RX")' = 0
      BY <3>4 DEF ChanLeft
    <3>6. ChanItems' = num
      BY <1>2, <1>3a, <2>1, <3>5
    <3>7. Len(dataCh'["TX"]) <= 1 /\ Len(dataCh'["RX"]) <= 1
      BY <3>4
    <3>8. ChanItems' <= data_left'
      BY <3>1, <3>6
    <3>. QED
      BY <3>7, <3>8 DEF DataInv
  <2>. QED
    BY <2>2, <2>3
<1>4. ASSUME NEW num \in Items, NEW p \in {0, 1}, DD_SPI_Receive(num, p)
      PROVE  DataInv'
  <2>1. /\ sizefactor' = sizefactor /\ data_left' = num
        /\ dataCh' = EnqueueData(dataCh, "RX", num * P)
    BY <1>4 DEF DD_SPI_Receive
  <2>2. /\ dataCh'["RX"] = IF num * P = 0 THEN << >> ELSE Job1(num)
        /\ dataCh'["TX"] = << >>
    <3>1. num * P \in Nat
      BY <1>1
    <3>. QED
      BY <1>0, <2>1, <3>1, EnqueueFreshData
  <2>3. ChanLeft("RX")' = num * P /\ ChanLeft("TX")' = 0
    BY <1>1, <2>2 DEF ChanLeft
  <2>4. ChanItems' = num
    BY <1>2, <1>3a, <2>1, <2>3
  <2>5. Len(dataCh'["TX"]) <= 1 /\ Len(dataCh'["RX"]) <= 1
    BY <2>2
  <2>6. ChanItems' <= data_left'
    BY <2>1, <2>4
  <2>. QED
    BY <2>5, <2>6 DEF DataInv
<1>5. ASSUME NEW num \in Items, DD_SPI_Transfer(num)
      PROVE  DataInv'
  <2>. DEFINE rx == EnqueueData(dataCh, "RX", num * P)
  <2>. USE DEF rx
  <2>1. /\ sizefactor' = sizefactor /\ data_left' = 2 * num
        /\ dataCh' = EnqueueData(rx, "TX", num * P)
    BY <1>5 DEF DD_SPI_Transfer
  <2>2. num * P \in Nat
    BY <1>1
  <2>3. /\ rx \in [{"TX", "RX"} -> Seq(DataJob)]
        /\ rx["RX"] = IF num * P = 0 THEN << >> ELSE Job1(num)
        /\ rx["TX"] = << >>
    <3>1. rx \in [{"TX", "RX"} -> Seq(DataJob)]
      BY <1>0, <2>2, EnqueueDataType
    <3>. QED
      BY <1>0, <2>2, <3>1, EnqueueFreshData
  <2>4. /\ dataCh'["TX"] = IF num * P = 0 THEN << >> ELSE Job1(num)
        /\ dataCh'["RX"] = rx["RX"]
    BY <2>1, <2>2, <2>3, EnqueueFreshData
  <2>5. ChanLeft("RX")' = num * P /\ ChanLeft("TX")' = num * P
    BY <1>1, <2>3, <2>4 DEF ChanLeft
  <2>6. ChanItems' = 2 * num
    BY <1>2, <1>3a, <2>1, <2>5
  <2>7. Len(dataCh'["TX"]) <= 1 /\ Len(dataCh'["RX"]) <= 1
    <3>1. Len(dataCh'["TX"]) <= 1
      BY <2>4
    <3>2. dataCh'["RX"] = IF num * P = 0 THEN << >> ELSE Job1(num)
      BY <2>3, <2>4
    <3>. QED
      BY <3>1, <3>2
  <2>8. ChanItems' <= data_left'
    BY <2>1, <2>6
  <2>. QED
    BY <2>7, <2>8 DEF DataInv
<1>. QED
  BY <1>3, <1>4, <1>5

\* A step that keeps the element size counts the channels' items anew.
LEMMA ChanItemsPrime ==
  ASSUME sizefactor' = sizefactor
  PROVE  ChanItems' = ChanLeft("TX")' \div Pow2(sizefactor)
                        + ChanLeft("RX")' \div Pow2(sizefactor)
BY DEF ChanItems

\* One element moved by the SPIM: the head job of channel d, the only one
\* there, loses one element's bytes or, at its last element, leaves.
LEMMA MoveShrinks ==
  ASSUME TypeOK, DataInv, NEW d \in {"TX", "RX"}, HwMove(d)
  PROVE  \A o \in {"TX", "RX"} :
           /\ Len(dataCh'[o]) <= 1
           /\ ChanLeft(o)' \in Nat
           /\ ChanLeft(o)' <= ChanLeft(o)
<1>1. dataCh \in [{"TX", "RX"} -> Seq(DataJob)] /\ dataCh[d] # << >>
      /\ Len(dataCh[d]) <= 1
  BY DEF HwMove, TypeOK, DataInv
<1>2. PICK j \in DataJob : dataCh[d] = << j >>
  BY <1>1, SingletonSeq
<1>3. \A o \in {"TX", "RX"} \ {d} : dataCh'[o] = dataCh[o]
  BY <1>1 DEF HwMove
<1>4. \A o \in {"TX", "RX"} \ {d} :
        /\ Len(dataCh'[o]) <= 1
        /\ ChanLeft(o)' \in Nat
        /\ ChanLeft(o)' <= ChanLeft(o)
  <2>1. \A o \in {"TX", "RX"} : ChanLeft(o) \in Nat
    BY ChanItemsNat
  <2>. QED
    BY <1>1, <1>3, <2>1 DEF ChanLeft, DataInv
<1>5. CASE j.left <= j.step
  <2>1. dataCh'[d] = << >>
    BY <1>1, <1>2, <1>5 DEF HwMove
  <2>2. ChanLeft(d) \in Nat
    BY ChanItemsNat
  <2>. QED
    BY <1>4, <2>1, <2>2 DEF ChanLeft
<1>6. CASE ~(j.left <= j.step)
  <2>1. dataCh' = [dataCh EXCEPT ![d] =
                     [dataCh[d] EXCEPT ![1].left = j.left - j.step]]
    BY <1>2, <1>6 DEF HwMove
  <2>2. /\ dataCh'[d] = << [j EXCEPT !.left = j.left - j.step] >>
    BY <1>1, <1>2, <2>1
  <2>3. [j EXCEPT !.left = j.left - j.step].left = j.left - j.step
        /\ j.left - j.step \in Nat /\ j.left - j.step <= j.left
    BY <1>6 DEF DataJob
  <2>4. ChanLeft(d)' = [j EXCEPT !.left = j.left - j.step].left
    <3>1. dataCh'[d] # << >> /\ Head(dataCh'[d]) = [j EXCEPT !.left = j.left - j.step]
      BY <2>2
    <3>. QED
      BY <3>1 DEF ChanLeft
  <2>5. ChanLeft(d) = j.left
    BY <1>2 DEF ChanLeft
  <2>6. Len(dataCh'[d]) <= 1 /\ ChanLeft(d)' \in Nat
        /\ ChanLeft(d)' <= ChanLeft(d)
    BY <2>2, <2>3, <2>4, <2>5
  <2>. QED
    BY <1>4, <2>6
<1>. QED
  BY <1>4, <1>5, <1>6

\* Under the discipline of test.c the items the channels still hold never
\* exceed the items data_left says the transfer moves.
LEMMA DataStep ==
  ASSUME ClientMay = {}, IdleInv, DataInv, [Next]_vars
  PROVE  DataInv'
<1>0. /\ TypeOK /\ IdleInv'
      /\ ~buzy => \A d \in {"TX", "RX"} : dataCh[d] = << >>
  BY IdleStep DEF IdleInv, HwIdle
<1>1. CASE ~buzy'
  <2>1. \A d \in {"TX", "RX"} : dataCh'[d] = << >>
    BY <1>0, <1>1 DEF IdleInv, HwIdle
  <2>. QED
    BY <1>1, <2>1 DEF DataInv
<1>2. SUFFICES ASSUME buzy' PROVE DataInv'
  BY <1>1
<1>3. CASE Client
  <2>1. ~buzy
    BY <1>3, ClientIdle
  <2>2. ASSUME NEW cb \in Callbacks, DD_SPI_Initialize(cb) PROVE FALSE
    BY <1>2, <2>2, Zenon DEF DD_SPI_Initialize
  <2>3. ASSUME DD_SPI_Uninitialize PROVE FALSE
    BY <1>2, <2>3, Zenon DEF DD_SPI_Uninitialize, AbortTransfer
  <2>4. ASSUME NEW code \in MiscCodes, NEW arg \in Bauds,
               DD_SPI_Control_Misc(code, arg)
        PROVE  FALSE
    BY <1>2, <2>1, <2>4, Zenon DEF DD_SPI_Control_Misc, AbortTransfer
  <2>5. ASSUME NEW mode \in {"MASTER", "INACTIVE"}, NEW bits \in DataBits,
               NEW arg \in Bauds, DD_SPI_Control_Mode(mode, bits, arg)
        PROVE  FALSE
    BY <1>2, <2>1, <2>5, Zenon DEF DD_SPI_Control_Mode, AbortTransfer
  <2>6. \/ \E num \in Items, p \in {0, 1} :
             DD_SPI_Send(num, p) \/ DD_SPI_Receive(num, p)
        \/ \E num \in Items : DD_SPI_Transfer(num)
    BY <1>3, <2>2, <2>3, <2>4, <2>5, Zenon DEF Client
  <2>. QED
    BY <1>0, <2>1, <2>6, DataStart
<1>4. ASSUME NEW d \in {"TX", "RX"}, HwMove(d) PROVE DataInv'
  <2>1. UNCHANGED <<buzy, data_left, sizefactor>> /\ dataCh[d] # << >>
    BY <1>4 DEF HwMove, driverVars
  <2>2. buzy
    BY <1>0, <2>1
  <2>3. \A o \in {"TX", "RX"} :
          /\ Len(dataCh'[o]) <= 1
          /\ ChanLeft(o)' \in Nat
          /\ ChanLeft(o)' <= ChanLeft(o)
    BY <1>0, <1>4, MoveShrinks
  <2>4. Pow2(sizefactor) \in {1, 2, 4} /\ ChanLeft("TX") \in Nat
        /\ ChanLeft("RX") \in Nat
    BY <1>0, ChanItemsNat, SizeFactorRange DEF TypeOK
  <2>5. ChanItems' <= ChanItems /\ ChanItems' \in Nat
    BY <2>1, <2>3, <2>4, ItemDiv, ChanItemsPrime DEF ChanItems
  <2>6. ChanItems <= data_left /\ ChanItems \in Nat /\ data_left \in Nat
    BY <1>0, <2>2, ChanItemsNat DEF DataInv, TypeOK
  <2>7. ChanItems' <= data_left'
    BY <2>1, <2>5, <2>6
  <2>8. \A o \in {"TX", "RX"} : Len(dataCh'[o]) <= 1
    BY <2>3
  <2>. QED
    BY <2>7, <2>8 DEF DataInv
<1>5. CASE HwFetch \/ HwExec
  <2>1. UNCHANGED <<buzy, data_left, sizefactor, dataCh>>
    BY <1>5 DEF HwFetch, HwExec, driverVars
  <2>. QED
    BY <2>1 DEF DataInv, ChanItems, ChanLeft
<1>6. CASE irq_handler
  BY <1>2, <1>6, Zenon DEF irq_handler, DD_SPI_IrqCallback
<1>7. CASE UNCHANGED vars
  BY <1>7 DEF vars, driverVars, hwVars, DataInv, ChanItems, ChanLeft
<1>. QED
  BY <1>3, <1>4, <1>5, <1>6, <1>7 DEF Next, Hardware

(* DD_SPI_GetDataCount of Driver_SPI.c, asked while a transfer of the    *)
(* test.c client is in flight, returns a count between 0 and data_left    *)
(* for every value of the constants: the uint32_t it returns never wraps  *)
(* to a huge value, because the TX and RX channels never hold more items   *)
(* than Send, Receive or Transfer recorded in data_left.                   *)
THEOREM DataCountSoundCorrect ==
  ASSUME ClientMay = {}
  PROVE  Spec => []DataCountSound
<1>1. Init => DataInv
  BY DEF Init, DataInv
<1>2. IdleInv /\ DataInv /\ [Next]_vars => DataInv'
  BY DataStep
<1>3. IdleInv /\ DataInv => DataCountSound
  <2>1. SUFFICES ASSUME IdleInv, DataInv, buzy
                 PROVE  DataCount \in 0..data_left
    BY DEF DataCountSound
  <2>2. ChanItems \in Nat /\ data_left \in Nat /\ ChanItems <= data_left
    BY <2>1, ChanItemsNat DEF IdleInv, TypeOK, DataInv
  <2>3. DataCount = data_left - ChanItems
    BY DEF DataCount, ChanItems
  <2>. QED
    BY <2>2, <2>3
<1>. QED
  BY <1>1, <1>2, <1>3, IdleInvariant, PTL DEF Spec

====
