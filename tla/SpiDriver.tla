----------------------------- MODULE SpiDriver -----------------------------
(***************************************************************************)
(* The SPIM driver of src/peripherals/spim_driver_Dolphine_test: the      *)
(* driver record of SPIM0 (Driver_SPI.c), the completion interrupt        *)
(* (Driver_IRQ.c irq_handler and DD_SPI_IrqCallback), and the hardware    *)
(* the driver talks to: the uDMA command, TX and RX channels, the SPIM    *)
(* command pipeline and the SoC event FIFO that feeds the interrupt.       *)
(*                                                                         *)
(* Every driver call runs to completion as one step; the interrupt is a    *)
(* step of its own and may come between any two calls.  The hardware      *)
(* reads the command buffer buffer_cmd word by word *by reference*, so a   *)
(* write to buffer_cmd while a command job is half read changes what the   *)
(* SPIM executes.  Payloads, frame format, bit order and the quad flag are *)
(* abstracted away: a command word is its opcode and the one argument the  *)
(* properties tell apart.                                                  *)
(***************************************************************************)
EXTENDS Naturals, Sequences

CONSTANTS
  FreqPeriph,   \* pi_freq_get(PI_FREQ_DOMAIN_PERIPH)
  Bauds,        \* bus speeds the client passes as arg of Control
  DataBits,     \* DD_SPI_DATA_BITS(n) values the client passes to Control
  MaxItems,     \* largest num passed to Send, Receive or Transfer
  UninitDivs,   \* values the uninitialized local clockdiv may hold
  ChanDepth,    \* jobs a uDMA channel accepts (current + pending)
  SpimDepth,    \* command words the SPIM holds after fetching them
  ClientMay     \* what the client does beyond the discipline of test.c

Permissions == {"abort_busy", "reconfigure_busy", "before_init"}

ASSUME FreqAssumption == FreqPeriph \in Nat \ {0}
ASSUME BaudsAssumption == Bauds \subseteq Nat \ {0}
ASSUME DataBitsAssumption == DataBits \subseteq 0..63
ASSUME ItemsAssumption == MaxItems \in Nat \ {0}
ASSUME UninitAssumption == UninitDivs \subseteq 0..255 /\ UninitDivs # {}
ASSUME DepthAssumption == ChanDepth \in Nat \ {0} /\ SpimDepth \in Nat \ {0}
ASSUME ClientAssumption == ClientMay \subseteq Permissions

-----------------------------------------------------------------------------
(* Command words (Driver_SPI.c enum, SPI_CMD_* macros).                    *)

CMD_CFG_ID == 1
CMD_SOT_ID == 2
CMD_RUN_ID == 3
CMD_EOT_ID == 4
NB_SPIM_CMD == 4

Items == 0..MaxItems
RunOps == {"SEND_CMD", "TX", "RX", "FUL"}

CfgWord(div) == [op |-> "CFG", arg |-> div]
SotWord == [op |-> "SOT", arg |-> 0]
EotWord(pending) == [op |-> "EOT", arg |-> pending]
RunWord(o, num) == [op |-> o, arg |-> num]
\* A word of the zero-initialised static buffer_cmd.
ZeroWord == [op |-> "ZERO", arg |-> 0]

Words == {ZeroWord, SotWord} \cup [op : {"CFG"}, arg : 0..255]
           \cup [op : {"EOT"}, arg : {0, 1}] \cup [op : RunOps, arg : Items]

\* The uDMA data channels a RUN word moves data through.
Dirs(o) == CASE o = "TX"  -> {"TX"}
             [] o = "RX"  -> {"RX"}
             [] o = "FUL" -> {"TX", "RX"}
             [] OTHER     -> {}

\* Control: baud range check and clock divider (uint8_t clockdiv).
BaudOK(arg) == arg <= FreqPeriph /\ arg > FreqPeriph \div 512
ClockDiv(arg) == (FreqPeriph \div (2 * arg)) % 256
\* The word-size class of bitsword: sizefactor (bytesword is 2^sizefactor).
SizeFactor(bits) == IF bits <= 8 THEN 0 ELSE IF bits <= 16 THEN 1 ELSE 2
Pow2(k) == IF k = 0 THEN 1 ELSE IF k = 1 THEN 2 ELSE 4

Callbacks == {"NULL", "user_cb"}

-----------------------------------------------------------------------------
VARIABLES
  buzy,         \* pdriver->buzy
  callback,     \* pdriver->callback
  data_left,    \* pdriver->data_left
  bitsword,     \* pdriver->bitsword
  sizefactor,   \* pdriver->sizefactor
  buffer_cmd,   \* pdriver->buffer_cmd, word i at index i + 1
  clockOn,      \* SPIM bit of the uDMA clock-gating register
  eotMask,      \* SPIM EOT bit of the SoC event unit FC mask
  cmdCh,        \* uDMA CMD channel: jobs [pos, blk] reading buffer_cmd
  dataCh,       \* uDMA TX and RX channels: jobs [left bytes, step]
  spim,         \* command words fetched by the SPIM, not yet executed
  eotPending,   \* EOT events in the FC event FIFO, not yet taken
  req           \* history: items the last accepted transfer asked for

driverVars == <<buzy, callback, data_left, bitsword, sizefactor, buffer_cmd>>
hwVars == <<clockOn, eotMask, cmdCh, dataCh, spim, eotPending>>
vars == <<driverVars, hwVars, req>>

Job == [pos : 0..NB_SPIM_CMD - 1, blk : [1..NB_SPIM_CMD -> Words]]
DataJob == [left : Nat \ {0}, step : {1, 2, 4}]

TypeOK ==
  /\ buzy \in BOOLEAN
  /\ callback \in Callbacks
  /\ data_left \in 0..2 * MaxItems
  /\ bitsword \in 0..63
  /\ sizefactor \in 0..2
  /\ buffer_cmd \in [1..NB_SPIM_CMD -> Words]
  /\ clockOn \in BOOLEAN
  /\ eotMask \in BOOLEAN
  /\ cmdCh \in Seq(Job)
  /\ dataCh \in [{"TX", "RX"} -> Seq(DataJob)]
  /\ spim \in Seq(Words)
  /\ eotPending \in Nat
  /\ req \in 0..2 * MaxItems

\* Static storage starts zeroed; the peripheral is clock-gated and masked.
Init ==
  /\ buzy = FALSE
  /\ callback = "NULL"
  /\ data_left = 0
  /\ bitsword = 0
  /\ sizefactor = 0
  /\ buffer_cmd = [i \in 1..NB_SPIM_CMD |-> ZeroWord]
  /\ clockOn = FALSE
  /\ eotMask = FALSE
  /\ cmdCh = << >>
  /\ dataCh = [d \in {"TX", "RX"} |-> << >>]
  /\ spim = << >>
  /\ eotPending = 0
  /\ req = 0

-----------------------------------------------------------------------------
(* plp_udma_enqueue: a channel takes at most ChanDepth jobs; a job past    *)
(* that is lost.  A zero-byte buffer moves nothing and is not queued.      *)
EnqueueData(ch, d, bytes) ==
  IF bytes = 0 \/ Len(ch[d]) >= ChanDepth THEN ch
  ELSE [ch EXCEPT ![d] = Append(@, [left |-> bytes, step |-> Pow2(sizefactor)])]

EnqueueCmd(blk) ==
  IF Len(cmdCh) >= ChanDepth THEN cmdCh
  ELSE Append(cmdCh, [pos |-> 0, blk |-> blk])

\* DD_SPI_AbortTransfer: clear the RX, TX and CMD channels, buzy = false.
\* Words the SPIM already fetched are not touched.
AbortTransfer ==
  /\ cmdCh' = << >>
  /\ dataCh' = [d \in {"TX", "RX"} |-> << >>]
  /\ buzy' = FALSE

DD_SPI_Initialize(cb_event) ==
  /\ clockOn' = TRUE
  /\ callback' = cb_event
  /\ buzy' = FALSE
  /\ eotMask' = TRUE
  /\ data_left' = 0
  /\ UNCHANGED <<bitsword, sizefactor, buffer_cmd, cmdCh, dataCh, spim,
                 eotPending, req>>

DD_SPI_Uninitialize ==
  /\ AbortTransfer
  /\ callback' = "NULL"
  /\ data_left' = 0
  /\ clockOn' = FALSE
  /\ eotMask' = FALSE
  /\ UNCHANGED <<bitsword, sizefactor, buffer_cmd, spim, eotPending, req>>

\* The tail of DD_SPI_Control that both sub-protocols run: size class from
\* bitsword, start-of-transfer word, end-of-transfer word with CS released.
ControlTail(cmd, bits) ==
  /\ sizefactor' = SizeFactor(bits)
  /\ buffer_cmd' = [cmd EXCEPT ![CMD_SOT_ID] = SotWord,
                               ![CMD_EOT_ID] = EotWord(0)]

\* DD_SPI_Control, miscellaneous sub-protocol (control & 0x10).
DD_SPI_Control_Misc(code, arg) ==
  /\ IF code = "ABORT_TRANSFER" THEN AbortTransfer
     ELSE UNCHANGED <<cmdCh, dataCh, buzy>>
  /\ ControlTail(IF code = "SET_BUS_SPEED" /\ BaudOK(arg)
                   THEN [buffer_cmd EXCEPT ![CMD_CFG_ID] = CfgWord(ClockDiv(arg))]
                   ELSE buffer_cmd,
                 bitsword)
  /\ UNCHANGED <<callback, data_left, bitsword, clockOn, eotMask, spim,
                 eotPending, req>>

\* DD_SPI_Control, mode sub-protocol.  On a rejected baud and in inactive
\* mode the local clockdiv is never assigned before line 318 reads it.
DD_SPI_Control_Mode(mode, bits, arg) ==
  \E div \in IF mode = "MASTER" /\ BaudOK(arg) THEN {ClockDiv(arg)} ELSE UninitDivs :
    LET newBits == IF bits < 1 \/ bits > 32 THEN 8 ELSE bits IN
    /\ IF mode = "MASTER"
         THEN /\ clockOn' = (clockOn \/ BaudOK(arg))
              /\ UNCHANGED <<cmdCh, dataCh, buzy>>
         ELSE /\ AbortTransfer
              /\ UNCHANGED clockOn
    /\ bitsword' = newBits
    /\ ControlTail([buffer_cmd EXCEPT ![CMD_CFG_ID] = CfgWord(div)], newBits)
    /\ UNCHANGED <<callback, data_left, eotMask, spim, eotPending, req>>

\* Mutant: Send without the busy check.
Mut_Send_NoBusyCheck(num, pending) ==
  /\ num # 0
  /\ LET cmd == [buffer_cmd EXCEPT
                   ![CMD_RUN_ID] = IF num = 1 THEN RunWord("SEND_CMD", 1)
                                   ELSE RunWord("TX", num),
                   ![CMD_EOT_ID] = EotWord(pending)]
     IN /\ buffer_cmd' = cmd
        /\ cmdCh' = EnqueueCmd(cmd)
  /\ buzy' = TRUE
  /\ data_left' = IF num = 1 THEN data_left ELSE num
  /\ dataCh' = IF num = 1 THEN dataCh
               ELSE EnqueueData(dataCh, "TX", num * Pow2(sizefactor))
  /\ req' = num
  /\ UNCHANGED <<callback, bitsword, sizefactor, clockOn, eotMask, spim,
                 eotPending>>

\* Mutant: buzy set only on the buffered path, like data_left.
Mut_Send_BusyOnlyBuffered(num, pending) ==
  /\ num # 0
  /\ ~buzy
  /\ LET cmd == [buffer_cmd EXCEPT
                   ![CMD_RUN_ID] = IF num = 1 THEN RunWord("SEND_CMD", 1)
                                   ELSE RunWord("TX", num),
                   ![CMD_EOT_ID] = EotWord(pending)]
     IN /\ buffer_cmd' = cmd
        /\ cmdCh' = EnqueueCmd(cmd)
  /\ buzy' = (num # 1)
  /\ data_left' = IF num = 1 THEN data_left ELSE num
  /\ dataCh' = IF num = 1 THEN dataCh
               ELSE EnqueueData(dataCh, "TX", num * Pow2(sizefactor))
  /\ req' = num
  /\ UNCHANGED <<callback, bitsword, sizefactor, clockOn, eotMask, spim,
                 eotPending>>

\* DD_SPI_Send, accepted (num != 0 and not buzy).  A single item goes in
\* the command word itself and data_left is left as it was.
DD_SPI_Send(num, pending) ==
  /\ num # 0
  /\ ~buzy
  /\ LET cmd == [buffer_cmd EXCEPT
                   ![CMD_RUN_ID] = IF num = 1 THEN RunWord("SEND_CMD", 1)
                                   ELSE RunWord("TX", num),
                   ![CMD_EOT_ID] = EotWord(pending)]
     IN /\ buffer_cmd' = cmd
        /\ cmdCh' = EnqueueCmd(cmd)
  /\ buzy' = TRUE
  /\ data_left' = IF num = 1 THEN data_left ELSE num
  /\ dataCh' = IF num = 1 THEN dataCh
               ELSE EnqueueData(dataCh, "TX", num * Pow2(sizefactor))
  /\ req' = num
  /\ UNCHANGED <<callback, bitsword, sizefactor, clockOn, eotMask, spim,
                 eotPending>>

\* DD_SPI_Receive, accepted (not buzy; num = 0 is not rejected).
DD_SPI_Receive(num, pending) ==
  /\ ~buzy
  /\ LET cmd == [buffer_cmd EXCEPT ![CMD_EOT_ID] = EotWord(pending),
                                   ![CMD_RUN_ID] = RunWord("RX", num)]
     IN /\ buffer_cmd' = cmd
        /\ cmdCh' = EnqueueCmd(cmd)
  /\ buzy' = TRUE
  /\ data_left' = num
  /\ dataCh' = EnqueueData(dataCh, "RX", num * Pow2(sizefactor))
  /\ req' = num
  /\ UNCHANGED <<callback, bitsword, sizefactor, clockOn, eotMask, spim,
                 eotPending>>

\* Mutant: data_left counts one direction only (num instead of num << 1).
Mut_Transfer_OneDirection(num) ==
  /\ ~buzy
  /\ LET cmd == [buffer_cmd EXCEPT ![CMD_EOT_ID] = EotWord(0),
                                   ![CMD_RUN_ID] = RunWord("FUL", num)]
     IN /\ buffer_cmd' = cmd
        /\ cmdCh' = EnqueueCmd(cmd)
  /\ buzy' = TRUE
  /\ data_left' = num
  /\ dataCh' = EnqueueData(EnqueueData(dataCh, "RX", num * Pow2(sizefactor)),
                           "TX", num * Pow2(sizefactor))
  /\ req' = 2 * num
  /\ UNCHANGED <<callback, bitsword, sizefactor, clockOn, eotMask, spim,
                 eotPending>>

\* Mutant: data_left = (num << 1) + 1, an off-by-one in the count.
Mut_Transfer_OffByOne(num) ==
  /\ ~buzy
  /\ LET cmd == [buffer_cmd EXCEPT ![CMD_EOT_ID] = EotWord(0),
                                   ![CMD_RUN_ID] = RunWord("FUL", num)]
     IN /\ buffer_cmd' = cmd
        /\ cmdCh' = EnqueueCmd(cmd)
  /\ buzy' = TRUE
  /\ data_left' = 2 * num + 1
  /\ dataCh' = EnqueueData(EnqueueData(dataCh, "RX", num * Pow2(sizefactor)),
                           "TX", num * Pow2(sizefactor))
  /\ req' = 2 * num
  /\ UNCHANGED <<callback, bitsword, sizefactor, clockOn, eotMask, spim,
                 eotPending>>

\* DD_SPI_Transfer, accepted: RX buffer, then TX buffer, then commands.
DD_SPI_Transfer(num) ==
  /\ ~buzy
  /\ LET cmd == [buffer_cmd EXCEPT ![CMD_EOT_ID] = EotWord(0),
                                   ![CMD_RUN_ID] = RunWord("FUL", num)]
     IN /\ buffer_cmd' = cmd
        /\ cmdCh' = EnqueueCmd(cmd)
  /\ buzy' = TRUE
  /\ data_left' = 2 * num
  /\ dataCh' = EnqueueData(EnqueueData(dataCh, "RX", num * Pow2(sizefactor)),
                           "TX", num * Pow2(sizefactor))
  /\ req' = 2 * num
  /\ UNCHANGED <<callback, bitsword, sizefactor, clockOn, eotMask, spim,
                 eotPending>>

\* Mutant: buzy cleared only on the path that calls a registered callback.
Mut_IrqCallback_ClearInsideIf ==
  /\ buzy' = IF callback # "NULL" THEN FALSE ELSE buzy
  /\ UNCHANGED <<callback, data_left, bitsword, sizefactor, buffer_cmd>>

\* DD_SPI_IrqCallback: call the user callback, if any, with
\* DD_SPI_EVENT_TRANSFER_COMPLETE (user code: no driver state), then
\* buzy = false whatever transfer the event belonged to.
DD_SPI_IrqCallback ==
  /\ buzy' = FALSE
  /\ UNCHANGED <<callback, data_left, bitsword, sizefactor, buffer_cmd>>

\* Mutant: the switch dispatches every SoC event to the SPI callback, as if
\* its default case set cb too; here an event-less entry completes the SPI.
Mut_irq_handler_AnyEvent ==
  /\ eotPending' = IF eotPending > 0 THEN eotPending - 1 ELSE 0
  /\ DD_SPI_IrqCallback
  /\ UNCHANGED <<clockOn, eotMask, cmdCh, dataCh, spim, req>>

\* irq_handler: read the event id from the FC event FIFO; the SPIM0 EOT
\* code is dispatched to DD_SPI_IrqCallback (the only code enabled here).
irq_handler ==
  /\ eotPending > 0
  /\ eotPending' = eotPending - 1
  /\ DD_SPI_IrqCallback
  /\ UNCHANGED <<clockOn, eotMask, cmdCh, dataCh, spim, req>>

\* DD_SPI_GetStatus: the busy bit of the status word.
DD_SPI_GetStatus == buzy

\* DD_SPI_GetDataCount: data_left minus what the TX and RX channel SIZE
\* registers still hold, in items.  This is the int32_t difference; the
\* function returns it as uint32_t, so a negative one reads as 2^32 + it.
ChanLeft(d) == IF dataCh[d] = << >> THEN 0 ELSE Head(dataCh[d]).left
DataCount ==
  data_left - (ChanLeft("TX") \div Pow2(sizefactor)
               + ChanLeft("RX") \div Pow2(sizefactor))

-----------------------------------------------------------------------------
(* Hardware.  Not code of the repository: the behaviour the driver relies *)
(* on, as assumed in README.md.  All of it stops while clock-gated.        *)

\* The CMD channel reads the next word of the live buffer_cmd into the SPIM.
HwFetch ==
  /\ clockOn
  /\ cmdCh # << >>
  /\ Len(spim) < SpimDepth
  /\ LET j == Head(cmdCh) IN
       /\ spim' = Append(spim, buffer_cmd[j.pos + 1])
       /\ cmdCh' = IF j.pos = NB_SPIM_CMD - 1 THEN Tail(cmdCh)
                   ELSE [cmdCh EXCEPT ![1].pos = j.pos + 1]
  /\ UNCHANGED <<driverVars, clockOn, eotMask, dataCh, eotPending, req>>

\* The SPIM running a RUN word moves one element through channel d.
HwMove(d) ==
  /\ clockOn
  /\ spim # << >>
  /\ d \in Dirs(Head(spim).op)
  /\ dataCh[d] # << >>
  /\ LET j == Head(dataCh[d]) IN
       dataCh' = [dataCh EXCEPT ![d] =
                    IF j.left <= j.step THEN Tail(@)
                    ELSE [@ EXCEPT ![1].left = j.left - j.step]]
  /\ UNCHANGED <<driverVars, clockOn, eotMask, cmdCh, spim, eotPending, req>>

\* The SPIM finishes its head word; a RUN word once its channels are empty.
\* An EOT word raises the EOT event, dropped unless the FC mask enables it.
HwExec ==
  /\ clockOn
  /\ spim # << >>
  /\ \A d \in Dirs(Head(spim).op) : dataCh[d] = << >>
  /\ spim' = Tail(spim)
  /\ eotPending' = IF Head(spim).op = "EOT" /\ eotMask THEN eotPending + 1
                   ELSE eotPending
  /\ UNCHANGED <<driverVars, clockOn, eotMask, cmdCh, dataCh, req>>

-----------------------------------------------------------------------------
(* The client.  test.c calls Initialize first, reconfigures and aborts    *)
(* only when GetStatus says idle, and issues transfers at any time (a busy *)
(* driver rejects them).  ClientMay lifts parts of that discipline.        *)

MayAbort == ~DD_SPI_GetStatus \/ "abort_busy" \in ClientMay
MayReconfigure == ~DD_SPI_GetStatus \/ "reconfigure_busy" \in ClientMay
MayTransfer == eotMask \/ "before_init" \in ClientMay

MiscCodes == {"SET_BUS_SPEED", "GET_BUS_SPEED", "ABORT_TRANSFER", "OTHER"}

Client ==
  \/ MayReconfigure /\ \E cb \in Callbacks : DD_SPI_Initialize(cb)
  \/ MayReconfigure /\ DD_SPI_Uninitialize
  \/ \E code \in MiscCodes, arg \in Bauds :
       /\ IF code = "ABORT_TRANSFER" THEN MayAbort ELSE MayReconfigure
       /\ DD_SPI_Control_Misc(code, arg)
  \/ \E bits \in DataBits, arg \in Bauds :
       \/ MayReconfigure /\ DD_SPI_Control_Mode("MASTER", bits, arg)
       \/ MayAbort /\ DD_SPI_Control_Mode("INACTIVE", bits, arg)
  \/ MayTransfer /\ \E num \in Items, p \in {0, 1} :
       \/ DD_SPI_Send(num, p)
       \/ DD_SPI_Receive(num, p)
  \/ MayTransfer /\ \E num \in Items : DD_SPI_Transfer(num)

Hardware ==
  \/ HwFetch
  \/ \E d \in {"TX", "RX"} : HwMove(d)
  \/ HwExec

Next == Client \/ Hardware \/ irq_handler

Spec == Init /\ [][Next]_vars

\* The clocked hardware progresses and an enabled interrupt is taken
\* (DD_IRQ_Init unmasks the SoC event line); the client owes nothing.
Fairness ==
  /\ WF_vars(HwFetch)
  /\ \A d \in {"TX", "RX"} : WF_vars(HwMove(d))
  /\ WF_vars(HwExec)
  /\ WF_vars(irq_handler)

FairSpec == Spec /\ Fairness

\* DD_SPI_Control, GET_BUS_SPEED: the peripheral clock over the divider
\* held in the low byte of the configuration word.
GetBusSpeed == FreqPeriph \div buffer_cmd[CMD_CFG_ID].arg

-----------------------------------------------------------------------------
(* Properties.                                                             *)

HwIdle ==
  /\ cmdCh = << >>
  /\ spim = << >>
  /\ \A d \in {"TX", "RX"} : dataCh[d] = << >>

(* When GetStatus reports the driver idle (buzy false), the transfer it   *)
(* started is over: no command job, fetched word, data job or EOT event of *)
(* it is left, so the caller may read its buffer and start the next one.   *)
IdleMeansDone == ~buzy => HwIdle /\ eotPending = 0

\* A word the hardware has still to execute moves data through channel d:
\* fetched into the SPIM, or still unread in buffer_cmd by the head job.
RemainingUses(d) ==
  \/ \E i \in 1..Len(spim) : d \in Dirs(spim[i].op)
  \/ /\ cmdCh # << >>
     /\ \E k \in cmdCh[1].pos + 1..NB_SPIM_CMD : d \in Dirs(buffer_cmd[k].op)

\* Control writes CFG, SOT and EOT words and Send/Receive/Transfer a RUN
\* word, each at its own index: no EOT sits before the last index.
NoEarlyEot ==
  \A i \in {CMD_CFG_ID, CMD_SOT_ID, CMD_RUN_ID} : buffer_cmd[i].op # "EOT"

\* Exactly one EOT is ahead of the hardware, as its last word to execute.
OneEotAhead ==
  /\ cmdCh # << >> => buffer_cmd[CMD_EOT_ID].op = "EOT"
  /\ \A i \in 1..Len(spim) :
       spim[i].op = "EOT" => cmdCh = << >> /\ i = Len(spim)
  /\ cmdCh = << >> => spim # << >> /\ spim[Len(spim)].op = "EOT"

\* Every queued data job has a RUN word ahead that drains it.
DataAhead == \A d \in {"TX", "RX"} : dataCh[d] # << >> => RemainingUses(d)

(* The inductive form of IdleMeansDone for a client that keeps the         *)
(* discipline of test.c: while buzy, exactly one EOT is still ahead (the   *)
(* last word of the single command job, or already raised and waiting in  *)
(* the event FIFO), every queued data job has a RUN word ahead that will   *)
(* drain it, and the interrupt is unmasked so the EOT is not dropped.      *)
IdleInv ==
  /\ TypeOK
  /\ buzy => eotMask
  /\ NoEarlyEot
  /\ Len(cmdCh) <= 1
  /\ ~buzy => HwIdle /\ eotPending = 0
  /\ eotPending > 0 => HwIdle /\ eotPending = 1
  /\ buzy /\ eotPending = 0 => OneEotAhead
  /\ DataAhead

(* Every word of buffer_cmd that a queued command job has still to read is *)
(* the word the driver wrote for that transfer: Send/Receive/Transfer and  *)
(* Control never rewrite the buffer while the uDMA is reading it.          *)
CmdIntegrity ==
  \A k \in 1..Len(cmdCh) :
    \A i \in cmdCh[k].pos + 1..NB_SPIM_CMD : buffer_cmd[i] = cmdCh[k].blk[i]

(* While a transfer is in flight, GetDataCount never reports more items   *)
(* than the transfer asked for: the difference it returns as uint32_t is  *)
(* neither negative (a wrap to about 2^32) nor above data_left.            *)
DataCountSound == buzy => DataCount \in 0..data_left

(* Spec section 8: once both channel SIZE registers read zero,            *)
(* GetDataCount returns the number of items the transfer asked for.        *)
DataCountExact ==
  (buzy /\ \A d \in {"TX", "RX"} : dataCh[d] = << >>) => DataCount = req

(* The completion interrupt never releases buzy while the transfer it     *)
(* guards is still in the hardware (DD_SPI_IrqCallback clears it blindly). *)
CompletionOnlyWhenDone == [][irq_handler /\ buzy => HwIdle']_vars

AcceptedDivs == {ClockDiv(r) : r \in {b \in Bauds : BaudOK(b)}}

(* GET_BUS_SPEED reports a speed that SET_BUS_SPEED would turn back into  *)
(* the divider the configuration word holds, and never divides by zero.    *)
BusSpeedRoundTrip ==
  LET div == buffer_cmd[CMD_CFG_ID].arg IN
  (buffer_cmd[CMD_CFG_ID].op = "CFG" /\ div \in AcceptedDivs)
    => div # 0 /\ ClockDiv(GetBusSpeed) = div

(* The configuration word only ever carries a divider that Control        *)
(* computed from a bus speed it accepted.                                  *)
CfgFromBaud ==
  buffer_cmd[CMD_CFG_ID].op = "CFG" => buffer_cmd[CMD_CFG_ID].arg \in AcceptedDivs

(* Every transfer the driver accepts is eventually reported complete:     *)
(* a caller spinning on GetStatus().busy leaves the loop.                  *)
BusyEventuallyClears == buzy ~> ~buzy

\* The driver seen as a transaction: busy is buzy, and the transaction is
\* in flight while any command word, data job or fetched word is left.
InFlight == ~HwIdle
Abs == INSTANCE SpiDriverAbstract WITH busy <- buzy, inflight <- InFlight

(* The driver implements the one-transaction-at-a-time promise of the     *)
(* spec: every step of Send/Receive/Transfer, Control, Initialize, the    *)
(* hardware and irq_handler is a Start, Finish, Complete or Abort of the   *)
(* abstract transaction, or leaves it alone; in particular buzy is cleared *)
(* only by a completion after the hardware finished, or by an abort that  *)
(* stopped it.                                                             *)
AbsSpec == Abs!Spec

(* The same, with the abstract liveness: a transaction in flight finishes *)
(* and is then reported complete.                                          *)
AbsFairSpec == Abs!FairSpec

\* Bounds the FC event FIFO for model checking.
StateConstraint == eotPending <= 2

=============================================================================
