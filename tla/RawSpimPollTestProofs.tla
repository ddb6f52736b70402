----------------------- MODULE RawSpimPollTestProofs -----------------------
(***************************************************************************)
(* Proofs about the polling flash test (RawSpimPollTest) of              *)
(* test_spim_flash_interrupt_ver3.c.                                       *)
(*                                                                         *)
(* The argument follows main(): each command is queued only after the wait *)
(* for the one before it has returned, so the CMD channel holds at most    *)
(* the tail of the previous command (its EOT word) and the words of the    *)
(* current one.  A wait returns only after its event, which its data word  *)
(* raises once every data job of the command is done.  The page program   *)
(* starts at the CS release of the program command, which runs before the  *)
(* WIP read queued after it, so a WIP read of 0 means the program is over  *)
(* for good, and the page read queued after that loop reads it back.       *)
(***************************************************************************)
EXTENDS RawSpimPollTest, SequenceTheorems, TLAPS

\* The CMD channel with the RX and TX jobs still queued.
Q(c, r, t) == [cmd |-> c, rx |-> r, tx |-> t]
Chan == Q(cmdCh, rxJobs, txJobs)

\* What a finished command leaves on the channels: at most its EOT word.
Ends == {Q(<< "eot" >>, 0, 0), Q(<< >>, 0, 0)}

\* The channel contents main() can see at each statement of Steps.
ChanAt(p) ==
  CASE p = 1 -> {Q(<< >>, 0, 0)}
    [] p = 2 -> {Q(<< "rx", "eot" >>, 1, 0)} \cup Ends
    [] p = 3 -> Ends
    [] p = 4 -> {Q(<< "eot", "tx", "eotProg" >>, 0, 1),
                 Q(<< "tx", "eotProg" >>, 0, 1),
                 Q(<< "eotProg" >>, 0, 0), Q(<< >>, 0, 0)}
    [] p = 5 -> {Q(<< "eotProg" >>, 0, 0)} \cup Ends
    [] p = 6 -> {Q(<< "eotProg", "rxStatus", "eot" >>, 1, 0),
                 Q(<< "eot", "rxStatus", "eot" >>, 1, 0),
                 Q(<< "rxStatus", "eot" >>, 1, 0)} \cup Ends
    [] p = 9 -> {Q(<< "eot", "tx", "rxPage", "eot" >>, 1, 1),
                 Q(<< "tx", "rxPage", "eot" >>, 1, 1),
                 Q(<< "rxPage", "eot" >>, 1, 0)} \cup Ends
    [] OTHER -> Ends

\* The CS release that starts the page program is still queued.
ProgIn(s) == \E i \in 1..Len(s) : s[i] = "eotProg"
ProgQueued == ProgIn(cmdCh)

(***************************************************************************)
(* The inductive invariant behind WaitSeesCompletion and ReturnsZero.      *)
(***************************************************************************)
PollInv ==
  /\ PollTypeOK
  /\ Chan \in ChanAt(pc)
  /\ wl = "none" => evMask = {} /\ ~pend
  /\ wl # "none" => pc \in {2, 4, 6, 9} /\ evMask = {Steps[pc].arg}
  /\ wl = "clear" => pend
  /\ pend => rxJobs = 0 /\ txJobs = 0
  /\ (pc <= 3 \/ ProgQueued) => ~wip
  /\ (pc \in 6..7 /\ rxJobs = 0) => (wip_write = 0 => ~wip)
  /\ pc >= 8 => ~wip
  /\ ((pc = 9 /\ rxJobs = 0) \/ pc >= 10) => rx_page = "page"
  /\ error = 0

\* The statements of main().
LEMMA StepsFacts ==
  /\ Done = 11
  /\ \A p \in 1..10 :
       /\ Steps[p].op = "enq" <=> p \in {1, 3, 5, 8}
       /\ Steps[p].op = "wait" <=> p \in {2, 4, 6, 9}
       /\ Steps[p].op = "test" <=> p = 7
       /\ Steps[p].op = "check" <=> p = 10
  /\ Steps[1].arg = "id" /\ Steps[3].arg = "prog"
  /\ Steps[5].arg = "wip" /\ Steps[8].arg = "read"
  /\ Steps[2].arg = "RX" /\ Steps[4].arg = "TX"
  /\ Steps[6].arg = "RX" /\ Steps[9].arg = "RX"
  /\ Steps[7].arg = 5
BY DEF Done, Steps, Step

\* A command buffer queued behind the EOT word a finished command left.
LEMMA ConsTwo ==
  ASSUME NEW a, NEW b, NEW c
  PROVE  << a >> \o << b, c >> = << a, b, c >>
<1>. DEFINE s == << a >> \o << b, c >>
            t == << a, b, c >>
<1>1. s \in Seq({a, b, c}) /\ t \in Seq({a, b, c})
  OBVIOUS
<1>2. Len(s) = Len(t) /\ \A i \in 1..Len(s) : s[i] = t[i]
  OBVIOUS
<1>. QED
  BY <1>1, <1>2, SeqEqual, Zenon

LEMMA ConsThree ==
  ASSUME NEW a, NEW b, NEW c, NEW d
  PROVE  << a >> \o << b, c, d >> = << a, b, c, d >>
<1>. DEFINE s == << a >> \o << b, c, d >>
            t == << a, b, c, d >>
<1>1. s \in Seq({a, b, c, d}) /\ t \in Seq({a, b, c, d})
  OBVIOUS
<1>2. Len(s) = Len(t) /\ \A i \in 1..Len(s) : s[i] = t[i]
  OBVIOUS
<1>. QED
  BY <1>1, <1>2, SeqEqual, Zenon

\* plp_udma_enqueue of a command's buffers at an "enq" statement: the
\* channels go from what the previous wait left to the new command.
LEMMA EnqChan ==
  ASSUME NEW p \in {1, 3, 5, 8}, NEW q \in ChanAt(p)
  PROVE  LET k == Steps[p].arg
             n == Q(q.cmd \o Words(k),
                    q.rx + (IF UsesRx(k) THEN 1 ELSE 0),
                    q.tx + (IF UsesTx(k) THEN 1 ELSE 0))
         IN  /\ n \in ChanAt(p + 1)
             /\ ProgIn(n.cmd) => p = 3 \/ ProgIn(q.cmd)
             /\ p = 8 => n.rx = 1
<1>1. CASE p = 1
  <2>0. q = Q(<< >>, 0, 0)
    BY <1>1 DEF ChanAt, Ends
  <2>1. CASE q = Q(<< >>, 0, 0)
    <3>1. q.cmd \o Words(Steps[p].arg) = << "rx", "eot" >>
      BY <1>1, <2>1, StepsFacts, ConsTwo, ConsThree DEF Q, Words
    <3>2. /\ Steps[p].arg \in {"id", "prog", "wip", "read"}
          /\ q.rx + (IF UsesRx(Steps[p].arg) THEN 1 ELSE 0) = 1
          /\ q.tx + (IF UsesTx(Steps[p].arg) THEN 1 ELSE 0) = 0
      BY <1>1, <2>1, StepsFacts DEF Q, UsesRx, UsesTx
    <3>3. Q(<< "rx", "eot" >>, 1, 0) \in ChanAt(2)
      BY DEF ChanAt, Ends, Q
    <3>4. ProgIn(<< "rx", "eot" >>) => 1 = 3 \/ ProgIn(q.cmd)
      BY <2>1 DEF ProgIn, Q
    <3>. QED
      BY <1>1, <3>1, <3>2, <3>3, <3>4 DEF Q
  <2>. QED
    BY <2>0, <2>1
<1>3. CASE p = 3
  <2>0. q = Q(<< "eot" >>, 0, 0) \/ q = Q(<< >>, 0, 0)
    BY <1>3 DEF ChanAt, Ends
  <2>1. CASE q = Q(<< "eot" >>, 0, 0)
    <3>1. q.cmd \o Words(Steps[p].arg) = << "eot", "tx", "eotProg" >>
      BY <1>3, <2>1, StepsFacts, ConsTwo, ConsThree DEF Q, Words
    <3>2. /\ Steps[p].arg \in {"id", "prog", "wip", "read"}
          /\ q.rx + (IF UsesRx(Steps[p].arg) THEN 1 ELSE 0) = 0
          /\ q.tx + (IF UsesTx(Steps[p].arg) THEN 1 ELSE 0) = 1
      BY <1>3, <2>1, StepsFacts DEF Q, UsesRx, UsesTx
    <3>3. Q(<< "eot", "tx", "eotProg" >>, 0, 1) \in ChanAt(4)
      BY DEF ChanAt, Ends, Q
    <3>4. ProgIn(<< "eot", "tx", "eotProg" >>) => 3 = 3 \/ ProgIn(q.cmd)
      BY <2>1 DEF ProgIn, Q
    <3>. QED
      BY <1>3, <3>1, <3>2, <3>3, <3>4 DEF Q
  <2>2. CASE q = Q(<< >>, 0, 0)
    <3>1. q.cmd \o Words(Steps[p].arg) = << "tx", "eotProg" >>
      BY <1>3, <2>2, StepsFacts, ConsTwo, ConsThree DEF Q, Words
    <3>2. /\ Steps[p].arg \in {"id", "prog", "wip", "read"}
          /\ q.rx + (IF UsesRx(Steps[p].arg) THEN 1 ELSE 0) = 0
          /\ q.tx + (IF UsesTx(Steps[p].arg) THEN 1 ELSE 0) = 1
      BY <1>3, <2>2, StepsFacts DEF Q, UsesRx, UsesTx
    <3>3. Q(<< "tx", "eotProg" >>, 0, 1) \in ChanAt(4)
      BY DEF ChanAt, Ends, Q
    <3>4. ProgIn(<< "tx", "eotProg" >>) => 3 = 3 \/ ProgIn(q.cmd)
      BY <2>2 DEF ProgIn, Q
    <3>. QED
      BY <1>3, <3>1, <3>2, <3>3, <3>4 DEF Q
  <2>. QED
    BY <2>0, <2>1, <2>2
<1>5. CASE p = 5
  <2>0. q = Q(<< "eotProg" >>, 0, 0) \/ q = Q(<< "eot" >>, 0, 0) \/ q = Q(<< >>, 0, 0)
    BY <1>5 DEF ChanAt, Ends
  <2>1. CASE q = Q(<< "eotProg" >>, 0, 0)
    <3>1. q.cmd \o Words(Steps[p].arg) = << "eotProg", "rxStatus", "eot" >>
      BY <1>5, <2>1, StepsFacts, ConsTwo, ConsThree DEF Q, Words
    <3>2. /\ Steps[p].arg \in {"id", "prog", "wip", "read"}
          /\ q.rx + (IF UsesRx(Steps[p].arg) THEN 1 ELSE 0) = 1
          /\ q.tx + (IF UsesTx(Steps[p].arg) THEN 1 ELSE 0) = 0
      BY <1>5, <2>1, StepsFacts DEF Q, UsesRx, UsesTx
    <3>3. Q(<< "eotProg", "rxStatus", "eot" >>, 1, 0) \in ChanAt(6)
      BY DEF ChanAt, Ends, Q
    <3>4. ProgIn(<< "eotProg", "rxStatus", "eot" >>) => 5 = 3 \/ ProgIn(q.cmd)
      BY <2>1 DEF ProgIn, Q
    <3>. QED
      BY <1>5, <3>1, <3>2, <3>3, <3>4 DEF Q
  <2>2. CASE q = Q(<< "eot" >>, 0, 0)
    <3>1. q.cmd \o Words(Steps[p].arg) = << "eot", "rxStatus", "eot" >>
      BY <1>5, <2>2, StepsFacts, ConsTwo, ConsThree DEF Q, Words
    <3>2. /\ Steps[p].arg \in {"id", "prog", "wip", "read"}
          /\ q.rx + (IF UsesRx(Steps[p].arg) THEN 1 ELSE 0) = 1
          /\ q.tx + (IF UsesTx(Steps[p].arg) THEN 1 ELSE 0) = 0
      BY <1>5, <2>2, StepsFacts DEF Q, UsesRx, UsesTx
    <3>3. Q(<< "eot", "rxStatus", "eot" >>, 1, 0) \in ChanAt(6)
      BY DEF ChanAt, Ends, Q
    <3>4. ProgIn(<< "eot", "rxStatus", "eot" >>) => 5 = 3 \/ ProgIn(q.cmd)
      BY <2>2 DEF ProgIn, Q
    <3>. QED
      BY <1>5, <3>1, <3>2, <3>3, <3>4 DEF Q
  <2>3. CASE q = Q(<< >>, 0, 0)
    <3>1. q.cmd \o Words(Steps[p].arg) = << "rxStatus", "eot" >>
      BY <1>5, <2>3, StepsFacts, ConsTwo, ConsThree DEF Q, Words
    <3>2. /\ Steps[p].arg \in {"id", "prog", "wip", "read"}
          /\ q.rx + (IF UsesRx(Steps[p].arg) THEN 1 ELSE 0) = 1
          /\ q.tx + (IF UsesTx(Steps[p].arg) THEN 1 ELSE 0) = 0
      BY <1>5, <2>3, StepsFacts DEF Q, UsesRx, UsesTx
    <3>3. Q(<< "rxStatus", "eot" >>, 1, 0) \in ChanAt(6)
      BY DEF ChanAt, Ends, Q
    <3>4. ProgIn(<< "rxStatus", "eot" >>) => 5 = 3 \/ ProgIn(q.cmd)
      BY <2>3 DEF ProgIn, Q
    <3>. QED
      BY <1>5, <3>1, <3>2, <3>3, <3>4 DEF Q
  <2>. QED
    BY <2>0, <2>1, <2>2, <2>3
<1>8. CASE p = 8
  <2>0. q = Q(<< "eot" >>, 0, 0) \/ q = Q(<< >>, 0, 0)
    BY <1>8 DEF ChanAt, Ends
  <2>1. CASE q = Q(<< "eot" >>, 0, 0)
    <3>1. q.cmd \o Words(Steps[p].arg) = << "eot", "tx", "rxPage", "eot" >>
      BY <1>8, <2>1, StepsFacts, ConsTwo, ConsThree DEF Q, Words
    <3>2. /\ Steps[p].arg \in {"id", "prog", "wip", "read"}
          /\ q.rx + (IF UsesRx(Steps[p].arg) THEN 1 ELSE 0) = 1
          /\ q.tx + (IF UsesTx(Steps[p].arg) THEN 1 ELSE 0) = 1
      BY <1>8, <2>1, StepsFacts DEF Q, UsesRx, UsesTx
    <3>3. Q(<< "eot", "tx", "rxPage", "eot" >>, 1, 1) \in ChanAt(9)
      BY DEF ChanAt, Ends, Q
    <3>4. ProgIn(<< "eot", "tx", "rxPage", "eot" >>) => 8 = 3 \/ ProgIn(q.cmd)
      BY <2>1 DEF ProgIn, Q
    <3>. QED
      BY <1>8, <3>1, <3>2, <3>3, <3>4 DEF Q
  <2>2. CASE q = Q(<< >>, 0, 0)
    <3>1. q.cmd \o Words(Steps[p].arg) = << "tx", "rxPage", "eot" >>
      BY <1>8, <2>2, StepsFacts, ConsTwo, ConsThree DEF Q, Words
    <3>2. /\ Steps[p].arg \in {"id", "prog", "wip", "read"}
          /\ q.rx + (IF UsesRx(Steps[p].arg) THEN 1 ELSE 0) = 1
          /\ q.tx + (IF UsesTx(Steps[p].arg) THEN 1 ELSE 0) = 1
      BY <1>8, <2>2, StepsFacts DEF Q, UsesRx, UsesTx
    <3>3. Q(<< "tx", "rxPage", "eot" >>, 1, 1) \in ChanAt(9)
      BY DEF ChanAt, Ends, Q
    <3>4. ProgIn(<< "tx", "rxPage", "eot" >>) => 8 = 3 \/ ProgIn(q.cmd)
      BY <2>2 DEF ProgIn, Q
    <3>. QED
      BY <1>8, <3>1, <3>2, <3>3, <3>4 DEF Q
  <2>. QED
    BY <2>0, <2>1, <2>2
<1>. QED
  BY <1>1, <1>3, <1>5, <1>8

\* The SPIM runs the head word of the CMD channel.
LEMMA ExecChan ==
  ASSUME NEW p \in 1..Done, NEW q \in ChanAt(p), q.cmd # << >>,
         Head(q.cmd) \in RxWords => q.rx > 0,
         Head(q.cmd) = "tx" => q.tx > 0
  PROVE  LET w == Head(q.cmd)
             n == Q(Tail(q.cmd),
                    q.rx - (IF w \in RxWords THEN 1 ELSE 0),
                    q.tx - (IF w = "tx" THEN 1 ELSE 0))
         IN  /\ n \in ChanAt(p)
             /\ w \in RxWords /\ p \in {2, 6, 9} => n.rx = 0 /\ n.tx = 0
             /\ w = "tx" /\ p = 4 => n.rx = 0 /\ n.tx = 0
             /\ w = "eotProg" => p \in 4..6 /\ ~ProgIn(n.cmd)
             /\ ProgIn(n.cmd) => ProgIn(q.cmd)
             /\ p \in 6..7 /\ w \in RxWords => w = "rxStatus"
             /\ p \in 6..7 /\ q.rx = 0 => w # "eotProg"
             /\ p >= 7 => w # "eotProg"
             /\ p = 9 /\ w \in RxWords => w = "rxPage"
<1>0. p \in {1, 2, 3, 4, 5, 6, 7, 8, 9, 10, 11}
  BY StepsFacts
<1>1. CASE p = 1
  <2>0. q = Q(<< >>, 0, 0)
    BY <1>1 DEF ChanAt, Ends
  <2>1. CASE q = Q(<< >>, 0, 0)
    BY <1>1, <2>1 DEF ChanAt, Ends, Q, RxWords, ProgIn
  <2>. QED
    BY <2>0, <2>1
<1>2. CASE p = 2
  <2>0. q = Q(<< "rx", "eot" >>, 1, 0) \/ q = Q(<< "eot" >>, 0, 0) \/ q = Q(<< >>, 0, 0)
    BY <1>2 DEF ChanAt, Ends
  <2>1. CASE q = Q(<< "rx", "eot" >>, 1, 0)
    BY <1>2, <2>1 DEF ChanAt, Ends, Q, RxWords, ProgIn
  <2>2. CASE q = Q(<< "eot" >>, 0, 0)
    BY <1>2, <2>2 DEF ChanAt, Ends, Q, RxWords, ProgIn
  <2>3. CASE q = Q(<< >>, 0, 0)
    BY <1>2, <2>3 DEF ChanAt, Ends, Q, RxWords, ProgIn
  <2>. QED
    BY <2>0, <2>1, <2>2, <2>3
<1>3. CASE p = 3
  <2>0. q = Q(<< "eot" >>, 0, 0) \/ q = Q(<< >>, 0, 0)
    BY <1>3 DEF ChanAt, Ends
  <2>1. CASE q = Q(<< "eot" >>, 0, 0)
    BY <1>3, <2>1 DEF ChanAt, Ends, Q, RxWords, ProgIn
  <2>2. CASE q = Q(<< >>, 0, 0)
    BY <1>3, <2>2 DEF ChanAt, Ends, Q, RxWords, ProgIn
  <2>. QED
    BY <2>0, <2>1, <2>2
<1>4. CASE p = 4
  <2>0. q = Q(<< "eot", "tx", "eotProg" >>, 0, 1) \/ q = Q(<< "tx", "eotProg" >>, 0, 1) \/ q = Q(<< "eotProg" >>, 0, 0) \/ q = Q(<< >>, 0, 0)
    BY <1>4 DEF ChanAt, Ends
  <2>1. CASE q = Q(<< "eot", "tx", "eotProg" >>, 0, 1)
    BY <1>4, <2>1 DEF ChanAt, Ends, Q, RxWords, ProgIn
  <2>2. CASE q = Q(<< "tx", "eotProg" >>, 0, 1)
    BY <1>4, <2>2 DEF ChanAt, Ends, Q, RxWords, ProgIn
  <2>3. CASE q = Q(<< "eotProg" >>, 0, 0)
    BY <1>4, <2>3 DEF ChanAt, Ends, Q, RxWords, ProgIn
  <2>4. CASE q = Q(<< >>, 0, 0)
    BY <1>4, <2>4 DEF ChanAt, Ends, Q, RxWords, ProgIn
  <2>. QED
    BY <2>0, <2>1, <2>2, <2>3, <2>4
<1>5. CASE p = 5
  <2>0. q = Q(<< "eotProg" >>, 0, 0) \/ q = Q(<< "eot" >>, 0, 0) \/ q = Q(<< >>, 0, 0)
    BY <1>5 DEF ChanAt, Ends
  <2>1. CASE q = Q(<< "eotProg" >>, 0, 0)
    BY <1>5, <2>1 DEF ChanAt, Ends, Q, RxWords, ProgIn
  <2>2. CASE q = Q(<< "eot" >>, 0, 0)
    BY <1>5, <2>2 DEF ChanAt, Ends, Q, RxWords, ProgIn
  <2>3. CASE q = Q(<< >>, 0, 0)
    BY <1>5, <2>3 DEF ChanAt, Ends, Q, RxWords, ProgIn
  <2>. QED
    BY <2>0, <2>1, <2>2, <2>3
<1>6. CASE p = 6
  <2>0. q = Q(<< "eotProg", "rxStatus", "eot" >>, 1, 0) \/ q = Q(<< "eot", "rxStatus", "eot" >>, 1, 0) \/ q = Q(<< "rxStatus", "eot" >>, 1, 0) \/ q = Q(<< "eot" >>, 0, 0) \/ q = Q(<< >>, 0, 0)
    BY <1>6 DEF ChanAt, Ends
  <2>1. CASE q = Q(<< "eotProg", "rxStatus", "eot" >>, 1, 0)
    BY <1>6, <2>1 DEF ChanAt, Ends, Q, RxWords, ProgIn
  <2>2. CASE q = Q(<< "eot", "rxStatus", "eot" >>, 1, 0)
    BY <1>6, <2>2 DEF ChanAt, Ends, Q, RxWords, ProgIn
  <2>3. CASE q = Q(<< "rxStatus", "eot" >>, 1, 0)
    BY <1>6, <2>3 DEF ChanAt, Ends, Q, RxWords, ProgIn
  <2>4. CASE q = Q(<< "eot" >>, 0, 0)
    BY <1>6, <2>4 DEF ChanAt, Ends, Q, RxWords, ProgIn
  <2>5. CASE q = Q(<< >>, 0, 0)
    BY <1>6, <2>5 DEF ChanAt, Ends, Q, RxWords, ProgIn
  <2>. QED
    BY <2>0, <2>1, <2>2, <2>3, <2>4, <2>5
<1>7. CASE p = 7
  <2>0. q = Q(<< "eot" >>, 0, 0) \/ q = Q(<< >>, 0, 0)
    BY <1>7 DEF ChanAt, Ends
  <2>1. CASE q = Q(<< "eot" >>, 0, 0)
    BY <1>7, <2>1 DEF ChanAt, Ends, Q, RxWords, ProgIn
  <2>2. CASE q = Q(<< >>, 0, 0)
    BY <1>7, <2>2 DEF ChanAt, Ends, Q, RxWords, ProgIn
  <2>. QED
    BY <2>0, <2>1, <2>2
<1>8. CASE p = 8
  <2>0. q = Q(<< "eot" >>, 0, 0) \/ q = Q(<< >>, 0, 0)
    BY <1>8 DEF ChanAt, Ends
  <2>1. CASE q = Q(<< "eot" >>, 0, 0)
    BY <1>8, <2>1 DEF ChanAt, Ends, Q, RxWords, ProgIn
  <2>2. CASE q = Q(<< >>, 0, 0)
    BY <1>8, <2>2 DEF ChanAt, Ends, Q, RxWords, ProgIn
  <2>. QED
    BY <2>0, <2>1, <2>2
<1>9. CASE p = 9
  <2>0. q = Q(<< "eot", "tx", "rxPage", "eot" >>, 1, 1) \/ q = Q(<< "tx", "rxPage", "eot" >>, 1, 1) \/ q = Q(<< "rxPage", "eot" >>, 1, 0) \/ q = Q(<< "eot" >>, 0, 0) \/ q = Q(<< >>, 0, 0)
    BY <1>9 DEF ChanAt, Ends
  <2>1. CASE q = Q(<< "eot", "tx", "rxPage", "eot" >>, 1, 1)
    BY <1>9, <2>1 DEF ChanAt, Ends, Q, RxWords, ProgIn
  <2>2. CASE q = Q(<< "tx", "rxPage", "eot" >>, 1, 1)
    BY <1>9, <2>2 DEF ChanAt, Ends, Q, RxWords, ProgIn
  <2>3. CASE q = Q(<< "rxPage", "eot" >>, 1, 0)
    BY <1>9, <2>3 DEF ChanAt, Ends, Q, RxWords, ProgIn
  <2>4. CASE q = Q(<< "eot" >>, 0, 0)
    BY <1>9, <2>4 DEF ChanAt, Ends, Q, RxWords, ProgIn
  <2>5. CASE q = Q(<< >>, 0, 0)
    BY <1>9, <2>5 DEF ChanAt, Ends, Q, RxWords, ProgIn
  <2>. QED
    BY <2>0, <2>1, <2>2, <2>3, <2>4, <2>5
<1>10. CASE p = 10
  <2>0. q = Q(<< "eot" >>, 0, 0) \/ q = Q(<< >>, 0, 0)
    BY <1>10 DEF ChanAt, Ends
  <2>1. CASE q = Q(<< "eot" >>, 0, 0)
    BY <1>10, <2>1 DEF ChanAt, Ends, Q, RxWords, ProgIn
  <2>2. CASE q = Q(<< >>, 0, 0)
    BY <1>10, <2>2 DEF ChanAt, Ends, Q, RxWords, ProgIn
  <2>. QED
    BY <2>0, <2>1, <2>2
<1>11. CASE p = 11
  <2>0. q = Q(<< "eot" >>, 0, 0) \/ q = Q(<< >>, 0, 0)
    BY <1>11 DEF ChanAt, Ends
  <2>1. CASE q = Q(<< "eot" >>, 0, 0)
    BY <1>11, <2>1 DEF ChanAt, Ends, Q, RxWords, ProgIn
  <2>2. CASE q = Q(<< >>, 0, 0)
    BY <1>11, <2>2 DEF ChanAt, Ends, Q, RxWords, ProgIn
  <2>. QED
    BY <2>0, <2>1, <2>2
<1>. QED
  BY <1>0, <1>1, <1>2, <1>3, <1>4, <1>5, <1>6, <1>7, <1>8, <1>9, <1>10, <1>11,
     Zenon

\* What the channels may hold at each statement is well typed.
LEMMA ChanTypes ==
  ASSUME NEW p \in 1..11, NEW q \in ChanAt(p)
  PROVE  /\ q.cmd \in Seq(RxWords \cup {"tx", "eot", "eotProg"})
         /\ q.rx \in Nat /\ q.tx \in Nat
<1>1. q = Q(<< >>, 0, 0)
      \/ q = Q(<< "rx", "eot" >>, 1, 0)
      \/ q = Q(<< "eot" >>, 0, 0)
      \/ q = Q(<< "eot", "tx", "eotProg" >>, 0, 1)
      \/ q = Q(<< "tx", "eotProg" >>, 0, 1)
      \/ q = Q(<< "eotProg" >>, 0, 0)
      \/ q = Q(<< "eotProg", "rxStatus", "eot" >>, 1, 0)
      \/ q = Q(<< "eot", "rxStatus", "eot" >>, 1, 0)
      \/ q = Q(<< "rxStatus", "eot" >>, 1, 0)
      \/ q = Q(<< "eot", "tx", "rxPage", "eot" >>, 1, 1)
      \/ q = Q(<< "tx", "rxPage", "eot" >>, 1, 1)
      \/ q = Q(<< "rxPage", "eot" >>, 1, 0)
  BY DEF ChanAt, Ends
<1>2. CASE q = Q(<< >>, 0, 0)
  BY <1>2 DEF Q, RxWords
<1>3. CASE q = Q(<< "rx", "eot" >>, 1, 0)
  BY <1>3 DEF Q, RxWords
<1>4. CASE q = Q(<< "eot" >>, 0, 0)
  BY <1>4 DEF Q, RxWords
<1>5. CASE q = Q(<< "eot", "tx", "eotProg" >>, 0, 1)
  BY <1>5 DEF Q, RxWords
<1>6. CASE q = Q(<< "tx", "eotProg" >>, 0, 1)
  BY <1>6 DEF Q, RxWords
<1>7. CASE q = Q(<< "eotProg" >>, 0, 0)
  BY <1>7 DEF Q, RxWords
<1>8. CASE q = Q(<< "eotProg", "rxStatus", "eot" >>, 1, 0)
  BY <1>8 DEF Q, RxWords
<1>9. CASE q = Q(<< "eot", "rxStatus", "eot" >>, 1, 0)
  BY <1>9 DEF Q, RxWords
<1>10. CASE q = Q(<< "rxStatus", "eot" >>, 1, 0)
  BY <1>10 DEF Q, RxWords
<1>11. CASE q = Q(<< "eot", "tx", "rxPage", "eot" >>, 1, 1)
  BY <1>11 DEF Q, RxWords
<1>12. CASE q = Q(<< "tx", "rxPage", "eot" >>, 1, 1)
  BY <1>12 DEF Q, RxWords
<1>13. CASE q = Q(<< "rxPage", "eot" >>, 1, 0)
  BY <1>13 DEF Q, RxWords
<1>. QED
  BY <1>1, <1>2, <1>3, <1>4, <1>5, <1>6, <1>7, <1>8, <1>9, <1>10, <1>11, <1>12, <1>13

\* A wait returns once its event came, when the command's data jobs are
\* done; the statements after a wait, and the loop test, see what a
\* finished command leaves, with the page program no longer queued.
LEMMA ChanMoves ==
  /\ \A p \in {2, 4, 6, 9} : \A q \in ChanAt(p) :
       q.rx = 0 /\ q.tx = 0 => q \in ChanAt(p + 1)
  /\ \A p \in {3, 5, 7, 10} : \A q \in ChanAt(p) : q.rx = 0 /\ q.tx = 0
  /\ \A p \in {7, 8, 10, 11} : ChanAt(p) = Ends
  /\ \A q \in Ends : ~ProgIn(q.cmd)
  /\ Ends \subseteq ChanAt(5)
<1>1. \A q \in ChanAt(2) : q.rx = 0 /\ q.tx = 0 => q \in ChanAt(3)
  BY DEF ChanAt, Ends, Q
<1>2. \A q \in ChanAt(4) : q.rx = 0 /\ q.tx = 0 => q \in ChanAt(5)
  BY DEF ChanAt, Ends, Q
<1>3. \A q \in ChanAt(6) : q.rx = 0 /\ q.tx = 0 => q \in ChanAt(7)
  BY DEF ChanAt, Ends, Q
<1>4. \A q \in ChanAt(9) : q.rx = 0 /\ q.tx = 0 => q \in ChanAt(10)
  BY DEF ChanAt, Ends, Q
<1>5. \A p \in {3, 5, 7, 10} : \A q \in ChanAt(p) : q.rx = 0 /\ q.tx = 0
  BY DEF ChanAt, Ends, Q
<1>6. \A q \in Ends : ~ProgIn(q.cmd)
  BY DEF Ends, Q, ProgIn
<1>7. \A p \in {7, 8, 10, 11} : ChanAt(p) = Ends
  BY DEF ChanAt
<1>8. Ends \subseteq ChanAt(5)
  BY DEF ChanAt
<1>9. \A p \in {2, 4, 6, 9} : \A q \in ChanAt(p) :
        q.rx = 0 /\ q.tx = 0 => q \in ChanAt(p + 1)
  BY <1>1, <1>2, <1>3, <1>4
<1>. QED
  BY <1>5, <1>6, <1>7, <1>8, <1>9

LEMMA PollInvInit == PollInit => PollInv
<1> SUFFICES ASSUME PollInit PROVE PollInv
  OBVIOUS
<1>1. pend \in BOOLEAN /\ wip \in BOOLEAN /\ ~pend /\ ~wip
  BY Zenon DEF PollInit
<1>2. Chan \in ChanAt(pc) /\ PollTypeOK
  BY <1>1, StepsFacts DEF PollInit, Chan, ChanAt, Q, PollTypeOK
<1>3. /\ wl = "none" /\ evMask = {} /\ pc = 1 /\ rxJobs = 0 /\ txJobs = 0
      /\ error = 0
  BY DEF PollInit
<1>. QED
  BY <1>1, <1>2, <1>3 DEF PollInv

\* Every step of main(), of the uDMA and SPIM, and of the flash keeps PollInv.
LEMMA PollInvStep == PollInv /\ [PollNext]_pollVars => PollInv'
<1> SUFFICES ASSUME PollInv, [PollNext]_pollVars PROVE PollInv'
  OBVIOUS
<1>0. /\ pc \in 1..11 /\ Chan \in ChanAt(pc)
      /\ wip_write \in {0, 1, 3} /\ pend \in BOOLEAN /\ wip \in BOOLEAN
      /\ wl \in {"none", "spin", "clear"}
      /\ rx_page \in {"none", "page", "busy"}
  BY StepsFacts DEF PollInv, PollTypeOK
\* The type of the next state follows from where the channels are.
<1>t. ASSUME pc' \in 1..11, Chan' \in ChanAt(pc'),
             wl' \in {"none", "spin", "clear"}, evMask' \subseteq {"RX", "TX"},
             pend' \in BOOLEAN, wip' \in BOOLEAN, wip_write' \in {0, 1, 3},
             rx_page' \in {"none", "page", "busy"}, error' = 0
      PROVE  PollTypeOK'
  <2>1. cmdCh' \in Seq(RxWords \cup {"tx", "eot", "eotProg"})
        /\ rxJobs' \in Nat /\ txJobs' \in Nat
    BY <1>t, ChanTypes DEF Chan, Q
  <2>. QED
    BY <1>t, <2>1, StepsFacts DEF PollTypeOK
<1>1. CASE Enqueue
  <2>1. pc \in {1, 3, 5, 8} /\ wl = "none" /\ evMask = {} /\ ~pend
    BY <1>0, <1>1, StepsFacts DEF Enqueue, PollInv
  <2>. DEFINE k == Steps[pc].arg
  <2>2. /\ Chan' = Q(cmdCh \o Words(k),
                     rxJobs + (IF UsesRx(k) THEN 1 ELSE 0),
                     txJobs + (IF UsesTx(k) THEN 1 ELSE 0))
        /\ pc' = pc + 1
        /\ UNCHANGED <<wl, evMask, pend, wip, wip_write, rx_page, error>>
    BY <1>1 DEF Enqueue, Chan
  <2>3. /\ Chan' \in ChanAt(pc')
        /\ ProgQueued' => pc = 3 \/ ProgQueued
        /\ pc = 8 => rxJobs' = 1
    BY <1>0, <2>1, <2>2, EnqChan DEF Chan, Q, ProgQueued
  <2>4. pc = 5 => rxJobs' # 0
    BY <1>0, <2>2, ChanTypes, StepsFacts DEF Chan, Q, UsesRx
  <2>5. PollTypeOK'
    <3>1. /\ pc' \in 1..11 /\ Chan' \in ChanAt(pc')
          /\ wl' \in {"none", "spin", "clear"} /\ evMask' \subseteq {"RX", "TX"}
          /\ wip_write' \in {0, 1, 3} /\ rx_page' \in {"none", "page", "busy"}
          /\ error' = 0
      BY <1>0, <2>1, <2>2, <2>3 DEF PollInv, PollTypeOK
    <3>2. pend' \in BOOLEAN /\ wip' \in BOOLEAN
      BY <1>0, <2>1, <2>2, <2>3, Zenon DEF PollInv, PollTypeOK
    <3>. QED
      BY <3>1, <3>2, <1>t
  <2>. QED
    BY <1>0, <2>1, <2>2, <2>3, <2>4, <2>5 DEF PollInv
<1>2. CASE LoopTest
  <2>1. pc = 7 /\ wl = "none" /\ evMask = {} /\ ~pend
        /\ Chan \in Ends
    BY <1>0, <1>2, StepsFacts, ChanMoves DEF LoopTest, PollInv
  <2>2. /\ wip_write' = wip_write % 2
        /\ pc' = IF wip_write % 2 # 0 THEN 5 ELSE 8
        /\ UNCHANGED <<wl, cmdCh, rxJobs, txJobs, evMask, pend, wip, rx_page, error>>
    BY <1>2, <2>1, StepsFacts DEF LoopTest
  <2>3. rxJobs = 0 /\ txJobs = 0 /\ ~ProgQueued
    BY <2>1, ChanMoves DEF Chan, Q, ProgQueued, Ends
  <2>4. pc' = 8 => ~wip
    BY <1>0, <2>1, <2>2, <2>3 DEF PollInv
  <2>5. Chan' \in ChanAt(pc') /\ wip_write' \in {0, 1, 3}
    BY <1>0, <2>1, <2>2, ChanMoves DEF Chan
  <2>6. PollTypeOK'
    <3>1. /\ pc' \in 1..11 /\ Chan' \in ChanAt(pc')
          /\ wl' \in {"none", "spin", "clear"} /\ evMask' \subseteq {"RX", "TX"}
          /\ wip_write' \in {0, 1, 3} /\ rx_page' \in {"none", "page", "busy"}
          /\ error' = 0
      BY <1>0, <2>1, <2>2, <2>5 DEF PollInv, PollTypeOK
    <3>2. pend' \in BOOLEAN /\ wip' \in BOOLEAN
      BY <1>0, <2>1, <2>2, <2>5, Zenon DEF PollInv, PollTypeOK
    <3>. QED
      BY <3>1, <3>2, <1>t
  <2>. QED
    BY <1>0, <2>1, <2>2, <2>3, <2>4, <2>5, <2>6 DEF PollInv, ProgQueued
<1>3. CASE Check
  <2>1. pc = 10 /\ wl = "none" /\ evMask = {} /\ ~pend /\ rx_page = "page"
    BY <1>0, <1>3, StepsFacts DEF Check, PollInv
  <2>2. /\ error' = error /\ pc' = 11
        /\ UNCHANGED <<wl, cmdCh, rxJobs, txJobs, evMask, pend, wip, wip_write, rx_page>>
    BY <1>3, <2>1 DEF Check
  <2>3. Chan' \in ChanAt(pc')
    BY <1>0, <2>1, <2>2, ChanMoves DEF Chan
  <2>4. PollTypeOK'
    <3>1. /\ pc' \in 1..11 /\ Chan' \in ChanAt(pc')
          /\ wl' \in {"none", "spin", "clear"} /\ evMask' \subseteq {"RX", "TX"}
          /\ wip_write' \in {0, 1, 3} /\ rx_page' \in {"none", "page", "busy"}
          /\ error' = 0
      BY <1>0, <2>1, <2>2, <2>3 DEF PollInv, PollTypeOK
    <3>2. pend' \in BOOLEAN /\ wip' \in BOOLEAN
      BY <1>0, <2>1, <2>2, <2>3, Zenon DEF PollInv, PollTypeOK
    <3>. QED
      BY <3>1, <3>2, <1>t
  <2>. QED
    BY <1>0, <2>1, <2>2, <2>3, <2>4 DEF PollInv
<1>4. CASE WaitEnter
  <2>1. pc \in {2, 4, 6, 9} /\ wl = "none" /\ evMask = {} /\ ~pend
    BY <1>0, <1>4, StepsFacts DEF WaitEnter, PollInv
  <2>2. /\ evMask' = {Steps[pc].arg} /\ wl' = "spin"
        /\ Steps[pc].arg \in {"RX", "TX"}
        /\ UNCHANGED <<pc, cmdCh, rxJobs, txJobs, pend, wip, wip_write, rx_page, error>>
    BY <1>4, <2>1, StepsFacts DEF WaitEnter
  <2>3. PollTypeOK'
    <3>1. /\ pc' \in 1..11 /\ Chan' \in ChanAt(pc')
          /\ wl' \in {"none", "spin", "clear"} /\ evMask' \subseteq {"RX", "TX"}
          /\ wip_write' \in {0, 1, 3} /\ rx_page' \in {"none", "page", "busy"}
          /\ error' = 0
      BY <1>0, <2>1, <2>2 DEF PollInv, PollTypeOK, Chan
    <3>2. pend' \in BOOLEAN /\ wip' \in BOOLEAN
      BY <1>0, <2>1, <2>2, Zenon DEF PollInv, PollTypeOK, Chan
    <3>. QED
      BY <3>1, <3>2, <1>t
  <2>. QED
    BY <1>0, <2>1, <2>2, <2>3 DEF PollInv, ProgQueued, Chan
<1>5. CASE WaitSpin
  <2>1. wl = "spin" /\ pend /\ wl' = "clear"
        /\ UNCHANGED <<pc, cmdCh, rxJobs, txJobs, evMask, pend, wip, wip_write,
                       rx_page, error>>
    BY <1>5 DEF WaitSpin
  <2>. QED
    BY <2>1 DEF PollInv, PollTypeOK, ProgQueued, Chan
<1>6. CASE WaitExit
  <2>1. /\ wl = "clear" /\ pend /\ rxJobs = 0 /\ txJobs = 0
        /\ pc \in {2, 4, 6, 9} /\ evMask = {Steps[pc].arg}
    BY <1>6 DEF WaitExit, PollInv
  <2>2. /\ pend' = FALSE /\ evMask' = {} /\ wl' = "none" /\ pc' = pc + 1
        /\ UNCHANGED <<cmdCh, rxJobs, txJobs, wip, wip_write, rx_page, error>>
    BY <1>6, <2>1 DEF WaitExit
  <2>3. Chan' \in ChanAt(pc')
    BY <1>0, <2>1, <2>2, ChanMoves DEF Chan, Q
  <2>4. PollTypeOK'
    <3>1. /\ pc' \in 1..11 /\ Chan' \in ChanAt(pc')
          /\ wl' \in {"none", "spin", "clear"} /\ evMask' \subseteq {"RX", "TX"}
          /\ wip_write' \in {0, 1, 3} /\ rx_page' \in {"none", "page", "busy"}
          /\ error' = 0
      BY <1>0, <2>1, <2>2, <2>3 DEF PollInv, PollTypeOK
    <3>2. pend' \in BOOLEAN /\ wip' \in BOOLEAN
      BY <1>0, <2>1, <2>2, <2>3, Zenon DEF PollInv, PollTypeOK
    <3>. QED
      BY <3>1, <3>2, <1>t
  <2>. QED
    BY <1>0, <2>1, <2>2, <2>3, <2>4 DEF PollInv, ProgQueued
<1>7. CASE ExecCmd
  <2>. DEFINE w == Head(cmdCh)
              rx == w \in RxWords
              tx == w = "tx"
  <2>1. /\ cmdCh # << >>
        /\ rx => rxJobs > 0
        /\ tx => txJobs > 0
        /\ cmdCh' = Tail(cmdCh)
        /\ rxJobs' = rxJobs - (IF rx THEN 1 ELSE 0)
        /\ txJobs' = txJobs - (IF tx THEN 1 ELSE 0)
        /\ pend' = (pend \/ (rx /\ "RX" \in evMask) \/ (tx /\ "TX" \in evMask))
        /\ wip' = (wip \/ w = "eotProg")
        /\ wip_write' = IF w = "rxStatus" THEN StatusByte ELSE wip_write
        /\ rx_page' = IF w = "rxPage" THEN (IF wip THEN "busy" ELSE "page")
                      ELSE rx_page
        /\ UNCHANGED <<pc, wl, evMask, error>>
    BY <1>7 DEF ExecCmd
  <2>2. /\ Chan' \in ChanAt(pc)
        /\ rx /\ pc \in {2, 6, 9} => rxJobs' = 0 /\ txJobs' = 0
        /\ tx /\ pc = 4 => rxJobs' = 0 /\ txJobs' = 0
        /\ w = "eotProg" => pc \in 4..6 /\ ~ProgQueued'
        /\ ProgQueued' => ProgQueued
        /\ pc \in 6..7 /\ rx => w = "rxStatus"
        /\ pc \in 6..7 /\ rxJobs = 0 => w # "eotProg"
        /\ pc >= 7 => w # "eotProg"
        /\ pc = 9 /\ rx => w = "rxPage"
    <3>. DEFINE n == Q(Tail(cmdCh),
                       rxJobs - (IF w \in RxWords THEN 1 ELSE 0),
                       txJobs - (IF w = "tx" THEN 1 ELSE 0))
    <3>1. Chan \in ChanAt(pc) /\ Chan.cmd = cmdCh /\ Chan.rx = rxJobs
          /\ Chan.tx = txJobs
      BY <1>0 DEF Chan, Q
    <3>2. /\ n \in ChanAt(pc)
          /\ w \in RxWords /\ pc \in {2, 6, 9} => n.rx = 0 /\ n.tx = 0
          /\ w = "tx" /\ pc = 4 => n.rx = 0 /\ n.tx = 0
          /\ w = "eotProg" => pc \in 4..6 /\ ~ProgIn(n.cmd)
          /\ ProgIn(n.cmd) => ProgIn(cmdCh)
          /\ pc \in 6..7 /\ w \in RxWords => w = "rxStatus"
          /\ pc \in 6..7 /\ rxJobs = 0 => w # "eotProg"
          /\ pc >= 7 => w # "eotProg"
          /\ pc = 9 /\ w \in RxWords => w = "rxPage"
      BY <1>0, <2>1, <3>1, ExecChan, StepsFacts
    <3>3. Chan' = n /\ n.cmd = cmdCh' /\ n.rx = rxJobs' /\ n.tx = txJobs'
      BY <2>1 DEF Chan, Q
    <3>. QED
      BY <2>1, <3>2, <3>3 DEF ProgQueued
  <2>3. wip' \in BOOLEAN /\ pend' \in BOOLEAN
    BY <1>0, <2>1, Zenon
  <2>4. wip_write' \in {0, 1, 3} /\ rx_page' \in {"none", "page", "busy"}
    BY <1>0, <2>1 DEF StatusByte
  <2>5. pend' => rxJobs' = 0 /\ txJobs' = 0
    <3>1. CASE pend
      BY <3>1, <2>1 DEF PollInv
    <3>2. CASE rx /\ "RX" \in evMask
      <4>1. wl # "none" /\ pc \in {2, 6, 9}
        BY <3>2, StepsFacts DEF PollInv
      <4>. QED
        BY <2>2, <3>2, <4>1
    <3>3. CASE tx /\ "TX" \in evMask
      <4>1. wl # "none" /\ pc = 4
        BY <3>3, StepsFacts DEF PollInv
      <4>. QED
        BY <2>2, <3>3, <4>1
    <3>. QED
      BY <2>1, <3>1, <3>2, <3>3
  <2>6. (pc <= 3 \/ ProgQueued') => ~wip'
    <3>1. CASE w = "eotProg"
      <4>1. ~(pc <= 3) /\ ~ProgQueued'
        BY <2>2, <3>1
      <4>. QED
        BY <4>1, Zenon
    <3>2. CASE w # "eotProg"
      <4>1. wip' = wip
        BY <2>1, <3>2, Zenon DEF PollInv, PollTypeOK
      <4>. QED
        BY <2>2, <4>1 DEF PollInv
    <3>. QED
      BY <3>1, <3>2
  <2>7. (pc \in 6..7 /\ rxJobs' = 0) => (wip_write' = 0 => ~wip')
    <3>1. CASE w = "rxStatus"
      BY <2>1, <2>2, <3>1, <1>0 DEF StatusByte, RxWords
    <3>2. CASE w # "rxStatus"
      BY <2>1, <2>2, <3>2, <1>0 DEF PollInv, RxWords
    <3>. QED
      BY <3>1, <3>2
  <2>8. pc >= 8 => ~wip'
    <3>1. SUFFICES ASSUME pc >= 8 PROVE ~wip'
      OBVIOUS
    <3>2. w # "eotProg" /\ ~wip
      BY <2>2, <3>1 DEF PollInv
    <3>. QED
      BY <2>1, <3>2, Zenon
  <2>9. ((pc = 9 /\ rxJobs' = 0) \/ pc >= 10) => rx_page' = "page"
    <3>1. CASE pc = 9 /\ w = "rxPage"
      BY <2>1, <3>1 DEF PollInv
    <3>2. CASE ~(pc = 9 /\ w = "rxPage")
      <4>1. pc >= 10 => rx_page' = rx_page
        BY <1>0, <2>1, <2>2, <3>2, ChanMoves DEF Chan, Q, Ends
      <4>2. pc = 9 /\ rxJobs' = 0 => rxJobs = 0 /\ rx_page' = rx_page
        BY <2>1, <2>2, <3>2 DEF RxWords
      <4>. QED
        BY <4>1, <4>2 DEF PollInv
    <3>. QED
      BY <3>1, <3>2
  <2>10. PollTypeOK'
    <3>1. /\ pc' \in 1..11 /\ Chan' \in ChanAt(pc')
          /\ wl' \in {"none", "spin", "clear"} /\ evMask' \subseteq {"RX", "TX"}
          /\ wip_write' \in {0, 1, 3} /\ rx_page' \in {"none", "page", "busy"}
          /\ error' = 0
      BY <1>0, <2>1, <2>2, <2>3, <2>4 DEF PollInv, PollTypeOK
    <3>2. pend' \in BOOLEAN /\ wip' \in BOOLEAN
      BY <1>0, <2>1, <2>2, <2>3, <2>4, Zenon DEF PollInv, PollTypeOK
    <3>. QED
      BY <3>1, <3>2, <1>t
  <2>. QED
    BY <2>1, <2>2, <2>3, <2>5, <2>6, <2>7, <2>8, <2>9, <2>10 DEF PollInv
<1>8. CASE FlashDone
  <2>1. wip' = FALSE
        /\ UNCHANGED <<pc, wl, cmdCh, rxJobs, txJobs, evMask, pend, wip_write,
                       rx_page, error>>
    BY <1>8 DEF FlashDone
  <2>2. PollTypeOK'
    <3>1. /\ pc' \in 1..11 /\ Chan' \in ChanAt(pc')
          /\ wl' \in {"none", "spin", "clear"} /\ evMask' \subseteq {"RX", "TX"}
          /\ wip_write' \in {0, 1, 3} /\ rx_page' \in {"none", "page", "busy"}
          /\ error' = 0
      BY <1>0, <2>1 DEF PollInv, PollTypeOK, Chan
    <3>2. pend' \in BOOLEAN /\ wip' \in BOOLEAN
      BY <1>0, <2>1, Zenon DEF PollInv, PollTypeOK, Chan
    <3>. QED
      BY <3>1, <3>2, <1>t
  <2>. QED
    BY <2>1, <2>2 DEF PollInv, ProgQueued, Chan
<1>9. CASE UNCHANGED pollVars
  BY <1>9 DEF pollVars, PollInv, PollTypeOK, ProgQueued, Chan
<1>. QED
  BY <1>1, <1>2, <1>3, <1>4, <1>5, <1>6, <1>7, <1>8, <1>9 DEF PollNext, Main


(* The variables of test_spim_flash_interrupt_ver3.c keep their types: the *)
(* statement counter stays in main(), the CMD channel holds only words of  *)
(* the four command buffers, and wip_write only the status bytes the RX    *)
(* channel can write.                                                      *)
THEOREM PollTypeCorrect == PollSpec => []PollTypeOK
<1>1. PollInv => PollTypeOK
  BY DEF PollInv
<1>. QED
  BY PollInvInit, PollInvStep, <1>1, PTL DEF PollSpec

(* When a wait_soc_event() of the ver3 test returns to main(), the RX or   *)
(* TX transfer it waited for has left no job on either uDMA channel, so    *)
(* the next command buffer is queued only after the previous one is done.  *)
THEOREM WaitSeesCompletionCorrect == PollSpec => []WaitSeesCompletion
<1>1. PollInv => WaitSeesCompletion
  <2>1. SUFFICES ASSUME PollInv, pc > 1, wl = "none", Steps[pc - 1].op = "wait"
                 PROVE  rxJobs = 0 /\ txJobs = 0
    BY DEF WaitSeesCompletion
  <2>2. pc - 1 \in {2, 4, 6, 9}
    BY <2>1, StepsFacts DEF PollInv, PollTypeOK
  <2>3. pc \in {3, 5, 7, 10} /\ Chan \in ChanAt(pc)
    BY <2>1, <2>2 DEF PollInv
  <2>. QED
    BY <2>3, ChanMoves DEF Chan, Q
<1>. QED
  BY PollInvInit, PollInvStep, <1>1, PTL DEF PollSpec

(* The ver3 test returns error = 0 from main(): the page it reads back at  *)
(* line 388 comes from a flash that has finished the page program, so the  *)
(* compare at line 403 never counts a mismatch.                            *)
THEOREM ReturnsZeroCorrect == PollSpec => []ReturnsZero
<1>1. PollInv => ReturnsZero
  BY DEF PollInv, ReturnsZero
<1>. QED
  BY PollInvInit, PollInvStep, <1>1, PTL DEF PollSpec

=============================================================================
