------------------------- MODULE SpiDriverAbstract -------------------------
(***************************************************************************)
(* What the SPI driver promises its client (spec.md sections 3 and 5):    *)
(* one transaction at a time.  A transaction is accepted only while the   *)
(* driver is idle and is handed to the hardware; the hardware finishes    *)
(* it; the completion interrupt then reports it, or an abort stops the    *)
(* hardware at once.  busy is what GetStatus reports, inflight whether    *)
(* the hardware is still working on the transaction.                      *)
(***************************************************************************)
VARIABLES busy, inflight

vars == <<busy, inflight>>

TypeOK == busy \in BOOLEAN /\ inflight \in BOOLEAN

Init == busy = FALSE /\ inflight = FALSE

\* Send, Receive or Transfer accepted by an idle driver.
Start == ~busy /\ busy' = TRUE /\ inflight' = TRUE

\* The hardware executes the last word of the transaction.
Finish == inflight /\ inflight' = FALSE /\ UNCHANGED busy

\* The completion path clears busy once the hardware is done.
Complete == busy /\ ~inflight /\ busy' = FALSE /\ UNCHANGED inflight

\* AbortTransfer: "synchronous and immediate", busy = false.
Abort == busy /\ busy' = FALSE /\ inflight' = FALSE

Next == Start \/ Finish \/ Complete \/ Abort

Spec == Init /\ [][Next]_vars

\* The hardware does not stall and a raised completion is taken.
FairSpec == Spec /\ WF_vars(Finish) /\ WF_vars(Complete)

=============================================================================
