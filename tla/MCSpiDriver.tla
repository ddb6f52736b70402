---------------------------- MODULE MCSpiDriver ----------------------------
(* SPIM0 with a 1024 Hz peripheral clock: bus speeds at the two edges of  *)
(* the accepted range (2 = freq >> 9 is rejected, 3 is the slowest         *)
(* accepted, 1024 = freq gives a zero divider), word sizes of every class  *)
(* and an out-of-range one, up to two items per transfer.                  *)
EXTENDS SpiDriver

MCBauds == {2, 3, 512, 1024}
MCDataBits == {8, 16, 40}
MCUninitDivs == {77}

\* For the runs that let the client abort in flight: one accepted speed and
\* one word size keep the hardware interleavings the subject.
MCOneBaud == {3}
MCOneBits == {8}
=============================================================================
