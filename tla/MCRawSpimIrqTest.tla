-------------------------- MODULE MCRawSpimIrqTest --------------------------
(* The interrupt-handler flash test with the uDMA's two jobs per channel   *)
(* (current and pending) and var counted up to 2.                          *)
EXTENDS RawSpimIrqTest
=============================================================================
