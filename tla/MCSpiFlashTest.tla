--------------------------- MODULE MCSpiFlashTest ---------------------------
(* test.c on SPIM0: one accepted bus speed and 8-bit words, as the test   *)
(* configures them; transfers of one or "many" (two) items.                *)
EXTENDS SpiFlashTest

MCTestBauds == {3}
MCTestBits == {8}
MCTestUninitDivs == {77}
=============================================================================
