--------------------------- MODULE MCClosePosition --------------------------
(***************************************************************************)
(* A small instance of ClosePosition for TLC.                              *)
(***************************************************************************)
EXTENDS ClosePosition

LongOrShort == {-1, 2}
=============================================================================
