----------------------------- MODULE MCHdDriver -----------------------------
(***************************************************************************)
(* Instances of HdDriver for TLC.                                          *)
(***************************************************************************)
EXTENDS HdDriver

TwoClientFiles == {0, 1, 2}
=============================================================================
