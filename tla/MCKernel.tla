------------------------------ MODULE MCKernel ------------------------------
(***************************************************************************)
(* Instance of Kernel for TLC.                                             *)
(***************************************************************************)
EXTENDS Kernel
=============================================================================
