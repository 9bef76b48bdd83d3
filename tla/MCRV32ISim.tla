------------------------------ MODULE MCRV32ISim ------------------------------
(***************************************************************************)
(* Model-checking instance of the batch driver, on the program of         *)
(* MCRV32ITop.                                                             *)
(***************************************************************************)
EXTENDS RV32ISim, MCRV32ITop
=============================================================================
