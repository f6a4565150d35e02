----------------------------- MODULE MCObjects ------------------------------
(* Model values for Objects.                                               *)
EXTENDS Objects

CONSTANTS A, B, C, D

ABCD == <<A, B, C, D>>
=============================================================================
