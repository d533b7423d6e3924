------------------------------ MODULE MCKernel ------------------------------
(* Instances of Kernel for TLC.                                            *)
EXTENDS Kernel

CONSTANTS Natives, Kinds

MCModes == [native : Natives, kind : Kinds]
=============================================================================
