------------------------------ MODULE MCKernel ------------------------------
(* Values for Kernel's constants: sources and cells are ordered as integers. *)
EXTENDS Kernel

MCPeer == 0 .. 1
MCCell == 0 .. 1
==============================================================================
