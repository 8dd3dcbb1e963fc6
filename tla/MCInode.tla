------------------------------ MODULE MCInode ------------------------------
(* Bounds for checking Inode.                                              *)
EXTENDS Inode, TLC
=============================================================================
