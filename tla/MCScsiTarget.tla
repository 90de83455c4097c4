---------------------------- MODULE MCScsiTarget ----------------------------
(* A small instance of ScsiTarget for TLC. *)
EXTENDS ScsiTarget

\* Two disks on two luns of one target, of two sectors and of one.
MCSize == [u \in Units |-> 2 - u[2]]

=============================================================================
