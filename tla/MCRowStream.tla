---------------------------- MODULE MCRowStream ----------------------------
(* Instances of RowStream for TLC. *)
EXTENDS RowStream
=============================================================================
