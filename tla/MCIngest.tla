------------------------------ MODULE MCIngest ------------------------------
(* Instances of Ingest for TLC. *)
EXTENDS Ingest

B(rows, columns, size) == [rows |-> rows, columns |-> columns, size |-> size]

(* Nothing, an empty batch, one row over Spanner's cap, one atomic chunk,      *)
(* chunks cut by bytes, and chunks cut by mutations of which one is bisected   *)
(* twice.                                                                      *)
Shapes == {<<>>, <<B(0, 2, 3)>>, <<B(1, 9, 1)>>, <<B(2, 1, 6)>>,
           <<B(2, 1, 6), B(0, 1, 9), B(2, 2, 2)>>, <<B(4, 2, 4)>>}
(* Two chunks of two rows. *)
TwoChunks == {<<B(4, 2, 4)>>}
=============================================================================
