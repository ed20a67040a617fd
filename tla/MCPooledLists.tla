--------------------------- MODULE MCPooledLists --------------------------
(***************************************************************************)
(* The addresses that the model-checking of PooledLists releases.          *)
(***************************************************************************)
EXTENDS PooledLists

(* Every offset of the buffer, aligned or not, and one block on each side. *)
MCOffsets == -item_size .. item_size * num_items
=============================================================================
