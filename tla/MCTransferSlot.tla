--------------------------- MODULE MCTransferSlot ---------------------------
(* TransferSlot on small instances: threads are interchangeable. *)
EXTENDS TransferSlot, TLC

Threads == Permutations(Workers)
=============================================================================
