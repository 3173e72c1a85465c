------------------------- MODULE MCPartitionedOutput ------------------------
(* An instance of PartitionedOutput for TLC. *)
EXTENDS PartitionedOutput

(* Worker 1 does not see the first file. *)
MCListing == 0 :> SinkParts @@ 1 :> SinkParts \ {0}
(* Epoch 1 writes to files 0 and 1, epoch 2 twice to file 1 and epoch 3,    *)
(* when the other source is at EOF, to file 2: 4 and 5 are wrapped.         *)
MCScript == 0 :> <<0, 1, 5>> @@ 1 :> <<4, 4>>
MCRecOf == 0 :> "r" @@ 1 :> "r" @@ 2 :> "q"
=============================================================================
