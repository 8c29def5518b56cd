------------------------- MODULE MCErasePartitions -------------------------
(* Two naming contexts holding up to two records each, and the code's     *)
(* bound of 10 rounds.                                                     *)
EXTENDS ErasePartitions

MCTypeOK ==
    /\ EPTypeOK
    /\ view \in [NCs -> SUBSET Recs]
=============================================================================
