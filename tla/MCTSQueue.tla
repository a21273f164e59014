----------------------------- MODULE MCTSQueue -----------------------------
(* Instances of TSQueue for TLC.                                           *)
EXTENDS TSQueue

MCThreads == {"a", "b"}
BothModes == {FALSE, TRUE}
ItemsOnly == {TRUE}

=============================================================================
