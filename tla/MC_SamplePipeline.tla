------------------------- MODULE MC_SamplePipeline -------------------------
(* TLC's instances of SamplePipeline. *)
EXTENDS SamplePipeline, TLC

CONSTANTS c1, c2, e1

TwoCallers == {c1, c2}
OneEvent == {e1}
=============================================================================
