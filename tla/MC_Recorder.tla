----------------------------- MODULE MC_Recorder -----------------------------
(* TLC's instance of Recorder: records are numbered, no values to define.   *)
EXTENDS Recorder
=============================================================================
