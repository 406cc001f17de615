------------------------------ MODULE MCTuning -------------------------------
(* Two changes of frequency, two small buffers and three channels.         *)
EXTENDS Tuning
=============================================================================
