------------------------- MODULE MCWriterLifecycle -------------------------
(* Instances of WriterLifecycle for TLC.                                   *)
EXTENDS WriterLifecycle, TLC
=============================================================================
