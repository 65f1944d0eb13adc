------------------------ MODULE MCWriteProvisioning ------------------------
(* Instances of WriteProvisioning for TLC.                                 *)
EXTENDS WriteProvisioning, TLC
=============================================================================
