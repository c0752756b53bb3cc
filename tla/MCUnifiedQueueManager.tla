------------------------ MODULE MCUnifiedQueueManager ------------------------
(* Instances of UnifiedQueueManager for TLC.                                *)
EXTENDS UnifiedQueueManager, TLC
==============================================================================
