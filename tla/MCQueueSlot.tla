----------------------------- MODULE MCQueueSlot -----------------------------
(***************************************************************************)
(* An instance of QueueSlot for TLC: three files that share a slot, so     *)
(* that each thread frees and allocates it while the other is at work.     *)
(***************************************************************************)
EXTENDS QueueSlot

==============================================================================
