---------------------------- MODULE MCQueueOwner ----------------------------
(***************************************************************************)
(* A finite instance of QueueOwner: two tags, and each kind of fault.      *)
(***************************************************************************)
EXTENDS QueueOwner

AllFaults == FaultKinds

=============================================================================
