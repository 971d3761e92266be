---------------------------- MODULE MCSupervisor ----------------------------
(***************************************************************************)
(* One device id served to two clients.                                    *)
(***************************************************************************)
EXTENDS Supervisor

=============================================================================
