----------------------------- MODULE MCRegistry -----------------------------
(***************************************************************************)
(* Instance of Registry for TLC.                                           *)
(***************************************************************************)
EXTENDS Registry

\* The registry serves its URLs in any way, the same throughout.
AnyServing == [Urls -> Modes]

AnyRead == [url : Urls, length : BOOLEAN]

=============================================================================
