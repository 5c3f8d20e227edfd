------------------------------ MODULE MCServer ------------------------------
(***************************************************************************)
(* The acceptor over the dispatcher model of MCVssService.                 *)
(***************************************************************************)
EXTENDS Server, MCVssService
=============================================================================
