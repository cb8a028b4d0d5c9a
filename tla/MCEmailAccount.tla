--------------------------- MODULE MCEmailAccount ---------------------------
(***************************************************************************)
(* EmailAccount for TLC.                                                   *)
(***************************************************************************)
EXTENDS EmailAccount
=============================================================================
