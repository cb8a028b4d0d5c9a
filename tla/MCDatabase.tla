----------------------------- MODULE MCDatabase -----------------------------
(***************************************************************************)
(* DatabaseController for TLC.                                             *)
(***************************************************************************)
EXTENDS DatabaseProperties
=============================================================================
