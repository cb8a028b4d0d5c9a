---------------------------- MODULE MCEmailDomain ----------------------------
(***************************************************************************)
(* EmailDomain for TLC.                                                    *)
(***************************************************************************)
EXTENDS EmailDomain
==============================================================================
