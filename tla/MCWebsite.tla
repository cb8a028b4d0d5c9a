------------------------------ MODULE MCWebsite ------------------------------
(***************************************************************************)
(* WebsiteController for TLC.                                              *)
(***************************************************************************)
EXTENDS WebsiteProperties

CONSTANT a1

\* A plain site, and one with an alias and a certificate.
Plain == [aliases |-> {}, selfsigned |-> FALSE]
Full  == [aliases |-> {a1}, selfsigned |-> TRUE]

PlainOnly    == {Plain}
PlainAndFull == {Plain, Full}
==============================================================================
