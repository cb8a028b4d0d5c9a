------------------------------- MODULE MCDns -------------------------------
(***************************************************************************)
(* DnsZones for TLC: the zone e, whose record names are written as "", as  *)
(* the relative www, as the absolute www.e., as the foreign www.o. and as  *)
(* the root.                                                               *)
(***************************************************************************)
EXTENDS DnsProperties

ZoneE == <<"e">>

Apex     == [labels |-> <<>>, dot |-> FALSE]
Relative == [labels |-> <<"www">>, dot |-> FALSE]
Absolute == [labels |-> <<"www", "e">>, dot |-> TRUE]
Foreign  == [labels |-> <<"www", "o">>, dot |-> TRUE]
Root     == [labels |-> <<>>, dot |-> TRUE]

MCNames == {Apex, Relative, Absolute, Foreign, Root}

\* Requests are interchangeable.
RequestSymmetry == Permutations(Requests)
==============================================================================
