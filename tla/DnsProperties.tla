--------------------------- MODULE DnsProperties ---------------------------
(***************************************************************************)
(* What DnsZones is checked for.                                           *)
(***************************************************************************)
EXTENDS DnsZones

Ops == {"none", "deleteZone", "create", "update", "delete", "axfr"}

\* Every variable has its type; every record set, stored or about to be
\* written, belongs to a name of the zone.
TypeOK ==
    /\ zone \in [id: Nat, exists: BOOLEAN, account: Users \union {NoAccount}, kind: Kinds,
                 rrsets: [Keys -> Seq(Content)], axfr: BOOLEAN]
    /\ secondary \in [Keys -> Seq(Content)]
    /\ req \in [Requests -> [pc: {"idle", "write", "notify"}, op: Ops,
                             user: Users \union {NoAccount}, key: Keys, records: Seq(Content),
                             id: Nat, overtaken: BOOLEAN]]
    /\ operator \in {"idle", "create"}
    /\ ensured \in BOOLEAN
    /\ zones \in Nat
    /\ requests \in Nat
    /\ faults \in Nat

\* A record set never holds a record twice, although CreateRecord looks for
\* a duplicate in a zone it read earlier: two requests may add the same
\* record at the same time, and the first may be retried after a timeout.
NoDuplicateRecords ==
    \A k \in Keys : \A i, j \in DOMAIN zone.rrsets[k] :
        zone.rrsets[k][i] = zone.rrsets[k][j] => i = j

\* The write of request r changes the zone in this step.
Changes(r) == req[r].pc = "write" /\ req'[r].pc # "write" /\ zone' # zone

\* CreateRecord only adds: the records it sends back with the new one are
\* all the set has, unless another request changed the zone in between.
CreateOnlyAdds ==
    [][\A r \in Requests :
          Changes(r) /\ req[r].op = "create" /\ ~req[r].overtaken =>
             ToSet(zone.rrsets[req[r].key]) \subseteq ToSet(zone'.rrsets[req[r].key])]_vars

\* A zone with an account is its user's: every change to it is the write of
\* a request of that user or of an admin, never of reconcileDNSZone or the
\* wizard, although PowerDNS lets anybody write and the user is checked at
\* the read.  The exception is a request that was let into an earlier zone
\* of that name, deleted and created again before the write.  Zones without
\* an account, those of the operator and the wizard, anybody may change.
AccountsKeepTheirZones ==
    [][zone.exists /\ zone.account # NoAccount /\ zone' # zone =>
          \E r \in Requests :
             /\ Changes(r)
             /\ req[r].user \in Admins \union {zone.account} \/ zone.id # req[r].id]_vars

\* The secondary server is up to date whenever the panel is at rest: every
\* handler announces its change after it is made, so that with requests in
\* any order the last NOTIFY comes after the last change.
AtRest == faults = 0 /\ \A r \in Requests : req[r].pc = "idle"

SecondaryFollows ==
    AtRest /\ zone.exists /\ zone.kind = "Master" /\ zone.axfr => secondary = zone.rrsets

\* Once reconcileDNSZone has reported success, the domain of the website has
\* a zone until the panel deletes it, whoever created it and whatever the
\* GET answered.
EnsuredZoneExists == ensured => zone.exists
=============================================================================
