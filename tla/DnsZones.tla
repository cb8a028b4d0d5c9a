------------------------------ MODULE DnsZones ------------------------------
(***************************************************************************)
(* A DNS zone in PowerDNS, the handlers of panel-core that create, edit    *)
(* and delete it, the operator's reconcileDNSZone and the create wizard,   *)
(* which make sure that the domain of a website has one, and a secondary   *)
(* server that transfers the zone when it is notified.                     *)
(*                                                                         *)
(* PowerDNS has no versions to write against.  A record handler reads the  *)
(* zone, checks the user and the record, and sends one PATCH that replaces *)
(* a whole record set; anything may happen to the zone in between.  TTLs   *)
(* and the record types no request of the model touches are left out.      *)
(***************************************************************************)
EXTENDS Naturals, Sequences, SequencesExt

CONSTANTS
    Requests,     \* requests the panel handles at the same time
    Users,        \* user names, as in the claims of a request
    Admins,       \* users with the admin role
    Zone,         \* the name of the zone, a sequence of labels
    Names,        \* record names as users write them: labels, final dot
    Types,        \* record types
    IPs, Hosts,   \* contents: addresses and host names
    ExternalIP,   \* the address the default records point to
    ZoneHost,     \* the name of the zone as the content of a record
    MaxZones,     \* bound: how often the zone is created
    MaxRequests,  \* bound: how many requests there are, reconciles included
    MaxFaults     \* bound: how many calls of PowerDNS fail

Labels == UNION {{n.labels[i] : i \in DOMAIN n.labels} : n \in Names}

ASSUME DnsConstants ==
    /\ Admins \subseteq Users
    /\ \A n \in Names : n.labels \in Seq(Labels) /\ n.dot \in BOOLEAN
    /\ "A" \in Types
    /\ ExternalIP \in IPs
    /\ ZoneHost \in Hosts
    /\ MaxZones \in Nat
    /\ MaxRequests \in Nat
    /\ MaxFaults \in Nat

VARIABLES
    zone,       \* the zone in PowerDNS
    secondary,  \* the record sets the secondary server has transferred
    req,        \* the requests in flight
    operator,   \* the operator: the next call reconcileDNSZone makes
    ensured,    \* reconcileDNSZone has returned without an error, and the
                \* panel has not deleted the zone since
    zones, requests, faults  \* how many there have been

bounds == <<zones, requests, faults>>
vars   == <<zone, secondary, req, operator, ensured, bounds>>

-----------------------------------------------------------------------------
(***************************************************************************)
(* Record names and record sets                                            *)
(***************************************************************************)
Outside == <<>>

\* The full name of a record: the apex if none is given, a name that ends in
\* the zone as it stands, a relative name with the zone appended.  No other
\* absolute name will do, the root neither.
resolveRecordName(name) ==
    IF name.labels = <<>> /\ ~name.dot THEN Zone
    ELSE IF IsSuffix(Zone, name.labels) THEN name.labels
    ELSE IF ~name.dot THEN name.labels \o Zone
    ELSE Outside

www == <<"www">> \o Zone

RRNames == {Zone, www} \union ({resolveRecordName(n) : n \in Names} \ {Outside})
Keys    == [name: RRNames, type: Types]
Content == IPs \union Hosts

NoRecords == [k \in Keys |-> <<>>]

\* The default records of a zone made with the DNS page of the panel, by the
\* operator, and by the wizard, which adds name servers only.
buildDefaultRecords ==
    [k \in Keys |-> IF k.type = "A" /\ k.name \in {Zone, www} THEN <<ExternalIP>> ELSE <<>>]

operatorRecords ==
    [k \in Keys |-> IF k.type = "A" /\ k.name = Zone THEN <<ExternalIP>>
                    ELSE IF k.type = "CNAME" /\ k.name = www THEN <<ZoneHost>> ELSE <<>>]

validateRecordContent(type, content) ==
    /\ type = "A"     => content \in IPs
    /\ type = "CNAME" => content \in Hosts

\* PowerDNS refuses a CNAME beside other records of the same name.
Consistent(rrsets) ==
    \A k, l \in Keys :
        k.name = l.name /\ k.type = "CNAME" /\ rrsets[k] # <<>> /\ rrsets[l] # <<>>
           => k = l

-----------------------------------------------------------------------------
(***************************************************************************)
(* A zone carries a number that tells a zone from one created later under  *)
(* the same name, its account ("" if made by the operator or the wizard),  *)
(* its kind, its record sets and whether transfers are allowed.  A request *)
(* carries the key and the records of its PATCH, the number of the zone it *)
(* has checked and whether the zone has been changed since.                *)
(***************************************************************************)
NoAccount == ""
Kinds     == {"Native", "Master"}

NoZone == [id |-> 0, exists |-> FALSE, account |-> NoAccount, kind |-> "Native",
           rrsets |-> NoRecords, axfr |-> FALSE]

NoRequest == [pc |-> "idle", op |-> "none", user |-> NoAccount,
              key |-> [name |-> Zone, type |-> "A"], records |-> <<>>,
              id |-> 0, overtaken |-> FALSE]

Init ==
    /\ zone = NoZone
    /\ secondary = NoRecords
    /\ req = [r \in Requests |-> NoRequest]
    /\ operator = "idle"
    /\ ensured = FALSE
    /\ zones = 0
    /\ requests = 0
    /\ faults = 0

Fault == faults < MaxFaults /\ faults' = faults + 1

\* PowerDNS accepts the zone with these properties.
Create(account, kind, rrsets) ==
    /\ zones < MaxZones
    /\ zones' = zones + 1
    /\ zone' = [id |-> zones + 1, exists |-> TRUE, account |-> account, kind |-> kind,
                rrsets |-> rrsets, axfr |-> FALSE]

\* The request ends, after its write or without one; the others that are
\* between their read and their write have been overtaken if it wrote.
Finish(r, next) ==
    req' = [q \in Requests |->
              IF q = r THEN IF next = "idle" THEN NoRequest ELSE [req[r] EXCEPT !.pc = next]
              ELSE [req[q] EXCEPT !.overtaken = req[q].pc = "write" /\ (@ \/ zone' # zone)]]

Arrives == requests < MaxRequests /\ requests' = requests + 1

-----------------------------------------------------------------------------
(***************************************************************************)
(* The handlers of the panel                                               *)
(***************************************************************************)

\* A zone without an account is open to everybody.
canAccessZone(user) ==
    user \in Admins \/ zone.account \in {NoAccount, user}

\* POST /zones: one call, followed by a NOTIFY.  Of a failed call the zone
\* may have been created all the same.
CreateZone(r, user, kind) ==
    /\ ~zone.exists
    /\ \/ /\ Create(user, kind, buildDefaultRecords)
          /\ req' = [req EXCEPT ![r] = [NoRequest EXCEPT !.pc = "notify"]]
          /\ UNCHANGED faults
       \/ /\ Fault
          /\ Create(user, kind, buildDefaultRecords)
          /\ UNCHANGED req
    /\ UNCHANGED <<secondary, operator, ensured>>

\* Mutant: does not check the user.
GetZoneOfAnybody(r, user, op, key, records) ==
    /\ zone.exists
    /\ req' = [req EXCEPT ![r] = [pc |-> "write", op |-> op, user |-> user, key |-> key,
                                  records |-> records, id |-> zone.id, overtaken |-> FALSE]]
    /\ UNCHANGED <<zone, secondary, operator, ensured, zones, faults>>

\* What every other handler does first: read the zone and check the user.
GetZone(r, user, op, key, records) ==
    /\ zone.exists
    /\ canAccessZone(user)
    /\ req' = [req EXCEPT ![r] = [pc |-> "write", op |-> op, user |-> user, key |-> key,
                                  records |-> records, id |-> zone.id, overtaken |-> FALSE]]
    /\ UNCHANGED <<zone, secondary, operator, ensured, zones, faults>>

DeleteZone(r, user) == GetZone(r, user, "deleteZone", NoRequest.key, <<>>)

Key(name, type) == [name |-> resolveRecordName(name), type |-> type]

\* Mutant: forgets the records the set already has.
CreateRecordUnmerged(r, user, name, type, content) ==
    /\ resolveRecordName(name) # Outside
    /\ validateRecordContent(type, content)
    /\ content \notin ToSet(zone.rrsets[Key(name, type)])
    /\ GetZone(r, user, "create", Key(name, type), <<content>>)

\* Mutant: does not look for the record among those the set has.
CreateRecordUnchecked(r, user, name, type, content) ==
    /\ resolveRecordName(name) # Outside
    /\ validateRecordContent(type, content)
    /\ GetZone(r, user, "create", Key(name, type),
               Append(zone.rrsets[Key(name, type)], content))

\* The new record is added to the set as it was read.
CreateRecord(r, user, name, type, content) ==
    /\ resolveRecordName(name) # Outside
    /\ validateRecordContent(type, content)
    /\ content \notin ToSet(zone.rrsets[Key(name, type)])
    /\ GetZone(r, user, "create", Key(name, type),
               Append(zone.rrsets[Key(name, type)], content))

\* Mutant: does not notice that the name is outside the zone.
UpdateRecordOutside(r, user, name, type, content) ==
    /\ validateRecordContent(type, content)
    /\ GetZone(r, user, "update", Key(name, type), <<content>>)

\* The set becomes this one record.
UpdateRecord(r, user, name, type, content) ==
    /\ resolveRecordName(name) # Outside
    /\ validateRecordContent(type, content)
    /\ GetZone(r, user, "update", Key(name, type), <<content>>)

DeleteRecord(r, user, name, type) ==
    /\ resolveRecordName(name) # Outside
    /\ GetZone(r, user, "delete", Key(name, type), <<>>)

\* The list of hosts that may transfer the zone is written if there is one;
\* an empty list is ignored and the masters of the request are not stored.
UpdateSecondaryConfig(r, user, hosts) ==
    GetZone(r, user, IF hosts THEN "axfr" ELSE "none", NoRequest.key, <<>>)

-----------------------------------------------------------------------------
\* The zone after the write of a request.
Written(q) ==
    IF q.op = "deleteZone" THEN NoZone
    ELSE IF q.op = "axfr"  THEN [zone EXCEPT !.axfr = TRUE]
    ELSE IF q.op = "none"  THEN zone
    ELSE [zone EXCEPT !.rrsets[q.key] = q.records]

Apply(r) ==
    /\ zone.exists
    /\ Consistent(Written(req[r]).rrsets)
    /\ zone' = Written(req[r])
    /\ ensured' = (ensured /\ zone'.exists)

\* Mutant: an updated record is not announced.
WriteUpdateSilently(r) ==
    LET accepted == zone.exists /\ Consistent(Written(req[r]).rrsets) IN
    /\ req[r].pc = "write"
    /\ IF accepted THEN Apply(r) ELSE UNCHANGED <<zone, ensured>>
    /\ Finish(r, IF accepted /\ req[r].op \notin {"deleteZone", "update"}
                 THEN "notify" ELSE "idle")
    /\ UNCHANGED <<secondary, operator, bounds>>

\* PowerDNS answers the write: applied, or refused because the zone is gone
\* or would be inconsistent.  A deleted zone is not announced.
Write(r) ==
    LET accepted == zone.exists /\ Consistent(Written(req[r]).rrsets) IN
    /\ req[r].pc = "write"
    /\ IF accepted THEN Apply(r) ELSE UNCHANGED <<zone, ensured>>
    /\ Finish(r, IF accepted /\ req[r].op # "deleteZone" THEN "notify" ELSE "idle")
    /\ UNCHANGED <<secondary, operator, bounds>>

\* The write gets no answer, or an error; it may have been applied.
WriteFails(r) ==
    /\ req[r].pc = "write"
    /\ req[r].op # "none"
    /\ Fault
    /\ Apply(r) \/ UNCHANGED <<zone, ensured>>
    /\ Finish(r, "idle")
    /\ UNCHANGED <<secondary, operator, zones, requests>>

\* NOTIFY, whose outcome the handler ignores: the secondary server transfers
\* the zone as it is now, if it is a master zone and transfers are allowed.
Notify(r) ==
    /\ req[r].pc = "notify"
    /\ \/ /\ secondary' = IF zone.exists /\ zone.kind = "Master" /\ zone.axfr
                          THEN zone.rrsets ELSE secondary
          /\ UNCHANGED faults
       \/ Fault /\ UNCHANGED secondary
    /\ req' = [req EXCEPT ![r] = NoRequest]
    /\ UNCHANGED <<zone, operator, ensured, zones, requests>>

-----------------------------------------------------------------------------
(***************************************************************************)
(* The operator and the wizard                                             *)
(***************************************************************************)

\* Mutant: any answer to the GET counts as an existing zone.
EnsureGetAnyAnswer ==
    /\ operator = "idle"
    /\ Arrives
    /\ \/ operator' = operator /\ ensured' = TRUE /\ UNCHANGED faults
       \/ operator' = operator /\ Fault /\ UNCHANGED ensured
    /\ UNCHANGED <<zone, secondary, req, zones>>

\* reconcileDNSZone: only the answer 200 means that there is a zone; after
\* any other answer it tries to create one, and without one it gives up.
EnsureGet ==
    /\ operator = "idle"
    /\ Arrives
    /\ \/ /\ operator' = IF zone.exists THEN "idle" ELSE "create"
          /\ ensured' = (ensured \/ zone.exists)
          /\ UNCHANGED faults
       \/ /\ Fault
          /\ operator' \in {"idle", "create"}
          /\ UNCHANGED ensured
    /\ UNCHANGED <<zone, secondary, req, zones>>

\* The POST of reconcileDNSZone: that the zone exists is no error.
EnsureCreate ==
    /\ operator = "create"
    /\ operator' = "idle"
    /\ \/ zone.exists /\ ensured' = TRUE /\ UNCHANGED <<zone, zones, faults>>
       \/ /\ ~zone.exists
          /\ Create(NoAccount, "Native", operatorRecords)
          /\ \/ ensured' = TRUE /\ UNCHANGED faults
             \/ Fault /\ UNCHANGED ensured
       \/ Fault /\ UNCHANGED <<zone, zones, ensured>>
    /\ UNCHANGED <<secondary, req, requests>>

\* The last step of CreateWebsite when it is asked for a zone; whether it
\* succeeds is ignored.
WizardCreateZone ==
    /\ Arrives
    /\ ~zone.exists
    /\ Create(NoAccount, "Native", NoRecords)
    /\ UNCHANGED <<secondary, req, operator, ensured, faults>>

-----------------------------------------------------------------------------
\* A request arrives and its handler makes its first call.
Handler(r) ==
    /\ req[r].pc = "idle"
    /\ Arrives
    /\ \E u \in Users :
       \/ \E k \in Kinds : CreateZone(r, u, k)
       \/ DeleteZone(r, u)
       \/ \E n \in Names, t \in Types, c \in Content :
             CreateRecord(r, u, n, t, c) \/ UpdateRecord(r, u, n, t, c)
       \/ \E n \in Names, t \in Types : DeleteRecord(r, u, n, t)
       \/ \E hosts \in BOOLEAN : UpdateSecondaryConfig(r, u, hosts)

Next ==
    \/ \E r \in Requests : Handler(r) \/ Write(r) \/ WriteFails(r) \/ Notify(r)
    \/ EnsureGet
    \/ EnsureCreate
    \/ WizardCreateZone

Spec == Init /\ [][Next]_vars
=============================================================================
