------------------------------ MODULE DnsProofs ------------------------------
(***************************************************************************)
(* Proofs about DnsZones, for every set of requests, users, names and      *)
(* contents and every bound: type correctness, the inductive invariant     *)
(* DnsInv, and from it that record sets hold no record twice, that the     *)
(* secondary server follows, that an ensured zone exists, that CreateRecord*)
(* only adds, and that only its owners change a zone.                      *)
(***************************************************************************)
EXTENDS DnsProperties, TLAPS

RRsets == [Keys -> Seq(Content)]

ZoneType == [id: Nat, exists: BOOLEAN, account: Users \union {NoAccount}, kind: Kinds,
             rrsets: RRsets, axfr: BOOLEAN]

RequestType == [pc: {"idle", "write", "notify"}, op: Ops, user: Users \union {NoAccount},
                key: Keys, records: Seq(Content), id: Nat, overtaken: BOOLEAN]

Distinct(s) == \A i, j \in DOMAIN s : s[i] = s[j] => i = j

\* Zones are numbered in the order they are created.
Numbered ==
    /\ zone.id <= zones
    /\ zone.exists => zone.id > 0

\* A request about to write has checked its user against the zone it names.
Checked ==
    \A r \in Requests : req[r].pc = "write" =>
        /\ req[r].id > 0 /\ req[r].id <= zones
        /\ zone.id = req[r].id => canAccessZone(req[r].user)

\* A request that nobody has overtaken sends back all the set has.
Complete ==
    \A r \in Requests : req[r].pc = "write" /\ ~req[r].overtaken =>
        /\ zone.exists
        /\ req[r].op = "create" =>
              ToSet(zone.rrsets[req[r].key]) \subseteq ToSet(req[r].records)

\* No record is sent twice in a set, whatever has been read.
SentDistinct == \A r \in Requests : req[r].pc = "write" => Distinct(req[r].records)

\* What the secondary server lacks will be announced.
Announced ==
    faults = 0 /\ zone.exists /\ zone.kind = "Master" /\ zone.axfr /\ secondary # zone.rrsets
       => \E r \in Requests : req[r].pc = "notify"

DnsInv == /\ TypeOK /\ Numbered /\ Checked /\ Complete /\ NoDuplicateRecords /\ SentDistinct
          /\ Announced /\ EnsuredZoneExists

-----------------------------------------------------------------------------
(***************************************************************************)
(* Record sets, zones and requests                                         *)
(***************************************************************************)

\* TypeOK, with its sets named.
LEMMA TypeParts ==
  TypeOK <=> /\ zone \in ZoneType
             /\ secondary \in RRsets
             /\ req \in [Requests -> RequestType]
             /\ operator \in {"idle", "create"}
             /\ ensured \in BOOLEAN
             /\ zones \in Nat
             /\ requests \in Nat
             /\ faults \in Nat
  BY DEF TypeOK, ZoneType, RRsets, RequestType

LEMMA TypePartsNext ==
  ASSUME zone' \in ZoneType, secondary' \in RRsets, req' \in [Requests -> RequestType],
         operator' \in {"idle", "create"}, ensured' \in BOOLEAN,
         zones' \in Nat, requests' \in Nat, faults' \in Nat
  PROVE  TypeOK'
  BY DEF TypeOK, ZoneType, RRsets, RequestType

\* A set of at most one record has no record twice.
LEMMA SmallSets ==
  /\ <<>> \in Seq(Content) /\ Distinct(<<>>)
  /\ \A c \in Content : <<c>> \in Seq(Content) /\ Distinct(<<c>>)
  <1>1. <<>> \in Seq(Content) /\ Distinct(<<>>)
    BY DEF Distinct
  <1>2. ASSUME NEW c \in Content
        PROVE  <<c>> \in Seq(Content) /\ Distinct(<<c>>)
    <2>1. <<c>> \in Seq(Content) /\ DOMAIN <<c>> = {1}
      OBVIOUS
    <2> QED
      BY <2>1 DEF Distinct
  <1> QED
    BY <1>1, <1>2

\* The records a zone starts with are of their types, and distinct.
LEMMA DefaultRecords ==
  ASSUME NEW R \in {NoRecords, buildDefaultRecords, operatorRecords}
  PROVE  R \in RRsets /\ \A k \in Keys : Distinct(R[k])
  <1>1. ExternalIP \in Content /\ ZoneHost \in Content
    BY DnsConstants DEF Content
  <1>2. \A k \in Keys : R[k] \in {<<>>, <<ExternalIP>>, <<ZoneHost>>}
    BY DEF NoRecords, buildDefaultRecords, operatorRecords
  <1>3. \A s \in {<<>>, <<ExternalIP>>, <<ZoneHost>>} : s \in Seq(Content) /\ Distinct(s)
    BY <1>1, SmallSets
  <1>4. R = [k \in Keys |-> R[k]]
    BY DEF NoRecords, buildDefaultRecords, operatorRecords
  <1>5. \A k \in Keys : R[k] \in Seq(Content)
    BY <1>2, <1>3
  <1>6. R \in RRsets
    BY <1>4, <1>5 DEF RRsets
  <1> QED
    BY <1>2, <1>3, <1>6

\* Every key a handler makes is one of the zone's.
LEMMA KeyFacts ==
  /\ NoRequest.key \in Keys
  /\ \A n \in Names, t \in Types : resolveRecordName(n) # Outside => Key(n, t) \in Keys
  <1>1. NoRequest.key \in Keys
    BY DnsConstants DEF NoRequest, Keys, RRNames
  <1>2. ASSUME NEW n \in Names, NEW t \in Types, resolveRecordName(n) # Outside
        PROVE  Key(n, t) \in Keys
    <2>1. resolveRecordName(n) \in RRNames
      BY <1>2 DEF RRNames
    <2> QED
      BY <2>1 DEF Key, Keys
  <1> QED
    BY <1>1, <1>2

LEMMA EmptyTypes == NoZone \in ZoneType /\ NoRequest \in RequestType
  <1>1. NoRecords \in RRsets
    BY DefaultRecords
  <1>2. NoZone \in ZoneType
    BY <1>1 DEF NoZone, ZoneType, Kinds
  <1>3. NoRequest \in RequestType
    BY KeyFacts DEF NoRequest, RequestType, Ops
  <1> QED
    BY <1>2, <1>3

\* Appending a record that is not there keeps a set distinct and complete.
LEMMA AppendFacts ==
  ASSUME NEW s \in Seq(Content), NEW c \in Content, c \notin ToSet(s), Distinct(s)
  PROVE  /\ Append(s, c) \in Seq(Content)
         /\ Distinct(Append(s, c))
         /\ ToSet(s) \subseteq ToSet(Append(s, c))
  <1> DEFINE t == Append(s, c)
  <1>1. /\ t \in Seq(Content) /\ Len(s) \in Nat /\ Len(t) = Len(s) + 1
        /\ DOMAIN s = 1 .. Len(s) /\ DOMAIN t = 1 .. Len(t)
        /\ \A i \in 1 .. Len(s) : t[i] = s[i]
        /\ t[Len(s) + 1] = c
    OBVIOUS
  <1> HIDE DEF t
  <1>2. \A i \in DOMAIN s : s[i] # c /\ i \in DOMAIN t
    BY <1>1 DEF ToSet
  <1>3. \A i \in DOMAIN t : i \in DOMAIN s \/ i = Len(s) + 1
    BY <1>1
  <1>4. Distinct(t)
    BY <1>1, <1>2, <1>3 DEF Distinct
  <1>5. ToSet(s) \subseteq ToSet(t)
    BY <1>1, <1>2 DEF ToSet
  <1> QED
    BY <1>1, <1>4, <1>5 DEF t

\* What a write leaves of the zone.
LEMMA WrittenFacts ==
  ASSUME zone \in ZoneType, NEW STATE q, q \in RequestType
  PROVE  /\ Written(q) \in ZoneType
         /\ q.op = "deleteZone" => Written(q) = NoZone
         /\ q.op # "deleteZone" =>
               /\ Written(q).id = zone.id /\ Written(q).exists = zone.exists
               /\ Written(q).account = zone.account
         /\ q.op \in {"create", "update", "delete"} => Written(q).rrsets[q.key] = q.records
         /\ \A k \in Keys : \/ Written(q).rrsets[k] = zone.rrsets[k]
                            \/ k = q.key /\ Written(q).rrsets[k] = q.records
                            \/ Written(q) = NoZone
  <1>1. q.key \in Keys /\ q.records \in Seq(Content) /\ zone.rrsets \in RRsets /\ q.op \in Ops
    BY DEF RequestType, ZoneType
  <1>2. CASE q.op = "deleteZone"
    BY <1>2, EmptyTypes DEF Written
  <1>3. CASE q.op = "axfr"
    <2>1. Written(q) = [zone EXCEPT !.axfr = TRUE]
      BY <1>3 DEF Written
    <2> QED
      BY <1>3, <2>1 DEF ZoneType
  <1>4. CASE q.op = "none"
    BY <1>4 DEF Written
  <1>5. CASE q.op \in {"create", "update", "delete"}
    <2> DEFINE R == [zone.rrsets EXCEPT ![q.key] = q.records]
    <2>1. Written(q) = [zone EXCEPT !.rrsets = R]
      BY <1>5 DEF Written
    <2>2. /\ R \in RRsets /\ R[q.key] = q.records
          /\ \A k \in Keys : k # q.key => R[k] = zone.rrsets[k]
      BY <1>1 DEF RRsets
    <2> HIDE DEF R
    <2>3. /\ Written(q) \in ZoneType /\ Written(q).rrsets = R /\ Written(q).id = zone.id
          /\ Written(q).exists = zone.exists /\ Written(q).account = zone.account
      BY <2>1, <2>2 DEF ZoneType
    <2> QED
      BY <1>5, <2>2, <2>3
  <1> QED
    BY <1>1, <1>2, <1>3, <1>4, <1>5 DEF Ops

\* What the end of a request does to the requests.
LEMMA FinishFacts ==
  ASSUME req \in [Requests -> RequestType], NEW r \in Requests, NEW STATE next,
         next \in {"idle", "notify"}, Finish(r, next)
  PROVE  /\ req' \in [Requests -> RequestType]
         /\ req'[r].pc = next
         /\ \A q \in Requests \ {r} :
               /\ req'[q].pc = req[q].pc /\ req'[q].op = req[q].op
               /\ req'[q].user = req[q].user /\ req'[q].key = req[q].key
               /\ req'[q].records = req[q].records /\ req'[q].id = req[q].id
               /\ req[q].pc = "write" /\ ~req'[q].overtaken
                     => ~req[q].overtaken /\ UNCHANGED zone
  <1>1. \A q \in Requests : req[q] \in RequestType
    OBVIOUS
  <1>2. req'[r] = IF next = "idle" THEN NoRequest ELSE [req[r] EXCEPT !.pc = next]
    BY DEF Finish
  <1>3. req'[r] \in RequestType /\ req'[r].pc = next
    <2>1. CASE next = "idle"
      BY <1>2, <2>1, EmptyTypes DEF NoRequest
    <2>2. CASE next = "notify"
      <3>1. req'[r] = [req[r] EXCEPT !.pc = "notify"]
        BY <1>2, <2>2
      <3> QED
        BY <1>1, <2>2, <3>1 DEF RequestType
    <2> QED
      BY <2>1, <2>2
  <1>4. ASSUME NEW q \in Requests \ {r}
        PROVE  /\ req'[q] \in RequestType
               /\ req'[q].pc = req[q].pc /\ req'[q].op = req[q].op
               /\ req'[q].user = req[q].user /\ req'[q].key = req[q].key
               /\ req'[q].records = req[q].records /\ req'[q].id = req[q].id
               /\ req'[q].overtaken
                     = (req[q].pc = "write" /\ (req[q].overtaken \/ zone' # zone))
    <2> DEFINE b == req[q].pc = "write" /\ (req[q].overtaken \/ zone' # zone)
    <2>1. req'[q] = [req[q] EXCEPT !.overtaken = b]
      BY DEF Finish
    <2>2. b \in BOOLEAN
      OBVIOUS
    <2> HIDE DEF b
    <2>3. /\ req'[q] \in RequestType /\ req'[q].overtaken = b
          /\ req'[q].pc = req[q].pc /\ req'[q].op = req[q].op
          /\ req'[q].user = req[q].user /\ req'[q].key = req[q].key
          /\ req'[q].records = req[q].records /\ req'[q].id = req[q].id
      BY <1>1, <2>1, <2>2 DEF RequestType
    <2> QED
      BY <2>3 DEF b
  <1>5. req' \in [Requests -> RequestType]
    <2>1. \A q \in Requests : req'[q] \in RequestType
      BY <1>3, <1>4
    <2>2. req' = [q \in Requests |-> req'[q]]
      BY DEF Finish
    <2> QED
      BY <2>1, <2>2
  <1> QED
    BY <1>3, <1>4, <1>5

-----------------------------------------------------------------------------
(***************************************************************************)
(* The steps                                                               *)
(***************************************************************************)

\* Initially there is no zone.
LEMMA InitInv == Init => DnsInv
  <1> SUFFICES ASSUME Init PROVE DnsInv
    OBVIOUS
  <1>1. NoRecords \in RRsets /\ \A k \in Keys : Distinct(NoRecords[k])
    BY DefaultRecords
  <1>2. /\ zone = NoZone /\ secondary = NoRecords /\ req = [r \in Requests |-> NoRequest]
        /\ operator = "idle" /\ ensured = FALSE /\ zones = 0 /\ requests = 0 /\ faults = 0
    BY DEF Init
  <1>3. TypeOK
    <2>1. req \in [Requests -> RequestType]
      BY <1>2, EmptyTypes
    <2> QED
      BY <1>1, <1>2, <2>1, EmptyTypes, TypeParts
  <1>4. /\ zone.id = 0 /\ zone.exists = FALSE /\ zone.rrsets = NoRecords
        /\ \A r \in Requests : req[r].pc = "idle"
    BY <1>2 DEF NoZone, NoRequest
  <1>5. NoDuplicateRecords
    BY <1>1, <1>4 DEF NoDuplicateRecords, Distinct
  <1>6. Numbered /\ Checked /\ Complete /\ SentDistinct
    BY <1>2, <1>4 DEF Numbered, Checked, Complete, SentDistinct
  <1>7. Announced /\ EnsuredZoneExists
    BY <1>2, <1>4 DEF Announced, EnsuredZoneExists
  <1> QED
    BY <1>3, <1>5, <1>6, <1>7 DEF DnsInv

\* The parts of the invariant as the steps use them.
LEMMA StateFacts ==
  ASSUME DnsInv
  PROVE  /\ zone \in ZoneType /\ secondary \in RRsets /\ req \in [Requests -> RequestType]
         /\ operator \in {"idle", "create"} /\ ensured \in BOOLEAN
         /\ zones \in Nat /\ requests \in Nat /\ faults \in Nat
         /\ Numbered /\ Checked /\ Complete /\ SentDistinct /\ Announced
         /\ (ensured => zone.exists)
         /\ \A k \in Keys : Distinct(zone.rrsets[k])
         /\ \A r \in Requests : req[r] \in RequestType
  <1>1. \A k \in Keys : Distinct(zone.rrsets[k])
    BY DEF DnsInv, NoDuplicateRecords, Distinct
  <1> QED
    BY <1>1, TypeParts DEF DnsInv, EnsuredZoneExists

\* A failure, or an arrival, is counted.
LEMMA Counted ==
  ASSUME DnsInv
  PROVE  /\ Fault => faults' \in Nat /\ faults' # 0
         /\ Arrives => requests' \in Nat
  <1>1. faults \in Nat /\ requests \in Nat
    BY StateFacts
  <1>2. /\ Fault => faults' = faults + 1
        /\ Arrives => requests' = requests + 1
    BY DEF Fault, Arrives
  <1> QED
    BY <1>1, <1>2

\* A handler that reads the zone and checks the user, with a set of records
\* to be written later.
LEMMA GetZoneStep ==
  ASSUME DnsInv, NEW r \in Requests, req[r].pc = "idle", requests' \in Nat,
         NEW user \in Users, NEW op \in Ops,
         NEW STATE key, key \in Keys, NEW STATE records, records \in Seq(Content),
         Distinct(records),
         op = "create" => ToSet(zone.rrsets[key]) \subseteq ToSet(records),
         GetZone(r, user, op, key, records)
  PROVE  DnsInv'
  <1> DEFINE n == [pc |-> "write", op |-> op, user |-> user, key |-> key,
                   records |-> records, id |-> zone.id, overtaken |-> FALSE]
  <1>1. /\ zone.exists /\ canAccessZone(user) /\ req' = [req EXCEPT ![r] = n]
        /\ UNCHANGED <<zone, secondary, operator, ensured, zones, faults>>
    BY DEF GetZone
  <1>2. /\ n \in RequestType /\ n.pc = "write" /\ n.op = op /\ n.user = user /\ n.key = key
        /\ n.records = records /\ n.id = zone.id
    <2>1. zone.id \in Nat
      BY StateFacts DEF ZoneType
    <2> QED
      BY <2>1 DEF RequestType
  <1> HIDE DEF n
  <1>3. /\ req' \in [Requests -> RequestType] /\ req'[r] = n
        /\ \A q \in Requests : q # r => req'[q] = req[q]
    BY <1>1, <1>2, StateFacts
  <1>4. TypeOK'
    BY <1>1, <1>3, StateFacts, TypePartsNext
  <1>5. Numbered' /\ NoDuplicateRecords' /\ EnsuredZoneExists'
    BY <1>1 DEF DnsInv, Numbered, NoDuplicateRecords, EnsuredZoneExists
  <1>6. Checked'
    <2>1. zone.id > 0 /\ zone.id <= zones
      BY <1>1, StateFacts DEF Numbered
    <2>2. \A u : canAccessZone(u)' <=> canAccessZone(u)
      BY <1>1 DEF canAccessZone
    <2>3. \A q \in Requests : req'[q].pc = "write" =>
            /\ req'[q].id > 0 /\ req'[q].id <= zones
            /\ zone.id = req'[q].id => canAccessZone(req'[q].user)
      BY <1>1, <1>2, <1>3, <2>1, StateFacts DEF Checked
    <2> QED
      BY <1>1, <2>2, <2>3 DEF Checked, canAccessZone
  <1>7. Complete'
    <2>1. \A q \in Requests : req'[q].pc = "write" /\ ~req'[q].overtaken =>
            /\ zone.exists
            /\ req'[q].op = "create" =>
                  ToSet(zone.rrsets[req'[q].key]) \subseteq ToSet(req'[q].records)
      BY <1>1, <1>2, <1>3, StateFacts DEF Complete
    <2> QED
      BY <1>1, <2>1 DEF Complete
  <1>8. SentDistinct'
    BY <1>2, <1>3, StateFacts DEF SentDistinct
  <1>9. Announced'
    BY <1>1, <1>3, StateFacts DEF Announced
  <1> QED
    BY <1>4, <1>5, <1>6, <1>7, <1>8, <1>9 DEF DnsInv

\* A zone is created where there was none; a request r may go on to notify.
LEMMA CreateStep ==
  ASSUME DnsInv, ~zone.exists,
         NEW account \in Users \union {NoAccount}, NEW kind \in Kinds,
         NEW records \in {NoRecords, buildDefaultRecords, operatorRecords},
         Create(account, kind, records),
         \/ UNCHANGED req
         \/ \E r \in Requests : req' = [req EXCEPT ![r] = [NoRequest EXCEPT !.pc = "notify"]],
         UNCHANGED secondary, operator' \in {"idle", "create"}, ensured' \in BOOLEAN,
         requests' \in Nat, faults' \in Nat
  PROVE  DnsInv'
  <1> DEFINE n == [NoRequest EXCEPT !.pc = "notify"]
  <1>1. /\ zones' = zones + 1
        /\ zone' = [id |-> zones + 1, exists |-> TRUE, account |-> account, kind |-> kind,
                    rrsets |-> records, axfr |-> FALSE]
    BY DEF Create
  <1>2. records \in RRsets /\ \A k \in Keys : Distinct(records[k])
    BY DefaultRecords
  <1>3. zones \in Nat /\ zones + 1 \in Nat
    BY StateFacts
  <1>4. zone' \in ZoneType
    BY <1>1, <1>2, <1>3 DEF ZoneType
  <1>5. /\ zone'.id = zones + 1 /\ zone'.exists = TRUE /\ zone'.rrsets = records
        /\ zone'.axfr = FALSE
    BY <1>1
  <1>6. n \in RequestType /\ n.pc = "notify"
    BY EmptyTypes DEF RequestType
  <1> HIDE DEF n
  <1>7. /\ req' \in [Requests -> RequestType]
        /\ \A q \in Requests : req'[q].pc = "write" => req'[q] = req[q]
    <2>1. CASE UNCHANGED req
      BY <2>1, StateFacts
    <2>2. ASSUME NEW r \in Requests, req' = [req EXCEPT ![r] = n]
          PROVE  /\ req' \in [Requests -> RequestType]
                 /\ \A q \in Requests : req'[q].pc = "write" => req'[q] = req[q]
      <3>1. /\ req' \in [Requests -> RequestType] /\ req'[r] = n
            /\ \A q \in Requests : q # r => req'[q] = req[q]
        BY <1>6, <2>2, StateFacts
      <3> QED
        BY <1>6, <3>1
    <2> QED
      BY <2>1, <2>2 DEF n
  <1>8. TypeOK'
    BY <1>1, <1>3, <1>4, <1>7, StateFacts, TypePartsNext
  <1>9. Numbered'
    <2>1. zones + 1 > 0 /\ zones + 1 <= zones + 1
      BY <1>3
    <2> QED
      BY <1>1, <1>5, <2>1 DEF Numbered
  <1>10. Checked'
    <2> SUFFICES ASSUME NEW q \in Requests, req'[q].pc = "write"
                 PROVE  /\ req'[q].id > 0 /\ req'[q].id <= zones'
                        /\ zone'.id # req'[q].id
      BY DEF Checked
    <2>1. req'[q] = req[q] /\ req[q].id \in Nat
      BY <1>7, StateFacts DEF RequestType
    <2>2. req[q].id > 0 /\ req[q].id <= zones
      BY <2>1, StateFacts DEF Checked
    <2>3. req[q].id <= zones + 1 /\ zones + 1 # req[q].id
      BY <1>3, <2>1, <2>2
    <2> QED
      BY <1>1, <1>5, <2>1, <2>2, <2>3
  <1>11. Complete'
    BY <1>7, StateFacts DEF Complete
  <1>12. NoDuplicateRecords'
    BY <1>2, <1>5 DEF NoDuplicateRecords, Distinct
  <1>13. SentDistinct'
    BY <1>7, StateFacts DEF SentDistinct
  <1>14. Announced' /\ EnsuredZoneExists'
    BY <1>5 DEF Announced, EnsuredZoneExists
  <1> QED
    BY <1>8, <1>9, <1>10, <1>11, <1>12, <1>13, <1>14 DEF DnsInv

\* What a write stores has no record twice.
LEMMA WrittenDistinct ==
  ASSUME DnsInv, NEW r \in Requests, req[r].pc = "write"
  PROVE  \A k \in Keys : Distinct(Written(req[r]).rrsets[k])
  <1>1. /\ \A k \in Keys : Distinct(NoRecords[k])
        /\ NoZone.rrsets = NoRecords
    BY DefaultRecords DEF NoZone
  <1>2. Distinct(req[r].records) /\ \A k \in Keys : Distinct(zone.rrsets[k])
    BY StateFacts DEF SentDistinct
  <1>3. \A k \in Keys : \/ Written(req[r]).rrsets[k] = zone.rrsets[k]
                        \/ k = req[r].key /\ Written(req[r]).rrsets[k] = req[r].records
                        \/ Written(req[r]) = NoZone
    BY StateFacts, WrittenFacts
  <1> QED
    BY <1>1, <1>2, <1>3

\* A request ends, after a write that was applied or was not.
LEMMA FinishStep ==
  ASSUME DnsInv, NEW r \in Requests, req[r].pc = "write",
         NEW STATE next, next \in {"idle", "notify"}, Finish(r, next),
         Apply(r) \/ UNCHANGED <<zone, ensured>>,
         UNCHANGED <<secondary, operator, zones, requests>>, faults' \in Nat,
         faults' = 0 => faults = 0,
         faults' = 0 /\ next = "idle" =>
            UNCHANGED zone \/ zone' = NoZone
  PROVE  DnsInv'
  <1>1. /\ req' \in [Requests -> RequestType] /\ req'[r].pc = next
        /\ \A q \in Requests \ {r} :
               /\ req'[q].pc = req[q].pc /\ req'[q].op = req[q].op
               /\ req'[q].user = req[q].user /\ req'[q].key = req[q].key
               /\ req'[q].records = req[q].records /\ req'[q].id = req[q].id
               /\ req[q].pc = "write" /\ ~req'[q].overtaken
                     => ~req[q].overtaken /\ UNCHANGED zone
    BY StateFacts, FinishFacts
  <1>2. req[r] \in RequestType
    BY StateFacts
  <1>3. /\ zone' \in ZoneType /\ ensured' \in BOOLEAN /\ (ensured' => zone'.exists)
        /\ \A k \in Keys : Distinct(zone'.rrsets[k])
        /\ \/ zone' = NoZone
           \/ zone'.id = zone.id /\ zone'.account = zone.account /\ zone'.exists = zone.exists
    <2>1. CASE Apply(r)
      <3>1. zone' = Written(req[r]) /\ ensured' = (ensured /\ zone'.exists)
        BY <2>1 DEF Apply
      <3>2. zone' \in ZoneType
        BY <1>2, <3>1, StateFacts, WrittenFacts
      <3>3. \/ zone' = NoZone
            \/ zone'.id = zone.id /\ zone'.account = zone.account
               /\ zone'.exists = zone.exists
        BY <1>2, <3>1, StateFacts, WrittenFacts
      <3>4. ensured' \in BOOLEAN /\ (ensured' => zone'.exists)
        BY <3>1, StateFacts
      <3> QED
        BY <3>1, <3>2, <3>3, <3>4, WrittenDistinct
    <2>2. CASE UNCHANGED <<zone, ensured>>
      BY <2>2, StateFacts
    <2> QED
      BY <2>1, <2>2
  <1>z. NoZone.id = 0 /\ NoZone.exists = FALSE
    BY DEF NoZone
  <1>4. TypeOK'
    BY <1>1, <1>3, StateFacts, TypePartsNext
  <1>5. Numbered'
    BY <1>3, <1>z, StateFacts DEF Numbered
  <1>6. Checked'
    <2> SUFFICES ASSUME NEW q \in Requests, req'[q].pc = "write"
                 PROVE  /\ req'[q].id > 0 /\ req'[q].id <= zones
                        /\ zone'.id = req'[q].id =>
                              \/ req'[q].user \in Admins
                              \/ zone'.account \in {NoAccount, req'[q].user}
      BY DEF Checked, canAccessZone
    <2>1. q # r /\ req[q].pc = "write" /\ req'[q].id = req[q].id /\ req'[q].user = req[q].user
      BY <1>1
    <2>2. /\ req[q].id > 0 /\ req[q].id <= zones
          /\ zone.id = req[q].id => canAccessZone(req[q].user)
      BY <2>1, StateFacts DEF Checked
    <2>3. CASE zone' = NoZone
      <3>1. zone'.id # req[q].id
        BY <1>z, <2>2, <2>3
      <3> QED
        BY <2>1, <2>2, <3>1
    <2>4. CASE zone'.id = zone.id /\ zone'.account = zone.account
      BY <2>1, <2>2, <2>4 DEF canAccessZone
    <2> QED
      BY <1>3, <2>3, <2>4
  <1>7. Complete'
    <2> SUFFICES ASSUME NEW q \in Requests, req'[q].pc = "write", ~req'[q].overtaken
                 PROVE  /\ zone'.exists
                        /\ req'[q].op = "create" =>
                              ToSet(zone'.rrsets[req'[q].key]) \subseteq ToSet(req'[q].records)
      BY DEF Complete
    <2>1. q # r /\ req[q].pc = "write" /\ ~req[q].overtaken /\ UNCHANGED zone
      BY <1>1
    <2> QED
      BY <1>1, <2>1, StateFacts DEF Complete
  <1>8. NoDuplicateRecords'
    BY <1>3 DEF NoDuplicateRecords, Distinct
  <1>9. SentDistinct'
    BY <1>1, StateFacts DEF SentDistinct
  <1>10. Announced'
    <2>1. CASE next = "notify"
      BY <1>1, <2>1 DEF Announced
    <2>2. CASE next = "idle"
      <3>1. CASE zone' = NoZone
        BY <1>z, <3>1 DEF Announced
      <3>2. CASE UNCHANGED zone
        BY <1>1, <3>2, StateFacts DEF Announced
      <3> QED
        BY <2>2, <3>1, <3>2 DEF Announced
    <2> QED
      BY <2>1, <2>2
  <1>11. EnsuredZoneExists'
    BY <1>3 DEF EnsuredZoneExists
  <1> QED
    BY <1>4, <1>5, <1>6, <1>7, <1>8, <1>9, <1>10, <1>11 DEF DnsInv

LEMMA WriteStep ==
  ASSUME DnsInv, NEW r \in Requests, Write(r)
  PROVE  DnsInv'
  <1> DEFINE accepted == zone.exists /\ Consistent(Written(req[r]).rrsets)
             next == IF accepted /\ req[r].op # "deleteZone" THEN "notify" ELSE "idle"
  <1>1. /\ req[r].pc = "write" /\ Finish(r, next)
        /\ IF accepted THEN Apply(r) ELSE UNCHANGED <<zone, ensured>>
        /\ UNCHANGED <<secondary, operator, zones, requests, faults>>
    BY DEF Write, bounds
  <1>2. next \in {"idle", "notify"}
    OBVIOUS
  <1>3. next = "idle" => UNCHANGED zone \/ zone' = NoZone
    <2>1. CASE ~accepted
      BY <1>1, <2>1
    <2>2. CASE accepted /\ req[r].op = "deleteZone"
      BY <1>1, <2>2 DEF Apply, Written
    <2>3. CASE accepted /\ req[r].op # "deleteZone"
      BY <2>3
    <2> QED
      BY <2>1, <2>2, <2>3
  <1>4. Apply(r) \/ UNCHANGED <<zone, ensured>>
    BY <1>1
  <1> HIDE DEF next, accepted
  <1> QED
    BY <1>1, <1>2, <1>3, <1>4, StateFacts, FinishStep

LEMMA WriteFailsStep ==
  ASSUME DnsInv, NEW r \in Requests, WriteFails(r)
  PROVE  DnsInv'
  <1>1. /\ req[r].pc = "write" /\ Finish(r, "idle") /\ Fault
        /\ Apply(r) \/ UNCHANGED <<zone, ensured>>
        /\ UNCHANGED <<secondary, operator, zones, requests>>
    BY DEF WriteFails
  <1>2. faults' \in Nat /\ faults' # 0
    BY <1>1, Counted
  <1> QED
    BY <1>1, <1>2, FinishStep

LEMMA NotifyStep ==
  ASSUME DnsInv, NEW r \in Requests, Notify(r)
  PROVE  DnsInv'
  <1>1. /\ req[r].pc = "notify" /\ req' = [req EXCEPT ![r] = NoRequest]
        /\ UNCHANGED <<zone, operator, ensured, zones, requests>>
        /\ \/ /\ secondary' = IF zone.exists /\ zone.kind = "Master" /\ zone.axfr
                              THEN zone.rrsets ELSE secondary
              /\ UNCHANGED faults
           \/ Fault /\ UNCHANGED secondary
    BY DEF Notify
  <1>2. /\ req' \in [Requests -> RequestType] /\ req'[r] = NoRequest
        /\ \A q \in Requests : q # r => req'[q] = req[q]
    BY <1>1, StateFacts, EmptyTypes
  <1>3. \A q \in Requests : req'[q].pc = "write" => req'[q] = req[q]
    BY <1>2 DEF NoRequest
  <1>4. secondary' \in RRsets /\ faults' \in Nat
    <2>1. zone.rrsets \in RRsets
      BY StateFacts DEF ZoneType
    <2> QED
      BY <1>1, <2>1, StateFacts, Counted
  <1>5. TypeOK'
    BY <1>1, <1>2, <1>4, StateFacts, TypePartsNext
  <1>6. Numbered' /\ NoDuplicateRecords' /\ EnsuredZoneExists'
    BY <1>1 DEF DnsInv, Numbered, NoDuplicateRecords, EnsuredZoneExists
  <1>7. Checked'
    BY <1>1, <1>3, StateFacts DEF Checked, canAccessZone
  <1>8. Complete'
    BY <1>1, <1>3, StateFacts DEF Complete
  <1>9. SentDistinct'
    BY <1>3, StateFacts DEF SentDistinct
  <1>10. Announced'
    <2>1. CASE Fault
      BY <2>1, Counted DEF Announced
    <2>2. CASE secondary' = IF zone.exists /\ zone.kind = "Master" /\ zone.axfr
                            THEN zone.rrsets ELSE secondary
      BY <1>1, <2>2 DEF Announced
    <2> QED
      BY <1>1, <2>1, <2>2
  <1> QED
    BY <1>5, <1>6, <1>7, <1>8, <1>9, <1>10 DEF DnsInv

\* A step that touches neither the zone nor the requests.
LEMMA QuietStep ==
  ASSUME DnsInv, UNCHANGED <<zone, secondary, req, zones>>, requests' \in Nat,
         operator' \in {"idle", "create"}, ensured' \in BOOLEAN, faults' \in Nat,
         faults' = 0 => faults = 0, ensured' => zone.exists
  PROVE  DnsInv'
  <1>1. TypeOK'
    BY StateFacts, TypePartsNext
  <1>2. Numbered' /\ NoDuplicateRecords' /\ EnsuredZoneExists'
    BY DEF DnsInv, Numbered, NoDuplicateRecords, EnsuredZoneExists
  <1>3. Checked' /\ Complete' /\ SentDistinct'
    BY StateFacts DEF Checked, Complete, SentDistinct, canAccessZone
  <1>4. Announced'
    BY StateFacts DEF Announced
  <1> QED
    BY <1>1, <1>2, <1>3, <1>4 DEF DnsInv

LEMMA EnsureStep ==
  ASSUME DnsInv, EnsureGet \/ EnsureCreate \/ WizardCreateZone
  PROVE  DnsInv'
  <1>0. zone.exists \in BOOLEAN
    BY StateFacts DEF ZoneType
  <1>1. CASE EnsureGet
    <2>1. UNCHANGED <<zone, secondary, req, zones>> /\ requests' \in Nat
      BY <1>1, Counted DEF EnsureGet
    <2>2. faults' \in Nat /\ (faults' = 0 => faults = 0)
      BY <1>1, Counted, StateFacts DEF EnsureGet
    <2>3. /\ operator' \in {"idle", "create"} /\ ensured' \in BOOLEAN
          /\ ensured' => zone.exists
      BY <1>0, <1>1, StateFacts DEF EnsureGet
    <2> QED
      BY <2>1, <2>2, <2>3, QuietStep
  <1>2. CASE EnsureCreate
    <2>1. operator' = "idle" /\ UNCHANGED <<secondary, req, requests>>
      BY <1>2 DEF EnsureCreate
    <2>2. CASE zone.exists /\ ensured' = TRUE /\ UNCHANGED <<zone, zones, faults>>
      BY <2>1, <2>2, StateFacts, QuietStep
    <2>3. CASE /\ ~zone.exists
               /\ Create(NoAccount, "Native", operatorRecords)
               /\ \/ ensured' = TRUE /\ UNCHANGED faults
                  \/ Fault /\ UNCHANGED ensured
      <3>1. faults' \in Nat /\ ensured' \in BOOLEAN
        BY <2>3, Counted, StateFacts
      <3>2. "Native" \in Kinds
        BY DEF Kinds
      <3> QED
        BY <2>1, <2>3, <3>1, <3>2, StateFacts, CreateStep
    <2>4. CASE Fault /\ UNCHANGED <<zone, zones, ensured>>
      <3>1. faults' \in Nat /\ faults' # 0
        BY <2>4, Counted
      <3> QED
        BY <2>1, <2>4, <3>1, StateFacts, QuietStep
    <2> QED
      BY <1>2, <2>2, <2>3, <2>4 DEF EnsureCreate
  <1>3. CASE WizardCreateZone
    <2>1. /\ ~zone.exists /\ Create(NoAccount, "Native", NoRecords) /\ requests' \in Nat
          /\ UNCHANGED <<secondary, req, operator, ensured, faults>>
      BY <1>3, Counted DEF WizardCreateZone
    <2>2. "Native" \in Kinds
      BY DEF Kinds
    <2> QED
      BY <2>1, <2>2, StateFacts, CreateStep
  <1> QED
    BY <1>1, <1>2, <1>3

LEMMA HandlerStep ==
  ASSUME DnsInv, NEW r \in Requests, Handler(r)
  PROVE  DnsInv'
  <1>1. PICK u \in Users :
           \/ \E k \in Kinds : CreateZone(r, u, k)
           \/ DeleteZone(r, u)
           \/ \E n \in Names, t \in Types, c \in Content :
                 CreateRecord(r, u, n, t, c) \/ UpdateRecord(r, u, n, t, c)
           \/ \E n \in Names, t \in Types : DeleteRecord(r, u, n, t)
           \/ \E hosts \in BOOLEAN : UpdateSecondaryConfig(r, u, hosts)
    BY DEF Handler
  <1>2. req[r].pc = "idle" /\ requests' \in Nat
    BY Counted DEF Handler
  <1>3. Ops = {"none", "deleteZone", "create", "update", "delete", "axfr"}
    BY DEF Ops
  <1>4. ASSUME NEW k \in Kinds, CreateZone(r, u, k) PROVE DnsInv'
    <2>1. /\ ~zone.exists /\ Create(u, k, buildDefaultRecords)
          /\ UNCHANGED <<secondary, operator, ensured>>
          /\ req' = [req EXCEPT ![r] = [NoRequest EXCEPT !.pc = "notify"]] \/ UNCHANGED req
          /\ Fault \/ UNCHANGED faults
      BY <1>4 DEF CreateZone
    <2>2. faults' \in Nat
      BY <2>1, Counted, StateFacts
    <2>3. \/ UNCHANGED req
          \/ \E q \in Requests : req' = [req EXCEPT ![q] = [NoRequest EXCEPT !.pc = "notify"]]
      BY <2>1
    <2> QED
      BY <1>2, <2>1, <2>2, <2>3, StateFacts, CreateStep
  <1>5. ASSUME DeleteZone(r, u) PROVE DnsInv'
    BY <1>2, <1>3, <1>5, KeyFacts, SmallSets, GetZoneStep DEF DeleteZone
  <1>6. ASSUME NEW n \in Names, NEW t \in Types, NEW c \in Content,
               CreateRecord(r, u, n, t, c)
        PROVE  DnsInv'
    <2> DEFINE s == zone.rrsets[Key(n, t)]
    <2>1. /\ Key(n, t) \in Keys /\ c \notin ToSet(s)
          /\ GetZone(r, u, "create", Key(n, t), Append(s, c))
      BY <1>6, KeyFacts DEF CreateRecord
    <2>2. s \in Seq(Content) /\ Distinct(s)
      BY <2>1, StateFacts DEF ZoneType, RRsets
    <2>3. /\ Append(s, c) \in Seq(Content) /\ Distinct(Append(s, c))
          /\ ToSet(s) \subseteq ToSet(Append(s, c))
      <3> HIDE DEF s
      <3> QED
        BY <2>1, <2>2, AppendFacts
    <2> QED
      BY <1>2, <1>3, <2>1, <2>3, GetZoneStep
  <1>7. ASSUME NEW n \in Names, NEW t \in Types, NEW c \in Content,
               UpdateRecord(r, u, n, t, c)
        PROVE  DnsInv'
    <2>1. Key(n, t) \in Keys /\ GetZone(r, u, "update", Key(n, t), <<c>>)
      BY <1>7, KeyFacts DEF UpdateRecord
    <2>2. <<c>> \in Seq(Content) /\ Distinct(<<c>>)
      BY SmallSets
    <2> QED
      BY <1>2, <1>3, <2>1, <2>2, GetZoneStep
  <1>8. ASSUME NEW n \in Names, NEW t \in Types, DeleteRecord(r, u, n, t) PROVE DnsInv'
    <2>1. Key(n, t) \in Keys /\ GetZone(r, u, "delete", Key(n, t), <<>>)
      BY <1>8, KeyFacts DEF DeleteRecord
    <2> QED
      BY <1>2, <1>3, <2>1, SmallSets, GetZoneStep
  <1>9. ASSUME NEW hosts \in BOOLEAN, UpdateSecondaryConfig(r, u, hosts) PROVE DnsInv'
    <2>1. PICK op \in {"axfr", "none"} : GetZone(r, u, op, NoRequest.key, <<>>)
      BY <1>9 DEF UpdateSecondaryConfig
    <2> QED
      BY <1>2, <1>3, <2>1, KeyFacts, SmallSets, GetZoneStep
  <1> QED
    BY <1>1, <1>4, <1>5, <1>6, <1>7, <1>8, <1>9

\* Every step preserves the invariant.
LEMMA InvStep == DnsInv /\ [Next]_vars => DnsInv'
  <1> SUFFICES ASSUME DnsInv, [Next]_vars PROVE DnsInv'
    OBVIOUS
  <1>1. ASSUME NEW r \in Requests, Handler(r) \/ Write(r) \/ WriteFails(r) \/ Notify(r)
        PROVE  DnsInv'
    BY <1>1, HandlerStep, WriteStep, WriteFailsStep, NotifyStep
  <1>2. CASE EnsureGet \/ EnsureCreate \/ WizardCreateZone
    BY <1>2, EnsureStep
  <1>3. CASE UNCHANGED vars
    <2>1. /\ UNCHANGED <<zone, secondary, req, zones, operator, ensured, requests, faults>>
      BY <1>3 DEF vars, bounds
    <2> QED
      BY <2>1, StateFacts, QuietStep
  <1> QED
    BY <1>1, <1>2, <1>3 DEF Next

\* Only the write of a request takes it from "write" and changes the zone.
LEMMA ChangesFacts ==
  ASSUME DnsInv, [Next]_vars, NEW r \in Requests, Changes(r)
  PROVE  zone' = Written(req[r])
  <1>0. req[r].pc = "write" /\ req'[r].pc # "write" /\ zone' # zone
    BY DEF Changes
  <1>1. ASSUME NEW q \in Requests, Handler(q) PROVE FALSE
    <2>1. req[q].pc = "idle"
      BY <1>1 DEF Handler
    <2>2. q # r
      BY <1>0, <2>1
    <2>3. \/ \E n : req' = [req EXCEPT ![q] = n]
          \/ UNCHANGED req
      BY <1>1 DEF Handler, CreateZone, DeleteZone, CreateRecord, UpdateRecord, DeleteRecord,
                  UpdateSecondaryConfig, GetZone
    <2>4. req'[r] = req[r]
      BY <2>2, <2>3, StateFacts
    <2> QED
      BY <1>0, <2>4
  <1>2. ASSUME NEW q \in Requests, Write(q) PROVE zone' = Written(req[r])
    <2>1. PICK next \in {"idle", "notify"} : Finish(q, next)
      BY <1>2 DEF Write
    <2>2. q # r => req'[r].pc = req[r].pc
      BY <2>1, StateFacts, FinishFacts
    <2>3. q = r
      BY <1>0, <2>2
    <2> QED
      BY <1>0, <1>2, <2>3 DEF Write, Apply
  <1>3. ASSUME NEW q \in Requests, WriteFails(q) PROVE zone' = Written(req[r])
    <2>1. q # r => req'[r].pc = req[r].pc
      BY <1>3, StateFacts, FinishFacts DEF WriteFails
    <2>2. q = r
      BY <1>0, <2>1
    <2> QED
      BY <1>0, <1>3, <2>2 DEF WriteFails, Apply
  <1>4. ASSUME NEW q \in Requests, Notify(q) PROVE FALSE
    BY <1>0, <1>4 DEF Notify
  <1>5. CASE EnsureGet \/ EnsureCreate \/ WizardCreateZone
    BY <1>0, <1>5 DEF EnsureGet, EnsureCreate, WizardCreateZone
  <1>6. CASE UNCHANGED vars
    BY <1>0, <1>6 DEF vars
  <1> QED
    BY <1>1, <1>2, <1>3, <1>4, <1>5, <1>6 DEF Next

-----------------------------------------------------------------------------
(***************************************************************************)
(* The theorems                                                            *)
(***************************************************************************)

\* The inductive invariant of DnsZones.
THEOREM DnsInvariant == Spec => []DnsInv
  BY InitInv, InvStep, PTL DEF Spec

\* Every variable keeps its type, and every record set belongs to a name of
\* the zone, for every set of names users may write.
THEOREM DnsTypeCorrect == Spec => []TypeOK
  <1>1. DnsInv => TypeOK
    BY DEF DnsInv
  <1> QED
    BY <1>1, DnsInvariant, PTL

\* However many requests add records at the same time, or are repeated after
\* a lost answer, no record set holds a record twice.
THEOREM RecordsNeverDuplicate == Spec => []NoDuplicateRecords
  <1>1. DnsInv => NoDuplicateRecords
    BY DEF DnsInv
  <1> QED
    BY <1>1, DnsInvariant, PTL

\* As long as no call has failed, a change the secondary server lacks has a
\* request that is still to announce it.
THEOREM SecondaryUpToDate == Spec => []SecondaryFollows
  <1>1. DnsInv => SecondaryFollows
    BY DEF DnsInv, Announced, SecondaryFollows, AtRest
  <1> QED
    BY <1>1, DnsInvariant, PTL

\* What reconcileDNSZone has reported stays true until the panel deletes the
\* zone.
THEOREM EnsuredZonesExist == Spec => []EnsuredZoneExists
  <1>1. DnsInv => EnsuredZoneExists
    BY DEF DnsInv
  <1> QED
    BY <1>1, DnsInvariant, PTL

\* Only Create and Apply change the zone, and Create needs that there is none.
LEMMA WhoChanges ==
  ASSUME Next, zone.exists, zone' # zone
  PROVE  \E r \in Requests : req[r].pc = "write" /\ (Write(r) \/ WriteFails(r))
  BY DEF Next, Handler, CreateZone, DeleteZone, CreateRecord, UpdateRecord, DeleteRecord,
         UpdateSecondaryConfig, GetZone, Write, WriteFails, Notify, EnsureGet, EnsureCreate,
         WizardCreateZone

\* A zone with an account is changed by requests of its user and of admins
\* only, unless it is another zone than canAccessZone has seen: neither the
\* operator nor the wizard touches it, and the number of a zone is never
\* used again.
THEOREM ZonesOfAccountsAreSafe == Spec => AccountsKeepTheirZones
  <1>1. ASSUME DnsInv, [Next]_vars, zone.exists, zone.account # NoAccount, zone' # zone
        PROVE  \E r \in Requests :
                  /\ Changes(r)
                  /\ req[r].user \in Admins \union {zone.account} \/ zone.id # req[r].id
    <2>1. PICK r \in Requests : req[r].pc = "write" /\ (Write(r) \/ WriteFails(r))
      BY <1>1, WhoChanges DEF vars
    <2>2. req'[r].pc # "write"
      <3>1. PICK next \in {"idle", "notify"} : Finish(r, next)
        BY <2>1 DEF Write, WriteFails
      <3>2. req'[r] = IF next = "idle" THEN NoRequest ELSE [req[r] EXCEPT !.pc = next]
        BY <3>1 DEF Finish
      <3>3. req[r] \in RequestType
        BY <1>1, StateFacts
      <3> QED
        BY <3>2, <3>3 DEF NoRequest, RequestType
    <2>3. zone.id # req[r].id \/ canAccessZone(req[r].user)
      BY <1>1, <2>1 DEF DnsInv, Checked
    <2> QED
      BY <1>1, <2>1, <2>2, <2>3 DEF Changes, canAccessZone
  <1>2. DnsInv /\ [Next]_vars =>
           [zone.exists /\ zone.account # NoAccount /\ zone' # zone =>
               \E r \in Requests :
                  /\ Changes(r)
                  /\ req[r].user \in Admins \union {zone.account} \/ zone.id # req[r].id]_vars
    BY <1>1
  <1> QED
    BY <1>2, DnsInvariant, PTL DEF Spec, AccountsKeepTheirZones

\* CreateRecord never drops a record of the set it adds to, unless another
\* request has changed the zone between its read and its write.
THEOREM CreateRecordOnlyAdds == Spec => CreateOnlyAdds
  <1>1. DnsInv /\ [Next]_vars =>
           [\A r \in Requests :
               Changes(r) /\ req[r].op = "create" /\ ~req[r].overtaken =>
                  ToSet(zone.rrsets[req[r].key])
                     \subseteq ToSet(zone'.rrsets[req[r].key])]_vars
    <2> SUFFICES ASSUME DnsInv, [Next]_vars, NEW r \in Requests,
                        Changes(r), req[r].op = "create", ~req[r].overtaken
                 PROVE  ToSet(zone.rrsets[req[r].key])
                           \subseteq ToSet(zone'.rrsets[req[r].key])
      OBVIOUS
    <2>1. zone' = Written(req[r])
      BY ChangesFacts
    <2>2. Written(req[r]).rrsets[req[r].key] = req[r].records
      BY StateFacts, WrittenFacts
    <2>3. ToSet(zone.rrsets[req[r].key]) \subseteq ToSet(req[r].records)
      BY StateFacts DEF Changes, Complete
    <2> QED
      BY <2>1, <2>2, <2>3
  <1> QED
    BY <1>1, DnsInvariant, PTL DEF Spec, CreateOnlyAdds
=============================================================================
