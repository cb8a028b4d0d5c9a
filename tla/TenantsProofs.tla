---------------------------- MODULE TenantsProofs ----------------------------
(***************************************************************************)
(* Proofs about Tenants and WebsiteRegistry, for every set of requests,    *)
(* users, domains, plans and limits and every bound: type correctness, the *)
(* inductive invariant TenantsInv, and from it that no request does harm   *)
(* by itself: what goes wrong goes wrong because another request came      *)
(* between its calls, or because one of them failed.                       *)
(***************************************************************************)
EXTENDS TenantsProperties, FiniteSetTheorems, WellFoundedInduction, TLAPS

Phases == {"", "Running", "Suspended"}

SiteType == [exists: BOOLEAN, del: BOOLEAN, owner: Names, aliases: SUBSET Domains, uid: Nat,
             phase: Phases]

PlanType == [exists: BOOLEAN, limits: Limits]

UserType == [id: Nat, exists: BOOLEAN, enabled: BOOLEAN]

NamespaceType == [exists: BOOLEAN, label: Plans \union {0}, quota: Plans \union {0},
                  limits: Plans \union {0}]

RequestType == [pc: Calls, user: Names, site: Domains \union {Nobody}, aliases: SUBSET Domains,
                count: Nat, uid: Nat, from: Domains \union {Nobody}, id: Nat,
                enabled: BOOLEAN, phase: Phases, todo: SUBSET Domains, plan: Plans \union {0},
                limits: Limits, failed: BOOLEAN, missed: SUBSET Domains, since: SUBSET Domains,
                stale: BOOLEAN]

(***************************************************************************)
(* What a request in flight may count on, stated of its record q, with the *)
(* sites s, the limit l, the accounts a and the namespaces n.  Each part   *)
(* holds from the call that establishes it to the one that uses it, for    *)
(* the sites nobody has written since and while q is not stale.            *)
(***************************************************************************)

\* The request is about an account or a site.
Engaged(q) ==
    /\ q.pc \in {"put", "delete", "namespace", "list", "phases", "label", "quota", "limits",
                 "assigned"} => q.user \in Users
    /\ q.pc \in {"limit", "unique", "uid", "maxuid", "create", "alias"} => q.site \in Domains

\* The domains that are about to be stored are free.
Asked(q) == q.aliases \union (IF q.pc = "alias" THEN {} ELSE {q.site})

Free(q, s) ==
    q.pc \in {"uid", "maxuid", "create", "alias"} /\ ~q.failed =>
       \A d \in Domains \ q.since : s[d].exists =>
          Asked(q) \intersect ({d} \union s[d].aliases) = {}

\* There are no more sites than were counted.
Counted(q, s) ==
    q.pc = "limit" => Cardinality({d \in Domains : s[d].exists} \ q.since) <= q.count

\* There is room for one site more.
Within(q, s, l) ==
    q.pc \in {"unique", "uid", "maxuid", "create"} /\ ~q.failed /\ ~q.stale /\ l > 0 =>
       Cardinality({d \in Domains : s[d].exists} \ q.since) < l

\* The UID is that of a site of the user, or the user and the UID are new.
Newcomer(q, s) == \A d \in Domains \ q.since : s[d].exists => s[d].owner # q.user

Unused(q, s) == \A d \in Domains \ q.since : s[d].exists => s[d].uid # q.uid

Fitting(q, s) ==
    /\ q.pc = "maxuid" /\ ~q.failed => Newcomer(q, s)
    /\ q.pc = "create" /\ ~q.failed =>
          \/ q.from \in q.since
          \/ /\ q.from \in Domains
             /\ s[q.from].exists
             /\ s[q.from].owner = q.user
             /\ s[q.from].uid = q.uid
          \/ Newcomer(q, s) /\ Unused(q, s)

\* Every site of the user has the phase or is still to be written.
Reached(q, s) ==
    q.pc = "phases" /\ ~q.failed =>
       \A d \in Domains \ (q.since \union q.missed) : s[d].exists /\ s[d].owner = q.user =>
          d \in q.todo \/ s[d].phase = q.phase

\* An account that is to be written back as enabled is enabled.
Current(q, a) ==
    q.pc = "put" /\ q.enabled /\ ~q.stale /\ q.phase # "Running" => a[q.user].enabled

\* What AssignPlan has written so far is still there.
Applied(q, n) ==
    /\ q.pc \in {"quota", "limits", "assigned"} /\ ~q.stale => n[q.user].label = q.plan
    /\ q.pc \in {"limits", "assigned"} /\ ~q.stale /\ (q.limits.storage \/ q.limits.compute) =>
          n[q.user].quota = q.plan
    /\ q.pc = "assigned" /\ ~q.stale /\ q.limits.compute => n[q.user].limits = q.plan

Sound(q, s, l, a, n) ==
    /\ Engaged(q) /\ Free(q, s) /\ Counted(q, s) /\ Within(q, s, l) /\ Fitting(q, s)
    /\ Reached(q, s) /\ Current(q, a) /\ Applied(q, n)

TenantsInv ==
    /\ TypeOK
    /\ \A r \in Requests : Sound(req[r], sites, getWebsiteLimit, users, namespaces)

-----------------------------------------------------------------------------
(***************************************************************************)
(* Extrema of sets of numbers                                              *)
(***************************************************************************)

\* Of the subsets of a finite set some one is minimal.
LEMMA MinimalSubset ==
  ASSUME NEW S, IsFiniteSet(S), NEW F \in SUBSET (SUBSET S), F # {}
  PROVE  \E X \in F : \A Y \in F : Y \subseteq X => Y = X
<1>1. IsWellFoundedOn(StrictSubsetOrdering(S), SUBSET S)
  BY FS_StrictSubsetOrderingWellFounded, FS_FiniteSubsetsOfFinite
<1>2. PICK X \in F : \A Y \in F : ~(<<Y, X>> \in StrictSubsetOrdering(S))
  BY <1>1, WFMin
<1>3. QED
  BY <1>2 DEF StrictSubsetOrdering

\* Max takes a greatest number of a finite set: the numbers above it are
\* fewest.
LEMMA MaxIsGreatest ==
  ASSUME NEW S, S \subseteq Nat, IsFiniteSet(S), S # {}
  PROVE  Max(S) \in S /\ \A x \in S : x <= Max(S)
<1> DEFINE B == S
           Above(y) == {x \in S : x > y}
           F == {Above(y) : y \in S}
<1>a. IsFiniteSet(B)
  OBVIOUS
<1>1. F \in SUBSET (SUBSET B) /\ F # {}
  OBVIOUS
<1>2. PICK X \in F : \A Y \in F : Y \subseteq X => Y = X
  <2> HIDE DEF F, B
  <2>1. QED
    BY <1>1, <1>a, MinimalSubset
<1>3. PICK m \in S : X = Above(m)
  BY <1>2
<1>4. ASSUME NEW x \in S, x > m
      PROVE  FALSE
  <2>1. Above(x) \in F
    OBVIOUS
  <2>2. Above(x) \subseteq Above(m)
    <3>1. \A z \in Nat : z > x => z > m
      BY <1>4
    <3>2. QED
      BY <3>1
  <2>3. x \in Above(m) /\ x \notin Above(x)
    BY <1>4
  <2>4. QED
    BY <2>1, <2>2, <2>3, <1>2, <1>3
<1>5. \E m2 \in S : \A x \in S : m2 >= x
  BY <1>4
<1>6. QED
  BY <1>5 DEF Max

\* Min takes a least number of a set: the numbers below it are fewest.
LEMMA MinIsLeast ==
  ASSUME NEW S \in SUBSET Nat, S # {}
  PROVE  Min(S) \in S /\ \A x \in S : Min(S) <= x
<1>0. PICK b \in S : TRUE
  OBVIOUS
<1> DEFINE B == {x \in S : x <= b}
           Below(y) == {x \in B : x < y}
           F == {Below(y) : y \in B}
<1>a. IsFiniteSet(B)
  BY <1>0, FS_BoundedSetOfNaturals
<1>1. F \in SUBSET (SUBSET B) /\ F # {}
  <2>1. b \in B
    BY <1>0
  <2>2. Below(b) \in F
    BY <2>1
  <2>3. F \in SUBSET (SUBSET B)
    OBVIOUS
  <2>4. QED
    BY <2>2, <2>3
<1>2. PICK X \in F : \A Y \in F : Y \subseteq X => Y = X
  <2> HIDE DEF F, B
  <2>1. QED
    BY <1>1, <1>a, MinimalSubset
<1>3. PICK m \in B : X = Below(m)
  BY <1>2
<1>4. ASSUME NEW x \in B, x < m
      PROVE  FALSE
  <2>1. Below(x) \in F
    OBVIOUS
  <2>2. Below(x) \subseteq Below(m)
    <3>1. \A z \in Nat : z < x => z < m
      BY <1>4
    <3>2. QED
      BY <3>1
  <2>3. x \in Below(m) /\ x \notin Below(x)
    BY <1>4
  <2>4. QED
    BY <2>1, <2>2, <2>3, <1>2, <1>3
<1>5. \A x \in S : m <= x
  BY <1>0, <1>4
<1>6. \E m2 \in S : \A x \in S : m2 =< x
  BY <1>5
<1>7. QED
  BY <1>6 DEF Min

\* The numbers a function takes on a finite set are finitely many.
LEMMA FiniteRange ==
  ASSUME NEW S, IsFiniteSet(S), NEW f \in [S -> Nat]
  PROVE  IsFiniteSet({f[x] : x \in S})
<1> DEFINE T == {f[x] : x \in S}
<1>1. f \in Surjection(S, T)
  BY DEF Surjection
<1>2. QED
  BY <1>1, FS_Surjection

-----------------------------------------------------------------------------
(***************************************************************************)
(* Types                                                                   *)
(***************************************************************************)

\* TypeOK, with its sets named.
LEMMA TypeParts ==
  TypeOK <=> /\ sites \in [Domains -> SiteType]
             /\ plans \in [Plans -> PlanType]
             /\ users \in [Users -> UserType]
             /\ namespaces \in [Users -> NamespaceType]
             /\ req \in [Requests -> RequestType]
             /\ requests \in Nat
             /\ faults \in Nat
BY DEF TypeOK, SiteType, PlanType, UserType, NamespaceType, RequestType, Phases

LEMMA TypePartsNext ==
  ASSUME sites' \in [Domains -> SiteType], plans' \in [Plans -> PlanType],
         users' \in [Users -> UserType], namespaces' \in [Users -> NamespaceType],
         req' \in [Requests -> RequestType], requests' \in Nat, faults' \in Nat
  PROVE  TypeOK'
BY DEF TypeOK, SiteType, PlanType, UserType, NamespaceType, RequestType, Phases

\* A record is of the type when its fields are.
LEMMA RequestIdle == NoRequest \in RequestType /\ NoRequest.pc = "idle"
BY DEF NoRequest, RequestType, Calls, Names, Limits, Phases

LEMMA LimitFacts ==
  ASSUME NEW l \in Limits
  PROVE  l.websites \in Nat /\ l.storage \in BOOLEAN /\ l.compute \in BOOLEAN
<1>1. CASE l \in PlanLimits
  BY <1>1, RegistryConstants
<1>2. CASE l = NoLimits
  BY <1>2 DEF NoLimits
<1>3. QED
  BY <1>1, <1>2 DEF Limits

\* The limit is a number.
LEMMA LimitIsNumber ==
  ASSUME TypeOK
  PROVE  getWebsiteLimit \in Nat
<1> DEFINE E == {p \in Plans : plans[p].exists}
<1>1. CASE E = {}
  BY <1>1 DEF getWebsiteLimit
<1>2. CASE E # {}
  <2>1. E \in SUBSET Nat
    BY RegistryConstants
  <2>2. Min(E) \in E
    <3> HIDE DEF E
    <3>1. QED
      BY <2>1, <1>2, MinIsLeast
  <2>3. plans[Min(E)].limits \in Limits
    BY <2>2, TypeParts DEF PlanType
  <2>4. QED
    BY <1>2, <2>3, LimitFacts DEF getWebsiteLimit
<1>3. QED
  BY <1>1, <1>2

-----------------------------------------------------------------------------
(***************************************************************************)
(* Requests that others overtake                                           *)
(***************************************************************************)

\* What a step of others may do to request q: it goes on with the same
\* fields, but knows of each site that has changed, and whether what it has
\* read has: the limit, the account or the namespace.
Spared(p) ==
    /\ p.pc \in {"unique", "uid", "maxuid", "create"} => getWebsiteLimit' = getWebsiteLimit
    /\ p.pc = "put" => (users[p.user].enabled => users'[p.user].enabled)
    /\ p.pc \in {"label", "quota", "limits", "assigned"} =>
          namespaces'[p.user] = namespaces[p.user]

Overtaken(q) ==
    LET p == req[q]
        n == req'[q] IN
    \/ p.pc = "idle" /\ n.pc = "idle"
    \/ /\ \A f \in {"pc", "user", "site", "aliases", "count", "uid", "from", "id", "enabled",
                    "phase", "plan", "limits", "failed", "missed"} : n[f] = p[f]
       /\ p.since \subseteq n.since
       /\ p.todo \ n.since \subseteq n.todo
       /\ p.stale => n.stale
       /\ \A d \in Domains \ n.since : sites'[d] = sites[d]
       /\ n.stale \/ Spared(p)

\* Then it may still count on what it could.
LEMMA Unharmed ==
  ASSUME TypeOK, TypeOK', NEW q \in Requests, Overtaken(q),
         Sound(req[q], sites, getWebsiteLimit, users, namespaces)
  PROVE  Sound(req[q], sites, getWebsiteLimit, users, namespaces)'
<1> DEFINE p == req[q]
           n == req'[q]
<1>t. p \in RequestType /\ n \in RequestType
  BY TypeParts DEF TypeOK, RequestType, Phases
<1>1. CASE p.pc = "idle" /\ n.pc = "idle"
  BY <1>1 DEF Sound, Engaged, Free, Counted, Within, Fitting, Reached, Current, Applied
<1>2. CASE ~(p.pc = "idle" /\ n.pc = "idle")
  <2>1. /\ n.pc = p.pc /\ n.user = p.user /\ n.site = p.site /\ n.aliases = p.aliases
        /\ n.uid = p.uid /\ n.from = p.from /\ n.enabled = p.enabled /\ n.phase = p.phase
        /\ n.plan = p.plan /\ n.limits = p.limits /\ n.failed = p.failed
        /\ n.count = p.count /\ n.missed = p.missed
    BY <1>2 DEF Overtaken
  <2>2. /\ p.since \subseteq n.since
        /\ p.todo \ n.since \subseteq n.todo
        /\ p.stale => n.stale
        /\ \A d \in Domains \ n.since : sites'[d] = sites[d]
        /\ n.stale \/ Spared(p)
    BY <1>2 DEF Overtaken
  <2>3. Engaged(n)
    BY <2>1 DEF Sound, Engaged
  <2>4. Free(n, sites')
    <3>1. Free(p, sites)
      BY DEF Sound
    <3>2. Asked(n) = Asked(p)
      BY <2>1 DEF Asked
    <3>3. QED
      BY <3>1, <3>2, <2>1, <2>2 DEF Free
  <2> DEFINE S == {d \in Domains : sites[d].exists} \ p.since
             T == {d \in Domains : sites'[d].exists} \ n.since
  <2>c. Cardinality(T) <= Cardinality(S) /\ Cardinality(T) \in Nat /\ Cardinality(S) \in Nat
    <3>1. T \in SUBSET S /\ S \in SUBSET Domains
      BY <2>2
    <3>2. IsFiniteSet(S)
      BY <3>1, FS_Subset, RegistryConstants
    <3> HIDE DEF S, T
    <3>3. Cardinality(T) <= Cardinality(S) /\ IsFiniteSet(T)
      BY <3>1, <3>2, FS_Subset
    <3>4. QED
      BY <3>2, <3>3, FS_CardinalityType
  <2>d. Counted(n, sites')
    <3>1. SUFFICES ASSUME p.pc = "limit"
                   PROVE  Cardinality(T) <= p.count
      BY <2>1 DEF Counted
    <3>2. Cardinality(S) <= p.count
      BY <3>1 DEF Sound, Counted
    <3>3. p.count \in Nat
      BY <1>t DEF RequestType
    <3> HIDE DEF S, T, p
    <3>4. QED
      BY <2>c, <3>2, <3>3
  <2>5. Within(n, sites', getWebsiteLimit')
    <3>1. SUFFICES ASSUME p.pc \in {"unique", "uid", "maxuid", "create"}, ~p.failed, ~n.stale,
                          getWebsiteLimit' > 0
                   PROVE  Cardinality(T) < getWebsiteLimit'
      BY <2>1 DEF Within
    <3>2. getWebsiteLimit' = getWebsiteLimit
      BY <3>1, <2>2 DEF Spared
    <3>3. Cardinality(S) < getWebsiteLimit
      BY <3>1, <3>2, <2>2 DEF Sound, Within
    <3>4. getWebsiteLimit \in Nat
      BY LimitIsNumber
    <3> HIDE DEF S, T
    <3>5. QED
      BY <2>c, <3>2, <3>3, <3>4
  <2>6. Fitting(n, sites')
    <3>1. Fitting(p, sites)
      BY DEF Sound
    <3>2. Newcomer(p, sites) => Newcomer(n, sites')
      BY <2>1, <2>2 DEF Newcomer
    <3>3. Unused(p, sites) => Unused(n, sites')
      BY <2>1, <2>2 DEF Unused
    <3>4. QED
      BY <3>1, <3>2, <3>3, <2>1, <2>2 DEF Fitting
  <2>7. Reached(n, sites')
    BY <2>1, <2>2 DEF Sound, Reached
  <2>8. Current(n, users')
    BY <2>1, <2>2 DEF Sound, Current, Spared
  <2>9. Applied(n, namespaces')
    BY <2>1, <2>2 DEF Sound, Applied, Spared
  <2>10. QED
    BY <2>3, <2>4, <2>d, <2>5, <2>6, <2>7, <2>8, <2>9 DEF Sound
<1>3. QED
  BY <1>1, <1>2

\* The limit changes with the plans only.
LEMMA LimitUnchanged ==
  ASSUME plans' = plans
  PROVE  getWebsiteLimit' = getWebsiteLimit
BY DEF getWebsiteLimit

\* A request that is done may count on nothing.
LEMMA IdleIsSound ==
  ASSUME NEW q, NEW s, NEW l, NEW a, NEW n, q.pc = "idle"
  PROVE  Sound(q, s, l, a, n)
BY DEF Sound, Engaged, Free, Counted, Within, Fitting, Reached, Current, Applied

\* One request goes on, the others are overtaken.
LEMMA OthersSound ==
  ASSUME TenantsInv, TypeOK', NEW r,
         \A q \in Requests \ {r} : Overtaken(q),
         r \in Requests => Sound(req[r], sites, getWebsiteLimit, users, namespaces)'
  PROVE  TenantsInv'
<1>1. SUFFICES ASSUME NEW q \in Requests
               PROVE  Sound(req[q], sites, getWebsiteLimit, users, namespaces)'
  BY DEF TenantsInv
<1>2. CASE q = r
  BY <1>2
<1>3. CASE q # r
  BY <1>3, Unharmed DEF TenantsInv
<1>4. QED
  BY <1>2, <1>3

\* A step of request r that only it takes part in.
LEMMA StepAlone ==
  ASSUME TenantsInv, NEW r \in Requests, NEW STATE mine, mine \in RequestType, Step(r, mine),
         UNCHANGED <<sites, plans, users, namespaces>>, requests' \in Nat, faults' \in Nat,
         Sound(mine, sites, getWebsiteLimit, users, namespaces)
  PROVE  TenantsInv'
<1>1. TypeOK
  BY DEF TenantsInv
<1>2. req \in [Requests -> RequestType]
  BY <1>1, TypeParts
<1>3. req' \in [Requests -> RequestType] /\ req'[r] = mine
  BY <1>2 DEF Step
<1>4. \A q \in Requests \ {r} : req'[q] = req[q]
  BY <1>2 DEF Step
<1>5. TypeOK'
  BY <1>1, <1>3, TypeParts, TypePartsNext
<1>6. getWebsiteLimit' = getWebsiteLimit
  BY LimitUnchanged
<1>7. ASSUME NEW q \in Requests \ {r}
      PROVE  Overtaken(q)
  BY <1>4, <1>6 DEF Overtaken, Spared
<1>8. Sound(req[r], sites, getWebsiteLimit, users, namespaces)'
  BY <1>3, <1>6
<1>9. QED
  BY <1>5, <1>7, <1>8, OthersSound

\* The requests that a step changes as r says, and the others by Interfere.
LEMMA StepOnSites ==
  ASSUME TenantsInv, NEW r, NEW STATE mine, NEW STATE changed,
         req' = [q \in Requests |-> IF q = r THEN mine ELSE Interfere(q, changed)],
         changed \subseteq Domains,
         sites' \in [Domains -> SiteType],
         \A d \in Domains \ changed : sites'[d] = sites[d],
         UNCHANGED <<plans, users, namespaces>>, requests' \in Nat, faults' \in Nat,
         r \in Requests =>
            mine \in RequestType /\ Sound(mine, sites', getWebsiteLimit, users, namespaces)
  PROVE  TenantsInv'
<1>1. TypeOK
  BY DEF TenantsInv
<1>2. req \in [Requests -> RequestType]
  BY <1>1, TypeParts
<1>3. ASSUME NEW q \in Requests
      PROVE  Interfere(q, changed) \in RequestType
  <2>1. req[q] \in RequestType
    BY <1>2
  <2>2. /\ req[q].since \union changed \in SUBSET Domains
        /\ req[q].todo \ changed \in SUBSET Domains
    BY <2>1 DEF RequestType
  <2>3. QED
    BY <2>1, <2>2 DEF Interfere, RequestType
<1>4. req' \in [Requests -> RequestType]
  <2>1. \A q \in Requests : (IF q = r THEN mine ELSE Interfere(q, changed)) \in RequestType
    BY <1>3
  <2>2. QED
    BY <2>1
<1>5. TypeOK'
  BY <1>1, <1>4, TypeParts, TypePartsNext
<1>6. getWebsiteLimit' = getWebsiteLimit
  BY LimitUnchanged
<1>7. ASSUME NEW q \in Requests \ {r}
      PROVE  Overtaken(q)
  <2>1. req'[q] = Interfere(q, changed) /\ req[q] \in RequestType
    BY <1>2
  <2>2. CASE req[q].pc = "idle"
    BY <2>1, <2>2 DEF Interfere, Overtaken
  <2>3. CASE req[q].pc # "idle"
    <3>1. req'[q] = [req[q] EXCEPT !.since = @ \union changed, !.todo = @ \ changed]
      BY <2>1, <2>3 DEF Interfere
    <3>2. /\ req'[q].since = req[q].since \union changed
          /\ req'[q].todo = req[q].todo \ changed
          /\ req'[q].stale = req[q].stale
      BY <3>1, <2>1 DEF RequestType
    <3>3. \A f \in {"pc", "user", "site", "aliases", "count", "uid", "from", "id", "enabled",
                    "phase", "plan", "limits", "failed", "missed"} : req'[q][f] = req[q][f]
      BY <3>1, <2>1, ZenonT(40) DEF RequestType
    <3>4. QED
      BY <3>2, <3>3, <1>6 DEF Overtaken, Spared
  <2>4. QED
    BY <2>2, <2>3
<1>8. r \in Requests => Sound(req[r], sites, getWebsiteLimit, users, namespaces)'
  BY <1>6
<1>9. QED
  BY <1>5, <1>7, <1>8, OthersSound

\* The requests that a step on accounts, namespaces or plans changes: r as
\* it says, and those of the set are told.
LEMMA StepOnAccounts ==
  ASSUME TenantsInv, NEW r, NEW STATE mine, NEW STATE set,
         Overtake(r, mine, set),
         UNCHANGED sites, plans' \in [Plans -> PlanType], users' \in [Users -> UserType],
         namespaces' \in [Users -> NamespaceType], requests' \in Nat, faults' \in Nat,
         \A q \in Requests \ {r} : q \in set \/ Spared(req[q]),
         r \in Requests =>
            mine \in RequestType /\ Sound(mine, sites, getWebsiteLimit', users', namespaces')
  PROVE  TenantsInv'
<1>1. TypeOK
  BY DEF TenantsInv
<1>2. req \in [Requests -> RequestType]
  BY <1>1, TypeParts
<1>3. ASSUME NEW q \in Requests
      PROVE  [req[q] EXCEPT !.stale = @ \/ q \in set] \in RequestType
  <2>1. req[q] \in RequestType
    BY <1>2
  <2>2. (req[q].stale \/ q \in set) \in BOOLEAN
    OBVIOUS
  <2>3. QED
    BY <2>1, <2>2 DEF RequestType
<1>4. req' \in [Requests -> RequestType]
  <2>1. \A q \in Requests : (IF q = r THEN mine ELSE [req[q] EXCEPT !.stale = @ \/ q \in set])
                            \in RequestType
    BY <1>3
  <2>2. QED
    BY <2>1 DEF Overtake
<1>5. TypeOK'
  BY <1>1, <1>4, TypeParts, TypePartsNext
<1>7. ASSUME NEW q \in Requests \ {r}
      PROVE  Overtaken(q)
  <2>1. req'[q] = [req[q] EXCEPT !.stale = @ \/ q \in set] /\ req[q] \in RequestType
    BY <1>2 DEF Overtake
  <2>2. /\ \A f \in {"pc", "user", "site", "aliases", "count", "uid", "from", "id", "enabled",
                     "phase", "plan", "limits", "failed", "missed"} : req'[q][f] = req[q][f]
        /\ req'[q].since = req[q].since
        /\ req'[q].todo = req[q].todo
        /\ req'[q].stale = (req[q].stale \/ q \in set)
    BY <2>1 DEF RequestType
  <2>3. QED
    BY <2>2 DEF Overtaken
<1>8. r \in Requests => Sound(req[r], sites, getWebsiteLimit, users, namespaces)'
  <2>1. r \in Requests => req'[r] = mine
    BY DEF Overtake
  <2>2. QED
    BY <2>1
<1>9. QED
  BY <1>5, <1>7, <1>8, OthersSound

-----------------------------------------------------------------------------
(***************************************************************************)
(* The handlers of sites                                                   *)
(***************************************************************************)

\* A request that ends, and changes nothing but itself.
LEMMA Ended ==
  ASSUME TenantsInv, NEW r \in Requests, Step(r, NoRequest),
         UNCHANGED <<sites, plans, users, namespaces>>, requests' \in Nat, faults' \in Nat
  PROVE  TenantsInv'
BY RequestIdle, IdleIsSound, StepAlone

LEMMA CountersAreNumbers ==
  ASSUME TypeOK
  PROVE  /\ requests \in Nat /\ faults \in Nat
         /\ Arrives => requests' \in Nat
         /\ Fault => faults' \in Nat
BY TypeParts DEF Arrives, Fault

\* All requests know of the site that is written.
LEMMA SiteWritten ==
  ASSUME TenantsInv, NEW d \in Domains, NEW STATE site, site \in SiteType, WriteSite(d, site),
         UNCHANGED <<plans, users, namespaces>>, requests' \in Nat, faults' \in Nat
  PROVE  TenantsInv'
<1> DEFINE changed == IF site = sites[d] THEN {} ELSE {d}
<1>1. sites \in [Domains -> SiteType]
  BY TypeParts DEF TenantsInv
<1>2. sites' \in [Domains -> SiteType] /\ \A e \in Domains \ changed : sites'[e] = sites[e]
  BY <1>1 DEF WriteSite
<1>3. req' = [q \in Requests |-> IF q = Nobody THEN NoRequest ELSE Interfere(q, changed)]
  BY NobodyIsNoRequest DEF WriteSite
<1>4. changed \subseteq Domains
  OBVIOUS
<1> HIDE DEF changed
<1>5. QED
  BY <1>2, <1>3, <1>4, StepOnSites, NobodyIsNoRequest

LEMMA CreateWebsiteSound ==
  ASSUME TenantsInv, NEW r \in Requests, NEW u \in Users, NEW d \in Domains,
         NEW aliases \in SUBSET (Domains \ {d}), Arrives, CreateWebsite(r, u, d, aliases),
         UNCHANGED <<users, namespaces>>
  PROVE  TenantsInv'
<1> DEFINE q    == [NoRequest EXCEPT !.user = u, !.site = d, !.aliases = aliases]
           mine == [q EXCEPT !.pc = "limit", !.count = Cardinality(Sites)]
           lost == [q EXCEPT !.pc = "unique", !.failed = TRUE]
<1>1. requests' \in Nat /\ faults \in Nat /\ (Fault => faults' \in Nat)
  BY CountersAreNumbers DEF TenantsInv
<1>2. Cardinality(Sites) \in Nat
  BY FS_Subset, FS_CardinalityType, RegistryConstants DEF Sites
<1>3. mine \in RequestType /\ lost \in RequestType
  BY <1>2 DEF RequestType, NoRequest, Calls, Names, Limits, Phases
<1>4. /\ mine.pc = "limit" /\ mine.site = d /\ mine.since = {} /\ mine.count = Cardinality(Sites)
      /\ lost.pc = "unique" /\ lost.site = d /\ lost.failed = TRUE
  BY DEF NoRequest
<1>5. /\ sites' = sites /\ plans' = plans
      /\ \/ Step(r, mine) /\ faults' = faults
         \/ Fault /\ Step(r, lost)
  BY DEF CreateWebsite
<1> HIDE DEF mine, lost
<1>6. CASE Step(r, mine) /\ faults' = faults
  <2>1. {e \in Domains : sites[e].exists} \ mine.since = Sites
    BY <1>4 DEF Sites
  <2>2. Counted(mine, sites)
    <3>1. Cardinality(Sites) <= mine.count
      BY <1>2, <1>4
    <3>2. QED
      BY <2>1, <3>1, Zenon DEF Counted
  <2>3. Sound(mine, sites, getWebsiteLimit, users, namespaces)
    BY <2>2, <1>4 DEF Sound, Engaged, Free, Within, Fitting, Reached, Current, Applied
  <2>4. QED
    BY <1>1, <1>3, <1>5, <1>6, <2>3, StepAlone
<1>7. CASE Fault /\ Step(r, lost)
  <2>1. Sound(lost, sites, getWebsiteLimit, users, namespaces)
    BY <1>4 DEF Sound, Engaged, Free, Counted, Within, Fitting, Reached, Current, Applied
  <2>2. QED
    BY <1>1, <1>3, <1>5, <1>7, <2>1, StepAlone
<1>8. QED
  BY <1>5, <1>6, <1>7

\* The sites that others have not written serve none of the domains.
LEMMA UniqueMeansFree ==
  ASSUME NEW STATE domains, checkDomainUniqueness(domains), NEW d \in Domains, sites[d].exists
  PROVE  domains \intersect ({d} \union sites[d].aliases) = {}
BY DEF checkDomainUniqueness, Taken, Sites, Serves

LEMMA AddAliasSound ==
  ASSUME TenantsInv, NEW r \in Requests, NEW u \in Names, NEW d \in Domains,
         NEW alias \in Domains, Arrives, AddAlias(r, u, d, alias), UNCHANGED <<users, namespaces>>
  PROVE  TenantsInv'
<1> DEFINE mine == [NoRequest EXCEPT !.pc = "alias", !.user = u, !.site = d,
                                     !.aliases = {alias}]
           lost == [mine EXCEPT !.failed = TRUE]
<1>1. requests' \in Nat /\ faults \in Nat /\ (Fault => faults' \in Nat)
  BY CountersAreNumbers DEF TenantsInv
<1>2. mine \in RequestType /\ lost \in RequestType
  BY DEF RequestType, NoRequest, Calls, Limits, Phases
<1>3. /\ mine.pc = "alias" /\ mine.site = d /\ mine.aliases = {alias}
      /\ lost.pc = "alias" /\ lost.site = d /\ lost.failed = TRUE
  BY DEF NoRequest
<1>4. /\ sites' = sites /\ plans' = plans
      /\ \/ checkDomainUniqueness({alias}) /\ Step(r, mine) /\ faults' = faults
         \/ Fault /\ Step(r, lost)
  BY DEF AddAlias
<1> HIDE DEF mine, lost
<1>5. CASE checkDomainUniqueness({alias}) /\ Step(r, mine) /\ faults' = faults
  <2>1. Asked(mine) = {alias}
    BY <1>3 DEF Asked
  <2>2. Free(mine, sites)
    BY <2>1, <1>5, UniqueMeansFree DEF Free
  <2>3. Sound(mine, sites, getWebsiteLimit, users, namespaces)
    BY <2>2, <1>3 DEF Sound, Engaged, Counted, Within, Fitting, Reached, Current, Applied
  <2>4. QED
    BY <1>1, <1>2, <1>4, <1>5, <2>3, StepAlone
<1>6. CASE Fault /\ Step(r, lost)
  <2>1. Sound(lost, sites, getWebsiteLimit, users, namespaces)
    BY <1>3 DEF Sound, Engaged, Free, Counted, Within, Fitting, Reached, Current, Applied
  <2>2. QED
    BY <1>1, <1>2, <1>4, <1>6, <2>1, StepAlone
<1>7. QED
  BY <1>4, <1>5, <1>6

LEMMA RequestFacts ==
  ASSUME TenantsInv, NEW r \in Requests
  PROVE  /\ TypeOK
         /\ req[r] \in RequestType
         /\ Sound(req[r], sites, getWebsiteLimit, users, namespaces)
         /\ requests \in Nat /\ faults \in Nat /\ (Fault => faults' \in Nat)
BY TypeParts, CountersAreNumbers DEF TenantsInv

LEMMA CheckLimitSound ==
  ASSUME TenantsInv, NEW r \in Requests, CheckLimit(r), UNCHANGED <<users, namespaces>>
  PROVE  TenantsInv'
<1> DEFINE q    == req[r]
           mine == [q EXCEPT !.pc = "unique"]
           lost == [q EXCEPT !.pc = "unique", !.failed = TRUE]
           T    == {d \in Domains : sites[d].exists} \ q.since
<1>1. /\ q \in RequestType /\ Sound(q, sites, getWebsiteLimit, users, namespaces)
      /\ requests \in Nat /\ faults \in Nat /\ (Fault => faults' \in Nat)
  BY RequestFacts
<1>2. mine \in RequestType /\ lost \in RequestType
  BY <1>1 DEF RequestType, Calls
<1>3. /\ mine.pc = "unique" /\ mine.site = q.site /\ mine.since = q.since
      /\ lost.pc = "unique" /\ lost.site = q.site /\ lost.failed = TRUE
  BY <1>1 DEF RequestType
<1>4. /\ q.pc = "limit" /\ UNCHANGED <<sites, plans, requests>>
      /\ \/ /\ ~(getWebsiteLimit > 0 /\ q.count >= getWebsiteLimit)
            /\ Step(r, mine) /\ faults' = faults
         \/ Step(r, NoRequest) /\ faults' = faults
         \/ Fault /\ Step(r, lost)
  BY DEF CheckLimit
<1>5. q.site \in Domains /\ Cardinality(T) <= q.count
  BY <1>1, <1>4 DEF Sound, Engaged, Counted
<1>6. getWebsiteLimit \in Nat /\ q.count \in Nat /\ Cardinality(T) \in Nat
  <2>1. IsFiniteSet(T)
    BY FS_Subset, RegistryConstants
  <2>2. QED
    BY <1>1, <2>1, FS_CardinalityType, LimitIsNumber DEF RequestType, TenantsInv
<1> HIDE DEF mine, lost, q
<1>7. CASE /\ ~(getWebsiteLimit > 0 /\ q.count >= getWebsiteLimit)
           /\ Step(r, mine) /\ faults' = faults
  <2>1. getWebsiteLimit > 0 => Cardinality(T) < getWebsiteLimit
    <3> HIDE DEF T
    <3>1. QED
      BY <1>5, <1>6, <1>7
  <2>2. Within(mine, sites, getWebsiteLimit)
    BY <2>1, <1>3 DEF Within
  <2>3. Sound(mine, sites, getWebsiteLimit, users, namespaces)
    BY <2>2, <1>3, <1>5
       DEF Sound, Engaged, Free, Counted, Fitting, Reached, Current, Applied
  <2>4. QED
    BY <1>1, <1>2, <1>4, <1>7, <2>3, StepAlone
<1>8. CASE Step(r, NoRequest) /\ faults' = faults
  BY <1>1, <1>4, <1>8, Ended
<1>9. CASE Fault /\ Step(r, lost)
  <2>1. Sound(lost, sites, getWebsiteLimit, users, namespaces)
    BY <1>3, <1>5
       DEF Sound, Engaged, Free, Counted, Within, Fitting, Reached, Current, Applied
  <2>2. QED
    BY <1>1, <1>2, <1>4, <1>9, <2>1, StepAlone
<1>10. QED
  BY <1>4, <1>7, <1>8, <1>9

LEMMA CheckDomainsSound ==
  ASSUME TenantsInv, NEW r \in Requests, CheckDomains(r), UNCHANGED <<users, namespaces>>
  PROVE  TenantsInv'
<1> DEFINE q    == req[r]
           mine == [q EXCEPT !.pc = "uid"]
           lost == [q EXCEPT !.pc = "uid", !.failed = TRUE]
<1>1. /\ q \in RequestType /\ Sound(q, sites, getWebsiteLimit, users, namespaces)
      /\ requests \in Nat /\ faults \in Nat /\ (Fault => faults' \in Nat)
  BY RequestFacts
<1>2. mine \in RequestType /\ lost \in RequestType
  BY <1>1 DEF RequestType, Calls
<1>3. /\ mine.pc = "uid" /\ mine.site = q.site /\ mine.aliases = q.aliases
      /\ mine.since = q.since /\ mine.failed = q.failed /\ mine.stale = q.stale
      /\ lost.pc = "uid" /\ lost.site = q.site /\ lost.failed = TRUE
  BY <1>1 DEF RequestType
<1>4. /\ q.pc = "unique" /\ UNCHANGED <<sites, plans, requests>>
      /\ \/ checkDomainUniqueness({q.site} \union q.aliases) /\ Step(r, mine) /\ faults' = faults
         \/ Step(r, NoRequest) /\ faults' = faults
         \/ Fault /\ Step(r, lost)
  BY DEF CheckDomains
<1>5. q.site \in Domains
  BY <1>1, <1>4 DEF Sound, Engaged
<1> HIDE DEF mine, lost, q
<1>6. CASE checkDomainUniqueness({q.site} \union q.aliases) /\ Step(r, mine) /\ faults' = faults
  <2>1. Asked(mine) = {q.site} \union q.aliases
    BY <1>3 DEF Asked
  <2>2. Free(mine, sites)
    BY <2>1, <1>6, UniqueMeansFree DEF Free
  <2>3. Within(mine, sites, getWebsiteLimit)
    BY <1>1, <1>3, <1>4 DEF Sound, Within
  <2>4. Sound(mine, sites, getWebsiteLimit, users, namespaces)
    BY <2>2, <2>3, <1>3, <1>5 DEF Sound, Engaged, Counted, Fitting, Reached, Current, Applied
  <2>5. QED
    BY <1>1, <1>2, <1>4, <1>6, <2>4, StepAlone
<1>7. CASE Step(r, NoRequest) /\ faults' = faults
  BY <1>1, <1>4, <1>7, Ended
<1>8. CASE Fault /\ Step(r, lost)
  <2>1. Sound(lost, sites, getWebsiteLimit, users, namespaces)
    BY <1>3, <1>5 DEF Sound, Engaged, Free, Counted, Within, Fitting, Reached, Current, Applied
  <2>2. QED
    BY <1>1, <1>2, <1>4, <1>8, <2>1, StepAlone
<1>9. QED
  BY <1>4, <1>6, <1>7, <1>8

\* A request that falls back on the first UID has had a failure.
LEMMA FallBack ==
  ASSUME TenantsInv, NEW r \in Requests, req[r].pc \in {"uid", "maxuid"},
         Fault, Step(r, [HaveUID(req[r], FirstUID) EXCEPT !.failed = TRUE]),
         UNCHANGED <<sites, plans, requests, users, namespaces>>
  PROVE  TenantsInv'
<1> DEFINE q    == req[r]
           lost == [HaveUID(q, FirstUID) EXCEPT !.failed = TRUE]
<1>1. /\ q \in RequestType /\ Sound(q, sites, getWebsiteLimit, users, namespaces)
      /\ requests \in Nat /\ faults' \in Nat
  BY RequestFacts
<1>2. lost \in RequestType
  <2>1. FirstUID \in Nat
    BY DEF FirstUID
  <2>2. QED
    BY <1>1, <2>1 DEF RequestType, Calls, HaveUID
<1>3. lost.pc = "create" /\ lost.site = q.site /\ lost.failed = TRUE
  BY <1>1 DEF RequestType, HaveUID
<1>4. q.site \in Domains
  BY <1>1 DEF Sound, Engaged
<1>5. Sound(lost, sites, getWebsiteLimit, users, namespaces)
  <2> HIDE DEF lost, q
  <2>1. QED
    BY <1>3, <1>4 DEF Sound, Engaged, Free, Counted, Within, Fitting, Reached, Current, Applied
<1>6. Step(r, lost)
  OBVIOUS
<1> HIDE DEF lost
<1>7. QED
  BY <1>1, <1>2, <1>5, <1>6, StepAlone

\* The next call of CreateWebsite may count on what this one could.
LEMMA OneCallOn ==
  ASSUME NEW STATE q, NEW STATE mine,
         Sound(q, sites, getWebsiteLimit, users, namespaces),
         q.pc \in {"uid", "maxuid"}, mine.pc \in {"maxuid", "create"},
         mine.site = q.site, mine.aliases = q.aliases, mine.since = q.since,
         mine.failed = q.failed, mine.stale = q.stale, Fitting(mine, sites)
  PROVE  Sound(mine, sites, getWebsiteLimit, users, namespaces)
<1>1. Asked(mine) = Asked(q)
  BY DEF Asked
<1>2. Engaged(mine)
  BY DEF Sound, Engaged
<1>3. Free(mine, sites)
  BY <1>1 DEF Sound, Free
<1>4. Within(mine, sites, getWebsiteLimit)
  BY DEF Sound, Within
<1>5. QED
  BY <1>2, <1>3, <1>4 DEF Sound, Counted, Reached, Current, Applied

LEMMA ResolveOwnUIDSound ==
  ASSUME TenantsInv, NEW r \in Requests, ResolveOwnUID(r), UNCHANGED <<users, namespaces>>
  PROVE  TenantsInv'
<1> DEFINE q == req[r]
<1>1. /\ q \in RequestType /\ Sound(q, sites, getWebsiteLimit, users, namespaces)
      /\ requests \in Nat /\ faults \in Nat
  BY RequestFacts
<1>2. q.pc = "uid" /\ UNCHANGED <<sites, plans, requests>>
  BY DEF ResolveOwnUID
<1>3. ASSUME NEW d \in SitesOf(q.user), Step(r, [HaveUID(q, sites[d].uid) EXCEPT !.from = d]),
             UNCHANGED faults
      PROVE  TenantsInv'
  <2> DEFINE mine == [HaveUID(q, sites[d].uid) EXCEPT !.from = d]
  <2>1. d \in Domains /\ sites[d].exists /\ sites[d].owner = q.user /\ sites[d].uid \in Nat
    BY TypeParts DEF TenantsInv, SitesOf, Sites, SiteType
  <2>2. mine \in RequestType
    BY <1>1, <2>1 DEF RequestType, Calls, HaveUID
  <2>3. /\ mine.pc = "create" /\ mine.site = q.site /\ mine.aliases = q.aliases
        /\ mine.user = q.user /\ mine.uid = sites[d].uid /\ mine.from = d
        /\ mine.since = q.since /\ mine.failed = q.failed /\ mine.stale = q.stale
    BY <1>1 DEF RequestType, HaveUID
  <2>4. Step(r, mine)
    BY <1>3
  <2> HIDE DEF mine, q
  <2>5. Fitting(mine, sites)
    BY <2>1, <2>3 DEF Fitting
  <2>6. Sound(mine, sites, getWebsiteLimit, users, namespaces)
    BY <1>1, <1>2, <2>3, <2>5, OneCallOn
  <2>7. QED
    BY <1>1, <1>2, <1>3, <2>2, <2>4, <2>6, StepAlone
<1>4. ASSUME SitesOf(q.user) = {}, Step(r, [q EXCEPT !.pc = "maxuid"]), UNCHANGED faults
      PROVE  TenantsInv'
  <2> DEFINE mine == [q EXCEPT !.pc = "maxuid"]
  <2>1. mine \in RequestType
    BY <1>1 DEF RequestType, Calls
  <2>2. /\ mine.pc = "maxuid" /\ mine.site = q.site /\ mine.aliases = q.aliases
        /\ mine.user = q.user /\ mine.since = q.since /\ mine.failed = q.failed
        /\ mine.stale = q.stale
    BY <1>1 DEF RequestType
  <2>3. Step(r, mine)
    BY <1>4
  <2> HIDE DEF mine, q
  <2>4. Fitting(mine, sites)
    BY <1>4, <2>2 DEF Fitting, Newcomer, SitesOf, Sites
  <2>5. Sound(mine, sites, getWebsiteLimit, users, namespaces)
    BY <1>1, <1>2, <2>2, <2>4, OneCallOn
  <2>6. QED
    BY <1>1, <1>2, <1>4, <2>1, <2>3, <2>5, StepAlone
<1>5. ASSUME Fault, Step(r, [HaveUID(q, FirstUID) EXCEPT !.failed = TRUE])
      PROVE  TenantsInv'
  BY <1>2, <1>5, FallBack
<1>6. QED
  BY <1>3, <1>4, <1>5 DEF ResolveOwnUID

\* The greatest UID of all sites and the one before the first.
LEMMA MaxUID ==
  ASSUME TypeOK
  PROVE  LET m == Max({FirstUID - 1} \union {sites[d].uid : d \in Sites}) IN
         m \in Nat /\ \A d \in Sites : sites[d].uid <= m
<1> DEFINE f == [d \in Sites |-> sites[d].uid]
           R == {f[d] : d \in Sites}
           U == {FirstUID - 1} \union {sites[d].uid : d \in Sites}
<1>1. f \in [Sites -> Nat]
  BY TypeParts DEF Sites, SiteType
<1>2. IsFiniteSet(Sites)
  BY FS_Subset, RegistryConstants DEF Sites
<1>3. IsFiniteSet(R)
  <2> HIDE DEF f
  <2>1. QED
    BY <1>1, <1>2, FiniteRange
<1>4. FirstUID - 1 \in Nat
  BY DEF FirstUID
<1>5. U = R \union {FirstUID - 1}
  OBVIOUS
<1>6. IsFiniteSet(U)
  <2> HIDE DEF R, U
  <2>1. QED
    BY <1>3, <1>5, FS_AddElement
<1>7. U \subseteq Nat
  <2>1. \A d \in Sites : sites[d].uid \in Nat
    BY TypeParts DEF Sites, SiteType
  <2>2. QED
    BY <1>4, <2>1
<1>8. U # {}
  OBVIOUS
<1>9. Max(U) \in U /\ \A x \in U : x <= Max(U)
  <2> HIDE DEF U
  <2>1. QED
    BY <1>6, <1>7, <1>8, MaxIsGreatest
<1>10. QED
  BY <1>7, <1>9

LEMMA ResolveMaxUIDSound ==
  ASSUME TenantsInv, NEW r \in Requests, ResolveMaxUID(r), UNCHANGED <<users, namespaces>>
  PROVE  TenantsInv'
<1> DEFINE q == req[r]
           m == Max({FirstUID - 1} \union {sites[d].uid : d \in Sites})
<1>1. /\ q \in RequestType /\ Sound(q, sites, getWebsiteLimit, users, namespaces)
      /\ requests \in Nat /\ faults \in Nat
  BY RequestFacts
<1>2. q.pc = "maxuid" /\ UNCHANGED <<sites, plans, requests>>
  BY DEF ResolveMaxUID
<1>3. ASSUME Step(r, HaveUID(q, m + 1)), UNCHANGED faults
      PROVE  TenantsInv'
  <2> DEFINE mine == HaveUID(q, m + 1)
  <2>1. m \in Nat /\ \A d \in Sites : sites[d].uid <= m
    BY MaxUID DEF TenantsInv
  <2>u. \A d \in Sites : sites[d].uid \in Nat
    BY TypeParts DEF TenantsInv, Sites, SiteType
  <2> HIDE DEF m
  <2>2. \A d \in Sites : sites[d].uid # m + 1
    BY <2>1, <2>u
  <2>3. m + 1 \in Nat
    BY <2>1
  <2>4. mine \in RequestType
    BY <1>1, <2>3 DEF RequestType, Calls, HaveUID
  <2>5. /\ mine.pc = "create" /\ mine.site = q.site /\ mine.aliases = q.aliases
        /\ mine.user = q.user /\ mine.uid = m + 1
        /\ mine.since = q.since /\ mine.failed = q.failed /\ mine.stale = q.stale
    BY <1>1 DEF RequestType, HaveUID
  <2>6. Step(r, mine)
    BY <1>3
  <2> HIDE DEF mine, q
  <2>7. Fitting(mine, sites)
    <3>1. ~q.failed => Newcomer(q, sites)
      BY <1>1, <1>2 DEF Sound, Fitting
    <3>2. Newcomer(q, sites) => Newcomer(mine, sites)
      BY <2>5 DEF Newcomer
    <3>3. Unused(mine, sites)
      BY <2>2, <2>5 DEF Unused, Sites
    <3>4. QED
      BY <3>1, <3>2, <3>3, <2>5 DEF Fitting
  <2>8. Sound(mine, sites, getWebsiteLimit, users, namespaces)
    BY <1>1, <1>2, <2>5, <2>7, OneCallOn
  <2>9. QED
    BY <1>1, <1>2, <1>3, <2>4, <2>6, <2>8, StepAlone
<1>4. ASSUME Fault, Step(r, [HaveUID(q, FirstUID) EXCEPT !.failed = TRUE])
      PROVE  TenantsInv'
  BY <1>2, <1>4, FallBack
<1>5. QED
  BY <1>3, <1>4 DEF ResolveMaxUID

\* Request r writes one site and goes on.
LEMMA BecomeOnSites ==
  ASSUME TenantsInv, NEW r \in Requests, NEW STATE mine, NEW STATE e, e \in Domains,
         Become(r, mine, {e}),
         sites' \in [Domains -> SiteType], \A d \in Domains \ {e} : sites'[d] = sites[d],
         UNCHANGED <<plans, users, namespaces>>, requests' \in Nat, faults' \in Nat,
         mine \in RequestType, Sound(mine, sites', getWebsiteLimit, users, namespaces)
  PROVE  TenantsInv'
<1> DEFINE changed == {e}
<1>1. changed \subseteq Domains
  OBVIOUS
<1>2. req' = [q \in Requests |-> IF q = r THEN mine ELSE Interfere(q, changed)]
  BY DEF Become
<1>3. \A d \in Domains \ changed : sites'[d] = sites[d]
  OBVIOUS
<1> HIDE DEF changed
<1>4. QED
  BY <1>1, <1>2, <1>3, StepOnSites

LEMMA StoreWebsiteSound ==
  ASSUME TenantsInv, NEW r \in Requests, StoreWebsite(r), UNCHANGED <<users, namespaces>>
  PROVE  TenantsInv'
<1> DEFINE q   == req[r]
           new == [exists |-> TRUE, del |-> FALSE, owner |-> q.user, aliases |-> q.aliases,
                   uid |-> q.uid, phase |-> ""]
<1>1. /\ q \in RequestType /\ Sound(q, sites, getWebsiteLimit, users, namespaces)
      /\ requests \in Nat /\ faults \in Nat /\ (Fault => faults' \in Nat)
  BY RequestFacts
<1>2. q.pc = "create" /\ UNCHANGED <<plans, requests>>
  BY DEF StoreWebsite
<1>3. q.site \in Domains
  BY <1>1, <1>2 DEF Sound, Engaged
<1>4. sites \in [Domains -> SiteType]
  BY TypeParts DEF TenantsInv
<1>5. new \in SiteType
  BY <1>1 DEF SiteType, RequestType, Phases
<1>6. ASSUME sites' = [sites EXCEPT ![q.site] = new], Become(r, NoRequest, {q.site}),
             UNCHANGED faults
      PROVE  TenantsInv'
  <2>1. /\ sites' \in [Domains -> SiteType]
        /\ \A d \in Domains \ {q.site} : sites'[d] = sites[d]
    BY <1>3, <1>4, <1>5, <1>6
  <2>2. NoRequest \in RequestType
        /\ Sound(NoRequest, sites', getWebsiteLimit, users, namespaces)
    BY RequestIdle, IdleIsSound
  <2>3. QED
    BY <1>1, <1>2, <1>3, <1>6, <2>1, <2>2, BecomeOnSites
<1>7. ASSUME IF sites[q.site].exists THEN UNCHANGED faults ELSE Fault,
             Step(r, NoRequest), UNCHANGED sites
      PROVE  TenantsInv'
  BY <1>1, <1>2, <1>7, Ended
<1>8. QED
  BY <1>6, <1>7 DEF StoreWebsite

LEMMA StoreAliasSound ==
  ASSUME TenantsInv, NEW r \in Requests, StoreAlias(r), UNCHANGED <<users, namespaces>>
  PROVE  TenantsInv'
<1> DEFINE q == req[r]
<1>1. /\ q \in RequestType /\ Sound(q, sites, getWebsiteLimit, users, namespaces)
      /\ requests \in Nat /\ faults \in Nat
  BY RequestFacts
<1>2. q.pc = "alias" /\ UNCHANGED <<plans, requests, faults>>
  BY DEF StoreAlias
<1>3. q.site \in Domains /\ q.aliases \subseteq Domains
  BY <1>1, <1>2 DEF Sound, Engaged, RequestType
<1>4. sites \in [Domains -> SiteType]
  BY TypeParts DEF TenantsInv
<1>5. ASSUME sites' = [sites EXCEPT ![q.site].aliases = @ \union q.aliases],
             Become(r, NoRequest, {q.site})
      PROVE  TenantsInv'
  <2>1. sites[q.site].aliases \union q.aliases \in SUBSET Domains
    BY <1>3, <1>4 DEF SiteType
  <2>2. [sites[q.site] EXCEPT !.aliases = @ \union q.aliases] \in SiteType
    BY <2>1, <1>3, <1>4 DEF SiteType
  <2>3. /\ sites' \in [Domains -> SiteType]
        /\ \A d \in Domains \ {q.site} : sites'[d] = sites[d]
    BY <1>3, <1>4, <1>5, <2>2
  <2>4. NoRequest \in RequestType
        /\ Sound(NoRequest, sites', getWebsiteLimit, users, namespaces)
    BY RequestIdle, IdleIsSound
  <2>5. QED
    BY <1>1, <1>2, <1>3, <1>5, <2>3, <2>4, BecomeOnSites
<1>6. ASSUME Step(r, NoRequest), UNCHANGED sites
      PROVE  TenantsInv'
  BY <1>1, <1>2, <1>6, Ended
<1>7. QED
  BY <1>5, <1>6 DEF StoreAlias

\* RemoveAlias, UpdateWebsite, DeleteWebsite and TransferResources, and the
\* end of a deletion: one site, one write.
LEMMA SiteHandlersSound ==
  ASSUME TenantsInv, NEW d \in Domains, requests' \in Nat,
         UNCHANGED <<plans, faults, users, namespaces>>,
         \/ \E alias \in Domains : RemoveAlias(d, alias)
         \/ \E aliases \in SUBSET (Domains \ {d}) : UpdateWebsite(d, aliases)
         \/ DeleteWebsite(d)
         \/ \E u \in Users : TransferResources(d, u)
         \/ WriteSite(d, NoSite)
  PROVE  TenantsInv'
<1>1. sites[d] \in SiteType /\ faults' \in Nat
  BY TypeParts DEF TenantsInv
<1>2. ASSUME NEW alias \in Domains, RemoveAlias(d, alias)
      PROVE  TenantsInv'
  <2> DEFINE site == [sites[d] EXCEPT !.aliases = @ \ {alias}]
  <2>1. sites[d].aliases \ {alias} \in SUBSET Domains
    BY <1>1 DEF SiteType
  <2>2. site \in SiteType
    BY <1>1, <2>1 DEF SiteType
  <2>3. WriteSite(d, site)
    BY <1>2 DEF RemoveAlias
  <2> HIDE DEF site
  <2>4. QED
    BY <1>1, <2>2, <2>3, SiteWritten
<1>3. ASSUME NEW aliases \in SUBSET (Domains \ {d}), UpdateWebsite(d, aliases)
      PROVE  TenantsInv'
  <2> DEFINE site == [sites[d] EXCEPT !.aliases = aliases]
  <2>1. site \in SiteType
    BY <1>1 DEF SiteType
  <2>2. WriteSite(d, site)
    BY <1>3 DEF UpdateWebsite
  <2> HIDE DEF site
  <2>3. QED
    BY <1>1, <2>1, <2>2, SiteWritten
<1>4. ASSUME DeleteWebsite(d)
      PROVE  TenantsInv'
  <2> DEFINE site == [sites[d] EXCEPT !.del = TRUE]
  <2>1. site \in SiteType
    BY <1>1 DEF SiteType
  <2>2. WriteSite(d, site)
    BY <1>4 DEF DeleteWebsite
  <2> HIDE DEF site
  <2>3. QED
    BY <1>1, <2>1, <2>2, SiteWritten
<1>5. ASSUME NEW u \in Users, TransferResources(d, u)
      PROVE  TenantsInv'
  <2> DEFINE site == [sites[d] EXCEPT !.owner = u]
  <2>1. site \in SiteType
    BY <1>1 DEF SiteType, Names
  <2>2. WriteSite(d, site)
    BY <1>5 DEF TransferResources
  <2> HIDE DEF site
  <2>3. QED
    BY <1>1, <2>1, <2>2, SiteWritten
<1>6. ASSUME WriteSite(d, NoSite)
      PROVE  TenantsInv'
  <2>1. NoSite \in SiteType
    BY DEF NoSite, SiteType, Names, Phases
  <2>2. QED
    BY <1>1, <1>6, <2>1, SiteWritten
<1>7. QED
  BY <1>2, <1>3, <1>4, <1>5, <1>6

LEMMA OperatorSound ==
  ASSUME TenantsInv, NEW d \in Domains, OperatorStatus(d) \/ OperatorDone(d),
         UNCHANGED <<users, namespaces>>
  PROVE  TenantsInv'
<1>1. sites \in [Domains -> SiteType] /\ requests \in Nat /\ faults \in Nat
  BY TypeParts DEF TenantsInv
<1>2. ASSUME OperatorStatus(d)
      PROVE  TenantsInv'
  <2> DEFINE changed == {d}
             phase == IF sites[d].phase = "" /\ ~sites[d].del THEN "Running"
                      ELSE sites[d].phase
  <2>1. /\ sites' = [sites EXCEPT ![d] = [sites[d] EXCEPT !.phase = phase]]
        /\ UNCHANGED <<plans, requests, faults>>
    BY <1>2 DEF OperatorStatus
  <2>2. sites[d] \in SiteType /\ phase \in Phases
    BY <1>1 DEF SiteType, Phases
  <2> HIDE DEF phase
  <2>3. [sites[d] EXCEPT !.phase = phase] \in SiteType
    BY <2>2 DEF SiteType
  <2>4. /\ sites' \in [Domains -> SiteType]
        /\ \A e \in Domains \ changed : sites'[e] = sites[e]
    BY <1>1, <2>1, <2>3
  <2>5. req' = [q \in Requests |-> IF q = Nobody THEN NoRequest ELSE Interfere(q, changed)]
    BY <1>2, NobodyIsNoRequest DEF OperatorStatus
  <2>6. changed \subseteq Domains
    OBVIOUS
  <2>7. requests' \in Nat /\ faults' \in Nat /\ UNCHANGED <<plans, users, namespaces>>
    BY <1>1, <2>1
  <2> HIDE DEF changed
  <2>8. QED
    BY <2>4, <2>5, <2>6, <2>7, StepOnSites, NobodyIsNoRequest
<1>3. ASSUME OperatorDone(d)
      PROVE  TenantsInv'
  BY <1>1, <1>3, SiteHandlersSound DEF OperatorDone
<1>4. QED
  BY <1>2, <1>3

-----------------------------------------------------------------------------
(***************************************************************************)
(* Accounts and phases                                                     *)
(***************************************************************************)

\* UpdateUser, SuspendUser, UnsuspendUser and DeleteUser read the account.
LEMMA GetUserSound ==
  ASSUME TenantsInv, NEW r \in Requests, NEW u \in Users, requests' \in Nat,
         UpdateUser(r, u) \/ SuspendUser(r, u) \/ UnsuspendUser(r, u) \/ DeleteUser(r, u)
  PROVE  TenantsInv'
<1>1. faults \in Nat /\ users[u].id \in Nat /\ users[u].enabled \in BOOLEAN
  BY TypeParts DEF TenantsInv, UserType
<1>2. ASSUME NEW STATE mine, mine \in RequestType, mine.pc \in {"put", "delete"},
             mine.user = u, mine.enabled => users[u].enabled \/ mine.phase = "Running",
             Step(r, mine), UNCHANGED <<sites, plans, faults, users, namespaces>>
      PROVE  TenantsInv'
  <2>1. Sound(mine, sites, getWebsiteLimit, users, namespaces)
    BY <1>2 DEF Sound, Engaged, Free, Counted, Within, Fitting, Reached, Current, Applied
  <2>2. QED
    BY <1>1, <1>2, <2>1, StepAlone
<1>3. UNCHANGED <<sites, plans, faults, users, namespaces>>
  BY DEF UpdateUser, SuspendUser, UnsuspendUser, DeleteUser, GetUser, accounts
<1>4. CASE UpdateUser(r, u)
  <2> DEFINE mine == [[NoRequest EXCEPT !.pc = "put", !.enabled = users[u].enabled]
                      EXCEPT !.user = u, !.id = users[u].id]
  <2>1. Step(r, mine)
    BY <1>4 DEF UpdateUser, GetUser
  <2>2. mine \in RequestType
    BY <1>1 DEF RequestType, NoRequest, Calls, Names, Limits, Phases
  <2>3. /\ mine.pc \in {"put", "delete"} /\ mine.user = u
        /\ mine.enabled => users[u].enabled \/ mine.phase = "Running"
    BY <1>1 DEF NoRequest
  <2> HIDE DEF mine
  <2>4. QED
    BY <1>2, <1>3, <2>1, <2>2, <2>3
<1>5. CASE SuspendUser(r, u)
  <2> DEFINE mine == [[NoRequest EXCEPT !.pc = "put", !.phase = "Suspended"]
                      EXCEPT !.user = u, !.id = users[u].id]
  <2>1. Step(r, mine)
    BY <1>5 DEF SuspendUser, GetUser
  <2>2. mine \in RequestType
    BY <1>1 DEF RequestType, NoRequest, Calls, Names, Limits, Phases
  <2>3. /\ mine.pc \in {"put", "delete"} /\ mine.user = u
        /\ mine.enabled => users[u].enabled \/ mine.phase = "Running"
    BY <1>1 DEF NoRequest
  <2> HIDE DEF mine
  <2>4. QED
    BY <1>2, <1>3, <2>1, <2>2, <2>3
<1>6. CASE UnsuspendUser(r, u)
  <2> DEFINE mine == [[NoRequest EXCEPT !.pc = "put", !.phase = "Running", !.enabled = TRUE]
                      EXCEPT !.user = u, !.id = users[u].id]
  <2>1. Step(r, mine)
    BY <1>6 DEF UnsuspendUser, GetUser
  <2>2. mine \in RequestType
    BY <1>1 DEF RequestType, NoRequest, Calls, Names, Limits, Phases
  <2>3. /\ mine.pc \in {"put", "delete"} /\ mine.user = u
        /\ mine.enabled => users[u].enabled \/ mine.phase = "Running"
    BY <1>1 DEF NoRequest
  <2> HIDE DEF mine
  <2>4. QED
    BY <1>2, <1>3, <2>1, <2>2, <2>3
<1>7. CASE DeleteUser(r, u)
  <2> DEFINE mine == [[NoRequest EXCEPT !.pc = "delete"]
                      EXCEPT !.user = u, !.id = users[u].id]
  <2>1. Step(r, mine)
    BY <1>7 DEF DeleteUser, GetUser
  <2>2. mine \in RequestType
    BY <1>1 DEF RequestType, NoRequest, Calls, Names, Limits, Phases
  <2>3. /\ mine.pc \in {"put", "delete"} /\ mine.user = u
        /\ mine.enabled => users[u].enabled \/ mine.phase = "Running"
    BY <1>1 DEF NoRequest
  <2> HIDE DEF mine
  <2>4. QED
    BY <1>2, <1>3, <2>1, <2>2, <2>3
<1>8. QED
  BY <1>4, <1>5, <1>6, <1>7

\* A step on the account of one user.
LEMMA StepOnAccount ==
  ASSUME TenantsInv, NEW r, NEW STATE mine, NEW STATE u, u \in Users,
         Overtake(r, mine, Editing(u)), UNCHANGED <<sites, plans, namespaces>>,
         users' \in [Users -> UserType], \A v \in Users \ {u} : users'[v] = users[v],
         requests' \in Nat, faults' \in Nat,
         r \in Requests =>
            mine \in RequestType /\ Sound(mine, sites, getWebsiteLimit', users', namespaces')
  PROVE  TenantsInv'
<1> DEFINE set == Editing(u)
<1>1. getWebsiteLimit' = getWebsiteLimit
  BY LimitUnchanged
<1>2. ASSUME NEW q \in Requests, q \notin set
      PROVE  Spared(req[q])
  <2>1. req[q].pc = "put" => req[q].user \in Users \ {u}
    BY <1>2, RequestFacts DEF Editing, Sound, Engaged
  <2>2. QED
    BY <1>1, <2>1 DEF Spared
<1>3. Overtake(r, mine, set)
  OBVIOUS
<1>4. plans' \in [Plans -> PlanType] /\ namespaces' \in [Users -> NamespaceType]
  BY TypeParts DEF TenantsInv
<1> HIDE DEF set
<1>5. QED
  BY <1>2, <1>3, <1>4, StepOnAccounts

\* What an account becomes when its enabled is written.
LEMMA EnabledWritten ==
  ASSUME TenantsInv, NEW STATE u, u \in Users, NEW STATE e, e \in BOOLEAN,
         users' = [users EXCEPT ![u].enabled = e]
  PROVE  /\ users' \in [Users -> UserType]
         /\ \A v \in Users \ {u} : users'[v] = users[v]
<1>1. users \in [Users -> UserType]
  BY TypeParts DEF TenantsInv
<1>2. [users[u] EXCEPT !.enabled = e] \in UserType
  BY <1>1 DEF UserType
<1>3. QED
  BY <1>1, <1>2

LEMMA PutUserSound ==
  ASSUME TenantsInv, NEW r \in Requests, PutUser(r) \/ PutUserFails(r)
  PROVE  TenantsInv'
<1> DEFINE q    == req[r]
           next == IF q.phase = "" THEN NoRequest ELSE [q EXCEPT !.pc = "list"]
<1>1. /\ q \in RequestType /\ Sound(q, sites, getWebsiteLimit, users, namespaces)
      /\ requests \in Nat /\ faults \in Nat /\ (Fault => faults' \in Nat)
      /\ namespaces \in [Users -> NamespaceType]
  BY RequestFacts, TypeParts
<1>2. /\ q.pc = "put"
      /\ UNCHANGED <<sites, plans, requests, namespaces>>
      /\ faults' \in Nat
  BY <1>1 DEF PutUser, PutUserFails
<1>3. q.user \in Users /\ q.enabled \in BOOLEAN
  BY <1>1, <1>2 DEF Sound, Engaged, RequestType
<1>4. /\ next \in RequestType
      /\ Sound(next, sites, getWebsiteLimit', users', namespaces')
  <2>1. CASE q.phase = ""
    BY <2>1, RequestIdle, IdleIsSound
  <2>2. CASE q.phase # ""
    <3>1. next \in RequestType /\ next.pc = "list" /\ next.user = q.user
      BY <2>2, <1>1 DEF RequestType, Calls
    <3> HIDE DEF next, q
    <3>2. QED
      BY <3>1, <1>3 DEF Sound, Engaged, Free, Counted, Within, Fitting, Reached, Current, Applied
  <2>3. QED
    BY <2>1, <2>2
<1>5. /\ NoRequest \in RequestType
      /\ Sound(NoRequest, sites, getWebsiteLimit', users', namespaces')
  BY RequestIdle, IdleIsSound
<1>6. ASSUME NEW STATE mine, mine \in {next, NoRequest},
             users' = [users EXCEPT ![q.user].enabled = q.enabled],
             Overtake(r, mine, Editing(q.user))
      PROVE  TenantsInv'
  <2>1. mine \in RequestType /\ Sound(mine, sites, getWebsiteLimit', users', namespaces')
    BY <1>4, <1>5, <1>6
  <2> HIDE DEF next
  <2>2. /\ users' \in [Users -> UserType]
        /\ \A v \in Users \ {q.user} : users'[v] = users[v]
    BY <1>3, <1>6, EnabledWritten
  <2> HIDE DEF q
  <2>3. QED
    BY <1>1, <1>2, <1>3, <1>6, <2>1, <2>2, StepOnAccount
<1>7. ASSUME Step(r, NoRequest), UNCHANGED users
      PROVE  TenantsInv'
  BY <1>1, <1>2, <1>7, Ended
<1>8. \/ Step(r, NoRequest) /\ UNCHANGED users
      \/ /\ users' = [users EXCEPT ![q.user].enabled = q.enabled]
         /\ Overtake(r, next, Editing(q.user)) \/ Overtake(r, NoRequest, Editing(q.user))
  BY DEF PutUser, PutUserFails
<1> HIDE DEF next, q
<1>9. QED
  BY <1>6, <1>7, <1>8

LEMMA UpdateCurrentUserSound ==
  ASSUME TenantsInv, NEW u \in Users, UpdateCurrentUser(u), requests' \in Nat
  PROVE  TenantsInv'
<1>1. /\ users' = [users EXCEPT ![u].enabled = FALSE]
      /\ Overtake(Nobody, NoRequest, Editing(u))
      /\ UNCHANGED <<sites, plans, faults, namespaces>>
  BY DEF UpdateCurrentUser
<1>2. faults \in Nat /\ namespaces \in [Users -> NamespaceType]
  BY TypeParts DEF TenantsInv
<1>3. /\ users' \in [Users -> UserType]
      /\ \A v \in Users \ {u} : users'[v] = users[v]
  BY <1>1, EnabledWritten
<1>4. QED
  BY <1>1, <1>2, <1>3, NobodyIsNoRequest, StepOnAccount

LEMMA CreateUserSound ==
  ASSUME TenantsInv, NEW u \in Users, CreateUser(u), requests' \in Nat
  PROVE  TenantsInv'
<1>1. /\ TypeOK /\ users \in [Users -> UserType]
  BY TypeParts DEF TenantsInv
<1> DEFINE new == [id |-> users[u].id + 1, exists |-> TRUE, enabled |-> TRUE]
<1>2. users' = [users EXCEPT ![u] = new] /\ UNCHANGED <<sites, plans, req, faults, namespaces>>
  BY DEF CreateUser
<1>3. new \in UserType
  <2>1. users[u].id \in Nat
    BY <1>1 DEF UserType
  <2>2. users[u].id + 1 \in Nat
    BY <2>1
  <2>3. QED
    BY <2>2 DEF UserType
<1>4. users' \in [Users -> UserType]
  BY <1>1, <1>2, <1>3
<1>5. TypeOK'
  BY <1>1, <1>2, <1>4, TypeParts, TypePartsNext
<1>6. \A v \in Users : users[v].enabled => users'[v].enabled
  BY <1>1, <1>2
<1>7. getWebsiteLimit' = getWebsiteLimit
  BY <1>2, LimitUnchanged
<1>8. ASSUME NEW q \in Requests
      PROVE  Overtaken(q)
  BY <1>2, <1>6, <1>7 DEF Overtaken, Spared
<1>9. QED
  BY <1>5, <1>8, NobodyIsNoRequest, OthersSound

LEMMA DeleteAccountSound ==
  ASSUME TenantsInv, NEW r \in Requests, DeleteAccount(r)
  PROVE  TenantsInv'
<1> DEFINE q    == req[r]
           next == [q EXCEPT !.pc = "namespace"]
<1>1. /\ q \in RequestType /\ Sound(q, sites, getWebsiteLimit, users, namespaces)
      /\ requests \in Nat /\ faults \in Nat /\ (Fault => faults' \in Nat)
      /\ users \in [Users -> UserType] /\ namespaces \in [Users -> NamespaceType]
  BY RequestFacts, TypeParts
<1>2. /\ q.pc = "delete"
      /\ UNCHANGED <<sites, plans, requests, namespaces>>
      /\ faults' \in Nat
  BY <1>1 DEF DeleteAccount
<1>3. q.user \in Users
  BY <1>1, <1>2 DEF Sound, Engaged
<1>4. next \in RequestType /\ next.pc = "namespace" /\ next.user = q.user
  BY <1>1 DEF RequestType, Calls
<1>5. \/ Step(r, NoRequest) /\ UNCHANGED users
      \/ /\ users' = [users EXCEPT ![q.user].exists = FALSE, ![q.user].enabled = FALSE]
         /\ Overtake(r, next, Editing(q.user)) \/ Overtake(r, NoRequest, Editing(q.user))
  BY DEF DeleteAccount
<1> HIDE DEF next, q
<1>6. Sound(next, sites, getWebsiteLimit', users', namespaces')
  BY <1>3, <1>4 DEF Sound, Engaged, Free, Counted, Within, Fitting, Reached, Current, Applied
<1>7. /\ NoRequest \in RequestType
      /\ Sound(NoRequest, sites, getWebsiteLimit', users', namespaces')
  BY RequestIdle, IdleIsSound
<1>8. ASSUME NEW STATE mine, mine \in {next, NoRequest},
             users' = [users EXCEPT ![q.user].exists = FALSE, ![q.user].enabled = FALSE],
             Overtake(r, mine, Editing(q.user))
      PROVE  TenantsInv'
  <2>1. mine \in RequestType /\ Sound(mine, sites, getWebsiteLimit', users', namespaces')
    BY <1>4, <1>6, <1>7, <1>8
  <2>2. [users[q.user] EXCEPT !.exists = FALSE, !.enabled = FALSE] \in UserType
    BY <1>1, <1>3 DEF UserType
  <2>3. /\ users' \in [Users -> UserType]
        /\ \A v \in Users \ {q.user} : users'[v] = users[v]
    BY <1>1, <1>3, <1>8, <2>2
  <2>4. QED
    BY <1>1, <1>2, <1>3, <1>8, <2>1, <2>3, StepOnAccount
<1>9. ASSUME Step(r, NoRequest), UNCHANGED users
      PROVE  TenantsInv'
  BY <1>1, <1>2, <1>9, Ended
<1>10. QED
  BY <1>5, <1>8, <1>9

LEMMA ListWebsitesSound ==
  ASSUME TenantsInv, NEW r \in Requests, ListWebsites(r)
  PROVE  TenantsInv'
<1> DEFINE q    == req[r]
           mine == [q EXCEPT !.pc = "phases", !.todo = SitesOf(q.user), !.since = {}]
           lost == [q EXCEPT !.pc = "phases", !.failed = TRUE]
<1>1. /\ q \in RequestType /\ Sound(q, sites, getWebsiteLimit, users, namespaces)
      /\ requests \in Nat /\ faults \in Nat /\ (Fault => faults' \in Nat)
  BY RequestFacts
<1>2. /\ q.pc = "list"
      /\ UNCHANGED <<sites, plans, requests, users, namespaces>>
      /\ \/ Step(r, mine) /\ UNCHANGED faults
         \/ Fault /\ Step(r, lost)
  BY DEF ListWebsites, accounts
<1>3. q.user \in Users
  BY <1>1, <1>2 DEF Sound, Engaged
<1>4. /\ mine \in RequestType /\ mine.pc = "phases" /\ mine.user = q.user
      /\ mine.todo = SitesOf(q.user)
      /\ lost \in RequestType /\ lost.pc = "phases" /\ lost.user = q.user /\ lost.failed = TRUE
  <2>1. SitesOf(q.user) \in SUBSET Domains
    BY DEF SitesOf, Sites
  <2>2. QED
    BY <1>1, <2>1 DEF RequestType, Calls
<1> HIDE DEF mine, lost, q
<1>5. Reached(mine, sites) /\ Reached(lost, sites)
  BY <1>4 DEF Reached, SitesOf, Sites
<1>6. /\ Sound(mine, sites, getWebsiteLimit, users, namespaces)
      /\ Sound(lost, sites, getWebsiteLimit, users, namespaces)
  BY <1>3, <1>4, <1>5 DEF Sound, Engaged, Free, Counted, Within, Fitting, Current, Applied
<1>7. CASE Step(r, mine) /\ UNCHANGED faults
  BY <1>1, <1>2, <1>4, <1>6, <1>7, StepAlone
<1>8. CASE Fault /\ Step(r, lost)
  BY <1>1, <1>2, <1>4, <1>6, <1>8, StepAlone
<1>9. QED
  BY <1>2, <1>7, <1>8

LEMMA SetPhaseSound ==
  ASSUME TenantsInv, NEW r \in Requests, SetPhase(r)
  PROVE  TenantsInv'
<1> DEFINE q       == req[r]
           mine(d) == [q EXCEPT !.todo = @ \ {d}]
           lost(d) == [q EXCEPT !.todo = @ \ {d}, !.missed = @ \union {d}]
<1>1. /\ q \in RequestType /\ Sound(q, sites, getWebsiteLimit, users, namespaces)
      /\ requests \in Nat /\ faults \in Nat /\ (Fault => faults' \in Nat)
      /\ sites \in [Domains -> SiteType]
  BY RequestFacts, TypeParts
<1>2. PICK d \in q.todo :
         \/ /\ sites' = [sites EXCEPT ![d].phase = q.phase]
            /\ Become(r, mine(d), IF sites[d].phase = q.phase THEN {} ELSE {d})
            /\ UNCHANGED faults
         \/ /\ Fault
            /\ Step(r, lost(d))
            /\ UNCHANGED sites
  BY DEF SetPhase
<1>3. q.pc = "phases" /\ UNCHANGED <<plans, requests, users, namespaces>>
  BY DEF SetPhase, accounts
<1>4. q.user \in Users /\ Reached(q, sites)
  BY <1>1, <1>3 DEF Sound, Engaged
<1>5. d \in Domains /\ q.phase \in Phases
  BY <1>1 DEF RequestType
<1>6. /\ mine(d) \in RequestType /\ mine(d).pc = "phases" /\ mine(d).user = q.user
      /\ mine(d).todo = q.todo \ {d} /\ mine(d).failed = q.failed /\ mine(d).since = q.since
      /\ mine(d).phase = q.phase /\ mine(d).missed = q.missed
      /\ lost(d) \in RequestType /\ lost(d).pc = "phases" /\ lost(d).user = q.user
      /\ lost(d).todo = q.todo \ {d} /\ lost(d).failed = q.failed /\ lost(d).since = q.since
      /\ lost(d).phase = q.phase /\ lost(d).missed = q.missed \union {d}
  <2>1. q.todo \ {d} \in SUBSET Domains /\ q.missed \union {d} \in SUBSET Domains
    BY <1>1, <1>5 DEF RequestType
  <2>2. QED
    BY <1>1, <1>3, <2>1 DEF RequestType
<1> HIDE DEF mine, lost, q
<1>7. ASSUME sites' = [sites EXCEPT ![d].phase = q.phase],
             Become(r, mine(d), IF sites[d].phase = q.phase THEN {} ELSE {d}),
             UNCHANGED faults
      PROVE  TenantsInv'
  <2> DEFINE changed == IF sites[d].phase = q.phase THEN {} ELSE {d}
             m == mine(d)
  <2>1. sites[d] \in SiteType /\ [sites[d] EXCEPT !.phase = q.phase] \in SiteType
    BY <1>1, <1>5 DEF SiteType
  <2>2. /\ sites'[d] = [sites[d] EXCEPT !.phase = q.phase]
        /\ \A e \in Domains \ {d} : sites'[e] = sites[e]
        /\ sites' \in [Domains -> SiteType]
    BY <1>1, <1>5, <1>7, <2>1
  <2>3. /\ sites'[d].phase = q.phase /\ sites'[d].exists = sites[d].exists
        /\ sites'[d].owner = sites[d].owner
    BY <2>1, <2>2 DEF SiteType
  <2>4. sites[d].phase = q.phase => sites'[d] = sites[d]
    BY <2>1, <2>2 DEF SiteType
  <2>5. \A e \in Domains \ changed : sites'[e] = sites[e]
    BY <2>2, <2>4
  <2>6. Reached(mine(d), sites')
    BY <1>3, <1>4, <1>6, <2>2, <2>3, ZenonT(40) DEF Reached
  <2>7. Sound(mine(d), sites', getWebsiteLimit, users, namespaces)
    BY <1>4, <1>6, <2>6 DEF Sound, Engaged, Free, Counted, Within, Fitting, Current, Applied
  <2>8. /\ req' = [p \in Requests |-> IF p = r THEN m ELSE Interfere(p, changed)]
        /\ changed \subseteq Domains
        /\ m \in RequestType /\ Sound(m, sites', getWebsiteLimit, users, namespaces)
    BY <1>5, <1>6, <1>7, <2>7 DEF Become
  <2>9. requests' \in Nat /\ faults' \in Nat
    BY <1>1, <1>3, <1>7
  <2> HIDE DEF changed, m
  <2>10. QED
    BY <1>3, <2>2, <2>5, <2>8, <2>9, StepOnSites
<1>8. ASSUME Fault, Step(r, lost(d)), UNCHANGED sites
      PROVE  TenantsInv'
  <2> DEFINE m == lost(d)
  <2>1. Reached(m, sites)
    BY <1>3, <1>4, <1>6 DEF Reached
  <2>2. Sound(m, sites, getWebsiteLimit, users, namespaces)
    BY <1>4, <1>6, <2>1 DEF Sound, Engaged, Free, Counted, Within, Fitting, Current, Applied
  <2>3. m \in RequestType /\ Step(r, m)
    BY <1>6, <1>8
  <2> HIDE DEF m
  <2>4. QED
    BY <1>1, <1>3, <1>8, <2>2, <2>3, StepAlone
<1>9. QED
  BY <1>2, <1>7, <1>8

-----------------------------------------------------------------------------
(***************************************************************************)
(* Hosting plans and namespaces                                            *)
(***************************************************************************)

\* The namespace of u is written and request r goes on as mine.
LEMMA NamespaceWritten ==
  ASSUME TenantsInv, NEW r \in Requests, NEW STATE u, u \in Users, NEW STATE namespace,
         namespace \in NamespaceType, namespaces' = [namespaces EXCEPT ![u] = namespace],
         NEW STATE mine, mine \in RequestType, Overtake(r, mine, Assigning(u)),
         UNCHANGED <<sites, plans, users>>, requests' \in Nat, faults' \in Nat,
         Sound(mine, sites, getWebsiteLimit, users, namespaces')
  PROVE  TenantsInv'
<1>1. users \in [Users -> UserType] /\ namespaces \in [Users -> NamespaceType]
  BY TypeParts DEF TenantsInv
<1>2. namespaces' \in [Users -> NamespaceType]
      /\ \A v \in Users \ {u} : namespaces'[v] = namespaces[v]
  BY <1>1
<1> DEFINE set == Assigning(u)
<1>3. getWebsiteLimit' = getWebsiteLimit
  BY LimitUnchanged
<1>4. Sound(mine, sites, getWebsiteLimit', users', namespaces')
  BY <1>3
<1>5. ASSUME NEW q \in Requests, q \notin set
      PROVE  Spared(req[q])
  <2>1. req[q].pc \in {"label", "quota", "limits", "assigned"} => req[q].user \in Users \ {u}
    BY <1>5, RequestFacts DEF Assigning, Sound, Engaged
  <2>2. QED
    BY <1>2, <1>3, <2>1 DEF Spared
<1>6. Overtake(r, mine, set) /\ plans' \in [Plans -> PlanType]
  BY TypeParts DEF TenantsInv
<1> HIDE DEF set
<1>7. QED
  BY <1>1, <1>2, <1>4, <1>5, <1>6, StepOnAccounts

LEMMA DeleteNamespaceSound ==
  ASSUME TenantsInv, NEW r \in Requests, DeleteNamespace(r)
  PROVE  TenantsInv'
<1> DEFINE u == req[r].user
<1>1. /\ Sound(req[r], sites, getWebsiteLimit, users, namespaces)
      /\ requests \in Nat /\ faults \in Nat /\ (Fault => faults' \in Nat)
  BY RequestFacts
<1>2. /\ req[r].pc = "namespace" /\ UNCHANGED <<sites, plans, requests, users>>
      /\ \/ /\ namespaces' = [namespaces EXCEPT ![u] = NoNamespace]
            /\ Overtake(r, NoRequest, Assigning(u))
            /\ UNCHANGED faults
         \/ Fault /\ Step(r, NoRequest) /\ UNCHANGED namespaces
  BY DEF DeleteNamespace
<1>3. u \in Users
  BY <1>1, <1>2 DEF Sound, Engaged
<1>4. NoNamespace \in NamespaceType
  BY DEF NoNamespace, NamespaceType
<1>5. Sound(NoRequest, sites, getWebsiteLimit, users, namespaces')
  BY RequestIdle, IdleIsSound
<1> HIDE DEF u
<1>6. CASE /\ namespaces' = [namespaces EXCEPT ![u] = NoNamespace]
           /\ Overtake(r, NoRequest, Assigning(u))
           /\ UNCHANGED faults
  BY <1>1, <1>2, <1>3, <1>4, <1>5, <1>6, RequestIdle, NamespaceWritten
<1>7. CASE Fault /\ Step(r, NoRequest) /\ UNCHANGED namespaces
  BY <1>1, <1>2, <1>7, Ended
<1>8. QED
  BY <1>2, <1>6, <1>7

\* One of the writes of AssignPlan, which may fail or get no answer.
LEMMA WriteNamespaceSound ==
  ASSUME TenantsInv, NEW r \in Requests, req[r].user \in Users,
         NEW STATE namespace, namespace \in NamespaceType,
         NEW STATE next, next \in RequestType, WriteNamespace(r, namespace, next),
         \A n : n[req[r].user] = namespace =>
            Sound(next, sites, getWebsiteLimit, users, n)
  PROVE  TenantsInv'
<1> DEFINE u == req[r].user
<1>1. /\ requests \in Nat /\ faults \in Nat /\ (Fault => faults' \in Nat)
      /\ namespaces \in [Users -> NamespaceType]
  BY RequestFacts, TypeParts
<1>2. /\ UNCHANGED <<sites, plans, requests, users>>
      /\ faults' \in Nat
      /\ \/ /\ namespaces' = [namespaces EXCEPT ![u] = namespace]
            /\ Overtake(r, next, Assigning(u)) \/ Overtake(r, NoRequest, Assigning(u))
         \/ Step(r, NoRequest) /\ UNCHANGED namespaces
  BY <1>1 DEF WriteNamespace
<1>3. u \in Users
  OBVIOUS
<1>4. Sound(NoRequest, sites, getWebsiteLimit, users, namespaces')
  BY RequestIdle, IdleIsSound
<1>5. namespaces' = [namespaces EXCEPT ![u] = namespace] =>
         Sound(next, sites, getWebsiteLimit, users, namespaces')
  <2>1. namespaces' = [namespaces EXCEPT ![u] = namespace] => namespaces'[u] = namespace
    BY <1>1
  <2>2. QED
    BY <2>1
<1> HIDE DEF u
<1>6. ASSUME namespaces' = [namespaces EXCEPT ![u] = namespace], Overtake(r, next, Assigning(u))
      PROVE  TenantsInv'
  BY <1>1, <1>2, <1>3, <1>5, <1>6, NamespaceWritten
<1>7. ASSUME namespaces' = [namespaces EXCEPT ![u] = namespace],
             Overtake(r, NoRequest, Assigning(u))
      PROVE  TenantsInv'
  BY <1>1, <1>2, <1>3, <1>4, <1>7, RequestIdle, NamespaceWritten
<1>8. ASSUME Step(r, NoRequest), UNCHANGED namespaces
      PROVE  TenantsInv'
  BY <1>1, <1>2, <1>8, Ended
<1>9. QED
  BY <1>2, <1>6, <1>7, <1>8

LEMMA LabelNamespaceWithPlanSound ==
  ASSUME TenantsInv, NEW r \in Requests, LabelNamespaceWithPlan(r)
  PROVE  TenantsInv'
<1> DEFINE q         == req[r]
           namespace == [namespaces[q.user] EXCEPT !.label = q.plan]
           next      == [q EXCEPT !.pc = "quota"]
<1>1. /\ q \in RequestType /\ Sound(q, sites, getWebsiteLimit, users, namespaces)
      /\ requests \in Nat /\ faults \in Nat
      /\ namespaces \in [Users -> NamespaceType]
  BY RequestFacts, TypeParts
<1>2. q.pc = "label"
  BY DEF LabelNamespaceWithPlan
<1>3. q.user \in Users /\ Applied(q, namespaces)
  BY <1>1, <1>2 DEF Sound, Engaged
<1>4. /\ next \in RequestType /\ next.pc = "quota" /\ next.user = q.user
      /\ next.plan = q.plan /\ next.limits = q.limits /\ next.stale = q.stale
  BY <1>1 DEF RequestType, Calls
<1>5. namespaces[q.user] \in NamespaceType /\ q.plan \in Plans \union {0}
  BY <1>1, <1>3 DEF RequestType
<1>6. /\ namespace \in NamespaceType
      /\ namespace.label = q.plan
  BY <1>5 DEF NamespaceType
<1>7. WriteNamespace(r, namespace, next)
  BY DEF LabelNamespaceWithPlan
<1> HIDE DEF namespace, next
<1>8. ASSUME NEW n, n[q.user] = namespace
      PROVE  Sound(next, sites, getWebsiteLimit, users, n)
  <2> HIDE DEF q
  <2>1. Applied(next, n)
    BY <1>4, <1>6, <1>8 DEF Applied
  <2>2. QED
    BY <1>3, <1>4, <2>1 DEF Sound, Engaged, Free, Counted, Within, Fitting, Reached, Current
<1>9. QED
  BY <1>3, <1>4, <1>6, <1>7, <1>8, WriteNamespaceSound

LEMMA ApplyResourceQuotaSound ==
  ASSUME TenantsInv, NEW r \in Requests, ApplyResourceQuota(r)
  PROVE  TenantsInv'
<1> DEFINE q         == req[r]
           namespace == [namespaces[q.user] EXCEPT !.quota = q.plan]
           next      == [q EXCEPT !.pc = "limits"]
<1>1. /\ q \in RequestType /\ Sound(q, sites, getWebsiteLimit, users, namespaces)
      /\ requests \in Nat /\ faults \in Nat
      /\ namespaces \in [Users -> NamespaceType]
  BY RequestFacts, TypeParts
<1>2. q.pc = "quota"
  BY DEF ApplyResourceQuota
<1>3. q.user \in Users /\ Applied(q, namespaces)
  BY <1>1, <1>2 DEF Sound, Engaged
<1>4. /\ next \in RequestType /\ next.pc = "limits" /\ next.user = q.user
      /\ next.plan = q.plan /\ next.limits = q.limits /\ next.stale = q.stale
  BY <1>1 DEF RequestType, Calls
<1>5. namespaces[q.user] \in NamespaceType /\ q.plan \in Plans \union {0}
  BY <1>1, <1>3 DEF RequestType
<1>6. /\ namespace \in NamespaceType
      /\ namespace.quota = q.plan /\ namespace.label = namespaces[q.user].label
  BY <1>5 DEF NamespaceType
<1>7. \/ /\ q.limits.storage \/ q.limits.compute
         /\ WriteNamespace(r, namespace, next)
      \/ /\ ~(q.limits.storage \/ q.limits.compute)
         /\ Step(r, next)
         /\ UNCHANGED <<sites, plans, requests, faults, users, namespaces>>
  BY DEF ApplyResourceQuota, accounts
<1> HIDE DEF namespace, next
<1>8. ASSUME WriteNamespace(r, namespace, next)
      PROVE  TenantsInv'
  <2>1. ASSUME NEW n, n[q.user] = namespace
        PROVE  Sound(next, sites, getWebsiteLimit, users, n)
    <3> HIDE DEF q
    <3>1. Applied(next, n)
      BY <1>2, <1>3, <1>4, <1>6, <2>1 DEF Applied
    <3>2. QED
      BY <1>3, <1>4, <3>1 DEF Sound, Engaged, Free, Counted, Within, Fitting, Reached, Current
  <2>2. QED
    BY <1>3, <1>4, <1>6, <1>8, <2>1, WriteNamespaceSound
<1>9. ASSUME ~(q.limits.storage \/ q.limits.compute), Step(r, next),
             UNCHANGED <<sites, plans, requests, faults, users, namespaces>>
      PROVE  TenantsInv'
  <2> HIDE DEF q
  <2>1. Applied(next, namespaces)
    BY <1>2, <1>3, <1>4, <1>9 DEF Applied
  <2>2. Sound(next, sites, getWebsiteLimit, users, namespaces)
    BY <1>3, <1>4, <2>1 DEF Sound, Engaged, Free, Counted, Within, Fitting, Reached, Current
  <2>3. QED
    BY <1>1, <1>4, <1>9, <2>2, StepAlone
<1>10. QED
  BY <1>7, <1>8, <1>9

LEMMA ApplyLimitRangeSound ==
  ASSUME TenantsInv, NEW r \in Requests, ApplyLimitRange(r)
  PROVE  TenantsInv'
<1> DEFINE q         == req[r]
           namespace == [namespaces[q.user] EXCEPT !.limits = q.plan]
           next      == [q EXCEPT !.pc = "assigned"]
<1>1. /\ q \in RequestType /\ Sound(q, sites, getWebsiteLimit, users, namespaces)
      /\ requests \in Nat /\ faults \in Nat
      /\ namespaces \in [Users -> NamespaceType]
  BY RequestFacts, TypeParts
<1>2. q.pc = "limits"
  BY DEF ApplyLimitRange
<1>3. q.user \in Users /\ Applied(q, namespaces)
  BY <1>1, <1>2 DEF Sound, Engaged
<1>4. /\ next \in RequestType /\ next.pc = "assigned" /\ next.user = q.user
      /\ next.plan = q.plan /\ next.limits = q.limits /\ next.stale = q.stale
  BY <1>1 DEF RequestType, Calls
<1>5. namespaces[q.user] \in NamespaceType /\ q.plan \in Plans \union {0}
  BY <1>1, <1>3 DEF RequestType
<1>6. /\ namespace \in NamespaceType
      /\ namespace.limits = q.plan /\ namespace.label = namespaces[q.user].label
      /\ namespace.quota = namespaces[q.user].quota
  BY <1>5 DEF NamespaceType
<1>7. \/ /\ q.limits.compute
         /\ WriteNamespace(r, namespace, next)
      \/ /\ ~(q.limits.compute)
         /\ Step(r, next)
         /\ UNCHANGED <<sites, plans, requests, faults, users, namespaces>>
  BY DEF ApplyLimitRange, accounts
<1> HIDE DEF namespace, next
<1>8. ASSUME WriteNamespace(r, namespace, next)
      PROVE  TenantsInv'
  <2>1. ASSUME NEW n, n[q.user] = namespace
        PROVE  Sound(next, sites, getWebsiteLimit, users, n)
    <3> HIDE DEF q
    <3>1. Applied(next, n)
      BY <1>2, <1>3, <1>4, <1>6, <2>1 DEF Applied
    <3>2. QED
      BY <1>3, <1>4, <3>1 DEF Sound, Engaged, Free, Counted, Within, Fitting, Reached, Current
  <2>2. QED
    BY <1>3, <1>4, <1>6, <1>8, <2>1, WriteNamespaceSound
<1>9. ASSUME ~(q.limits.compute), Step(r, next),
             UNCHANGED <<sites, plans, requests, faults, users, namespaces>>
      PROVE  TenantsInv'
  <2> HIDE DEF q
  <2>1. Applied(next, namespaces)
    BY <1>2, <1>3, <1>4, <1>9 DEF Applied
  <2>2. Sound(next, sites, getWebsiteLimit, users, namespaces)
    BY <1>3, <1>4, <2>1 DEF Sound, Engaged, Free, Counted, Within, Fitting, Reached, Current
  <2>3. QED
    BY <1>1, <1>4, <1>9, <2>2, StepAlone
<1>10. QED
  BY <1>7, <1>8, <1>9

LEMMA AssignPlanSound ==
  ASSUME TenantsInv, NEW r \in Requests, NEW u \in Users, NEW p \in Plans,
         AssignPlan(r, u, p), requests' \in Nat
  PROVE  TenantsInv'
<1> DEFINE mine == [NoRequest EXCEPT !.pc = "label", !.user = u, !.plan = p,
                                     !.limits = plans[p].limits]
<1>1. faults \in Nat /\ plans[p].limits \in Limits
  BY TypeParts DEF TenantsInv, PlanType
<1>2. Step(r, mine) /\ UNCHANGED <<sites, plans, faults, users, namespaces>>
  BY DEF AssignPlan, accounts
<1>3. mine \in RequestType /\ mine.pc = "label" /\ mine.user = u
  BY <1>1 DEF RequestType, NoRequest, Calls, Names, Phases
<1> HIDE DEF mine
<1>4. Sound(mine, sites, getWebsiteLimit, users, namespaces)
  BY <1>3 DEF Sound, Engaged, Free, Counted, Within, Fitting, Reached, Current, Applied
<1>5. QED
  BY <1>1, <1>2, <1>3, <1>4, StepAlone

LEMMA PlanHandlersSound ==
  ASSUME TenantsInv, NEW p \in Plans, requests' \in Nat,
         \/ \E l \in PlanLimits : CreateHostingPlan(p, l) \/ UpdateHostingPlan(p, l)
         \/ DeleteHostingPlan(p)
  PROVE  TenantsInv'
<1>1. /\ plans \in [Plans -> PlanType] /\ faults \in Nat
      /\ users \in [Users -> UserType] /\ namespaces \in [Users -> NamespaceType]
  BY TypeParts DEF TenantsInv
<1>2. ASSUME NEW STATE plan, plan \in PlanType, WritePlan(p, plan)
      PROVE  TenantsInv'
  <2> DEFINE set == Creating
  <2>1. /\ plans' = [plans EXCEPT ![p] = plan] /\ Overtake(Nobody, NoRequest, set)
        /\ UNCHANGED <<sites, faults, users, namespaces>>
    BY <1>2 DEF WritePlan, accounts
  <2>2. plans' \in [Plans -> PlanType]
    BY <1>1, <1>2, <2>1
  <2>3. \A q \in Requests : q \in set \/ Spared(req[q])
    BY <2>1 DEF Creating, Spared
  <2> HIDE DEF set
  <2>4. QED
    BY <1>1, <2>1, <2>2, <2>3, NobodyIsNoRequest, StepOnAccounts
<1>3. ASSUME NEW l \in PlanLimits, CreateHostingPlan(p, l) \/ UpdateHostingPlan(p, l)
      PROVE  TenantsInv'
  <2> DEFINE plan == [exists |-> TRUE, limits |-> l]
  <2>1. plan \in PlanType
    BY DEF PlanType, Limits
  <2>2. WritePlan(p, plan)
    BY <1>3 DEF CreateHostingPlan, UpdateHostingPlan
  <2> HIDE DEF plan
  <2>3. QED
    BY <1>2, <2>1, <2>2
<1>4. ASSUME DeleteHostingPlan(p)
      PROVE  TenantsInv'
  <2>1. NoPlan \in PlanType
    BY DEF NoPlan, PlanType, Limits
  <2>2. QED
    BY <1>2, <1>4, <2>1 DEF DeleteHostingPlan
<1>5. QED
  BY <1>3, <1>4

-----------------------------------------------------------------------------
(***************************************************************************)
(* The invariant                                                           *)
(***************************************************************************)
LEMMA InitSound ==
  Init => TenantsInv
<1>1. SUFFICES ASSUME Init
               PROVE  TenantsInv
  OBVIOUS
<1>2. sites \in [Domains -> SiteType]
  <2>1. NoSite \in SiteType
    BY DEF NoSite, SiteType, Names, Phases
  <2>2. QED
    BY <1>1, <2>1 DEF Init, RegistryInit
<1>3. plans \in [Plans -> PlanType]
  <2>1. NoPlan \in PlanType /\ [exists: {TRUE}, limits: PlanLimits] \subseteq PlanType
    BY DEF NoPlan, PlanType, Limits
  <2>2. QED
    BY <1>1, <2>1 DEF Init, RegistryInit
<1>4. users \in [Users -> UserType]
  BY <1>1 DEF Init, UserType
<1>5. namespaces \in [Users -> NamespaceType]
  BY <1>1 DEF Init, NoNamespace, NamespaceType
<1>6. req \in [Requests -> RequestType] /\ \A r \in Requests : req[r].pc = "idle"
  BY <1>1, RequestIdle DEF Init, RegistryInit
<1>7. requests \in Nat /\ faults \in Nat
  BY <1>1 DEF Init, RegistryInit
<1>8. TypeOK
  BY <1>2, <1>3, <1>4, <1>5, <1>6, <1>7, TypeParts
<1>9. QED
  BY <1>6, <1>8, IdleIsSound DEF TenantsInv

LEMMA NextSound ==
  ASSUME TenantsInv, [Next]_vars
  PROVE  TenantsInv'
<1>0. TypeOK /\ requests \in Nat /\ faults \in Nat /\ (Arrives => requests' \in Nat)
  BY CountersAreNumbers DEF TenantsInv
<1>1. ASSUME RegistryHandler, UNCHANGED <<users, namespaces>>
      PROVE  TenantsInv'
  <2>1. Arrives /\ requests' \in Nat
    BY <1>0, <1>1 DEF RegistryHandler
  <2>2. CASE \E r \in Requests :
               /\ req[r].pc = "idle"
               /\ \/ \E u \in Users, d \in Domains : \E aliases \in SUBSET (Domains \ {d}) :
                        CreateWebsite(r, u, d, aliases)
                  \/ \E u \in Users \union {Nobody}, d, alias \in Domains :
                        AddAlias(r, u, d, alias)
    BY <1>1, <2>1, <2>2, CreateWebsiteSound, AddAliasSound DEF Names
  <2>3. CASE \/ \E d, alias \in Domains : RemoveAlias(d, alias) /\ UNCHANGED <<plans, faults>>
             \/ \E d \in Domains : \E aliases \in SUBSET (Domains \ {d}) :
                   UpdateWebsite(d, aliases) /\ UNCHANGED <<plans, faults>>
             \/ \E d \in Domains : DeleteWebsite(d) /\ UNCHANGED <<plans, faults>>
    BY <1>1, <2>1, <2>3, SiteHandlersSound
  <2>4. QED
    BY <1>1, <2>2, <2>3 DEF RegistryHandler
<1>2. ASSUME AccountHandler
      PROVE  TenantsInv'
  <2>1. requests' \in Nat
    BY <1>0, <1>2 DEF AccountHandler
  <2>2. ASSUME NEW r \in Requests, NEW u \in Users,
               \/ UpdateUser(r, u) \/ SuspendUser(r, u) \/ UnsuspendUser(r, u)
               \/ DeleteUser(r, u)
               \/ \E p \in Plans : AssignPlan(r, u, p)
        PROVE  TenantsInv'
    BY <2>1, <2>2, GetUserSound, AssignPlanSound
  <2>3. ASSUME NEW u \in Users, CreateUser(u) \/ UpdateCurrentUser(u)
        PROVE  TenantsInv'
    BY <2>1, <2>3, CreateUserSound, UpdateCurrentUserSound
  <2>4. ASSUME NEW p \in Plans,
               \/ \E l \in PlanLimits : CreateHostingPlan(p, l) \/ UpdateHostingPlan(p, l)
               \/ DeleteHostingPlan(p)
        PROVE  TenantsInv'
    BY <2>1, <2>4, PlanHandlersSound
  <2>5. ASSUME NEW d \in Domains, NEW u \in Users, TransferResources(d, u),
               UNCHANGED <<plans, faults, accounts>>
        PROVE  TenantsInv'
    BY <2>1, <2>5, SiteHandlersSound DEF accounts
  <2>6. QED
    BY <1>2, <2>2, <2>3, <2>4, <2>5 DEF AccountHandler
<1>3. ASSUME NEW r \in Requests, RegistryCall(r), UNCHANGED <<users, namespaces>>
      PROVE  TenantsInv'
  BY <1>3, CheckLimitSound, CheckDomainsSound, ResolveOwnUIDSound, ResolveMaxUIDSound,
     StoreWebsiteSound, StoreAliasSound DEF RegistryCall
<1>4. ASSUME NEW r \in Requests, AccountCall(r)
      PROVE  TenantsInv'
  <2>1. CASE PhasesSet(r)
    BY <1>0, <2>1, Ended DEF PhasesSet, accounts
  <2>2. CASE PlanAssigned(r)
    BY <1>0, <2>2, Ended DEF PlanAssigned, accounts
  <2>3. QED
    BY <1>4, <2>1, <2>2, PutUserSound, DeleteAccountSound, DeleteNamespaceSound,
       ListWebsitesSound, SetPhaseSound, LabelNamespaceWithPlanSound, ApplyResourceQuotaSound,
       ApplyLimitRangeSound DEF AccountCall
<1>5. ASSUME NEW d \in Domains, OperatorStatus(d) \/ OperatorDone(d),
             UNCHANGED <<users, namespaces>>
      PROVE  TenantsInv'
  BY <1>5, OperatorSound
<1>6. ASSUME UNCHANGED vars
      PROVE  TenantsInv'
  <2>1. UNCHANGED <<sites, plans, req, requests, faults, users, namespaces>>
    BY <1>6 DEF vars, accounts
  <2>2. TypeOK'
    BY <1>0, <2>1, TypeParts, TypePartsNext
  <2>3. getWebsiteLimit' = getWebsiteLimit
    BY <2>1, LimitUnchanged
  <2>4. QED
    BY <2>1, <2>2, <2>3 DEF TenantsInv
<1>7. QED
  BY <1>1, <1>2, <1>3, <1>4, <1>5, <1>6 DEF Next, accounts

\* The invariant: at each of its calls a request may count on what its
\* earlier calls found, as far as it knows of no write or failure since.
THEOREM TenantsInvariant == Spec => []TenantsInv
BY InitSound, NextSound, PTL DEF Spec

\* Every variable has its type, whatever the requests of the panel do.
THEOREM TenantsTypeCorrect == Spec => []TypeOK
<1>1. TenantsInv => TypeOK
  BY DEF TenantsInv
<1>2. QED
  BY <1>1, TenantsInvariant, PTL

\* AssignPlan: when the panel answers "Plan assigned successfully", label,
\* quota and limits are the plan's, unless another request came between.
THEOREM AssignedPlansApply == Spec => []AssignedPlanApplies
<1>1. TenantsInv => AssignedPlanApplies
  BY DEF TenantsInv, Sound, Applied, AssignedPlanApplies
<1>2. QED
  BY <1>1, TenantsInvariant, PTL

-----------------------------------------------------------------------------
(***************************************************************************)
(* What the panel's requests never do                                      *)
(***************************************************************************)

\* The other requests stay at their calls.
LEMMA InterfereStays ==
  ASSUME TypeOK, NEW q \in Requests, NEW STATE changed
  PROVE  Interfere(q, changed).pc = req[q].pc
<1>1. req[q] \in RequestType
  BY TypeParts
<1>2. QED
  BY <1>1 DEF Interfere, RequestType

LEMMA StepStays ==
  ASSUME TypeOK, NEW s \in Requests, NEW STATE mine, Step(s, mine), NEW q \in Requests, q # s
  PROVE  req'[q].pc = req[q].pc
BY TypeParts DEF Step

LEMMA BecomeStays ==
  ASSUME TypeOK, NEW s \in Requests, NEW STATE mine, NEW STATE changed,
         Become(s, mine, changed), NEW q \in Requests, q # s
  PROVE  req'[q].pc = req[q].pc
<1>1. req'[q] = Interfere(q, changed)
  BY DEF Become
<1>2. QED
  BY <1>1, InterfereStays

LEMMA OvertakeStays ==
  ASSUME TypeOK, NEW s, NEW STATE mine, NEW STATE set, Overtake(s, mine, set),
         NEW q \in Requests, q # s
  PROVE  req'[q].pc = req[q].pc
<1>1. req[q] \in RequestType
  BY TypeParts
<1>2. req'[q] = [req[q] EXCEPT !.stale = @ \/ q \in set]
  BY DEF Overtake
<1>3. QED
  BY <1>1, <1>2 DEF RequestType

LEMMA WriteSiteStays ==
  ASSUME TypeOK, NEW d, NEW STATE site, WriteSite(d, site), NEW q \in Requests
  PROVE  req'[q].pc = req[q].pc
<1> DEFINE changed == IF site = sites[d] THEN {} ELSE {d}
<1>1. req'[q] = Interfere(q, changed)
  BY DEF WriteSite
<1> HIDE DEF changed
<1>2. QED
  BY <1>1, InterfereStays

\* Only its own calls take a request on.
LEMMA OwnCalls ==
  ASSUME TypeOK, [Next]_vars, NEW q \in Requests, req[q].pc # "idle",
         req'[q].pc # req[q].pc
  PROVE  RegistryCall(q) \/ AccountCall(q)
<1>0. q # Nobody
  BY NobodyIsNoRequest
<1>1. ASSUME RegistryHandler
      PROVE  FALSE
  <2>1. CASE \E r \in Requests :
               /\ req[r].pc = "idle"
               /\ \/ \E u \in Users, d \in Domains : \E aliases \in SUBSET (Domains \ {d}) :
                        CreateWebsite(r, u, d, aliases)
                  \/ \E u \in Users \union {Nobody}, d, alias \in Domains :
                        AddAlias(r, u, d, alias)
    BY <2>1, StepStays DEF CreateWebsite, AddAlias
  <2>2. CASE \/ \E d, alias \in Domains : RemoveAlias(d, alias) /\ UNCHANGED <<plans, faults>>
             \/ \E d \in Domains : \E aliases \in SUBSET (Domains \ {d}) :
                   UpdateWebsite(d, aliases) /\ UNCHANGED <<plans, faults>>
             \/ \E d \in Domains : DeleteWebsite(d) /\ UNCHANGED <<plans, faults>>
    BY <2>2, WriteSiteStays DEF RemoveAlias, UpdateWebsite, DeleteWebsite
  <2>3. QED
    BY <1>1, <2>1, <2>2 DEF RegistryHandler
<1>2. ASSUME AccountHandler
      PROVE  FALSE
  <2>1. ASSUME NEW r \in Requests, NEW u \in Users, req[r].pc = "idle",
               \/ UpdateUser(r, u) \/ SuspendUser(r, u) \/ UnsuspendUser(r, u)
               \/ DeleteUser(r, u)
               \/ \E p \in Plans : AssignPlan(r, u, p)
        PROVE  FALSE
    BY <2>1, StepStays DEF UpdateUser, SuspendUser, UnsuspendUser, DeleteUser, GetUser,
                           AssignPlan
  <2>2. ASSUME NEW u \in Users, CreateUser(u) \/ UpdateCurrentUser(u)
        PROVE  FALSE
    BY <1>0, <2>2, OvertakeStays DEF CreateUser, UpdateCurrentUser
  <2>3. ASSUME NEW p \in Plans,
               \/ \E l \in PlanLimits : CreateHostingPlan(p, l) \/ UpdateHostingPlan(p, l)
               \/ DeleteHostingPlan(p)
        PROVE  FALSE
    BY <1>0, <2>3, OvertakeStays DEF CreateHostingPlan, UpdateHostingPlan, DeleteHostingPlan,
                                     WritePlan
  <2>4. ASSUME NEW d \in Domains, NEW u \in Users, TransferResources(d, u)
        PROVE  FALSE
    BY <2>4, WriteSiteStays DEF TransferResources
  <2>5. QED
    BY <1>2, <2>1, <2>2, <2>3, <2>4 DEF AccountHandler
<1>3. ASSUME NEW r \in Requests, r # q, RegistryCall(r)
      PROVE  FALSE
  BY <1>3, StepStays, BecomeStays
     DEF RegistryCall, CheckLimit, CheckDomains, ResolveOwnUID, ResolveMaxUID, StoreWebsite,
         StoreAlias
<1>4. ASSUME NEW r \in Requests, r # q, AccountCall(r)
      PROVE  FALSE
  <2>1. CASE PutUser(r) \/ PutUserFails(r) \/ DeleteAccount(r) \/ DeleteNamespace(r)
    BY <1>4, <2>1, StepStays, OvertakeStays
       DEF PutUser, PutUserFails, DeleteAccount, DeleteNamespace
  <2>2. CASE ListWebsites(r) \/ SetPhase(r) \/ PhasesSet(r) \/ PlanAssigned(r)
    BY <1>4, <2>2, StepStays, BecomeStays DEF ListWebsites, SetPhase, PhasesSet, PlanAssigned
  <2>3. CASE LabelNamespaceWithPlan(r) \/ ApplyResourceQuota(r) \/ ApplyLimitRange(r)
    BY <1>4, <2>3, StepStays, OvertakeStays
       DEF LabelNamespaceWithPlan, ApplyResourceQuota, ApplyLimitRange, WriteNamespace
  <2>4. QED
    BY <1>4, <2>1, <2>2, <2>3 DEF AccountCall
<1>5. ASSUME NEW d \in Domains, OperatorStatus(d) \/ OperatorDone(d)
      PROVE  FALSE
  <2>1. CASE OperatorStatus(d)
    <3>1. req'[q] = Interfere(q, {d})
      BY <2>1 DEF OperatorStatus
    <3>2. QED
      BY <3>1, InterfereStays
  <2>2. CASE OperatorDone(d)
    BY <2>2, WriteSiteStays DEF OperatorDone
  <2>3. QED
    BY <1>5, <2>1, <2>2
<1>6. ~UNCHANGED vars
  BY DEF vars
<1>7. QED
  BY <1>1, <1>2, <1>3, <1>4, <1>5, <1>6 DEF Next

\* A site is stored where none was.
LEMMA CreatesFresh ==
  ASSUME TypeOK, [Next]_vars, NEW r \in Requests, Creates(r)
  PROVE  ~sites[req[r].site].exists
<1>1. req[r].pc = "create" /\ req'[r].pc = "idle" /\ sites' # sites
  BY DEF Creates, Stores
<1>2. RegistryCall(r) \/ AccountCall(r)
  BY <1>1, OwnCalls
<1>3. StoreWebsite(r)
  BY <1>1, <1>2
     DEF RegistryCall, CheckLimit, CheckDomains, ResolveOwnUID, ResolveMaxUID, StoreAlias,
         AccountCall, PutUser, PutUserFails, DeleteAccount, DeleteNamespace, ListWebsites,
         SetPhase, PhasesSet, LabelNamespaceWithPlan, ApplyResourceQuota, ApplyLimitRange,
         PlanAssigned
<1>4. QED
  BY <1>1, <1>3 DEF StoreWebsite

\* A site that is written with no other domains than it had gains none.
LEMMA NothingGained ==
  ASSUME TypeOK, NEW e \in Domains, NEW STATE site, sites' = [sites EXCEPT ![e] = site],
         site.exists => sites[e].exists /\ site.aliases \subseteq sites[e].aliases,
         NEW d \in Domains
  PROVE  Gained(d) = {}
<1>1. sites \in [Domains -> SiteType]
  BY TypeParts
<1>2. CASE d = e
  <2>1. sites'[d] = site
    BY <1>1, <1>2
  <2>2. QED
    BY <1>2, <2>1 DEF Gained, Serves
<1>3. CASE d # e
  <2>1. sites'[d] = sites[d]
    BY <1>1, <1>3
  <2>2. QED
    BY <2>1 DEF Gained, Serves
<1>4. QED
  BY <1>2, <1>3

LEMMA SameSitesGainNothing ==
  ASSUME UNCHANGED sites, NEW d \in Domains
  PROVE  Gained(d) = {}
BY DEF Gained, Serves

\* The calls that go before the last one, and those about accounts.
LEMMA CallsGainNothing ==
  ASSUME TypeOK, NEW r \in Requests, NEW d \in Domains,
         \/ CheckLimit(r) \/ CheckDomains(r) \/ ResolveOwnUID(r) \/ ResolveMaxUID(r)
         \/ AccountCall(r)
  PROVE  Gained(d) = {}
<1>1. sites \in [Domains -> SiteType] /\ req[r] \in RequestType
  BY TypeParts
<1>2. CASE SetPhase(r)
  <2>1. PICK e \in req[r].todo :
           \/ sites' = [sites EXCEPT ![e].phase = req[r].phase]
           \/ UNCHANGED sites
    BY <1>2 DEF SetPhase
  <2>2. e \in Domains
    BY <1>1 DEF RequestType
  <2> DEFINE site == [sites[e] EXCEPT !.phase = req[r].phase]
  <2>3. site.exists = sites[e].exists /\ site.aliases = sites[e].aliases
    BY <1>1, <2>2 DEF SiteType
  <2>4. sites' = [sites EXCEPT ![e] = site] \/ UNCHANGED sites
    BY <2>1
  <2> HIDE DEF site
  <2>5. QED
    BY <2>2, <2>3, <2>4, NothingGained, SameSitesGainNothing
<1>3. CASE ~SetPhase(r)
  <2>1. UNCHANGED sites
    BY <1>3
       DEF CheckLimit, CheckDomains, ResolveOwnUID, ResolveMaxUID, AccountCall, PutUser,
           PutUserFails, DeleteAccount, DeleteNamespace, ListWebsites, PhasesSet,
           LabelNamespaceWithPlan, ApplyResourceQuota, ApplyLimitRange, WriteNamespace,
           PlanAssigned
  <2>2. QED
    BY <2>1, SameSitesGainNothing
<1>4. QED
  BY <1>2, <1>3

\* The handlers of one call, and the operator.
LEMMA WritesGainNothing ==
  ASSUME TypeOK, NEW e \in Domains, NEW d \in Domains,
         \/ \E alias \in Domains : RemoveAlias(e, alias)
         \/ DeleteWebsite(e)
         \/ \E u \in Users : TransferResources(e, u)
         \/ OperatorStatus(e) \/ OperatorDone(e)
  PROVE  Gained(d) = {}
<1>1. sites[e] \in SiteType
  BY TypeParts
<1>2. ASSUME NEW STATE site, sites' = [sites EXCEPT ![e] = site],
             site.exists => sites[e].exists /\ site.aliases \subseteq sites[e].aliases
      PROVE  Gained(d) = {}
  BY <1>2, NothingGained
<1>3. ASSUME NEW alias \in Domains, RemoveAlias(e, alias)
      PROVE  Gained(d) = {}
  <2> DEFINE site == [sites[e] EXCEPT !.aliases = @ \ {alias}]
  <2>1. sites' = [sites EXCEPT ![e] = site]
    BY <1>3 DEF RemoveAlias, WriteSite
  <2>2. site.exists = sites[e].exists /\ site.aliases \subseteq sites[e].aliases
    BY <1>1 DEF SiteType
  <2> HIDE DEF site
  <2>3. QED
    BY <1>2, <2>1, <2>2
<1>4. ASSUME DeleteWebsite(e)
      PROVE  Gained(d) = {}
  <2> DEFINE site == [sites[e] EXCEPT !.del = TRUE]
  <2>1. sites' = [sites EXCEPT ![e] = site]
    BY <1>4 DEF DeleteWebsite, WriteSite
  <2>2. site.exists = sites[e].exists /\ site.aliases = sites[e].aliases
    BY <1>1 DEF SiteType
  <2> HIDE DEF site
  <2>3. QED
    BY <1>2, <2>1, <2>2
<1>5. ASSUME NEW u \in Users, TransferResources(e, u)
      PROVE  Gained(d) = {}
  <2> DEFINE site == [sites[e] EXCEPT !.owner = u]
  <2>1. sites' = [sites EXCEPT ![e] = site]
    BY <1>5 DEF TransferResources, WriteSite
  <2>2. site.exists = sites[e].exists /\ site.aliases = sites[e].aliases
    BY <1>1 DEF SiteType
  <2> HIDE DEF site
  <2>3. QED
    BY <1>2, <2>1, <2>2
<1>6. ASSUME OperatorStatus(e)
      PROVE  Gained(d) = {}
  <2> DEFINE phase == IF sites[e].phase = "" /\ ~sites[e].del THEN "Running" ELSE sites[e].phase
             site  == [sites[e] EXCEPT !.phase = phase]
  <2>1. sites' = [sites EXCEPT ![e] = site]
    BY <1>6 DEF OperatorStatus
  <2> HIDE DEF phase
  <2>2. site.exists = sites[e].exists /\ site.aliases = sites[e].aliases
    BY <1>1 DEF SiteType
  <2> HIDE DEF site
  <2>3. QED
    BY <1>2, <2>1, <2>2
<1>7. ASSUME OperatorDone(e)
      PROVE  Gained(d) = {}
  <2>1. sites' = [sites EXCEPT ![e] = NoSite] /\ NoSite.exists = FALSE
    BY <1>7 DEF OperatorDone, WriteSite, NoSite
  <2>2. QED
    BY <1>2, <2>1
<1>8. QED
  BY <1>3, <1>4, <1>5, <1>6, <1>7

\* The last calls of CreateWebsite and AddAlias.
LEMMA StoresGain ==
  ASSUME TenantsInv, NEW r \in Requests, StoreWebsite(r) \/ StoreAlias(r),
         NEW d \in Domains, Gained(d) # {}
  PROVE  /\ Creates(r) \/ Stores(r, "alias")
         /\ req[r].site = d
         /\ Gained(d) \subseteq Asked(req[r])
<1> DEFINE q == req[r]
<1>1. /\ sites \in [Domains -> SiteType]
      /\ q \in RequestType /\ Sound(q, sites, getWebsiteLimit, users, namespaces)
  BY RequestFacts, TypeParts
<1>2. sites' # sites
  BY SameSitesGainNothing
<1>3. q.pc \in {"create", "alias"} /\ req'[r] = NoRequest
  BY <1>2 DEF StoreWebsite, StoreAlias, Become
<1>4. q.site \in Domains
  BY <1>1, <1>3 DEF Sound, Engaged
<1>5. Creates(r) \/ Stores(r, "alias")
  BY <1>2, <1>3, RequestIdle DEF Creates, Stores
<1>6. CASE StoreWebsite(r)
  <2>1. /\ q.pc = "create"
        /\ sites' = [sites EXCEPT ![q.site] = [exists |-> TRUE, del |-> FALSE,
                        owner |-> q.user, aliases |-> q.aliases, uid |-> q.uid, phase |-> ""]]
    BY <1>2, <1>6 DEF StoreWebsite
  <2>2. /\ sites'[q.site].exists /\ sites'[q.site].aliases = q.aliases
        /\ \A e \in Domains \ {q.site} : sites'[e] = sites[e]
    BY <1>1, <1>4, <2>1
  <2>3. q.site = d
    BY <2>2 DEF Gained, Serves
  <2>4. Gained(d) \subseteq {d} \union q.aliases
    BY <2>2, <2>3 DEF Gained
  <2>5. QED
    BY <1>5, <2>1, <2>3, <2>4 DEF Asked
<1>7. CASE StoreAlias(r)
  <2>1. /\ q.pc = "alias" /\ sites[q.site].exists
        /\ sites' = [sites EXCEPT ![q.site].aliases = @ \union q.aliases]
    BY <1>2, <1>7 DEF StoreAlias
  <2>2. /\ sites'[q.site] = [sites[q.site] EXCEPT !.aliases = @ \union q.aliases]
        /\ \A e \in Domains \ {q.site} : sites'[e] = sites[e]
    BY <1>1, <1>4, <2>1
  <2>3. sites'[q.site].aliases = sites[q.site].aliases \union q.aliases
    BY <1>1, <1>4, <2>2 DEF SiteType
  <2>4. q.site = d
    BY <2>2 DEF Gained, Serves
  <2>5. Gained(d) \subseteq q.aliases
    BY <2>1, <2>3, <2>4 DEF Gained, Serves
  <2>6. QED
    BY <1>5, <2>1, <2>4, <2>5 DEF Asked
<1>8. QED
  BY <1>6, <1>7

\* All of Next: a site gains domains from UpdateWebsite or from these.
LEMMA Gains ==
  ASSUME TenantsInv, [Next]_vars, NEW d \in Domains, Gained(d) # {}
  PROVE  \/ UpdateWebsite(d, sites'[d].aliases)
         \/ \E r \in Requests : StoreWebsite(r) \/ StoreAlias(r)
<1>1. TypeOK /\ sites \in [Domains -> SiteType] /\ sites' # sites
  BY TypeParts, SameSitesGainNothing DEF TenantsInv
<1>2. ASSUME NEW e \in Domains, NEW aliases \in SUBSET (Domains \ {e}), UpdateWebsite(e, aliases)
      PROVE  UpdateWebsite(d, sites'[d].aliases)
  <2>1. sites' = [sites EXCEPT ![e] = [sites[e] EXCEPT !.aliases = aliases]]
    BY <1>2 DEF UpdateWebsite, WriteSite
  <2>2. e = d
    BY <1>1, <2>1 DEF Gained, Serves
  <2>3. sites'[d] = [sites[d] EXCEPT !.aliases = aliases] /\ sites[d] \in SiteType
    BY <1>1, <2>1, <2>2
  <2>4. sites'[d].aliases = aliases
    BY <2>3 DEF SiteType
  <2>5. QED
    BY <1>2, <2>2, <2>4
<1>3. ASSUME RegistryHandler
      PROVE  \E e \in Domains : \E aliases \in SUBSET (Domains \ {e}) : UpdateWebsite(e, aliases)
  <2>1. ASSUME NEW e \in Domains, \/ \E alias \in Domains : RemoveAlias(e, alias)
                                  \/ DeleteWebsite(e)
        PROVE  FALSE
    BY <1>1, <2>1, WritesGainNothing
  <2>2. ASSUME NEW r \in Requests,
               \/ \E u \in Users, e \in Domains : \E aliases \in SUBSET (Domains \ {e}) :
                     CreateWebsite(r, u, e, aliases)
               \/ \E u \in Users \union {Nobody}, e, alias \in Domains :
                     AddAlias(r, u, e, alias)
        PROVE  FALSE
    BY <1>1, <2>2 DEF CreateWebsite, AddAlias
  <2>3. QED
    BY <1>3, <2>1, <2>2 DEF RegistryHandler
<1>4. ASSUME AccountHandler
      PROVE  FALSE
  <2>1. ASSUME NEW e \in Domains, NEW u \in Users, TransferResources(e, u)
        PROVE  FALSE
    BY <1>1, <2>1, WritesGainNothing
  <2>2. QED
    BY <1>1, <1>4, <2>1
       DEF AccountHandler, UpdateUser, SuspendUser, UnsuspendUser, DeleteUser, GetUser,
           AssignPlan, CreateUser, UpdateCurrentUser, CreateHostingPlan, UpdateHostingPlan,
           DeleteHostingPlan, WritePlan
<1>5. ASSUME NEW r \in Requests, RegistryCall(r) \/ AccountCall(r)
      PROVE  StoreWebsite(r) \/ StoreAlias(r)
  BY <1>1, <1>5, CallsGainNothing DEF RegistryCall
<1>6. ASSUME NEW e \in Domains, OperatorStatus(e) \/ OperatorDone(e)
      PROVE  FALSE
  BY <1>1, <1>6, WritesGainNothing
<1>7. ~UNCHANGED vars
  BY <1>1 DEF vars
<1>8. QED
  BY <1>2, <1>3, <1>4, <1>5, <1>6, <1>7 DEF Next

\* checkDomainUniqueness: of all steps of the panel and the operator, a site
\* gets a domain another site serves only from UpdateWebsite, which does not
\* look, or from a CreateWebsite or AddAlias whose list failed or that the
\* other site overtook.
THEOREM DomainsAreServedOnce == Spec => DomainsServedOnce
<1>1. TenantsInv /\ [Next]_vars =>
         [\A d \in Domains : \A e \in Sites \ {d} : Gained(d) \intersect Serves(e) # {} =>
             \/ UpdateWebsite(d, sites'[d].aliases)
             \/ \E r \in Requests : /\ Creates(r) \/ Stores(r, "alias")
                                    /\ req[r].site = d
                                    /\ req[r].failed \/ e \in req[r].since]_vars
  <2> SUFFICES ASSUME TenantsInv, [Next]_vars, NEW d \in Domains, NEW e \in Sites \ {d},
                      Gained(d) \intersect Serves(e) # {},
                      ~UpdateWebsite(d, sites'[d].aliases)
               PROVE  \E r \in Requests : /\ Creates(r) \/ Stores(r, "alias")
                                          /\ req[r].site = d
                                          /\ req[r].failed \/ e \in req[r].since
    OBVIOUS
  <2>1. Gained(d) # {}
    OBVIOUS
  <2>2. PICK r \in Requests : StoreWebsite(r) \/ StoreAlias(r)
    BY <2>1, Gains
  <2>3. /\ Creates(r) \/ Stores(r, "alias")
        /\ req[r].site = d
        /\ Gained(d) \subseteq Asked(req[r])
    BY <2>1, <2>2, StoresGain
  <2>4. req[r].pc \in {"create", "alias"} /\ Free(req[r], sites)
    BY <2>3, RequestFacts DEF Creates, Stores, Sound
  <2>5. e \in Domains /\ sites[e].exists
    BY DEF Sites
  <2>6. req[r].failed \/ e \in req[r].since
    BY <2>3, <2>4, <2>5 DEF Free, Serves
  <2>7. QED
    BY <2>3, <2>6
<1>2. QED
  BY <1>1, TenantsInvariant, PTL DEF Spec, DomainsServedOnce

\* resolveOwnerUID: a new site has the UID of a site of its owner, or nobody
\* else's, unless the site it was taken from has been written since, or a
\* list failed.
THEOREM UidsAlwaysFit == Spec => UidsFitOwners
<1>1. TenantsInv /\ [Next]_vars =>
         [\A r \in Requests : Creates(r) =>
             LET q   == req[r]
                 old == Siblings(r) \ q.since
                 own == {sites[d].uid : d \in {e \in old : sites[e].owner = q.user}} IN
             \/ q.failed
             \/ q.from \in q.since
             \/ q.uid \in own
             \/ own = {} /\ \A d \in old : sites[d].uid # q.uid]_vars
  <2> SUFFICES ASSUME TenantsInv, [Next]_vars, NEW r \in Requests, Creates(r)
               PROVE  LET q   == req[r]
                          old == Siblings(r) \ q.since
                          own == {sites[d].uid : d \in {e \in old : sites[e].owner = q.user}} IN
                      \/ q.failed
                      \/ q.from \in q.since
                      \/ q.uid \in own
                      \/ own = {} /\ \A d \in old : sites[d].uid # q.uid
    OBVIOUS
  <2> DEFINE q   == req[r]
             old == Siblings(r) \ q.since
             own == {sites[d].uid : d \in {e \in old : sites[e].owner = q.user}}
  <2>1. q.pc = "create" /\ Fitting(q, sites)
    BY RequestFacts DEF Creates, Stores, Sound
  <2>2. \A d \in old : d \in Domains \ q.since /\ sites[d].exists
    BY DEF Siblings, Sites
  <2>3. CASE q.failed \/ q.from \in q.since
    BY <2>3
  <2>4. CASE /\ q.from \notin q.since /\ q.from \in Domains
             /\ sites[q.from].exists /\ sites[q.from].owner = q.user
             /\ sites[q.from].uid = q.uid
    <3>1. q.site # q.from
      BY <2>4, CreatesFresh DEF TenantsInv
    <3>2. q.from \in old
      BY <2>4, <3>1 DEF Siblings, Sites
    <3>3. q.uid \in own
      BY <2>4, <3>2
    <3>4. QED
      BY <3>3
  <2>5. CASE Newcomer(q, sites) /\ Unused(q, sites)
    <3>1. \A d \in old : sites[d].owner # q.user /\ sites[d].uid # q.uid
      BY <2>2, <2>5 DEF Newcomer, Unused
    <3>2. own = {}
      BY <3>1
    <3>3. QED
      BY <3>1, <3>2
  <2>6. QED
    BY <2>1, <2>3, <2>4, <2>5 DEF Fitting
<1>2. QED
  BY <1>1, TenantsInvariant, PTL DEF Spec, UidsFitOwners

\* checkWebsiteQuota: a site beyond the limit of the plan is stored only by a
\* request that other sites or another plan overtook, or whose list failed.
THEOREM QuotaAlwaysHolds == Spec => QuotaHolds
<1>1. TenantsInv /\ [Next]_vars =>
         [\A r \in Requests : Creates(r) /\ getWebsiteLimit > 0 =>
             \/ req[r].failed \/ req[r].stale
             \/ Cardinality(Sites \ req[r].since) < getWebsiteLimit]_vars
  <2> SUFFICES ASSUME TenantsInv, NEW r \in Requests, Creates(r), getWebsiteLimit > 0,
                      ~req[r].failed, ~req[r].stale
               PROVE  Cardinality(Sites \ req[r].since) < getWebsiteLimit
    OBVIOUS
  <2>1. req[r].pc = "create" /\ Within(req[r], sites, getWebsiteLimit)
    BY RequestFacts DEF Creates, Stores, Sound
  <2>2. QED
    BY <2>1 DEF Within, Sites
<1>2. QED
  BY <1>1, TenantsInvariant, PTL DEF Spec, QuotaHolds

\* setUserWebsitesPhase: when it is through and its list did not fail, each
\* site of the user has the phase, but for those whose own write failed and
\* those others have written since the list.
THEOREM SuspensionsReachSites == Spec => SuspensionReachesSites
<1>1. TenantsInv /\ [Next]_vars =>
         [\A r \in Requests :
             LET q == req[r] IN
             q.pc = "phases" /\ req'[r].pc = "idle" =>
                \/ q.failed
                \/ \A d \in SitesOf(q.user) \ (q.since \union q.missed) :
                      sites[d].phase = q.phase]_vars
  <2> SUFFICES ASSUME TenantsInv, [Next]_vars, NEW r \in Requests,
                      req[r].pc = "phases", req'[r].pc = "idle", ~req[r].failed,
                      NEW d \in SitesOf(req[r].user) \ (req[r].since \union req[r].missed)
               PROVE  sites[d].phase = req[r].phase
    OBVIOUS
  <2>1. TypeOK /\ req[r] \in RequestType /\ Reached(req[r], sites)
    BY RequestFacts DEF Sound
  <2>2. RegistryCall(r) \/ AccountCall(r)
    BY <2>1, OwnCalls
  <2>3. SetPhase(r) \/ PhasesSet(r)
    BY <2>2
       DEF RegistryCall, CheckLimit, CheckDomains, ResolveOwnUID, ResolveMaxUID, StoreWebsite,
           StoreAlias, AccountCall, PutUser, PutUserFails, DeleteAccount, DeleteNamespace,
           ListWebsites, LabelNamespaceWithPlan, ApplyResourceQuota, ApplyLimitRange,
           PlanAssigned
  <2>4. ASSUME SetPhase(r)
        PROVE  FALSE
    <3>1. req \in [Requests -> RequestType]
      BY <2>1, TypeParts
    <3>2. PICK e : \/ req'[r] = [req[r] EXCEPT !.todo = @ \ {e}]
                   \/ req'[r] = [req[r] EXCEPT !.todo = @ \ {e}, !.missed = @ \union {e}]
      BY <2>4, <3>1 DEF SetPhase, Become, Step
    <3>3. req'[r].pc = req[r].pc
      BY <2>1, <3>2 DEF RequestType
    <3>4. QED
      BY <3>3
  <2>5. req[r].todo = {}
    BY <2>3, <2>4 DEF PhasesSet
  <2>6. /\ d \in Domains \ (req[r].since \union req[r].missed)
        /\ sites[d].exists /\ sites[d].owner = req[r].user
    BY DEF SitesOf, Sites
  <2>7. QED
    BY <2>1, <2>5, <2>6 DEF Reached
<1>2. QED
  BY <1>1, TenantsInvariant, PTL DEF Spec, SuspensionReachesSites

\* PutUser writes an account back as it was read: one that is disabled is
\* enabled by UnsuspendUser, by a registration of the name, or by a request
\* that has read it before.
THEOREM TheDisabledStayOut == Spec => DisabledStaysOut
<1>1. TenantsInv /\ [Next]_vars =>
         [\A u \in Users : ~users[u].enabled /\ users'[u].enabled =>
             \/ users'[u].id # users[u].id
             \/ \E r \in Editing(u) : /\ req'[r].pc # "put"
                                      /\ req[r].phase = "Running" \/ req[r].stale]_vars
  <2> SUFFICES ASSUME TenantsInv, [Next]_vars, NEW u \in Users,
                      ~users[u].enabled, users'[u].enabled
               PROVE  \/ users'[u].id # users[u].id
                      \/ \E r \in Editing(u) : /\ req'[r].pc # "put"
                                               /\ req[r].phase = "Running" \/ req[r].stale
    OBVIOUS
  <2> DEFINE Enables(r) == /\ r \in Editing(u) /\ req'[r].pc # "put"
                           /\ req[r].phase = "Running" \/ req[r].stale
  <2>0. SUFFICES ASSUME users'[u].id = users[u].id
                 PROVE  \E r : Enables(r)
    OBVIOUS
  <2>1. users \in [Users -> UserType] /\ req \in [Requests -> RequestType]
    BY TypeParts DEF TenantsInv
  <2>2. users' # users
    OBVIOUS
  <2>3. ASSUME NEW r \in Requests, PutUser(r) \/ PutUserFails(r)
        PROVE  Enables(r)
    <3>1. /\ req[r].pc = "put"
          /\ users' = [users EXCEPT ![req[r].user].enabled = req[r].enabled]
          /\ \/ Overtake(r, NoRequest, Editing(req[r].user))
             \/ Overtake(r, [req[r] EXCEPT !.pc = "list"], Editing(req[r].user))
      BY <2>2, <2>3 DEF PutUser, PutUserFails
    <3>2. req[r] \in RequestType /\ Current(req[r], users)
      BY RequestFacts DEF Sound
    <3>3. req[r].user = u /\ req[r].enabled
      BY <2>1, <3>1 DEF UserType
    <3>4. req'[r] = NoRequest \/ req'[r] = [req[r] EXCEPT !.pc = "list"]
      BY <3>1 DEF Overtake
    <3>5. req'[r].pc # "put"
      BY <3>2, <3>4, RequestIdle DEF RequestType
    <3>6. r \in Editing(u)
      BY <3>1, <3>3 DEF Editing
    <3>7. QED
      BY <3>1, <3>2, <3>3, <3>5, <3>6 DEF Current
  <2>4. ASSUME NEW r \in Requests, DeleteAccount(r)
        PROVE  FALSE
    <3>1. users' = [users EXCEPT ![req[r].user].exists = FALSE, ![req[r].user].enabled = FALSE]
      BY <2>2, <2>4 DEF DeleteAccount
    <3>2. QED
      BY <2>1, <3>1 DEF UserType
  <2>5. ASSUME NEW v \in Users, UpdateCurrentUser(v)
        PROVE  FALSE
    <3>1. users' = [users EXCEPT ![v].enabled = FALSE]
      BY <2>5 DEF UpdateCurrentUser
    <3>2. QED
      BY <2>1, <3>1 DEF UserType
  <2>6. ASSUME NEW v \in Users, CreateUser(v)
        PROVE  FALSE
    <3>1. users' = [users EXCEPT ![v] = [id |-> users[v].id + 1, exists |-> TRUE,
                                         enabled |-> TRUE]]
      BY <2>6 DEF CreateUser
    <3>2. v = u
      BY <2>1, <3>1
    <3>3. users[u].id \in Nat
      BY <2>1 DEF UserType
    <3>4. users'[u].id = users[u].id + 1
      BY <2>1, <3>1, <3>2
    <3>5. QED
      BY <2>0, <3>3, <3>4
  <2>7. \/ \E r \in Requests : PutUser(r) \/ PutUserFails(r) \/ DeleteAccount(r)
        \/ \E v \in Users : CreateUser(v) \/ UpdateCurrentUser(v)
    <3>1. ASSUME UNCHANGED accounts
          PROVE  FALSE
      BY <2>2, <3>1 DEF accounts
    <3>2. ASSUME AccountHandler
          PROVE  \E v \in Users : CreateUser(v) \/ UpdateCurrentUser(v)
      BY <3>1, <3>2
         DEF AccountHandler, UpdateUser, SuspendUser, UnsuspendUser, DeleteUser, GetUser,
             AssignPlan, CreateHostingPlan, UpdateHostingPlan, DeleteHostingPlan, WritePlan
    <3>3. ASSUME NEW r \in Requests, AccountCall(r)
          PROVE  PutUser(r) \/ PutUserFails(r) \/ DeleteAccount(r)
      BY <2>2, <3>1, <3>3
         DEF AccountCall, DeleteNamespace, ListWebsites, SetPhase, PhasesSet,
             LabelNamespaceWithPlan, ApplyResourceQuota, ApplyLimitRange, WriteNamespace,
             PlanAssigned
    <3>4. ~UNCHANGED vars
      BY <3>1 DEF vars
    <3>5. QED
      BY <3>1, <3>2, <3>3, <3>4 DEF Next
  <2>8. QED
    BY <2>3, <2>4, <2>5, <2>6, <2>7
<1>2. QED
  BY <1>1, TenantsInvariant, PTL DEF Spec, DisabledStaysOut
==============================================================================
