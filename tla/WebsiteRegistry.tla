--------------------------- MODULE WebsiteRegistry ---------------------------
(***************************************************************************)
(* What the websites of all users share: their domains, the numeric user   *)
(* ids of their owners, and the number the hosting plan allows.  The       *)
(* handlers of panel-core look these up in lists of all sites and store    *)
(* their result with a later call; Kubernetes only sees to it that two     *)
(* sites never have one name and that no update is based on an old copy.   *)
(*                                                                         *)
(* A site goes by its primary domain: its name is that domain with hyphens *)
(* for dots, and of two domains with one name the API server takes one.    *)
(* The life of a site inside the operator is in WebsiteController.         *)
(***************************************************************************)
EXTENDS Naturals, FiniteSets, FiniteSetsExt

CONSTANTS
    Requests,     \* requests the panel handles at the same time
    Users,        \* names of users
    Domains,      \* domain names
    Plans,        \* hosting plans, numbered in the order of their names
    PlanLimits,   \* what a plan may allow
    MaxRequests,  \* bound: how many requests there are
    MaxFaults     \* bound: how many of their calls fail

ASSUME RegistryConstants ==
    /\ IsFiniteSet(Domains)
    /\ Plans \subseteq Nat
    /\ \A l \in PlanLimits :
          l.websites \in Nat /\ l.storage \in BOOLEAN /\ l.compute \in BOOLEAN
    /\ MaxRequests \in Nat
    /\ MaxFaults \in Nat

VARIABLES
    sites,  \* the websites, by primary domain
    plans,  \* the hosting plans
    req,    \* the requests in flight
    requests, faults  \* how many there have been

-----------------------------------------------------------------------------
Nobody == "nobody"

ASSUME NobodyIsNoRequest == Nobody \notin Requests

NoSite == [exists |-> FALSE, del |-> FALSE, owner |-> Nobody, aliases |-> {}, uid |-> 0,
           phase |-> ""]

NoLimits == [websites |-> 0, storage |-> FALSE, compute |-> FALSE]

NoPlan == [exists |-> FALSE, limits |-> NoLimits]

\* pc: the next call; user, site, aliases, uid: what CreateWebsite and
\* AddAlias are about to store; count: the sites the quota is compared with;
\* from: the site whose UID that is; the rest is for the handlers in Tenants.
\* failed: a list failed and the handler went on; missed: the sites whose
\* write failed.  since: the sites others have written since the request
\* arrived, or since setUserWebsitesPhase listed them; stale: others have
\* written what the request has read: the plans of CreateWebsite, the account
\* of the handlers that write it back, the namespace of AssignPlan.
NoRequest == [pc |-> "idle", user |-> Nobody, site |-> Nobody, aliases |-> {}, count |-> 0,
              uid |-> 0, from |-> Nobody, id |-> 0, enabled |-> FALSE, phase |-> "",
              todo |-> {}, plan |-> 0, limits |-> NoLimits, failed |-> FALSE, missed |-> {},
              since |-> {}, stale |-> FALSE]

Sites     == {d \in Domains : sites[d].exists}
Serves(d) == {d} \union sites[d].aliases
Taken     == UNION {Serves(d) : d \in Sites}
SitesOf(u) == {d \in Sites : sites[d].owner = u}

\* There may be plans already.
RegistryInit ==
    /\ sites = [d \in Domains |-> NoSite]
    /\ plans \in [Plans -> {NoPlan} \union [exists: {TRUE}, limits: PlanLimits]]
    /\ req = [r \in Requests |-> NoRequest]
    /\ requests = 0
    /\ faults = 0

Arrives == requests < MaxRequests /\ requests' = requests + 1
Fault   == faults < MaxFaults /\ faults' = faults + 1

\* What the change of some sites means to another request: a site that has
\* changed since it was listed cannot be updated from that list any more.
Interfere(q, changed) ==
    IF req[q].pc = "idle" THEN req[q]
    ELSE [req[q] EXCEPT !.since = @ \union changed, !.todo = @ \ changed]

Become(r, mine, changed) ==
    req' = [q \in Requests |-> IF q = r THEN mine ELSE Interfere(q, changed)]

Step(r, mine) == req' = [req EXCEPT ![r] = mine]

WriteSite(d, site) ==
    /\ sites' = [sites EXCEPT ![d] = site]
    /\ req' = [q \in Requests |-> Interfere(q, IF site = sites[d] THEN {} ELSE {d})]

-----------------------------------------------------------------------------
(***************************************************************************)
(* CreateWebsite: quota, domains, owner UID, resource                      *)
(***************************************************************************)

\* The limit of the first plan of all; 0: none.
getWebsiteLimit ==
    LET existing == {p \in Plans : plans[p].exists} IN
    IF existing = {} THEN 0 ELSE plans[Min(existing)].limits.websites

\* Mutant: compares with primary domains only.
checkDomainUniquenessPrimary(domains) == domains \intersect Sites = {}

checkDomainUniqueness(domains) == domains \intersect Taken = {}

\* checkWebsiteQuota lists the sites, then the plans.  A check whose list
\* fails lets the request pass.
CreateWebsite(r, u, d, aliases) ==
    LET q == [NoRequest EXCEPT !.user = u, !.site = d, !.aliases = aliases] IN
    /\ \/ Step(r, [q EXCEPT !.pc = "limit", !.count = Cardinality(Sites)]) /\ UNCHANGED faults
       \/ Fault /\ Step(r, [q EXCEPT !.pc = "unique", !.failed = TRUE])
    /\ UNCHANGED <<sites, plans>>

\* Mutant: lets one site too many pass.
CheckLimitLoose(r) ==
    LET q == req[r] IN
    /\ q.pc = "limit"
    /\ Step(r, IF getWebsiteLimit > 0 /\ q.count > getWebsiteLimit
               THEN NoRequest ELSE [q EXCEPT !.pc = "unique"])
    /\ UNCHANGED <<sites, plans, requests, faults>>

CheckLimit(r) ==
    LET q == req[r] IN
    /\ q.pc = "limit"
    /\ \/ /\ Step(r, IF getWebsiteLimit > 0 /\ q.count >= getWebsiteLimit
                     THEN NoRequest ELSE [q EXCEPT !.pc = "unique"])
          /\ UNCHANGED faults
       \/ Fault /\ Step(r, [q EXCEPT !.pc = "unique", !.failed = TRUE])
    /\ UNCHANGED <<sites, plans, requests>>

CheckDomains(r) ==
    LET q    == req[r]
        free == checkDomainUniqueness({q.site} \union q.aliases) IN
    /\ q.pc = "unique"
    /\ \/ Step(r, IF free THEN [q EXCEPT !.pc = "uid"] ELSE NoRequest) /\ UNCHANGED faults
       \/ Fault /\ Step(r, [q EXCEPT !.pc = "uid", !.failed = TRUE])
    /\ UNCHANGED <<sites, plans, requests>>

FirstUID == 2000

HaveUID(q, uid) == [q EXCEPT !.pc = "create", !.uid = uid]

\* The UID of a site the user has, of the first one in the list.
ResolveOwnUID(r) ==
    LET q == req[r] IN
    /\ q.pc = "uid"
    /\ \/ /\ \E d \in SitesOf(q.user) :
                Step(r, [HaveUID(q, sites[d].uid) EXCEPT !.from = d])
          /\ UNCHANGED faults
       \/ SitesOf(q.user) = {} /\ Step(r, [q EXCEPT !.pc = "maxuid"]) /\ UNCHANGED faults
       \/ Fault /\ Step(r, [HaveUID(q, FirstUID) EXCEPT !.failed = TRUE])
    /\ UNCHANGED <<sites, plans, requests>>

\* Mutant: overlooks sites that are being deleted.
ResolveMaxUIDLive(r) ==
    LET q == req[r] IN
    /\ q.pc = "maxuid"
    /\ Step(r, HaveUID(q, Max({FirstUID - 1} \union
                               {sites[d].uid : d \in {e \in Sites : ~sites[e].del}}) + 1))
    /\ UNCHANGED <<sites, plans, requests, faults>>

\* Otherwise one more than the greatest of all sites.
ResolveMaxUID(r) ==
    LET q == req[r] IN
    /\ q.pc = "maxuid"
    /\ \/ Step(r, HaveUID(q, Max({FirstUID - 1} \union {sites[d].uid : d \in Sites}) + 1))
          /\ UNCHANGED faults
       \/ Fault /\ Step(r, [HaveUID(q, FirstUID) EXCEPT !.failed = TRUE])
    /\ UNCHANGED <<sites, plans, requests>>

\* The API server refuses a second site of the same name.
StoreWebsite(r) ==
    LET q == req[r] IN
    /\ q.pc = "create"
    /\ \/ /\ ~sites[q.site].exists
          /\ sites' = [sites EXCEPT ![q.site] = [exists |-> TRUE, del |-> FALSE,
                          owner |-> q.user, aliases |-> q.aliases, uid |-> q.uid, phase |-> ""]]
          /\ Become(r, NoRequest, {q.site})
          /\ UNCHANGED faults
       \/ /\ IF sites[q.site].exists THEN UNCHANGED faults ELSE Fault
          /\ Step(r, NoRequest)
          /\ UNCHANGED sites
    /\ UNCHANGED <<plans, requests>>

-----------------------------------------------------------------------------
(***************************************************************************)
(* The handlers that change a site.  The last two calls of each, Get and   *)
(* Update, are one step here: an Update based on an old copy is refused.   *)
(***************************************************************************)

\* The domain is checked before the site is looked for.  User Nobody: an
\* admin.
AddAlias(r, u, d, alias) ==
    LET q == [NoRequest EXCEPT !.pc = "alias", !.user = u, !.site = d, !.aliases = {alias}] IN
    /\ \/ checkDomainUniqueness({alias}) /\ Step(r, q) /\ UNCHANGED faults
       \/ Fault /\ Step(r, [q EXCEPT !.failed = TRUE])
    /\ UNCHANGED <<sites, plans>>

StoreAlias(r) ==
    LET q == req[r]
        s == sites[q.site] IN
    /\ q.pc = "alias"
    /\ IF s.exists /\ q.user \in {Nobody, s.owner} /\ ~(q.aliases \subseteq s.aliases)
       THEN /\ sites' = [sites EXCEPT ![q.site].aliases = @ \union q.aliases]
            /\ Become(r, NoRequest, {q.site})
       ELSE Step(r, NoRequest) /\ UNCHANGED sites
    /\ UNCHANGED <<plans, requests, faults>>

RemoveAlias(d, alias) ==
    /\ sites[d].exists
    /\ alias \in sites[d].aliases
    /\ WriteSite(d, [sites[d] EXCEPT !.aliases = @ \ {alias}])

\* Replaces the aliases and looks at no other site.
UpdateWebsite(d, aliases) ==
    /\ sites[d].exists
    /\ WriteSite(d, [sites[d] EXCEPT !.aliases = aliases])

\* The site stays listed until the operator lets it go.
DeleteWebsite(d) ==
    /\ sites[d].exists
    /\ WriteSite(d, [sites[d] EXCEPT !.del = TRUE])

\* The new owner takes the UID over with the site.
TransferResources(d, u) ==
    /\ sites[d].exists
    /\ WriteSite(d, [sites[d] EXCEPT !.owner = u])

\* What the operator does meanwhile: it writes the status and finalizer of
\* the site, now and then, and a site without a phase is running in the end.
OperatorStatus(d) ==
    /\ sites[d].exists
    /\ sites' = [sites EXCEPT ![d].phase = IF @ = "" /\ ~sites[d].del THEN "Running" ELSE @]
    /\ req' = [q \in Requests |-> Interfere(q, {d})]
    /\ UNCHANGED <<plans, requests, faults>>

OperatorDone(d) ==
    /\ sites[d].exists
    /\ sites[d].del
    /\ WriteSite(d, NoSite)
    /\ UNCHANGED <<plans, requests, faults>>

-----------------------------------------------------------------------------
\* A handler's next call.
RegistryCall(r) ==
    \/ CheckLimit(r)
    \/ CheckDomains(r)
    \/ ResolveOwnUID(r)
    \/ ResolveMaxUID(r)
    \/ StoreWebsite(r)
    \/ StoreAlias(r)

\* A request for a site arrives.
RegistryHandler ==
    /\ Arrives
    /\ \/ \E r \in Requests :
             /\ req[r].pc = "idle"
             /\ \/ \E u \in Users, d \in Domains : \E aliases \in SUBSET (Domains \ {d}) :
                      CreateWebsite(r, u, d, aliases)
                \/ \E u \in Users \union {Nobody}, d, alias \in Domains :
                      AddAlias(r, u, d, alias)
       \/ \E d, alias \in Domains : RemoveAlias(d, alias) /\ UNCHANGED <<plans, faults>>
       \/ \E d \in Domains : \E aliases \in SUBSET (Domains \ {d}) :
             UpdateWebsite(d, aliases) /\ UNCHANGED <<plans, faults>>
       \/ \E d \in Domains : DeleteWebsite(d) /\ UNCHANGED <<plans, faults>>
==============================================================================
