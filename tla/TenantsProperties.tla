-------------------------- MODULE TenantsProperties --------------------------
(***************************************************************************)
(* What Tenants is checked for.  The panel checks and writes with calls    *)
(* that other requests come between; each property says how much then can  *)
(* go wrong, and that nothing goes wrong otherwise.                        *)
(***************************************************************************)
EXTENDS Tenants

Calls == {"idle", "limit", "unique", "uid", "maxuid", "create", "alias", "put", "delete",
          "namespace", "list", "phases", "label", "quota", "limits", "assigned"}

Names == Users \union {Nobody}
Limits == PlanLimits \union {NoLimits}

\* Every variable has its type.
TypeOK ==
    /\ sites \in [Domains -> [exists: BOOLEAN, del: BOOLEAN, owner: Names,
                              aliases: SUBSET Domains, uid: Nat,
                              phase: {"", "Running", "Suspended"}]]
    /\ plans \in [Plans -> [exists: BOOLEAN, limits: Limits]]
    /\ users \in [Users -> [id: Nat, exists: BOOLEAN, enabled: BOOLEAN]]
    /\ namespaces \in [Users -> [exists: BOOLEAN, label: Plans \union {0},
                                 quota: Plans \union {0}, limits: Plans \union {0}]]
    /\ req \in [Requests -> [pc: Calls, user: Names, site: Domains \union {Nobody},
                             aliases: SUBSET Domains, count: Nat, uid: Nat,
                             from: Domains \union {Nobody}, id: Nat, enabled: BOOLEAN,
                             phase: {"", "Running", "Suspended"}, todo: SUBSET Domains,
                             plan: Plans \union {0}, limits: Limits, failed: BOOLEAN,
                             missed: SUBSET Domains, since: SUBSET Domains, stale: BOOLEAN]]
    /\ requests \in Nat
    /\ faults \in Nat

\* The last call of request r, which began with this one, stores its result.
Stores(r, call) == req[r].pc = call /\ req'[r].pc = "idle" /\ sites' # sites

Creates(r)  == Stores(r, "create")
Siblings(r) == Sites \ {req[r].site}

\* The domains site d comes to serve in this step.
Gained(d) ==
    (IF sites'[d].exists THEN {d} \union sites'[d].aliases ELSE {})
       \ (IF sites[d].exists THEN Serves(d) ELSE {})

\* A domain is served once, but for two ways: of all steps only those of
\* three handlers give a site a domain that another site serves already.
\* UpdateWebsite does not look; CreateWebsite and AddAlias look in a list
\* and do it only if that list failed, or if the other site has been written
\* since they arrived.
DomainsServedOnce ==
    [][\A d \in Domains : \A e \in Sites \ {d} : Gained(d) \intersect Serves(e) # {} =>
          \/ UpdateWebsite(d, sites'[d].aliases)
          \/ \E r \in Requests : /\ Creates(r) \/ Stores(r, "alias")
                                 /\ req[r].site = d
                                 /\ req[r].failed \/ e \in req[r].since]_vars

\* UIDs fit owners: a new site has the UID of another site of its owner, or
\* its owner has no other and no other site has its UID.  Otherwise a list
\* failed, or another request wrote the site the UID was taken from.  Sites
\* written since the request arrived do not count as others.
UidsFitOwners ==
    [][\A r \in Requests : Creates(r) =>
          LET q   == req[r]
              old == Siblings(r) \ q.since
              own == {sites[d].uid : d \in {e \in old : sites[e].owner = q.user}} IN
          \/ q.failed
          \/ q.from \in q.since
          \/ q.uid \in own
          \/ own = {} /\ \A d \in old : sites[d].uid # q.uid]_vars

\* The plan holds: a site beyond the limit is only created by a request that
\* as many sites overtook, or whose plans changed after it had read them, or
\* a list of which failed.
QuotaHolds ==
    [][\A r \in Requests : Creates(r) /\ getWebsiteLimit > 0 =>
          \/ req[r].failed \/ req[r].stale
          \/ Cardinality(Sites \ req[r].since) < getWebsiteLimit]_vars

\* Who is disabled stays out: an account is enabled again by UnsuspendUser
\* or a new registration, or by a request that read the account before it
\* was disabled and wrote it back afterwards.
DisabledStaysOut ==
    [][\A u \in Users : ~users[u].enabled /\ users'[u].enabled =>
          \/ users'[u].id # users[u].id
          \/ \E r \in Editing(u) : /\ req'[r].pc # "put"
                                   /\ req[r].phase = "Running" \/ req[r].stale]_vars

\* Suspension reaches the sites: when SuspendUser or UnsuspendUser answers,
\* and its list did not fail, every site of the user has the phase, but for
\* those whose own write failed and those that others have written since
\* the list.
SuspensionReachesSites ==
    [][\A r \in Requests :
          LET q == req[r] IN
          q.pc = "phases" /\ req'[r].pc = "idle" =>
             \/ q.failed
             \/ \A d \in SitesOf(q.user) \ (q.since \union q.missed) :
                   sites[d].phase = q.phase]_vars

\* An assigned plan applies: when AssignPlan reports success, label, quota
\* and limits of the namespace are those of the plan, as far as the plan has
\* any, unless another request changed the namespace meanwhile.
AssignedPlanApplies ==
    \A r \in Requests :
       LET q == req[r]
           n == namespaces[q.user] IN
       q.pc = "assigned" /\ ~q.stale =>
          /\ n.label = q.plan
          /\ q.limits.storage \/ q.limits.compute => n.quota = q.plan
          /\ q.limits.compute => n.limits = q.plan
==============================================================================
