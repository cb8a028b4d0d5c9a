------------------------------- MODULE Tenants -------------------------------
(***************************************************************************)
(* The users of the panel, their accounts in Keycloak, their websites and  *)
(* the plans assigned to them.                                             *)
(*                                                                         *)
(* Keycloak has no versions: a handler reads an account and writes all of  *)
(* it back.  Of an account the id, which is new when a name is registered  *)
(* again, and whether it is enabled are kept; the role, the password and   *)
(* the volume CreateUser adds afterwards, whatever comes of it, are not.   *)
(* The namespaces that plans are assigned to are made by hand: the panel   *)
(* only labels and deletes them.                                           *)
(***************************************************************************)
EXTENDS WebsiteRegistry

VARIABLES
    users,       \* the accounts in Keycloak
    namespaces   \* the namespaces of the users, with the plan named by the
                 \* label, the ResourceQuota and the LimitRange; 0: none

accounts == <<users, namespaces>>
vars     == <<sites, plans, req, requests, faults, accounts>>

-----------------------------------------------------------------------------
NoNamespace == [exists |-> FALSE, label |-> 0, quota |-> 0, limits |-> 0]

\* Users have been registered, and their namespaces made.
Init ==
    /\ RegistryInit
    /\ users = [u \in Users |-> [id |-> 1, exists |-> TRUE, enabled |-> TRUE]]
    /\ namespaces = [u \in Users |-> [NoNamespace EXCEPT !.exists = TRUE]]

\* Request r goes on as mine, having written what the requests of set read.
Overtake(r, mine, set) ==
    req' = [q \in Requests |-> IF q = r THEN mine
                               ELSE [req[q] EXCEPT !.stale = @ \/ q \in set]]

\* The requests that have read the plans, the account or the namespace of a
\* user, and have not answered or written it back.
Creating     == {q \in Requests : req[q].pc \in {"unique", "uid", "maxuid", "create"}}
Editing(u)   == {q \in Requests : req[q].pc = "put" /\ req[q].user = u}
Assigning(u) == {q \in Requests : /\ req[q].pc \in {"label", "quota", "limits", "assigned"}
                                  /\ req[q].user = u}

-----------------------------------------------------------------------------
(***************************************************************************)
(* Accounts                                                                *)
(***************************************************************************)

\* What the handlers do first: read the account.
GetUser(r, u, mine) ==
    /\ users[u].exists
    /\ Step(r, [mine EXCEPT !.user = u, !.id = users[u].id])
    /\ UNCHANGED <<sites, plans, faults, accounts>>

\* Mutant: an account that is edited is an account in use.
UpdateUserEnabled(r, u) == GetUser(r, u, [NoRequest EXCEPT !.pc = "put", !.enabled = TRUE])

UpdateUser(r, u) == GetUser(r, u, [NoRequest EXCEPT !.pc = "put", !.enabled = users[u].enabled])

\* Mutant: a phase no one knows.
SuspendUserDisabled(r, u) == GetUser(r, u, [NoRequest EXCEPT !.pc = "put", !.phase = "Disabled"])

SuspendUser(r, u) == GetUser(r, u, [NoRequest EXCEPT !.pc = "put", !.phase = "Suspended"])

UnsuspendUser(r, u) ==
    GetUser(r, u, [NoRequest EXCEPT !.pc = "put", !.phase = "Running", !.enabled = TRUE])

DeleteUser(r, u) == GetUser(r, u, [NoRequest EXCEPT !.pc = "delete"])

\* An account of this id is still there.
Present(q) == users[q.user].exists /\ users[q.user].id = q.id

\* All of the account is written back, as it was read but for the change.
PutUser(r) ==
    LET q    == req[r]
        next == IF q.phase = "" THEN NoRequest ELSE [q EXCEPT !.pc = "list"] IN
    /\ q.pc = "put"
    /\ IF Present(q)
       THEN /\ users' = [users EXCEPT ![q.user].enabled = q.enabled]
            /\ Overtake(r, next, Editing(q.user))
       ELSE Step(r, NoRequest) /\ UNCHANGED users
    /\ UNCHANGED <<sites, plans, requests, faults, namespaces>>

\* The write gets no answer; it may have been made.
PutUserFails(r) ==
    LET q == req[r] IN
    /\ q.pc = "put"
    /\ Present(q)
    /\ Fault
    /\ \/ /\ users' = [users EXCEPT ![q.user].enabled = q.enabled]
          /\ Overtake(r, NoRequest, Editing(q.user))
       \/ Step(r, NoRequest) /\ UNCHANGED users
    /\ UNCHANGED <<sites, plans, requests, namespaces>>

\* Writes the fields of the profile without reading the account, and with
\* them that it is not enabled.
UpdateCurrentUser(u) ==
    /\ users[u].exists
    /\ users' = [users EXCEPT ![u].enabled = FALSE]
    /\ Overtake(Nobody, NoRequest, Editing(u))
    /\ UNCHANGED <<sites, plans, faults, namespaces>>

CreateUser(u) ==
    /\ ~users[u].exists
    /\ users' = [users EXCEPT ![u] = [id |-> @.id + 1, exists |-> TRUE, enabled |-> TRUE]]
    /\ UNCHANGED <<sites, plans, req, faults, namespaces>>

\* The websites of the user stay.
DeleteAccount(r) ==
    LET q == req[r] IN
    /\ q.pc = "delete"
    /\ \/ /\ Present(q)
          /\ users' = [users EXCEPT ![q.user].exists = FALSE, ![q.user].enabled = FALSE]
          /\ \/ Overtake(r, [q EXCEPT !.pc = "namespace"], Editing(q.user)) /\ UNCHANGED faults
             \/ Overtake(r, NoRequest, Editing(q.user)) /\ Fault
       \/ /\ Step(r, NoRequest)
          /\ IF Present(q) THEN Fault ELSE UNCHANGED faults
          /\ UNCHANGED users
    /\ UNCHANGED <<sites, plans, requests, namespaces>>

DeleteNamespace(r) ==
    LET q == req[r] IN
    /\ q.pc = "namespace"
    /\ \/ /\ namespaces' = [namespaces EXCEPT ![q.user] = NoNamespace]
          /\ Overtake(r, NoRequest, Assigning(q.user))
          /\ UNCHANGED faults
       \/ Fault /\ Step(r, NoRequest) /\ UNCHANGED namespaces
    /\ UNCHANGED <<sites, plans, requests, users>>

-----------------------------------------------------------------------------
(***************************************************************************)
(* setUserWebsitesPhase: a list, and one write per site, none if the list  *)
(* fails; the handler answers with success whatever comes of them          *)
(***************************************************************************)
ListWebsites(r) ==
    LET q == req[r] IN
    /\ q.pc = "list"
    /\ \/ /\ Step(r, [q EXCEPT !.pc = "phases", !.todo = SitesOf(q.user), !.since = {}])
          /\ UNCHANGED faults
       \/ Fault /\ Step(r, [q EXCEPT !.pc = "phases", !.failed = TRUE])
    /\ UNCHANGED <<sites, plans, requests, accounts>>

\* Mutant: the loop ends at the first error.
SetPhaseUntilError(r) ==
    LET q == req[r] IN
    /\ q.pc = "phases"
    /\ \E d \in q.todo :
          \/ /\ sites' = [sites EXCEPT ![d].phase = q.phase]
             /\ Become(r, [q EXCEPT !.todo = @ \ {d}],
                       IF sites[d].phase = q.phase THEN {} ELSE {d})
             /\ UNCHANGED faults
          \/ /\ Fault
             /\ Step(r, [q EXCEPT !.todo = {}, !.missed = @ \union {d}])
             /\ UNCHANGED sites
    /\ UNCHANGED <<plans, requests, accounts>>

\* A site that has changed since the list is no longer on it: its write is
\* refused.  That, or a write that is lost, is ignored.
SetPhase(r) ==
    LET q == req[r] IN
    /\ q.pc = "phases"
    /\ \E d \in q.todo :
          \/ /\ sites' = [sites EXCEPT ![d].phase = q.phase]
             /\ Become(r, [q EXCEPT !.todo = @ \ {d}],
                       IF sites[d].phase = q.phase THEN {} ELSE {d})
             /\ UNCHANGED faults
          \/ /\ Fault
             /\ Step(r, [q EXCEPT !.todo = @ \ {d}, !.missed = @ \union {d}])
             /\ UNCHANGED sites
    /\ UNCHANGED <<plans, requests, accounts>>

PhasesSet(r) ==
    /\ req[r].pc = "phases"
    /\ req[r].todo = {}
    /\ Step(r, NoRequest)
    /\ UNCHANGED <<sites, plans, requests, faults, accounts>>

-----------------------------------------------------------------------------
(***************************************************************************)
(* Hosting plans                                                           *)
(***************************************************************************)
WritePlan(p, plan) ==
    /\ plans' = [plans EXCEPT ![p] = plan]
    /\ Overtake(Nobody, NoRequest, Creating)
    /\ UNCHANGED <<sites, faults, accounts>>

CreateHostingPlan(p, limits) ==
    ~plans[p].exists /\ WritePlan(p, [exists |-> TRUE, limits |-> limits])

UpdateHostingPlan(p, limits) ==
    plans[p].exists /\ WritePlan(p, [exists |-> TRUE, limits |-> limits])

\* Namespaces keep what a deleted plan gave them.
DeleteHostingPlan(p) == plans[p].exists /\ WritePlan(p, NoPlan)

\* Reads the plan; three writes follow, and the first that fails is the last.
AssignPlan(r, u, p) ==
    /\ plans[p].exists
    /\ Step(r, [NoRequest EXCEPT !.pc = "label", !.user = u, !.plan = p,
                                 !.limits = plans[p].limits])
    /\ UNCHANGED <<sites, plans, faults, accounts>>

WriteNamespace(r, namespace, next) ==
    LET q == req[r] IN
    /\ \/ /\ namespaces[q.user].exists
          /\ namespaces' = [namespaces EXCEPT ![q.user] = namespace]
          /\ \/ Overtake(r, next, Assigning(q.user)) /\ UNCHANGED faults
             \/ Overtake(r, NoRequest, Assigning(q.user)) /\ Fault
       \/ /\ IF namespaces[q.user].exists THEN Fault ELSE UNCHANGED faults
          /\ Step(r, NoRequest)
          /\ UNCHANGED namespaces
    /\ UNCHANGED <<sites, plans, requests, users>>

LabelNamespaceWithPlan(r) ==
    LET q == req[r] IN
    /\ q.pc = "label"
    /\ WriteNamespace(r, [namespaces[q.user] EXCEPT !.label = q.plan],
                      [q EXCEPT !.pc = "quota"])

\* Without a limit in the plan nothing is written, and what is there stays.
ApplyResourceQuota(r) ==
    LET q == req[r] IN
    /\ q.pc = "quota"
    /\ IF q.limits.storage \/ q.limits.compute
       THEN WriteNamespace(r, [namespaces[q.user] EXCEPT !.quota = q.plan],
                           [q EXCEPT !.pc = "limits"])
       ELSE /\ Step(r, [q EXCEPT !.pc = "limits"])
            /\ UNCHANGED <<sites, plans, requests, faults, accounts>>

\* Mutant: an existing LimitRange is left as it is.
ApplyLimitRangeOnce(r) ==
    LET q == req[r]
        n == namespaces[q.user] IN
    /\ q.pc = "limits"
    /\ IF q.limits.compute
       THEN WriteNamespace(r, [n EXCEPT !.limits = IF @ = 0 THEN q.plan ELSE @],
                           [q EXCEPT !.pc = "assigned"])
       ELSE /\ Step(r, [q EXCEPT !.pc = "assigned"])
            /\ UNCHANGED <<sites, plans, requests, faults, accounts>>

ApplyLimitRange(r) ==
    LET q == req[r] IN
    /\ q.pc = "limits"
    /\ IF q.limits.compute
       THEN WriteNamespace(r, [namespaces[q.user] EXCEPT !.limits = q.plan],
                           [q EXCEPT !.pc = "assigned"])
       ELSE /\ Step(r, [q EXCEPT !.pc = "assigned"])
            /\ UNCHANGED <<sites, plans, requests, faults, accounts>>

\* The answer: "Plan assigned successfully".
PlanAssigned(r) ==
    /\ req[r].pc = "assigned"
    /\ Step(r, NoRequest)
    /\ UNCHANGED <<sites, plans, requests, faults, accounts>>

-----------------------------------------------------------------------------
AccountHandler ==
    /\ Arrives
    /\ \/ \E r \in Requests, u \in Users :
             /\ req[r].pc = "idle"
             /\ \/ UpdateUser(r, u)
                \/ SuspendUser(r, u)
                \/ UnsuspendUser(r, u)
                \/ DeleteUser(r, u)
                \/ \E p \in Plans : AssignPlan(r, u, p)
       \/ \E u \in Users : CreateUser(u) \/ UpdateCurrentUser(u)
       \/ \E p \in Plans :
             \/ \E l \in PlanLimits : CreateHostingPlan(p, l) \/ UpdateHostingPlan(p, l)
             \/ DeleteHostingPlan(p)
       \/ \E d \in Domains, u \in Users :
             users[u].exists /\ TransferResources(d, u) /\ UNCHANGED <<plans, faults, accounts>>

AccountCall(r) ==
    \/ PutUser(r) \/ PutUserFails(r) \/ DeleteAccount(r) \/ DeleteNamespace(r)
    \/ ListWebsites(r) \/ SetPhase(r) \/ PhasesSet(r)
    \/ LabelNamespaceWithPlan(r) \/ ApplyResourceQuota(r) \/ ApplyLimitRange(r)
    \/ PlanAssigned(r)

Next ==
    \/ RegistryHandler /\ UNCHANGED accounts
    \/ AccountHandler
    \/ \E r \in Requests : (RegistryCall(r) /\ UNCHANGED accounts) \/ AccountCall(r)
    \/ \E d \in Domains : (OperatorStatus(d) \/ OperatorDone(d)) /\ UNCHANGED accounts

Spec == Init /\ [][Next]_vars
==============================================================================
