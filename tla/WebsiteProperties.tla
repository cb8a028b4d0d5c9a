-------------------------- MODULE WebsiteProperties --------------------------
(***************************************************************************)
(* What WebsiteController is checked for.                                  *)
(***************************************************************************)
EXTENDS WebsiteController

PCs == {"idle", "finalize", "provision", "volume", "sftp", "deploy", "service",
        "ingress", "zone", "aliases", "certs", "running", "fail", "suspend",
        "suspended", "terminate", "unfinalize"}

\* Every variable has its type; a cache always has a version to serve.
TypeOK ==
    /\ log \in Seq(Website)
    /\ Len(log) > 0
    /\ dlog \in Seq(Deployment)
    /\ Len(dlog) > 0
    /\ queued \in BOOLEAN
    /\ pc \in PCs
    /\ site \in Website
    /\ fresh \in BOOLEAN
    /\ owned \in [Kinds -> Nat]
    /\ routes \in [Aliases -> Nat]
    /\ seen \in SUBSET {"service", "secret"}
    /\ volumes \in SUBSET Users
    /\ sftp \in SUBSET Users
    /\ zone \in BOOLEAN
    /\ specs \in Nat
    /\ changes \in Nat
    /\ faults \in Nat

\* A suspension stands until the panel lifts it: the reconciler, which
\* writes Provisioning, Running and Error from whatever copy it started
\* with, never overwrites the Suspended of a site that is not being deleted.
SuspensionStands ==
    [][(/\ Current.exists /\ ~Current.del /\ Current.phase = "Suspended"
        /\ Current'.exists /\ Current'.phase # "Suspended")
          => UnsuspendWebsite]_vars

\* A site is never rolled back: reconcileDeployment overwrites the template
\* from a copy of the Website that may be stale, yet never with an older
\* spec than the one that runs.
NoRollback ==
    [][CurrentDeployment'.exists =>
          CurrentDeployment'.spec >= CurrentDeployment.spec]_vars

Held == Current.exists /\ ~Current.del

\* Suspended sites stop: once the panel is done with it, a suspended site
\* is scaled to zero for good, however stale the caches are that
\* reconcileSuspended works from.
SuspendedSiteStops ==
    <>[](Held /\ Current.phase = "Suspended" => ~CurrentDeployment.up)

Served ==
    /\ Current.phase = "Running"
    /\ Current.ready
    /\ CurrentDeployment.exists
    /\ CurrentDeployment.up
    /\ CurrentDeployment.spec = Current.spec
    /\ owned["service"] = Current.uid
    /\ owned["proxy"] = Current.uid
    /\ \A a \in Current.content.aliases : routes[a] = Current.uid
    /\ Current.content.selfsigned => owned["secret"] = Current.uid

\* Sites converge: once the panel is done with it, a site that is neither
\* suspended nor being deleted runs its latest spec for good, with all its
\* children and a status that says so.
SiteConverges ==
    <>[](Held /\ Current.phase # "Suspended" => Served)

\* Deletions complete, and take the children of the site with them.
DeletionCompletes ==
    <>[]/\ Current.exists => ~Current.del
        /\ ~Current.exists => /\ ~CurrentDeployment.exists
                              /\ \A k \in Kinds : owned[k] = 0
                              /\ \A a \in Aliases : routes[a] = 0

\* A transferred site is handed over: its Deployment ends up with the labels
\* of the new owner (users.go:556, "Transfers resources from one user to
\* another by updating hosting.panel/user labels").
TransferCompletes ==
    <>[](Held /\ CurrentDeployment.exists => CurrentDeployment.user = Current.owner)

\* A running site is routed (website_controller.go:409, "reconcileIngress
\* ensures a Contour HTTPProxy resource exists for the website's domains").
RunningIsRouted ==
    <>[](Held /\ Current.phase = "Running" => owned["proxy"] # 0)

-----------------------------------------------------------------------------
(***************************************************************************)
(* Why SuspensionStands and NoRollback hold: an inductive invariant.       *)
(***************************************************************************)
ProvisionPCs == {"provision", "volume", "sftp", "deploy", "service", "ingress",
                 "zone", "aliases", "certs", "running", "fail"}

\* A copy whose resourceVersion is current is the current Website, and what
\* the reconciler is about to do fits the phase of its copy.
CopyIsKnown ==
    /\ fresh => pc # "idle" /\ site = Current
    /\ pc \in ProvisionPCs => site.phase # "Suspended"
    /\ pc \in ProvisionPCs \union {"finalize"} => ~site.del
    /\ pc \in {"suspend", "suspended"} => site.phase = "Suspended"
    /\ pc \in {"terminate", "unfinalize"} => site.del

\* Specs are numbered in the order they are written and reach the
\* Deployment in that order: API server, cache, copy, Deployment.
SpecsInOrder ==
    /\ Current.spec <= specs
    /\ \A i, j \in 1 .. Len(log) : i <= j => log[i].spec <= log[j].spec
    /\ pc # "idle" => /\ site.spec <= Cached.spec
                      /\ CurrentDeployment.spec <= site.spec
    /\ CurrentDeployment.spec <= Cached.spec

\* The inductive invariant behind SuspensionStands and NoRollback.
SiteInv == TypeOK /\ CopyIsKnown /\ SpecsInOrder
==============================================================================
