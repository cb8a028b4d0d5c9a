-------------------------- MODULE WebsiteController --------------------------
(***************************************************************************)
(* The life of one Website custom resource: the panel-core handlers that   *)
(* create, edit, suspend, transfer and delete it, the operator's           *)
(* reconciler, and the objects the reconciler keeps for it: the Deployment *)
(* that runs the site, its Service, the HTTPProxies that route its         *)
(* domains, its self-signed certificate, the owner's volume, the mounts of *)
(* the SFTP server and the DNS zone.                                       *)
(*                                                                         *)
(* The reconciler reads the Website and the Deployment through informer    *)
(* caches that lag, and writes them under optimistic concurrency.  The     *)
(* Service and the Secret are read through a cache too; HTTPProxies are    *)
(* read from the API server, and nothing watches them or the Secret.       *)
(*                                                                         *)
(* A handler of the panel that reads the Website and writes it back takes  *)
(* effect only if the version it read is still current: a request that     *)
(* succeeds is one step, one that is refused changes nothing.              *)
(***************************************************************************)
EXTENDS Naturals, Sequences

CONSTANTS
    Users,            \* owners of websites
    Aliases,          \* alias domains
    Contents,         \* what a spec may ask for: aliases, a certificate
    MaxIncarnations,  \* bound: how often the resource is created
    MaxDisturbances   \* bound: edits, transfers, suspensions and their end,
                      \* lost API calls and operator restarts, together

ASSUME SiteConstants ==
    /\ Users # {}
    /\ Contents \subseteq [aliases: SUBSET Aliases, selfsigned: BOOLEAN]
    /\ MaxIncarnations \in Nat
    /\ MaxDisturbances \in Nat

VARIABLES
    log,       \* versions of the Website, from the cached to the current one
    dlog,      \* versions of the Deployment, likewise
    queued,    \* work queue: the resource's key waits for a reconcile
    pc,        \* reconciler: the next call it makes
    site,      \* reconciler: its local copy of the Website
    fresh,     \* reconciler: its resourceVersion is the current one
    owned,     \* incarnation that owns the Service, HTTPProxy, Secret; 0: none
    routes,    \* incarnation that owns the HTTPProxy of an alias, 0: none
    seen,      \* which of Service and Secret the operator's cache holds
    volumes,   \* users whose volume claim exists
    sftp,      \* users whose volume the SFTP server mounts
    zone,      \* the DNS zone of the primary domain exists
    specs,     \* how many specs have been written to the Website
    changes, faults  \* how often the panel changed the Website, calls failed

worker   == <<queued, pc, site, fresh>>
children == <<owned, routes, volumes, sftp, zone>>
bounds   == <<specs, changes, faults>>
vars     == <<log, dlog, worker, children, seen, bounds>>

Disturbances == changes + faults

-----------------------------------------------------------------------------
(***************************************************************************)
(* Objects.  A Website carries the number of the spec write it stems from  *)
(* (spec), the part of the spec that decides which children there are      *)
(* (content), and the status: phase and whether pods are ready.  A         *)
(* Deployment carries the owner label its immutable selector was created   *)
(* with, the spec its template was made from, whether it is scaled up, to  *)
(* the at least one replica of the spec, or down to 0, and whether its     *)
(* pods are ready.                                                         *)
(***************************************************************************)
Phases == {"", "Provisioning", "Running", "Suspended", "Error", "Terminating"}

Website == [uid: Nat, exists: BOOLEAN, fin: BOOLEAN, del: BOOLEAN, owner: Users,
            spec: Nat, content: [aliases: SUBSET Aliases, selfsigned: BOOLEAN],
            phase: Phases, ready: BOOLEAN]

Deployment == [exists: BOOLEAN, uid: Nat, user: Users, spec: Nat,
               up: BOOLEAN, ready: BOOLEAN]

Kinds == {"service", "proxy", "secret"}

AnyUser == CHOOSE u \in Users : TRUE

NoWebsite == [uid |-> 0, exists |-> FALSE, fin |-> FALSE, del |-> FALSE,
              owner |-> AnyUser, spec |-> 0,
              content |-> [aliases |-> {}, selfsigned |-> FALSE], phase |-> "", ready |-> FALSE]

NoDeployment == [exists |-> FALSE, uid |-> 0, user |-> AnyUser, spec |-> 0,
                 up |-> FALSE, ready |-> FALSE]

Cached  == log[1]
Current == log[Len(log)]
CachedDeployment  == dlog[1]
CurrentDeployment == dlog[Len(dlog)]

\* A write that changes nothing yields no new version.
Store(v) == log' = IF v = Current THEN log ELSE Append(log, v)
StoreDeployment(d) == dlog' = IF d = CurrentDeployment THEN dlog ELSE Append(dlog, d)

\* The API server accepts a write that carries the current resourceVersion.
Accepted(v) == fresh /\ Store(v)

\* A write of somebody else: the reconciler's copy is current no more.
Publish(v) ==
    /\ Store(v)
    /\ fresh' = (fresh /\ v = Current)
    /\ UNCHANGED <<queued, pc, site>>

\* A write of the Website that fails: refused as stale, or lost on the way
\* there (no new version) or on the way back (applied all the same).
Failed(v) ==
    \/ /\ ~fresh
       /\ UNCHANGED <<log, faults>>
    \/ /\ Disturbances < MaxDisturbances
       /\ faults' = faults + 1
       /\ UNCHANGED log \/ Accepted(v)

WithStatus(phase, ready) == [Current EXCEPT !.phase = phase, !.ready = ready]

-----------------------------------------------------------------------------
Init ==
    /\ log = <<NoWebsite>>
    /\ dlog = <<NoDeployment>>
    /\ queued = FALSE
    /\ pc = "idle"
    /\ site = NoWebsite
    /\ fresh = FALSE
    /\ owned = [k \in Kinds |-> 0]
    /\ routes = [a \in Aliases |-> 0]
    /\ seen = {}
    /\ volumes = {}
    /\ sftp = {}
    /\ zone = FALSE
    /\ specs = 0
    /\ changes = 0
    /\ faults = 0

-----------------------------------------------------------------------------
(***************************************************************************)
(* The reconciler                                                          *)
(***************************************************************************)

\* What a reconcile does once the finalizer is in place.
AfterFinalizer(v) ==
    IF v.phase = ""               THEN "provision"
    ELSE IF v.phase = "Suspended" THEN "suspend"
    ELSE "volume"

\* The call a reconcile of version v makes first; "idle": it returns at once.
FirstCall(v) ==
    IF ~v.exists   THEN "idle"
    ELSE IF v.del  THEN "terminate"
    ELSE IF ~v.fin THEN "finalize"
    ELSE AfterFinalizer(v)

\* The reconcile ends; the key goes back to the queue if it failed.
Return(requeue) ==
    /\ pc' = "idle"
    /\ site' = NoWebsite
    /\ fresh' = FALSE
    /\ queued' = (queued \/ requeue)

Continue(call) ==
    /\ pc' = call
    /\ UNCHANGED <<site, fresh, queued>>

\* It goes on with the Website as the API server answered it.
ContinueFresh(call) ==
    /\ pc' = call
    /\ site' = Current'
    /\ fresh' = TRUE
    /\ UNCHANGED queued

\* Mutant: sometimes reads the Website around the cache.
ReconcileMixedReads ==
    /\ pc = "idle"
    /\ queued
    /\ queued' = FALSE
    /\ \E v \in {Cached, Current} :
          /\ pc' = FirstCall(v)
          /\ IF pc' = "idle" THEN site' = NoWebsite /\ fresh' = FALSE
                             ELSE site' = v /\ fresh' = (v = Current)
    /\ UNCHANGED <<log, dlog, children, seen, bounds>>

Reconcile ==
    /\ pc = "idle"
    /\ queued
    /\ queued' = FALSE
    /\ pc' = FirstCall(Cached)
    /\ IF pc' = "idle" THEN site' = NoWebsite /\ fresh' = FALSE
                       ELSE site' = Cached /\ fresh' = (Len(log) = 1)
    /\ UNCHANGED <<log, dlog, children, seen, bounds>>

\* Mutant: goes on with the copy it sent instead of the answer.
AddFinalizerOldCopy ==
    LET held == [Current EXCEPT !.fin = TRUE] IN
    /\ pc = "finalize"
    /\ \/ Accepted(held) /\ Continue(AfterFinalizer(held)) /\ UNCHANGED faults
       \/ Failed(held) /\ Return(TRUE)
    /\ UNCHANGED <<dlog, children, seen, specs, changes>>

\* The same reconcile goes on with the answer, whose status is the current one.
AddFinalizer ==
    LET held == [Current EXCEPT !.fin = TRUE] IN
    /\ pc = "finalize"
    /\ \/ /\ Accepted(held)
          /\ ContinueFresh(AfterFinalizer(held))
          /\ UNCHANGED faults
       \/ /\ Failed(held)
          /\ Return(TRUE)
    /\ UNCHANGED <<dlog, children, seen, specs, changes>>

\* Mutant: starts over with Pending.
SetProvisioningPending ==
    LET started == WithStatus("Pending", site.ready) IN
    /\ pc = "provision"
    /\ \/ Accepted(started) /\ ContinueFresh("volume") /\ UNCHANGED faults
       \/ Failed(started) /\ Return(TRUE)
    /\ UNCHANGED <<dlog, children, seen, specs, changes>>

SetProvisioning ==
    LET started == WithStatus("Provisioning", site.ready) IN
    /\ pc = "provision"
    /\ \/ /\ Accepted(started)
          /\ ContinueFresh("volume")
          /\ UNCHANGED faults
       \/ /\ Failed(started)
          /\ Return(TRUE)
    /\ UNCHANGED <<dlog, children, seen, specs, changes>>

-----------------------------------------------------------------------------
(***************************************************************************)
(* The reconcile of a site that is not suspended, one step per child: it   *)
(* is read, and created or updated.  A failed step ends the reconcile in   *)
(* setErrorStatus; those of the SFTP mounts and the DNS zone are logged    *)
(* and the reconcile goes on.                                              *)
(***************************************************************************)
Ensure(Effect, call, onError) ==
    \/ /\ Effect
       /\ Continue(call)
       /\ UNCHANGED faults
    \/ /\ Disturbances < MaxDisturbances
       /\ faults' = faults + 1
       /\ Effect \/ UNCHANGED children
       /\ Continue(onError)

ReconcilePVC ==
    /\ pc = "volume"
    /\ Ensure(/\ volumes' = volumes \union {site.owner}
              /\ UNCHANGED <<owned, routes, sftp, zone>>, "sftp", "fail")
    /\ UNCHANGED <<log, dlog, seen, specs, changes>>

\* The mounts are those of the owners of all Websites in the cache.
SyncSFTPVolumes ==
    /\ pc = "sftp"
    /\ Ensure(/\ sftp' = IF Cached.exists THEN {Cached.owner} ELSE {}
              /\ UNCHANGED <<owned, routes, volumes, zone>>, "deploy", "deploy")
    /\ UNCHANGED <<log, dlog, seen, specs, changes>>

\* The cached Deployment is missing and one is created, or its template and
\* replicas are overwritten.
DesiredDeployment ==
    IF CachedDeployment.exists
    THEN [CachedDeployment EXCEPT !.spec = site.spec, !.up = TRUE]
    ELSE [exists |-> TRUE, uid |-> site.uid, user |-> site.owner,
          spec |-> site.spec, up |-> TRUE, ready |-> FALSE]

\* The API server refuses a create of what exists, an update of a stale or
\* deleted version, and labels that the selector does not match.
DeploymentAccepted ==
    /\ IF CachedDeployment.exists
       THEN Len(dlog) = 1 /\ CachedDeployment.user = site.owner
       ELSE ~CurrentDeployment.exists
    /\ StoreDeployment(DesiredDeployment)

DeploymentRefused ==
    IF CachedDeployment.exists
    THEN Len(dlog) > 1 \/ CachedDeployment.user # site.owner
    ELSE CurrentDeployment.exists

ReconcileDeployment ==
    /\ pc = "deploy"
    /\ \/ /\ DeploymentAccepted
          /\ Continue("service")
          /\ UNCHANGED faults
       \/ /\ DeploymentRefused
          /\ Continue("fail")
          /\ UNCHANGED <<dlog, faults>>
       \/ /\ Disturbances < MaxDisturbances
          /\ faults' = faults + 1
          /\ UNCHANGED dlog \/ DeploymentAccepted
          /\ Continue("fail")
    /\ UNCHANGED <<log, children, seen, specs, changes>>

\* A Service or Secret that the cache holds is left alone, one that it does
\* not hold is created, which fails if it is there all the same.
EnsureCached(k, call) ==
    \/ /\ k \in seen
       /\ Continue(call)
       /\ UNCHANGED <<children, faults>>
    \/ /\ k \notin seen
       /\ owned[k] # 0
       /\ Continue("fail")
       /\ UNCHANGED <<children, faults>>
    \/ /\ k \notin seen
       /\ owned[k] = 0
       /\ Ensure(/\ owned' = [owned EXCEPT ![k] = site.uid]
                 /\ UNCHANGED <<routes, volumes, sftp, zone>>, call, "fail")

ReconcileService ==
    /\ pc = "service"
    /\ EnsureCached("service", "ingress")
    /\ UNCHANGED <<log, dlog, seen, specs, changes>>

\* An HTTPProxy that is there gets a new spec and keeps its owner.
ReconcileIngress ==
    /\ pc = "ingress"
    /\ Ensure(/\ owned' = [owned EXCEPT !["proxy"] = IF @ = 0 THEN site.uid ELSE @]
              /\ UNCHANGED <<routes, volumes, sftp, zone>>, "zone", "fail")
    /\ UNCHANGED <<log, dlog, seen, specs, changes>>

ReconcileDNSZone ==
    /\ pc = "zone"
    /\ Ensure(/\ zone' = TRUE
              /\ UNCHANGED <<owned, routes, volumes, sftp>>, "aliases", "aliases")
    /\ UNCHANGED <<log, dlog, seen, specs, changes>>

\* One HTTPProxy after the other; those of removed aliases are left alone.
ReconcileAliasHTTPProxies ==
    /\ pc = "aliases"
    /\ \/ /\ \A a \in site.content.aliases : routes[a] # 0
          /\ Ensure(UNCHANGED children, "certs", "fail")
       \/ \E a \in site.content.aliases :
            /\ routes[a] = 0
            /\ Ensure(/\ routes' = [routes EXCEPT ![a] = site.uid]
                      /\ UNCHANGED <<owned, volumes, sftp, zone>>, "aliases", "fail")
    /\ UNCHANGED <<log, dlog, seen, specs, changes>>

ReconcileSelfSignedCerts ==
    /\ pc = "certs"
    /\ IF site.content.selfsigned THEN EnsureCached("secret", "running")
       ELSE Continue("running") /\ UNCHANGED <<children, faults>>
    /\ UNCHANGED <<log, dlog, seen, specs, changes>>

\* Mutant: patches the status, without a resourceVersion.
UpdateRunningStatusForced ==
    /\ pc = "running"
    /\ IF CachedDeployment.exists /\ Current.exists
       THEN Store(WithStatus("Running", CachedDeployment.ready)) /\ Return(FALSE)
       ELSE UNCHANGED log /\ Return(TRUE)
    /\ UNCHANGED <<dlog, children, seen, bounds>>

UpdateRunningStatus ==
    LET running == WithStatus("Running", CachedDeployment.ready) IN
    /\ pc = "running"
    /\ \/ /\ ~CachedDeployment.exists
          /\ Return(TRUE)
          /\ UNCHANGED <<log, faults>>
       \/ /\ CachedDeployment.exists
          /\ Accepted(running)
          /\ Return(FALSE)
          /\ UNCHANGED faults
       \/ /\ CachedDeployment.exists
          /\ Failed(running)
          /\ Return(TRUE)
    /\ UNCHANGED <<dlog, children, seen, specs, changes>>

\* Mutant: records the error and does not try again.
SetErrorStatusOnce ==
    LET failed == WithStatus("Error", site.ready) IN
    /\ pc = "fail"
    /\ \/ Accepted(failed) /\ UNCHANGED faults
       \/ Failed(failed)
    /\ Return(FALSE)
    /\ UNCHANGED <<dlog, children, seen, specs, changes>>

\* The status write's own failure is ignored; the reconcile is retried.
SetErrorStatus ==
    LET failed == WithStatus("Error", site.ready) IN
    /\ pc = "fail"
    /\ \/ Accepted(failed) /\ UNCHANGED faults
       \/ Failed(failed)
    /\ Return(TRUE)
    /\ UNCHANGED <<dlog, children, seen, specs, changes>>

-----------------------------------------------------------------------------
(***************************************************************************)
(* reconcileSuspended and reconcileDelete                                  *)
(***************************************************************************)
ScaleToZero ==
    LET down == [CachedDeployment EXCEPT !.up = FALSE] IN
    /\ pc = "suspend"
    /\ \/ /\ ~CachedDeployment.exists
          /\ Return(FALSE)
          /\ UNCHANGED <<dlog, faults>>
       \/ /\ CachedDeployment.exists
          /\ ~CachedDeployment.up
          /\ Continue("suspended")
          /\ UNCHANGED <<dlog, faults>>
       \/ /\ CachedDeployment.exists
          /\ CachedDeployment.up
          /\ Len(dlog) = 1
          /\ StoreDeployment(down)
          /\ Continue("suspended")
          /\ UNCHANGED faults
       \/ /\ CachedDeployment.exists
          /\ CachedDeployment.up
          /\ \/ Len(dlog) > 1 /\ UNCHANGED <<dlog, faults>>
             \/ /\ Disturbances < MaxDisturbances
                /\ faults' = faults + 1
                /\ UNCHANGED dlog \/ (Len(dlog) = 1 /\ StoreDeployment(down))
          /\ Return(TRUE)
    /\ UNCHANGED <<log, children, seen, specs, changes>>

\* A failed status write is ignored, and not retried.
SetSuspendedStatus ==
    LET stopped == WithStatus(site.phase, FALSE) IN
    /\ pc = "suspended"
    /\ \/ Accepted(stopped) /\ UNCHANGED faults
       \/ Failed(stopped)
    /\ Return(FALSE)
    /\ UNCHANGED <<dlog, children, seen, specs, changes>>

\* A failed status write is ignored, and leaves a stale resourceVersion.
SetTerminating ==
    LET ending == WithStatus("Terminating", site.ready) IN
    /\ pc = "terminate"
    /\ \/ /\ Accepted(ending)
          /\ ContinueFresh("unfinalize")
          /\ UNCHANGED faults
       \/ /\ Failed(ending)
          /\ pc' = "unfinalize"
          /\ fresh' = (fresh /\ log' = log)
          /\ UNCHANGED <<queued, site>>
    /\ UNCHANGED <<dlog, children, seen, specs, changes>>

\* Mutant: a refused or lost update is not retried.
RemoveFinalizerOnce ==
    LET gone == [Current EXCEPT !.fin = FALSE, !.exists = FALSE] IN
    /\ pc = "unfinalize"
    /\ \/ Accepted(gone) /\ UNCHANGED faults
       \/ Failed(gone)
    /\ Return(FALSE)
    /\ UNCHANGED <<dlog, children, seen, specs, changes>>

\* With its last finalizer gone the deleted Website disappears.
RemoveFinalizer ==
    LET gone == [Current EXCEPT !.fin = FALSE, !.exists = FALSE] IN
    /\ pc = "unfinalize"
    /\ \/ /\ Accepted(gone)
          /\ Return(FALSE)
          /\ UNCHANGED faults
       \/ /\ Failed(gone)
          /\ Return(TRUE)
    /\ UNCHANGED <<dlog, children, seen, specs, changes>>

-----------------------------------------------------------------------------
(***************************************************************************)
(* Kubernetes: the watches, the operator process, the controllers          *)
(***************************************************************************)

\* A cache moves forward, never back, and the key is queued.
WebsiteEvent ==
    /\ \E i \in 2 .. Len(log) : log' = SubSeq(log, i, Len(log))
    /\ queued' = TRUE
    /\ UNCHANGED <<dlog, pc, site, fresh, children, seen, bounds>>

\* Mutant: the controller does not own Deployments.
DeploymentEventUnowned ==
    /\ \E i \in 2 .. Len(dlog) : dlog' = SubSeq(dlog, i, Len(dlog))
    /\ UNCHANGED <<log, worker, children, seen, bounds>>

DeploymentEvent ==
    /\ \E i \in 2 .. Len(dlog) : dlog' = SubSeq(dlog, i, Len(dlog))
    /\ queued' = TRUE
    /\ UNCHANGED <<log, pc, site, fresh, children, seen, bounds>>

\* Services are watched for their owner, Secrets are only cached.
CacheSync(k) ==
    /\ (k \in seen) # (owned[k] # 0)
    /\ seen' = IF k \in seen THEN seen \ {k} ELSE seen \union {k}
    /\ queued' = (queued \/ k = "service")
    /\ UNCHANGED <<log, dlog, pc, site, fresh, children, bounds>>

\* The reconcile in progress is lost; the new process lists the objects,
\* from an API server that is at least as recent, and queues all of them.
Restart ==
    /\ Disturbances < MaxDisturbances
    /\ faults' = faults + 1
    /\ Return(TRUE)
    /\ UNCHANGED <<log, dlog, children, seen, specs, changes>>

\* The Deployment controller starts or stops the pods.
Rollout ==
    /\ CurrentDeployment.exists
    /\ CurrentDeployment.ready # CurrentDeployment.up
    /\ StoreDeployment([CurrentDeployment EXCEPT !.ready = CurrentDeployment.up])
    /\ UNCHANGED <<log, worker, children, seen, bounds>>

Orphaned(uid) == uid # 0 /\ ~(Current.exists /\ Current.uid = uid)

\* The garbage collector removes what its owner no longer holds.
CollectDeployment ==
    /\ CurrentDeployment.exists
    /\ Orphaned(CurrentDeployment.uid)
    /\ StoreDeployment(NoDeployment)
    /\ UNCHANGED <<log, worker, children, seen, bounds>>

Collect ==
    /\ \/ \E k \in Kinds : /\ Orphaned(owned[k])
                           /\ owned' = [owned EXCEPT ![k] = 0]
                           /\ UNCHANGED routes
       \/ \E a \in Aliases : /\ Orphaned(routes[a])
                             /\ routes' = [routes EXCEPT ![a] = 0]
                             /\ UNCHANGED owned
    /\ UNCHANGED <<log, dlog, worker, volumes, sftp, zone, seen, bounds>>

-----------------------------------------------------------------------------
(***************************************************************************)
(* The panel                                                               *)
(***************************************************************************)
\* The wizard may ask for the DNS zone as well; its failure is ignored.
CreateWebsite(u, c) ==
    /\ ~Current.exists
    /\ Current.uid < MaxIncarnations
    /\ specs' = specs + 1
    /\ Publish([NoWebsite EXCEPT !.uid = Current.uid + 1, !.exists = TRUE,
                !.owner = u, !.spec = specs + 1, !.content = c])
    /\ zone' \in {zone, TRUE}
    /\ UNCHANGED <<dlog, owned, routes, volumes, sftp, seen, changes, faults>>

\* A successful request that writes a new spec.
WriteSpec(u, c) ==
    /\ Current.exists
    /\ Disturbances < MaxDisturbances
    /\ changes' = changes + 1
    /\ specs' = specs + 1
    /\ Publish([Current EXCEPT !.owner = u, !.spec = specs + 1, !.content = c])
    /\ UNCHANGED <<dlog, children, seen, faults>>

\* UpdateWebsite, AddAlias and RemoveAlias.
UpdateWebsite(c) == WriteSpec(Current.owner, c)

TransferResources(u) ==
    /\ u # Current.owner
    /\ WriteSpec(u, Current.content)

\* The phase the Website is in is not looked at.
SetWebsitePhase(phase) ==
    /\ Current.exists
    /\ Disturbances < MaxDisturbances
    /\ changes' = changes + 1
    /\ Publish(WithStatus(phase, Current.ready))
    /\ UNCHANGED <<dlog, children, seen, specs, faults>>

\* Suspending or unsuspending a user does the same to each of its sites.
SuspendWebsite == SetWebsitePhase("Suspended")
UnsuspendWebsite == SetWebsitePhase("Running")

\* Without a finalizer the Website disappears at once, with one it is marked.
DeleteWebsite ==
    /\ Current.exists
    /\ ~Current.del
    /\ Publish(IF Current.fin THEN [Current EXCEPT !.del = TRUE]
                              ELSE [Current EXCEPT !.exists = FALSE])
    /\ UNCHANGED <<dlog, children, seen, bounds>>

-----------------------------------------------------------------------------
Provision == \/ ReconcilePVC \/ SyncSFTPVolumes \/ ReconcileDeployment
             \/ ReconcileService \/ ReconcileIngress \/ ReconcileDNSZone
             \/ ReconcileAliasHTTPProxies \/ ReconcileSelfSignedCerts
             \/ UpdateRunningStatus \/ SetErrorStatus

Operator == \/ Reconcile \/ AddFinalizer \/ SetProvisioning \/ Provision
            \/ ScaleToZero \/ SetSuspendedStatus
            \/ SetTerminating \/ RemoveFinalizer

Caches == \/ WebsiteEvent
          \/ DeploymentEvent
          \/ \E k \in {"service", "secret"} : CacheSync(k)

Controllers == Rollout \/ CollectDeployment \/ Collect

Panel ==
    \/ \E c \in Contents : \/ UpdateWebsite(c)
                           \/ \E u \in Users : CreateWebsite(u, c)
    \/ \E u \in Users : TransferResources(u)
    \/ SuspendWebsite
    \/ UnsuspendWebsite
    \/ DeleteWebsite

Next == Operator \/ Caches \/ Restart \/ Controllers \/ Panel

\* The operator keeps running its worker and its watches, and Kubernetes its
\* controllers; nobody has to call the panel.
Fairness ==
    /\ WF_vars(Operator)
    /\ WF_vars(WebsiteEvent)
    /\ WF_vars(DeploymentEvent)
    /\ \A k \in {"service", "secret"} : WF_vars(CacheSync(k))
    /\ WF_vars(Rollout)
    /\ WF_vars(CollectDeployment)
    /\ WF_vars(Collect)

Spec == Init /\ [][Next]_vars /\ Fairness
==============================================================================
