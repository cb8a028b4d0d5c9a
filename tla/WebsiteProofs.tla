---------------------------- MODULE WebsiteProofs ----------------------------
(***************************************************************************)
(* Proofs about WebsiteController, for every set of users, aliases and     *)
(* contents and every bound: type correctness, the inductive invariant     *)
(* SiteInv, and from it that suspensions stand and no site is rolled back. *)
(***************************************************************************)
EXTENDS WebsiteProperties, TLAPS

-----------------------------------------------------------------------------
(***************************************************************************)
(* The logs of the Website and the Deployment                              *)
(***************************************************************************)

\* The values of empty reads have the types of their objects.
LEMMA EmptyTypes == NoWebsite \in Website /\ NoDeployment \in Deployment
  <1>1. AnyUser \in Users
    BY SiteConstants DEF AnyUser
  <1>2. [aliases |-> {}, selfsigned |-> FALSE]
           \in [aliases: SUBSET Aliases, selfsigned: BOOLEAN]
    OBVIOUS
  <1> QED
    BY <1>1, <1>2 DEF NoWebsite, NoDeployment, Website, Deployment, Phases

\* The ends of both logs are objects.
LEMMA EndTypes ==
  ASSUME TypeOK
  PROVE  /\ Cached \in Website /\ Current \in Website
         /\ CachedDeployment \in Deployment /\ CurrentDeployment \in Deployment
         /\ Len(log) \in Nat \ {0} /\ Len(dlog) \in Nat \ {0}
  <1>1. Len(log) \in Nat \ {0} /\ Len(dlog) \in Nat \ {0}
    BY DEF TypeOK
  <1>2. 1 \in 1 .. Len(log) /\ Len(log) \in 1 .. Len(log)
        /\ 1 \in 1 .. Len(dlog) /\ Len(dlog) \in 1 .. Len(dlog)
    BY <1>1
  <1> QED
    BY <1>1, <1>2 DEF TypeOK, Cached, Current, CachedDeployment, CurrentDeployment

\* A stored version becomes the current one and leaves the others in place.
LEMMA StoreFacts ==
  ASSUME TypeOK, NEW STATE v, v \in Website, Store(v)
  PROVE  /\ log' \in Seq(Website) /\ Len(log') > 0
         /\ Current' = v
         /\ Cached' = Cached
         /\ \A i \in 1 .. Len(log') : log'[i] = v \/ (i \in 1 .. Len(log) /\ log'[i] = log[i])
         /\ \A i, j \in 1 .. Len(log') : i <= j /\ log'[j] # v => j \in 1 .. Len(log)
  <1>1. CASE v = Current
    <2>1. log' = log
      BY <1>1 DEF Store
    <2> QED
      BY <1>1, <2>1 DEF TypeOK, Current, Cached
  <1>2. CASE v # Current
    <2>1. log' = Append(log, v)
      BY <1>2 DEF Store
    <2>2. /\ log' \in Seq(Website) /\ Len(log') = Len(log) + 1
          /\ log'[Len(log) + 1] = v
          /\ \A i \in 1 .. Len(log) : log'[i] = log[i]
      BY <2>1 DEF TypeOK
    <2>3. Len(log) \in Nat \ {0} /\ 1 \in 1 .. Len(log)
      BY EndTypes
    <2> QED
      BY <2>2, <2>3 DEF Current, Cached
  <1> QED
    BY <1>1, <1>2

\* The Deployment's log, likewise.
LEMMA StoreDeploymentFacts ==
  ASSUME TypeOK, NEW STATE d, d \in Deployment, StoreDeployment(d)
  PROVE  dlog' \in Seq(Deployment) /\ Len(dlog') > 0 /\ CurrentDeployment' = d
  <1>1. CASE d = CurrentDeployment
    BY <1>1 DEF StoreDeployment, TypeOK, CurrentDeployment
  <1>2. CASE d # CurrentDeployment
    <2>1. dlog' = Append(dlog, d)
      BY <1>2 DEF StoreDeployment
    <2>2. /\ dlog' \in Seq(Deployment) /\ Len(dlog') = Len(dlog) + 1
          /\ dlog'[Len(dlog) + 1] = d
      BY <2>1 DEF TypeOK
    <2>3. Len(dlog) \in Nat \ {0}
      BY EndTypes
    <2> QED
      BY <2>2, <2>3 DEF CurrentDeployment
  <1> QED
    BY <1>1, <1>2

\* A watch event drops a prefix of the log.
LEMMA EventFacts ==
  ASSUME TypeOK, NEW i \in 2 .. Len(log), log' = SubSeq(log, i, Len(log))
  PROVE  /\ log' \in Seq(Website) /\ Len(log') > 0
         /\ Len(log') = Len(log) - i + 1
         /\ \A k \in 1 .. Len(log') : log'[k] = log[k + i - 1]
         /\ Cached' = log[i]
         /\ Current' = Current
  <1>0. /\ log \in Seq(Website)
        /\ Len(log) \in Nat /\ i \in Nat /\ 1 < i /\ i <= Len(log)
    BY DEF TypeOK
  <1>1. /\ log' \in Seq(Website)
        /\ Len(log') = Len(log) - i + 1
        /\ \A k \in 1 .. Len(log') : log'[k] = log[k + i - 1]
    BY <1>0
  <1>2. Len(log') \in 1 .. Len(log') /\ 1 \in 1 .. Len(log') /\ Len(log') > 0
        /\ (1 + i) - 1 = i /\ (Len(log') + i) - 1 = Len(log)
    BY <1>0, <1>1
  <1>3. log'[1] = log[i] /\ log'[Len(log')] = log[Len(log)]
    BY <1>1, <1>2
  <1> QED
    BY <1>1, <1>2, <1>3 DEF Cached, Current

\* The Deployment's watch, likewise.
LEMMA DeploymentEventFacts ==
  ASSUME TypeOK, NEW i \in 2 .. Len(dlog), dlog' = SubSeq(dlog, i, Len(dlog))
  PROVE  /\ dlog' \in Seq(Deployment) /\ Len(dlog') > 0
         /\ CurrentDeployment' = CurrentDeployment
  <1> USE DEF TypeOK
  <1>1. /\ dlog' \in Seq(Deployment)
        /\ Len(dlog') = Len(dlog) - i + 1
        /\ \A k \in 1 .. Len(dlog') : dlog'[k] = dlog[k + i - 1]
    OBVIOUS
  <1>2. Len(dlog') \in 1 .. Len(dlog)
    BY <1>1
  <1> QED
    BY <1>1, <1>2 DEF CurrentDeployment

\* The calls a reconcile can begin with, and for which versions.
LEMMA FirstCallFacts ==
  ASSUME NEW STATE v, v \in Website
  PROVE  /\ FirstCall(v) \in PCs /\ AfterFinalizer(v) \in PCs
         /\ AfterFinalizer(v) \in ProvisionPCs => v.phase # "Suspended"
         /\ AfterFinalizer(v) \in {"suspend", "suspended"} => v.phase = "Suspended"
         /\ AfterFinalizer(v) \notin {"idle", "terminate", "unfinalize"}
         /\ FirstCall(v) \in ProvisionPCs => v.phase # "Suspended" /\ ~v.del
         /\ FirstCall(v) \in {"suspend", "suspended"} => v.phase = "Suspended"
         /\ FirstCall(v) \in {"terminate", "unfinalize"} => v.del
         /\ FirstCall(v) = "finalize" => ~v.del
  BY DEF FirstCall, AfterFinalizer, Website, PCs, ProvisionPCs

-----------------------------------------------------------------------------
(***************************************************************************)
(* Type correctness                                                        *)
(***************************************************************************)

\* What is written to the Website is a Website.
LEMMA WrittenType ==
  ASSUME TypeOK
  PROVE  /\ \A p \in Phases, r \in BOOLEAN : WithStatus(p, r) \in Website
         /\ [Current EXCEPT !.fin = TRUE] \in Website
         /\ [Current EXCEPT !.fin = FALSE, !.exists = FALSE] \in Website
         /\ [Current EXCEPT !.del = TRUE] \in Website
         /\ [Current EXCEPT !.exists = FALSE] \in Website
         /\ \A u \in Users, c \in [aliases: SUBSET Aliases, selfsigned: BOOLEAN] :
               /\ [Current EXCEPT !.owner = u, !.spec = specs + 1,
                                  !.content = c] \in Website
               /\ [NoWebsite EXCEPT !.uid = Current.uid + 1, !.exists = TRUE,
                     !.owner = u, !.spec = specs + 1, !.content = c] \in Website
  <1>1. Current \in Website /\ NoWebsite \in Website
    BY EndTypes, EmptyTypes
  <1>2. \A p \in Phases, r \in BOOLEAN : WithStatus(p, r) \in Website
    BY <1>1 DEF WithStatus, Website
  <1>3. /\ [Current EXCEPT !.fin = TRUE] \in Website
        /\ [Current EXCEPT !.fin = FALSE, !.exists = FALSE] \in Website
        /\ [Current EXCEPT !.del = TRUE] \in Website
        /\ [Current EXCEPT !.exists = FALSE] \in Website
    BY <1>1 DEF Website
  <1>4. specs + 1 \in Nat /\ Current.uid + 1 \in Nat
    BY <1>1 DEF Website, TypeOK
  <1>5. \A u \in Users, c \in [aliases: SUBSET Aliases, selfsigned: BOOLEAN] :
            [Current EXCEPT !.owner = u, !.spec = specs + 1, !.content = c] \in Website
    BY <1>1, <1>4 DEF Website
  <1>6. \A u \in Users, c \in [aliases: SUBSET Aliases, selfsigned: BOOLEAN] :
            [NoWebsite EXCEPT !.uid = Current.uid + 1, !.exists = TRUE,
                     !.owner = u, !.spec = specs + 1, !.content = c] \in Website
    BY <1>1, <1>4 DEF Website
  <1> QED
    BY <1>2, <1>3, <1>5, <1>6

\* What is written to the Deployment is a Deployment.
LEMMA WrittenDeploymentType ==
  ASSUME TypeOK
  PROVE  /\ DesiredDeployment \in Deployment
         /\ [CachedDeployment EXCEPT !.up = FALSE] \in Deployment
         /\ [CurrentDeployment EXCEPT !.ready = CurrentDeployment.up] \in Deployment
  <1>1. /\ CachedDeployment \in Deployment /\ CurrentDeployment \in Deployment
        /\ site \in Website
    BY EndTypes DEF TypeOK
  <1>2. site.spec \in Nat /\ site.uid \in Nat /\ site.owner \in Users
        /\ CurrentDeployment.up \in BOOLEAN
    BY <1>1 DEF Website, Deployment
  <1>3. DesiredDeployment \in Deployment
    BY <1>1, <1>2 DEF DesiredDeployment, Deployment
  <1> QED
    BY <1>1, <1>2, <1>3 DEF Deployment

\* The parts of TypeOK that actions touch one by one.
LogType == log \in Seq(Website) /\ Len(log) > 0
PodsType == dlog \in Seq(Deployment) /\ Len(dlog) > 0
WorkerType == queued \in BOOLEAN /\ pc \in PCs /\ site \in Website /\ fresh \in BOOLEAN
ChildrenType == /\ owned \in [Kinds -> Nat] /\ routes \in [Aliases -> Nat]
                /\ volumes \in SUBSET Users /\ sftp \in SUBSET Users
                /\ zone \in BOOLEAN
RestType == /\ seen \in SUBSET {"service", "secret"}
            /\ specs \in Nat /\ changes \in Nat

\* TypeOK is the conjunction of its parts.
LEMMA TypeParts ==
  TypeOK <=> /\ LogType /\ PodsType /\ WorkerType /\ ChildrenType /\ RestType
             /\ faults \in Nat
  BY DEF TypeOK, LogType, PodsType, WorkerType, ChildrenType, RestType

\* A write of the reconciler, successful or not, leaves the log alone or
\* stores the written version from a current copy.
LEMMA WriteFacts ==
  ASSUME NEW STATE v, (Accepted(v) /\ UNCHANGED faults) \/ Failed(v)
  PROVE  UNCHANGED log \/ (fresh /\ Store(v))
  BY DEF Accepted, Failed

\* Such a write keeps the types of the log and of the fault counter.
LEMMA WriteType ==
  ASSUME TypeOK, NEW STATE v, v \in Website,
         (Accepted(v) /\ UNCHANGED faults) \/ Failed(v)
  PROVE  LogType' /\ Current' \in Website /\ faults' \in Nat
  <1>1. UNCHANGED log \/ Store(v)
    BY WriteFacts
  <1>2. LogType' /\ Current' \in Website
    BY <1>1, StoreFacts, EndTypes, TypeParts DEF LogType, Current
  <1>3. faults' \in Nat
    BY DEF Failed, TypeOK
  <1> QED
    BY <1>2, <1>3

\* Ending, continuing and refreshing keep the worker's types.
LEMMA WorkerSteps ==
  ASSUME TypeOK
  PROVE  /\ \A b \in BOOLEAN : Return(b) => WorkerType'
         /\ \A c \in PCs : Continue(c) => WorkerType'
         /\ Current' \in Website =>
               \A c \in PCs : ContinueFresh(c) => WorkerType'
  <1>1. NoWebsite \in Website
    BY EmptyTypes
  <1> QED
    BY <1>1 DEF Return, Continue, ContinueFresh, WorkerType, TypeOK, PCs

\* A child step changes nothing but children, the call and the counter.
LEMMA EnsureType ==
  ASSUME TypeOK, NEW ACTION Effect, NEW call \in PCs, NEW onError \in PCs,
         Ensure(Effect, call, onError)
  PROVE  /\ WorkerType' /\ faults' \in Nat
         /\ pc' \in {call, onError} /\ UNCHANGED <<site, fresh, queued>>
         /\ Effect \/ UNCHANGED children
  BY DEF Ensure, Continue, WorkerType, TypeOK

\* The steps of a reconcile that touch neither Website nor Deployment.
ChildAction == \/ ReconcilePVC \/ SyncSFTPVolumes \/ ReconcileService
               \/ ReconcileIngress \/ ReconcileDNSZone
               \/ ReconcileAliasHTTPProxies \/ ReconcileSelfSignedCerts

\* They go on with the reconcile and keep the children's types.
LEMMA ChildSteps ==
  ASSUME TypeOK, ChildAction
  PROVE  /\ WorkerType' /\ ChildrenType' /\ faults' \in Nat
         /\ pc \in ProvisionPCs /\ pc' \in ProvisionPCs
         /\ UNCHANGED <<log, dlog, seen, specs, changes, site, fresh, queued>>
  <1>a. site \in Website /\ Cached \in Website
    BY EndTypes DEF TypeOK
  <1>b. /\ site.owner \in Users /\ site.uid \in Nat /\ Cached.owner \in Users
        /\ site.content.aliases \in SUBSET Aliases
    BY <1>a DEF Website
  <1>c. ChildrenType /\ (UNCHANGED children => ChildrenType')
    BY TypeParts DEF children, ChildrenType
  <1>d. /\ {"sftp", "deploy", "ingress", "zone", "aliases", "certs", "running", "fail"}
               \subseteq PCs
        /\ ProvisionPCs \subseteq PCs
    BY DEF PCs, ProvisionPCs
  <1>e. ASSUME NEW k \in {"service", "secret"}, NEW c \in {"ingress", "running"},
               EnsureCached(k, c)
        PROVE  /\ WorkerType' /\ ChildrenType' /\ faults' \in Nat
               /\ pc' \in {c, "fail"} /\ UNCHANGED <<site, fresh, queued>>
    <2>1. CASE k \in seen
      BY <1>c, <1>d, <1>e, <2>1, TypeParts DEF EnsureCached, Continue, WorkerType
    <2>2. CASE k \notin seen /\ owned[k] # 0
      BY <1>c, <1>d, <1>e, <2>2, TypeParts DEF EnsureCached, Continue, WorkerType
    <2>3. CASE k \notin seen /\ owned[k] = 0
      <3> DEFINE Effect == /\ owned' = [owned EXCEPT ![k] = site.uid]
                           /\ UNCHANGED <<routes, volumes, sftp, zone>>
      <3>1. Ensure(Effect, c, "fail") /\ c \in PCs /\ "fail" \in PCs
        BY <1>d, <1>e, <2>3 DEF EnsureCached
      <3>2. /\ WorkerType' /\ faults' \in Nat /\ pc' \in {c, "fail"}
            /\ UNCHANGED <<site, fresh, queued>>
            /\ Effect \/ UNCHANGED children
        BY <3>1, EnsureType
      <3>3. Effect => ChildrenType'
        BY <1>b, <1>c DEF ChildrenType
      <3> QED
        BY <1>c, <3>2, <3>3
    <2> QED
      BY <2>1, <2>2, <2>3
  <1>1. CASE ReconcilePVC
    <2> DEFINE Effect == /\ volumes' = volumes \union {site.owner}
                         /\ UNCHANGED <<owned, routes, sftp, zone>>
    <2>1. Ensure(Effect, "sftp", "fail")
      BY <1>1 DEF ReconcilePVC
    <2>2. /\ WorkerType' /\ faults' \in Nat /\ pc' \in {"sftp", "fail"}
          /\ UNCHANGED <<site, fresh, queued>>
          /\ Effect \/ UNCHANGED children
      BY <1>d, <2>1, EnsureType
    <2>3. Effect => ChildrenType'
      BY <1>b, <1>c DEF ChildrenType
    <2> QED
      BY <1>1, <1>c, <2>2, <2>3 DEF ReconcilePVC, ProvisionPCs
  <1>2. CASE SyncSFTPVolumes
    <2> DEFINE Effect == /\ sftp' = IF Cached.exists THEN {Cached.owner} ELSE {}
                         /\ UNCHANGED <<owned, routes, volumes, zone>>
    <2>1. Ensure(Effect, "deploy", "deploy")
      BY <1>2 DEF SyncSFTPVolumes
    <2>2. /\ WorkerType' /\ faults' \in Nat /\ pc' \in {"deploy"}
          /\ UNCHANGED <<site, fresh, queued>>
          /\ Effect \/ UNCHANGED children
      BY <1>d, <2>1, EnsureType
    <2>3. Effect => ChildrenType'
      BY <1>b, <1>c DEF ChildrenType
    <2> QED
      BY <1>2, <1>c, <2>2, <2>3 DEF SyncSFTPVolumes, ProvisionPCs
  <1>3. CASE ReconcileService
    BY <1>3, <1>e DEF ReconcileService, ProvisionPCs
  <1>4. CASE ReconcileIngress
    <2> DEFINE Effect == /\ owned' = [owned EXCEPT !["proxy"] = IF @ = 0 THEN site.uid ELSE @]
                         /\ UNCHANGED <<routes, volumes, sftp, zone>>
    <2>1. Ensure(Effect, "zone", "fail")
      BY <1>4 DEF ReconcileIngress
    <2>2. /\ WorkerType' /\ faults' \in Nat /\ pc' \in {"zone", "fail"}
          /\ UNCHANGED <<site, fresh, queued>>
          /\ Effect \/ UNCHANGED children
      BY <1>d, <2>1, EnsureType
    <2>3. Effect => ChildrenType'
      BY <1>b, <1>c DEF ChildrenType, Kinds
    <2> QED
      BY <1>4, <1>c, <2>2, <2>3 DEF ReconcileIngress, ProvisionPCs
  <1>5. CASE ReconcileDNSZone
    <2> DEFINE Effect == /\ zone' = TRUE
                         /\ UNCHANGED <<owned, routes, volumes, sftp>>
    <2>1. Ensure(Effect, "aliases", "aliases")
      BY <1>5 DEF ReconcileDNSZone
    <2>2. /\ WorkerType' /\ faults' \in Nat /\ pc' \in {"aliases"}
          /\ UNCHANGED <<site, fresh, queued>>
          /\ Effect \/ UNCHANGED children
      BY <1>d, <2>1, EnsureType
    <2>3. Effect => ChildrenType'
      BY <1>c DEF ChildrenType
    <2> QED
      BY <1>5, <1>c, <2>2, <2>3 DEF ReconcileDNSZone, ProvisionPCs
  <1>6. CASE ReconcileAliasHTTPProxies
    <2>1. CASE Ensure(UNCHANGED children, "certs", "fail")
      <3>1. /\ WorkerType' /\ faults' \in Nat /\ pc' \in {"certs", "fail"}
            /\ UNCHANGED <<site, fresh, queued>>
            /\ UNCHANGED children
        BY <1>d, <2>1, EnsureType
      <3> QED
        BY <1>6, <1>c, <3>1 DEF ReconcileAliasHTTPProxies, ProvisionPCs
    <2>2. ASSUME NEW a \in site.content.aliases,
                 Ensure(/\ routes' = [routes EXCEPT ![a] = site.uid]
                        /\ UNCHANGED <<owned, volumes, sftp, zone>>, "aliases", "fail")
          PROVE  /\ WorkerType' /\ ChildrenType' /\ faults' \in Nat
                 /\ pc' \in {"aliases", "fail"}
                 /\ UNCHANGED <<site, fresh, queued>>
      <3> DEFINE Effect == /\ routes' = [routes EXCEPT ![a] = site.uid]
                           /\ UNCHANGED <<owned, volumes, sftp, zone>>
      <3>1. /\ WorkerType' /\ faults' \in Nat /\ pc' \in {"aliases", "fail"}
            /\ UNCHANGED <<site, fresh, queued>>
            /\ Effect \/ UNCHANGED children
        BY <1>d, <2>2, EnsureType
      <3>2. Effect => ChildrenType'
        BY <1>b, <1>c DEF ChildrenType
      <3> QED
        BY <1>c, <3>1, <3>2
    <2> QED
      BY <1>6, <2>1, <2>2 DEF ReconcileAliasHTTPProxies, ProvisionPCs
  <1>7. CASE ReconcileSelfSignedCerts
    <2>1. CASE site.content.selfsigned
      BY <1>7, <1>e, <2>1 DEF ReconcileSelfSignedCerts, ProvisionPCs
    <2>2. CASE ~site.content.selfsigned
      BY <1>7, <1>c, <1>d, <2>2, TypeParts
         DEF ReconcileSelfSignedCerts, ProvisionPCs, Continue, WorkerType
    <2> QED
      BY <2>1, <2>2
  <1> QED
    BY <1>1, <1>2, <1>3, <1>4, <1>5, <1>6, <1>7 DEF ChildAction

\* The write of the Deployment keeps its log's type and the reconcile going.
LEMMA DeploymentSteps ==
  ASSUME TypeOK, ReconcileDeployment \/ ScaleToZero
  PROVE  PodsType' /\ WorkerType' /\ faults' \in Nat
  <1>1. /\ DesiredDeployment \in Deployment
        /\ [CachedDeployment EXCEPT !.up = FALSE] \in Deployment
    BY WrittenDeploymentType
  <1>2. PodsType /\ (UNCHANGED dlog => PodsType')
    BY TypeParts DEF PodsType
  <1>3. faults \in Nat /\ faults + 1 \in Nat
    BY TypeParts
  <1>4. DeploymentAccepted => PodsType'
    BY <1>1, StoreDeploymentFacts DEF DeploymentAccepted, PodsType
  <1>5. StoreDeployment([CachedDeployment EXCEPT !.up = FALSE]) => PodsType'
    BY <1>1, StoreDeploymentFacts DEF PodsType
  <1>6. "service" \in PCs /\ "fail" \in PCs /\ "suspended" \in PCs
    BY DEF PCs
  <1>7. CASE ReconcileDeployment
    BY <1>2, <1>3, <1>4, <1>6, <1>7, WorkerSteps DEF ReconcileDeployment
  <1>8. CASE ScaleToZero
    BY <1>2, <1>3, <1>5, <1>6, <1>8, WorkerSteps DEF ScaleToZero
  <1> QED
    BY <1>7, <1>8

\* Every step keeps the types.
LEMMA TypeStep == TypeOK /\ [Next]_vars => TypeOK'
  <1> SUFFICES ASSUME TypeOK, [Next]_vars PROVE TypeOK'
    OBVIOUS
  <1>a. LogType /\ PodsType /\ WorkerType /\ ChildrenType /\ RestType /\ faults \in Nat
    BY TypeParts
  <1>b. /\ site \in Website /\ Cached \in Website /\ Current \in Website
        /\ CachedDeployment \in Deployment /\ CurrentDeployment \in Deployment
        /\ NoWebsite \in Website /\ NoDeployment \in Deployment
    BY EndTypes, EmptyTypes DEF TypeOK
  <1>c. /\ site.ready \in BOOLEAN /\ site.phase \in Phases /\ Current.ready \in BOOLEAN
        /\ CachedDeployment.ready \in BOOLEAN /\ Current.owner \in Users
        /\ Current.content \in [aliases: SUBSET Aliases, selfsigned: BOOLEAN]
    BY <1>b DEF Website, Deployment
  <1>d. {"Provisioning", "Running", "Error", "Terminating", "Suspended"} \subseteq Phases
    BY DEF Phases
  <1>k. /\ UNCHANGED log => LogType'
        /\ UNCHANGED dlog => PodsType'
        /\ UNCHANGED children => ChildrenType'
        /\ UNCHANGED worker => WorkerType'
        /\ UNCHANGED <<seen, specs, changes>> => RestType'
    BY <1>a DEF children, worker, LogType, PodsType, ChildrenType, WorkerType, RestType
  <1>q. LogType' /\ PodsType' /\ WorkerType' /\ ChildrenType' /\ RestType' /\ faults' \in Nat
           => TypeOK'
    BY DEF TypeOK, LogType, PodsType, WorkerType, ChildrenType, RestType
  <1>p. ASSUME NEW STATE v, v \in Website, Publish(v)
        PROVE  LogType' /\ WorkerType'
    BY <1>a, <1>p, StoreFacts DEF Publish, LogType, WorkerType
  <1>1. CASE Reconcile
    <2>1. WorkerType'
      BY <1>1, <1>b, FirstCallFacts DEF Reconcile, WorkerType
    <2> QED
      BY <1>1, <1>a, <1>k, <2>1, <1>q DEF Reconcile, bounds
  <1>2. CASE AddFinalizer
    <2> DEFINE v == [Current EXCEPT !.fin = TRUE]
    <2>1. v \in Website /\ AfterFinalizer(v) \in PCs
      BY WrittenType, FirstCallFacts
    <2>2. LogType' /\ Current' \in Website /\ faults' \in Nat
      BY <1>2, <2>1, WriteType DEF AddFinalizer
    <2>3. WorkerType'
      BY <1>2, <2>1, <2>2, WorkerSteps DEF AddFinalizer
    <2> QED
      BY <1>2, <1>k, <2>2, <2>3, <1>q DEF AddFinalizer
  <1>3. CASE SetProvisioning
    <2> DEFINE v == WithStatus("Provisioning", site.ready)
    <2>1. v \in Website /\ "volume" \in PCs
      BY <1>c, <1>d, WrittenType DEF PCs
    <2>2. LogType' /\ Current' \in Website /\ faults' \in Nat
      BY <1>3, <2>1, WriteType DEF SetProvisioning
    <2>3. WorkerType'
      BY <1>3, <2>1, <2>2, WorkerSteps DEF SetProvisioning
    <2> QED
      BY <1>3, <1>k, <2>2, <2>3, <1>q DEF SetProvisioning
  <1>4. CASE ChildAction
    BY <1>4, <1>k, ChildSteps, <1>q
  <1>5. CASE ReconcileDeployment
    BY <1>5, <1>k, DeploymentSteps, <1>q DEF ReconcileDeployment
  <1>6. CASE UpdateRunningStatus
    <2> DEFINE v == WithStatus("Running", CachedDeployment.ready)
    <2>1. v \in Website
      BY <1>c, <1>d, WrittenType
    <2>2. UNCHANGED <<log, faults>> \/ (Accepted(v) /\ UNCHANGED faults) \/ Failed(v)
      BY <1>6 DEF UpdateRunningStatus
    <2>3. LogType' /\ faults' \in Nat
      BY <1>a, <1>k, <2>1, <2>2, WriteType
    <2>4. WorkerType'
      BY <1>6, WorkerSteps DEF UpdateRunningStatus
    <2> QED
      BY <1>6, <1>k, <2>3, <2>4, <1>q DEF UpdateRunningStatus
  <1>7. CASE SetErrorStatus
    <2> DEFINE v == WithStatus("Error", site.ready)
    <2>1. v \in Website
      BY <1>c, <1>d, WrittenType
    <2>2. LogType' /\ faults' \in Nat
      BY <1>7, <2>1, WriteType DEF SetErrorStatus
    <2>3. WorkerType'
      BY <1>7, WorkerSteps DEF SetErrorStatus
    <2> QED
      BY <1>7, <1>k, <2>2, <2>3, <1>q DEF SetErrorStatus
  <1>8. CASE ScaleToZero
    BY <1>8, <1>k, DeploymentSteps, <1>q DEF ScaleToZero
  <1>9. CASE SetSuspendedStatus
    <2> DEFINE v == WithStatus(site.phase, FALSE)
    <2>1. v \in Website
      BY <1>c, WrittenType
    <2>2. LogType' /\ faults' \in Nat
      BY <1>9, <2>1, WriteType DEF SetSuspendedStatus
    <2>3. WorkerType'
      BY <1>9, WorkerSteps DEF SetSuspendedStatus
    <2> QED
      BY <1>9, <1>k, <2>2, <2>3, <1>q DEF SetSuspendedStatus
  <1>10. CASE SetTerminating
    <2> DEFINE v == WithStatus("Terminating", site.ready)
    <2>1. v \in Website /\ "unfinalize" \in PCs
      BY <1>c, <1>d, WrittenType DEF PCs
    <2>2. LogType' /\ Current' \in Website /\ faults' \in Nat
      BY <1>10, <2>1, WriteType DEF SetTerminating
    <2>3. WorkerType'
      BY <1>10, <1>a, <2>1, <2>2, WorkerSteps DEF SetTerminating, WorkerType
    <2> QED
      BY <1>10, <1>k, <2>2, <2>3, <1>q DEF SetTerminating
  <1>11. CASE RemoveFinalizer
    <2> DEFINE v == [Current EXCEPT !.fin = FALSE, !.exists = FALSE]
    <2>1. v \in Website
      BY WrittenType
    <2>2. LogType' /\ faults' \in Nat
      BY <1>11, <2>1, WriteType DEF RemoveFinalizer
    <2>3. WorkerType'
      BY <1>11, WorkerSteps DEF RemoveFinalizer
    <2> QED
      BY <1>11, <1>k, <2>2, <2>3, <1>q DEF RemoveFinalizer
  <1>12. CASE WebsiteEvent
    <2>1. PICK i \in 2 .. Len(log) : log' = SubSeq(log, i, Len(log))
      BY <1>12 DEF WebsiteEvent
    <2>2. LogType'
      BY <2>1, EventFacts DEF LogType
    <2> QED
      BY <1>12, <1>a, <1>k, <2>2, <1>q DEF WebsiteEvent, bounds, WorkerType
  <1>13. CASE DeploymentEvent
    <2>1. PICK i \in 2 .. Len(dlog) : dlog' = SubSeq(dlog, i, Len(dlog))
      BY <1>13 DEF DeploymentEvent
    <2>2. PodsType'
      BY <2>1, DeploymentEventFacts DEF PodsType
    <2> QED
      BY <1>13, <1>a, <1>k, <2>2, <1>q DEF DeploymentEvent, bounds, WorkerType
  <1>14. ASSUME NEW k \in {"service", "secret"}, CacheSync(k) PROVE TypeOK'
    <2>1. RestType' /\ WorkerType'
      BY <1>14, <1>a DEF CacheSync, RestType, WorkerType, bounds
    <2> QED
      BY <1>14, <1>a, <1>k, <2>1, <1>q DEF CacheSync, bounds
  <1>15. CASE Restart
    <2>1. WorkerType'
      BY <1>15, WorkerSteps DEF Restart
    <2> QED
      BY <1>15, <1>a, <1>k, <2>1, <1>q DEF Restart
  <1>16. CASE Rollout
    <2>1. PodsType'
      BY <1>16, WrittenDeploymentType, StoreDeploymentFacts DEF Rollout, PodsType
    <2> QED
      BY <1>16, <1>a, <1>k, <2>1, <1>q DEF Rollout, bounds
  <1>17. CASE CollectDeployment
    <2>1. PodsType'
      BY <1>17, <1>b, StoreDeploymentFacts DEF CollectDeployment, PodsType
    <2> QED
      BY <1>17, <1>a, <1>k, <2>1, <1>q DEF CollectDeployment, bounds
  <1>18. CASE Collect
    <2>1. ChildrenType'
      BY <1>18, <1>a DEF Collect, ChildrenType
    <2> QED
      BY <1>18, <1>a, <1>k, <2>1, <1>q DEF Collect, bounds
  <1>19. ASSUME NEW u \in Users, NEW c \in Contents, CreateWebsite(u, c) PROVE TypeOK'
    <2> DEFINE v == [NoWebsite EXCEPT !.uid = Current.uid + 1, !.exists = TRUE,
                       !.owner = u, !.spec = specs + 1, !.content = c]
    <2>1. v \in Website
      BY SiteConstants, WrittenType
    <2>2. LogType' /\ WorkerType'
      BY <1>19, <1>p, <2>1 DEF CreateWebsite
    <2>3. RestType'
      BY <1>19, <1>a DEF CreateWebsite, RestType
    <2>4. ChildrenType'
      BY <1>19, <1>a DEF CreateWebsite, ChildrenType
    <2> QED
      BY <1>19, <1>a, <1>k, <2>2, <2>3, <2>4, <1>q DEF CreateWebsite
  <1>20. ASSUME NEW u \in Users, NEW c \in [aliases: SUBSET Aliases, selfsigned: BOOLEAN],
                WriteSpec(u, c)
         PROVE  TypeOK'
    <2> DEFINE v == [Current EXCEPT !.owner = u, !.spec = specs + 1, !.content = c]
    <2>1. v \in Website
      BY WrittenType
    <2>2. LogType' /\ WorkerType'
      BY <1>20, <1>p, <2>1 DEF WriteSpec
    <2>3. RestType'
      BY <1>20, <1>a DEF WriteSpec, RestType
    <2> QED
      BY <1>20, <1>a, <1>k, <2>2, <2>3, <1>q DEF WriteSpec
  <1>21. ASSUME NEW p \in {"Suspended", "Running"}, SetWebsitePhase(p) PROVE TypeOK'
    <2> DEFINE v == WithStatus(p, Current.ready)
    <2>1. v \in Website
      BY <1>c, <1>d, WrittenType
    <2>2. LogType' /\ WorkerType'
      BY <1>21, <1>p, <2>1 DEF SetWebsitePhase
    <2>3. RestType'
      BY <1>21, <1>a DEF SetWebsitePhase, RestType
    <2> QED
      BY <1>21, <1>a, <1>k, <2>2, <2>3, <1>q DEF SetWebsitePhase
  <1>22. CASE DeleteWebsite
    <2> DEFINE v == IF Current.fin THEN [Current EXCEPT !.del = TRUE]
                                   ELSE [Current EXCEPT !.exists = FALSE]
    <2>1. v \in Website
      BY WrittenType
    <2>2. LogType' /\ WorkerType'
      BY <1>22, <1>p, <2>1 DEF DeleteWebsite
    <2> QED
      BY <1>22, <1>a, <1>k, <2>2, <1>q DEF DeleteWebsite, bounds
  <1>23. CASE UNCHANGED vars
    BY <1>23, <1>a, <1>k, <1>q DEF vars, bounds
  <1>24. CASE Panel
    BY <1>24, <1>c, <1>19, <1>20, <1>21, <1>22, SiteConstants
       DEF Panel, UpdateWebsite, TransferResources, SuspendWebsite, UnsuspendWebsite
  <1> QED
    BY <1>1, <1>2, <1>3, <1>4, <1>5, <1>6, <1>7, <1>8, <1>9, <1>10, <1>11, <1>12,
       <1>13, <1>14, <1>15, <1>16, <1>17, <1>18, <1>23, <1>24
       DEF Next, Operator, Provision, ChildAction, Caches, Controllers

\* The initial state is well typed.
LEMMA InitType == Init => TypeOK
  <1> SUFFICES ASSUME Init PROVE TypeOK
    OBVIOUS
  <1>1. LogType /\ PodsType
    BY EmptyTypes DEF Init, LogType, PodsType
  <1>2. WorkerType
    BY EmptyTypes DEF Init, WorkerType, PCs
  <1>3. ChildrenType /\ RestType /\ faults \in Nat
    BY DEF Init, ChildrenType, RestType
  <1> QED
    BY <1>1, <1>2, <1>3, TypeParts

\* Type correctness of the website model.
THEOREM SiteTypeCorrect == Spec => []TypeOK
  BY InitType, TypeStep, PTL DEF Spec

-----------------------------------------------------------------------------
(***************************************************************************)
(* The invariant SiteInv: first what a step does to the Deployment, then   *)
(* the order of the specs, then the reconciler's copy.                     *)
(***************************************************************************)

\* A Deployment changes its spec only when reconcileDeployment writes the
\* copy's, or when it is deleted.
DeploymentMoves ==
    \/ CurrentDeployment'.spec = CurrentDeployment.spec
    \/ CurrentDeployment' = NoDeployment
    \/ pc = "deploy" /\ CurrentDeployment'.spec = site.spec

\* The steps that write the Deployment move it that way.
LEMMA DeploymentWrites ==
  ASSUME TypeOK, \/ ReconcileDeployment \/ ScaleToZero \/ Rollout
                 \/ CollectDeployment \/ DeploymentEvent
  PROVE  DeploymentMoves
  <1>a. UNCHANGED dlog => DeploymentMoves
    BY DEF DeploymentMoves, CurrentDeployment
  <1>b. CurrentDeployment \in Deployment /\ CachedDeployment \in Deployment
    BY EndTypes
  <1>1. CASE ReconcileDeployment
    <2>1. DesiredDeployment \in Deployment /\ DesiredDeployment.spec = site.spec
      BY <1>b, WrittenDeploymentType DEF DesiredDeployment, Deployment
    <2>2. UNCHANGED dlog \/ StoreDeployment(DesiredDeployment)
      BY <1>1 DEF ReconcileDeployment, DeploymentAccepted
    <2>3. StoreDeployment(DesiredDeployment) => CurrentDeployment' = DesiredDeployment
      BY <2>1, StoreDeploymentFacts
    <2> QED
      BY <1>1, <1>a, <2>1, <2>2, <2>3 DEF ReconcileDeployment, DeploymentMoves
  <1>2. CASE ScaleToZero
    <2> DEFINE d == [CachedDeployment EXCEPT !.up = FALSE]
    <2>1. d \in Deployment /\ d.spec = CachedDeployment.spec
      BY <1>b, WrittenDeploymentType DEF Deployment
    <2>2. UNCHANGED dlog \/ (Len(dlog) = 1 /\ StoreDeployment(d))
      BY <1>2 DEF ScaleToZero
    <2>3. Len(dlog) = 1 => CachedDeployment = CurrentDeployment
      BY DEF CachedDeployment, CurrentDeployment
    <2>4. StoreDeployment(d) => CurrentDeployment' = d
      BY <2>1, StoreDeploymentFacts
    <2> QED
      BY <1>a, <2>1, <2>2, <2>3, <2>4 DEF DeploymentMoves
  <1>3. CASE Rollout
    <2> DEFINE d == [CurrentDeployment EXCEPT !.ready = CurrentDeployment.up]
    <2>1. d \in Deployment /\ d.spec = CurrentDeployment.spec
      BY <1>b, WrittenDeploymentType DEF Deployment
    <2>2. CurrentDeployment' = d
      BY <1>3, <2>1, StoreDeploymentFacts DEF Rollout
    <2> QED
      BY <2>1, <2>2 DEF DeploymentMoves
  <1>4. CASE CollectDeployment
    BY <1>4, EmptyTypes, StoreDeploymentFacts DEF CollectDeployment, DeploymentMoves
  <1>5. CASE DeploymentEvent
    BY <1>5, DeploymentEventFacts DEF DeploymentEvent, DeploymentMoves
  <1> QED
    BY <1>1, <1>2, <1>3, <1>4, <1>5

\* Every step moves the Deployment that way.
LEMMA DeploymentStep ==
  ASSUME TypeOK, [Next]_vars
  PROVE  DeploymentMoves
  <1>1. UNCHANGED dlog \/ ReconcileDeployment \/ ScaleToZero \/ Rollout
        \/ CollectDeployment \/ DeploymentEvent
    <2>1. CASE Operator
      BY <2>1 DEF Operator, Provision, Reconcile, AddFinalizer, SetProvisioning,
         ReconcilePVC, SyncSFTPVolumes, ReconcileService, ReconcileIngress,
         ReconcileDNSZone, ReconcileAliasHTTPProxies, ReconcileSelfSignedCerts,
         UpdateRunningStatus, SetErrorStatus, SetSuspendedStatus, SetTerminating,
         RemoveFinalizer
    <2>2. CASE Caches \/ Restart \/ Controllers
      BY <2>2 DEF Caches, WebsiteEvent, CacheSync, Restart, Controllers, Collect
    <2>3. CASE Panel
      BY <2>3 DEF Panel, UpdateWebsite, CreateWebsite, TransferResources, WriteSpec,
         SuspendWebsite, UnsuspendWebsite, SetWebsitePhase, DeleteWebsite
    <2>4. CASE UNCHANGED vars
      BY <2>4 DEF vars
    <2> QED
      BY <2>1, <2>2, <2>3, <2>4 DEF Next
  <1>2. UNCHANGED dlog => DeploymentMoves
    BY DEF DeploymentMoves, CurrentDeployment
  <1> QED
    BY <1>1, <1>2, DeploymentWrites

\* Numbers that SpecsInOrder compares.
LEMMA SpecNumbers ==
  ASSUME TypeOK
  PROVE  /\ Cached.spec \in Nat /\ Current.spec \in Nat /\ site.spec \in Nat
         /\ CurrentDeployment.spec \in Nat /\ specs \in Nat
         /\ \A i \in 1 .. Len(log) : log[i].spec \in Nat
  <1>1. /\ Cached \in Website /\ Current \in Website /\ site \in Website
        /\ CurrentDeployment \in Deployment
        /\ \A i \in 1 .. Len(log) : log[i] \in Website
    BY EndTypes DEF TypeOK
  <1> QED
    BY <1>1 DEF Website, Deployment, TypeOK

\* The order is kept by a step that stores nothing older than the current
\* Website and keeps the spec of the copy, if any.
LEMMA SpecsKept ==
  ASSUME SiteInv, TypeOK', DeploymentMoves,
         NEW STATE v, v \in Website, UNCHANGED log \/ Store(v),
         Current.spec <= v.spec, v.spec <= specs', specs <= specs',
         pc' = "idle" \/ (pc # "idle" /\ site'.spec = site.spec)
  PROVE  SpecsInOrder'
  <1>a. TypeOK /\ SpecsInOrder
    BY DEF SiteInv
  <1>b. /\ Cached.spec \in Nat /\ Current.spec \in Nat /\ site.spec \in Nat
        /\ CurrentDeployment.spec \in Nat /\ specs \in Nat /\ v.spec \in Nat
        /\ specs' \in Nat /\ Len(log) \in Nat \ {0}
        /\ \A i \in 1 .. Len(log) : log[i].spec \in Nat
    BY <1>a, SpecNumbers, EndTypes DEF Website, TypeOK
  <1>c. Cached' = Cached /\ (Current' = Current \/ Current' = v)
    BY <1>a, StoreFacts DEF Cached, Current
  <1>1. Current'.spec <= specs'
    BY <1>a, <1>b, <1>c DEF SpecsInOrder
  <1>2. \A k, j \in 1 .. Len(log') : k <= j => log'[k].spec <= log'[j].spec
    <2>1. CASE UNCHANGED log
      BY <2>1, <1>a DEF SpecsInOrder
    <2>2. CASE Store(v)
      <3>1. \A k \in 1 .. Len(log) : log[k].spec <= v.spec
        <4>1. \A k \in 1 .. Len(log) : log[k].spec <= Current.spec
          BY <1>a, <1>b DEF SpecsInOrder, Current
        <4> QED
          BY <4>1, <1>b
      <3>2. /\ \A k \in 1 .. Len(log') :
                  log'[k] = v \/ (k \in 1 .. Len(log) /\ log'[k] = log[k])
            /\ \A k, j \in 1 .. Len(log') : k <= j /\ log'[j] # v => j \in 1 .. Len(log)
        BY <1>a, <2>2, StoreFacts
      <3>3. ASSUME NEW k \in 1 .. Len(log'), NEW j \in 1 .. Len(log'), k <= j
            PROVE  log'[k].spec <= log'[j].spec
        <4>0. log' = log \/ log' = Append(log, v)
          BY <2>2 DEF Store
        <4>1. CASE log' = log
          BY <4>1, <1>a, <3>3 DEF SpecsInOrder
        <4>2. CASE log' = Append(log, v)
          <5>1. /\ Len(log') = Len(log) + 1 /\ log'[Len(log) + 1] = v
                /\ \A m \in 1 .. Len(log) : log'[m] = log[m]
            BY <4>2, <1>a DEF TypeOK
          <5>2. CASE j = Len(log) + 1
            <6>1. k = Len(log) + 1 \/ k \in 1 .. Len(log)
              BY <5>1, <1>b
            <6> QED
              BY <6>1, <5>1, <5>2, <3>1, <1>b
          <5>3. CASE j # Len(log) + 1
            <6>1. j \in 1 .. Len(log) /\ k \in 1 .. Len(log)
              BY <5>1, <5>3, <3>3, <1>b
            <6> QED
              BY <6>1, <5>1, <3>3, <1>a DEF SpecsInOrder
          <5> QED
            BY <5>2, <5>3
        <4> QED
          BY <4>0, <4>1, <4>2
      <3> QED
        BY <3>3
    <2> QED
      BY <2>1, <2>2
  <1>3. /\ pc # "idle" => CurrentDeployment'.spec <= site.spec /\ site.spec <= Cached.spec
        /\ CurrentDeployment'.spec <= Cached.spec
    BY <1>a, <1>b DEF SpecsInOrder, DeploymentMoves, NoDeployment
  <1> QED
    BY <1>1, <1>2, <1>3, <1>c DEF SpecsInOrder

\* A reconcile that begins copies the cached Website.
LEMMA SpecsOfReconcile ==
  ASSUME SiteInv, TypeOK', Reconcile
  PROVE  SpecsInOrder'
  <1>1. TypeOK /\ SpecsInOrder
    BY DEF SiteInv
  <1>2. Cached.spec \in Nat /\ Cached.spec <= Cached.spec
    BY <1>1, SpecNumbers
  <1>3. UNCHANGED <<log, dlog, specs>> /\ (pc' # "idle" => site' = Cached)
    BY DEF Reconcile, bounds
  <1> QED
    BY <1>1, <1>2, <1>3 DEF SpecsInOrder, Cached, Current, CurrentDeployment

\* A watch event brings the cache forward, to a spec that is no older.
LEMMA SpecsOfEvent ==
  ASSUME SiteInv, TypeOK', WebsiteEvent
  PROVE  SpecsInOrder'
  <1>1. TypeOK /\ SpecsInOrder
    BY DEF SiteInv
  <1>2. PICK i \in 2 .. Len(log) : log' = SubSeq(log, i, Len(log))
    BY DEF WebsiteEvent
  <1>3. /\ Len(log) \in Nat \ {0} /\ Len(log') = Len(log) - i + 1
        /\ \A k \in 1 .. Len(log') : log'[k] = log[k + i - 1]
        /\ Cached' = log[i] /\ Current' = Current
    BY <1>1, <1>2, EventFacts, EndTypes
  <1>4. UNCHANGED <<dlog, pc, site, specs>>
    BY DEF WebsiteEvent, bounds
  <1>5. Cached.spec <= log[i].spec /\ i \in 1 .. Len(log)
    <2>1. 1 \in 1 .. Len(log) /\ i \in 1 .. Len(log) /\ 1 <= i
      BY <1>2, <1>3
    <2> QED
      BY <2>1, <1>1 DEF SpecsInOrder, Cached
  <1>6. \A k, j \in 1 .. Len(log') : k <= j => log'[k].spec <= log'[j].spec
    <2> SUFFICES ASSUME NEW k \in 1 .. Len(log'), NEW j \in 1 .. Len(log'), k <= j
                 PROVE  log'[k].spec <= log'[j].spec
      OBVIOUS
    <2>1. /\ k + i - 1 \in 1 .. Len(log) /\ j + i - 1 \in 1 .. Len(log)
          /\ k + i - 1 <= j + i - 1
      BY <1>3
    <2>2. log[k + i - 1].spec <= log[j + i - 1].spec
      BY <2>1, <1>1 DEF SpecsInOrder
    <2> QED
      BY <2>2, <1>3
  <1>7. /\ pc # "idle" => site.spec <= Cached'.spec
        /\ CurrentDeployment.spec <= Cached'.spec
    <2>1. /\ Cached.spec \in Nat /\ site.spec \in Nat /\ log[i].spec \in Nat
          /\ CurrentDeployment.spec \in Nat
      BY <1>1, <1>5, SpecNumbers
    <2> QED
      BY <2>1, <1>1, <1>3, <1>5 DEF SpecsInOrder
  <1> QED
    BY <1>1, <1>3, <1>4, <1>6, <1>7 DEF SpecsInOrder, CurrentDeployment

\* What is known of the copy survives a step that keeps the copy and stays
\* in the same branch of the reconcile, if it does not make the copy fresh
\* or write the Website behind a fresh copy.
LEMMA CopyKept ==
  ASSUME SiteInv, TypeOK', UNCHANGED site, fresh' => fresh /\ Current' = Current,
         \/ pc' = pc
         \/ pc \in ProvisionPCs /\ pc' \in ProvisionPCs
         \/ pc = "suspend" /\ pc' = "suspended"
         \/ pc = "terminate" /\ pc' = "unfinalize"
  PROVE  CopyIsKnown'
  BY DEF SiteInv, CopyIsKnown, ProvisionPCs

\* Nothing is to be known of the copy once the reconcile has ended.
LEMMA CopyDropped ==
  ASSUME NEW b \in BOOLEAN, Return(b)
  PROVE  CopyIsKnown' /\ pc' = "idle"
  BY DEF Return, CopyIsKnown, ProvisionPCs

\* What a write keeps: the spec of the Website, and its deletion mark.
LEMMA WrittenSpec ==
  ASSUME TypeOK
  PROVE  /\ \A p \in Phases, r \in BOOLEAN :
               /\ WithStatus(p, r).spec = Current.spec
               /\ WithStatus(p, r).phase = p
               /\ WithStatus(p, r).del = Current.del
         /\ [Current EXCEPT !.fin = TRUE].spec = Current.spec
         /\ [Current EXCEPT !.fin = TRUE].del = Current.del
         /\ [Current EXCEPT !.fin = TRUE].phase = Current.phase
         /\ [Current EXCEPT !.fin = FALSE, !.exists = FALSE].spec = Current.spec
         /\ [Current EXCEPT !.fin = FALSE, !.exists = FALSE].exists = FALSE
  <1>1. Current \in Website
    BY EndTypes
  <1> QED
    BY <1>1 DEF WithStatus, Website

\* A reconciler's write of the Website that keeps the spec, after which the
\* reconcile ends, keeps the invariant.
LEMMA LastWriteStep ==
  ASSUME SiteInv, TypeOK', DeploymentMoves, UNCHANGED specs,
         NEW STATE v, v \in Website, v.spec = Current.spec,
         UNCHANGED log \/ Store(v),
         NEW b \in BOOLEAN, Return(b)
  PROVE  SiteInv'
  <1>1. CopyIsKnown' /\ pc' = "idle"
    BY CopyDropped
  <1>2. Current.spec <= v.spec /\ v.spec <= specs' /\ specs <= specs'
    <2>1. TypeOK /\ SpecsInOrder
      BY DEF SiteInv
    <2>2. Current.spec \in Nat /\ specs \in Nat /\ Current.spec <= specs
      BY <2>1, SpecNumbers DEF SpecsInOrder
    <2> QED
      BY <2>2
  <1>3. SpecsInOrder'
    BY <1>1, <1>2, SpecsKept
  <1> QED
    BY <1>1, <1>3 DEF SiteInv

\* The same for a write whose answer the reconcile goes on with.
LEMMA FreshWriteStep ==
  ASSUME SiteInv, TypeOK', DeploymentMoves, UNCHANGED specs,
         NEW STATE v, v \in Website, v.spec = Current.spec, pc # "idle",
         Accepted(v), NEW c, ContinueFresh(c), c # "idle",
         c \in ProvisionPCs => v.phase # "Suspended",
         c \in ProvisionPCs \union {"finalize"} => ~v.del,
         c \in {"suspend", "suspended"} => v.phase = "Suspended",
         c \in {"terminate", "unfinalize"} => v.del
  PROVE  SiteInv'
  <1>1. TypeOK /\ SpecsInOrder /\ CopyIsKnown
    BY DEF SiteInv
  <1>2. Store(v) /\ fresh /\ Current' = v /\ site' = v /\ pc' = c
    BY <1>1, StoreFacts DEF Accepted, ContinueFresh
  <1>3. CopyIsKnown'
    BY <1>2 DEF CopyIsKnown
  <1>4. Current.spec <= v.spec /\ v.spec <= specs' /\ specs <= specs'
    <2>1. Current.spec \in Nat /\ specs \in Nat /\ Current.spec <= specs
      BY <1>1, SpecNumbers DEF SpecsInOrder
    <2> QED
      BY <2>1
  <1>5. site'.spec = site.spec
    BY <1>1, <1>2 DEF CopyIsKnown
  <1>6. SpecsInOrder'
    BY <1>2, <1>4, <1>5, SpecsKept
  <1> QED
    BY <1>3, <1>6 DEF SiteInv

\* A step that leaves the Website and the copy alone.
LEMMA QuietStep ==
  ASSUME SiteInv, TypeOK', DeploymentMoves, UNCHANGED <<log, specs, site>>,
         fresh' => fresh,
         \/ pc' = pc
         \/ pc \in ProvisionPCs /\ pc' \in ProvisionPCs
         \/ pc = "suspend" /\ pc' = "suspended"
         \/ pc = "terminate" /\ pc' = "unfinalize"
  PROVE  SiteInv'
  <1>1. TypeOK /\ SpecsInOrder
    BY DEF SiteInv
  <1>2. Current' = Current /\ Current \in Website
    BY <1>1, EndTypes DEF Current
  <1>3. CopyIsKnown'
    BY <1>2, CopyKept
  <1>4. Current.spec <= Current.spec /\ Current.spec <= specs' /\ specs <= specs'
    <2>1. Current.spec \in Nat /\ specs \in Nat /\ Current.spec <= specs
      BY <1>1, SpecNumbers DEF SpecsInOrder
    <2> QED
      BY <2>1
  <1>5. pc' = "idle" \/ (pc # "idle" /\ site'.spec = site.spec)
    BY DEF ProvisionPCs
  <1>6. SpecsInOrder'
    BY <1>2, <1>4, <1>5, SpecsKept
  <1> QED
    BY <1>3, <1>6 DEF SiteInv

\* A write of the panel, which leaves the reconciler where it is.
LEMMA PublishStep ==
  ASSUME SiteInv, TypeOK', DeploymentMoves,
         NEW STATE v, v \in Website, Publish(v),
         Current.spec <= v.spec, v.spec <= specs', specs <= specs'
  PROVE  SiteInv'
  <1>1. TypeOK
    BY DEF SiteInv
  <1>2. Store(v) /\ UNCHANGED <<pc, site>> /\ fresh' = (fresh /\ v = Current)
    BY DEF Publish
  <1>3. Current' = v
    BY <1>1, <1>2, StoreFacts
  <1>4. CopyIsKnown'
    BY <1>2, <1>3, CopyKept
  <1>5. SpecsInOrder'
    BY <1>2, SpecsKept
  <1> QED
    BY <1>4, <1>5 DEF SiteInv

\* Every step keeps the invariant.
LEMMA SiteStep == SiteInv /\ [Next]_vars => SiteInv'
  <1> SUFFICES ASSUME SiteInv, [Next]_vars PROVE SiteInv'
    OBVIOUS
  <1>a. TypeOK /\ CopyIsKnown /\ SpecsInOrder
    BY DEF SiteInv
  <1>b. TypeOK' /\ DeploymentMoves
    BY <1>a, TypeStep, DeploymentStep
  <1>c. /\ Current \in Website /\ site \in Website /\ Cached \in Website
        /\ CachedDeployment \in Deployment
    BY <1>a, EndTypes DEF TypeOK
  <1>d. /\ site.ready \in BOOLEAN /\ site.phase \in Phases /\ Current.ready \in BOOLEAN
        /\ CachedDeployment.ready \in BOOLEAN /\ Current.owner \in Users
        /\ Current.content \in [aliases: SUBSET Aliases, selfsigned: BOOLEAN]
        /\ {"Provisioning", "Running", "Error", "Terminating", "Suspended"} \subseteq Phases
    BY <1>c DEF Website, Deployment, Phases
  <1>e. /\ Current.spec \in Nat /\ specs \in Nat /\ Current.spec <= specs
        /\ specs + 1 \in Nat /\ Current.spec <= specs + 1 /\ specs <= specs + 1
        /\ specs + 1 <= specs + 1 /\ Current.spec <= Current.spec /\ specs <= specs
    <2>1. Current.spec \in Nat /\ specs \in Nat /\ Current.spec <= specs
      BY <1>a, SpecNumbers DEF SpecsInOrder
    <2> QED
      BY <2>1
  <1>1. CASE Reconcile
    <2>1. UNCHANGED log /\ SpecsInOrder'
      BY <1>1, <1>b, SpecsOfReconcile DEF Reconcile
    <2>2. Len(log) = 1 => Cached = Current
      BY DEF Cached, Current
    <2>3. pc' = FirstCall(Cached) /\ (pc' # "idle" => site' = Cached)
          /\ (fresh' => pc' # "idle" /\ Len(log) = 1)
      BY <1>1 DEF Reconcile
    <2>4. fresh' => pc' # "idle" /\ site' = Current'
      BY <2>1, <2>2, <2>3 DEF Current
    <2>5. CopyIsKnown'
      BY <1>c, <2>3, <2>4, FirstCallFacts DEF CopyIsKnown, ProvisionPCs
    <2> QED
      BY <1>b, <2>1, <2>5 DEF SiteInv
  <1>2. CASE AddFinalizer
    <2> DEFINE v == [Current EXCEPT !.fin = TRUE]
    <2>1. v \in Website /\ v.spec = Current.spec /\ v.del = Current.del
      BY <1>a, WrittenType, WrittenSpec
    <2>2. UNCHANGED specs /\ pc = "finalize"
      BY <1>2 DEF AddFinalizer
    <2>3. CASE Accepted(v) /\ ContinueFresh(AfterFinalizer(v))
      <3>1. ~v.del
        BY <1>a, <2>1, <2>2, <2>3 DEF Accepted, CopyIsKnown
      <3> QED
        BY <1>b, <2>1, <2>2, <2>3, <3>1, FirstCallFacts, FreshWriteStep
    <2>4. CASE Failed(v) /\ Return(TRUE)
      BY <1>b, <2>1, <2>2, <2>4, WriteFacts, LastWriteStep
    <2> QED
      BY <1>2, <2>3, <2>4 DEF AddFinalizer
  <1>3. CASE SetProvisioning
    <2> DEFINE v == WithStatus("Provisioning", site.ready)
    <2>1. v \in Website /\ v.spec = Current.spec /\ v.del = Current.del
          /\ v.phase = "Provisioning"
      BY <1>a, <1>d, WrittenType, WrittenSpec
    <2>2. UNCHANGED specs /\ pc = "provision"
      BY <1>3 DEF SetProvisioning
    <2>3. CASE Accepted(v) /\ ContinueFresh("volume")
      <3>1. ~v.del
        BY <1>a, <2>1, <2>2, <2>3 DEF Accepted, CopyIsKnown, ProvisionPCs
      <3> QED
        BY <1>b, <2>1, <2>2, <2>3, <3>1, FreshWriteStep
    <2>4. CASE Failed(v) /\ Return(TRUE)
      BY <1>b, <2>1, <2>2, <2>4, WriteFacts, LastWriteStep
    <2> QED
      BY <1>3, <2>3, <2>4 DEF SetProvisioning
  <1>4. CASE ChildAction
    BY <1>4, <1>a, <1>b, ChildSteps, QuietStep
  <1>5. CASE ReconcileDeployment
    <2>1. /\ pc \in ProvisionPCs /\ pc' \in ProvisionPCs
          /\ UNCHANGED <<log, specs, site, fresh>>
      BY <1>5 DEF ReconcileDeployment, Continue, ProvisionPCs
    <2> QED
      BY <1>b, <2>1, QuietStep
  <1>6. CASE UpdateRunningStatus
    <2> DEFINE v == WithStatus("Running", CachedDeployment.ready)
    <2>1. v \in Website /\ v.spec = Current.spec
      BY <1>a, <1>d, WrittenType, WrittenSpec
    <2>2. /\ UNCHANGED log \/ (Accepted(v) /\ UNCHANGED faults) \/ Failed(v)
          /\ Return(TRUE) \/ Return(FALSE)
          /\ UNCHANGED specs
      BY <1>6 DEF UpdateRunningStatus
    <2> QED
      BY <1>b, <2>1, <2>2, WriteFacts, LastWriteStep
  <1>7. CASE SetErrorStatus
    <2> DEFINE v == WithStatus("Error", site.ready)
    <2>1. v \in Website /\ v.spec = Current.spec
      BY <1>a, <1>d, WrittenType, WrittenSpec
    <2> QED
      BY <1>7, <1>b, <2>1, WriteFacts, LastWriteStep DEF SetErrorStatus
  <1>8. CASE ScaleToZero
    <2>1. /\ pc = "suspend" /\ UNCHANGED <<log, specs>>
          /\ Return(TRUE) \/ Return(FALSE) \/ Continue("suspended")
      BY <1>8 DEF ScaleToZero
    <2>2. CASE Continue("suspended")
      BY <1>b, <2>1, <2>2, QuietStep DEF Continue
    <2>3. CASE Return(TRUE) \/ Return(FALSE)
      BY <1>b, <1>c, <2>1, <2>3, LastWriteStep
    <2> QED
      BY <2>1, <2>2, <2>3
  <1>9. CASE SetSuspendedStatus
    <2> DEFINE v == WithStatus(site.phase, FALSE)
    <2>1. v \in Website /\ v.spec = Current.spec
      BY <1>a, <1>d, WrittenType, WrittenSpec
    <2> QED
      BY <1>9, <1>b, <2>1, WriteFacts, LastWriteStep DEF SetSuspendedStatus
  <1>10. CASE SetTerminating
    <2> DEFINE v == WithStatus("Terminating", site.ready)
    <2>1. v \in Website /\ v.spec = Current.spec /\ v.del = Current.del
          /\ v.phase = "Terminating"
      BY <1>a, <1>d, WrittenType, WrittenSpec
    <2>2. UNCHANGED specs /\ pc = "terminate"
      BY <1>10 DEF SetTerminating
    <2>3. CASE Accepted(v) /\ ContinueFresh("unfinalize")
      <3>1. v.del
        BY <1>a, <2>1, <2>2, <2>3 DEF Accepted, CopyIsKnown
      <3> QED
        BY <1>b, <2>1, <2>2, <2>3, <3>1, FreshWriteStep DEF ProvisionPCs
    <2>4. CASE Failed(v) /\ pc' = "unfinalize" /\ fresh' = (fresh /\ log' = log)
               /\ UNCHANGED site
      <3>1. UNCHANGED log \/ Store(v)
        BY <2>4, WriteFacts
      <3>2. fresh' => fresh /\ Current' = Current
        BY <2>4 DEF Current
      <3>3. CopyIsKnown'
        BY <1>b, <2>2, <2>4, <3>2, CopyKept
      <3>4. Current.spec <= v.spec /\ v.spec <= specs' /\ specs <= specs'
        BY <1>e, <2>1, <2>2
      <3>5. SpecsInOrder'
        BY <1>b, <2>1, <2>2, <2>4, <3>1, <3>4, SpecsKept
      <3> QED
        BY <1>b, <3>3, <3>5 DEF SiteInv
    <2> QED
      BY <1>10, <2>3, <2>4 DEF SetTerminating
  <1>11. CASE RemoveFinalizer
    <2> DEFINE v == [Current EXCEPT !.fin = FALSE, !.exists = FALSE]
    <2>1. v \in Website /\ v.spec = Current.spec
      BY <1>a, WrittenType, WrittenSpec
    <2> QED
      BY <1>11, <1>b, <2>1, WriteFacts, LastWriteStep DEF RemoveFinalizer
  <1>12. CASE WebsiteEvent
    <2>1. SpecsInOrder' /\ UNCHANGED <<pc, site, fresh>>
      BY <1>12, <1>b, SpecsOfEvent DEF WebsiteEvent
    <2>2. Current' = Current
      BY <1>12, <1>a, EventFacts DEF WebsiteEvent
    <2> QED
      BY <1>b, <2>1, <2>2, CopyKept DEF SiteInv
  <1>13. CASE DeploymentEvent \/ Rollout \/ CollectDeployment \/ Collect
              \/ (\E k \in {"service", "secret"} : CacheSync(k)) \/ UNCHANGED vars
    <2>1. UNCHANGED <<log, specs, site, fresh, pc>>
      BY <1>13 DEF DeploymentEvent, Rollout, CollectDeployment, Collect, CacheSync,
         vars, worker, bounds
    <2> QED
      BY <1>b, <2>1, QuietStep
  <1>14. CASE Restart
    BY <1>14, <1>b, <1>c, LastWriteStep DEF Restart
  <1>15. ASSUME NEW u \in Users, NEW c \in Contents, CreateWebsite(u, c) PROVE SiteInv'
    <2> DEFINE v == [NoWebsite EXCEPT !.uid = Current.uid + 1, !.exists = TRUE,
                       !.owner = u, !.spec = specs + 1, !.content = c]
    <2>1. v \in Website /\ v.spec = specs + 1
      BY <1>a, SiteConstants, WrittenType, EmptyTypes DEF NoWebsite
    <2> QED
      BY <1>15, <1>b, <1>e, <2>1, PublishStep DEF CreateWebsite
  <1>16. ASSUME NEW u \in Users, NEW c \in [aliases: SUBSET Aliases, selfsigned: BOOLEAN],
                WriteSpec(u, c)
         PROVE  SiteInv'
    <2> DEFINE v == [Current EXCEPT !.owner = u, !.spec = specs + 1, !.content = c]
    <2>1. v \in Website
      BY <1>a, WrittenType
    <2>2. v.spec = specs + 1
      BY <1>c DEF Website
    <2> QED
      BY <1>16, <1>b, <1>e, <2>1, <2>2, PublishStep DEF WriteSpec
  <1>17. ASSUME NEW p \in {"Suspended", "Running"}, SetWebsitePhase(p) PROVE SiteInv'
    <2> DEFINE v == WithStatus(p, Current.ready)
    <2>1. v \in Website /\ v.spec = Current.spec
      BY <1>a, <1>d, WrittenType, WrittenSpec
    <2> QED
      BY <1>17, <1>b, <1>e, <2>1, PublishStep DEF SetWebsitePhase
  <1>18. CASE DeleteWebsite
    <2> DEFINE v == IF Current.fin THEN [Current EXCEPT !.del = TRUE]
                                   ELSE [Current EXCEPT !.exists = FALSE]
    <2>1. v \in Website
      BY <1>a, WrittenType
    <2>2. v.spec = Current.spec
      BY <1>c DEF Website
    <2> QED
      BY <1>18, <1>b, <1>e, <2>1, <2>2, PublishStep DEF DeleteWebsite, bounds
  <1>19. CASE Panel
    BY <1>19, <1>d, <1>15, <1>16, <1>17, <1>18, SiteConstants
       DEF Panel, UpdateWebsite, TransferResources, SuspendWebsite, UnsuspendWebsite
  <1> QED
    BY <1>1, <1>2, <1>3, <1>4, <1>5, <1>6, <1>7, <1>8, <1>9, <1>10, <1>11, <1>12,
       <1>13, <1>14, <1>19
       DEF Next, Operator, Provision, ChildAction, Caches, Controllers

\* The initial state satisfies the invariant.
LEMMA InitSite == Init => SiteInv
  <1> SUFFICES ASSUME Init PROVE SiteInv
    OBVIOUS
  <1>1. TypeOK
    BY InitType
  <1>2. CopyIsKnown
    BY DEF Init, CopyIsKnown, ProvisionPCs
  <1>3. Len(log) = 1 /\ Cached = NoWebsite /\ Current = NoWebsite
        /\ CurrentDeployment = NoDeployment /\ log[1] = NoWebsite
    BY DEF Init, Cached, Current, CurrentDeployment
  <1>4. SpecsInOrder
    <2>1. NoWebsite.spec = 0 /\ NoDeployment.spec = 0
      BY DEF NoWebsite, NoDeployment
    <2>2. \A i, j \in 1 .. Len(log) : i = 1 /\ j = 1
      BY <1>3
    <2> QED
      BY <1>3, <2>1, <2>2 DEF SpecsInOrder, Init
  <1> QED
    BY <1>1, <1>2, <1>4 DEF SiteInv

\* SiteInv is an invariant: the reconciler knows what it holds a copy of,
\* and specs reach cache, copy and Deployment in the order they are written.
THEOREM SiteInvariant == Spec => []SiteInv
  BY InitSite, SiteStep, PTL DEF Spec

-----------------------------------------------------------------------------
(***************************************************************************)
(* What SiteInv is for                                                     *)
(***************************************************************************)

\* A step that lifts a suspension is the panel's.
LEMMA SuspensionStep ==
  ASSUME SiteInv, [Next]_vars,
         Current.exists, ~Current.del, Current.phase = "Suspended",
         Current'.exists, Current'.phase # "Suspended"
  PROVE  UnsuspendWebsite
  <1>a. TypeOK /\ CopyIsKnown
    BY DEF SiteInv
  <1>b. log' # log
    BY DEF Current
  <1>c. /\ Current \in Website /\ site \in Website
        /\ CachedDeployment \in Deployment
    BY <1>a, EndTypes DEF TypeOK
  <1>d. /\ site.ready \in BOOLEAN /\ site.phase \in Phases /\ Current.ready \in BOOLEAN
        /\ CachedDeployment.ready \in BOOLEAN
        /\ Current.content \in [aliases: SUBSET Aliases, selfsigned: BOOLEAN]
        /\ Current.owner \in Users
        /\ {"Provisioning", "Running", "Error", "Terminating", "Suspended"} \subseteq Phases
    BY <1>c DEF Website, Deployment, Phases
  <1>e. ASSUME NEW STATE v, v \in Website, Store(v)
        PROVE  v.phase # "Suspended" /\ v.exists
    BY <1>a, <1>e, StoreFacts
  <1>f. ASSUME NEW STATE v, v \in Website,
               (Accepted(v) /\ UNCHANGED faults) \/ Failed(v)
        PROVE  /\ fresh /\ site = Current
               /\ v.phase # "Suspended" /\ v.exists
    <2>1. fresh /\ Store(v)
      BY <1>b, <1>f, WriteFacts
    <2> QED
      BY <1>a, <1>e, <1>f, <2>1 DEF CopyIsKnown
  <1>1. CASE AddFinalizer
    <2> DEFINE v == [Current EXCEPT !.fin = TRUE]
    <2>1. v \in Website /\ v.phase = "Suspended"
      BY <1>a, WrittenType, WrittenSpec
    <2> QED
      BY <1>1, <1>f, <2>1 DEF AddFinalizer
  <1>2. CASE SetProvisioning
    <2> DEFINE v == WithStatus("Provisioning", site.ready)
    <2>1. v \in Website
      BY <1>a, <1>d, WrittenType
    <2>2. pc \in ProvisionPCs /\ site = Current
      BY <1>2, <1>f, <2>1 DEF SetProvisioning, ProvisionPCs
    <2> QED
      BY <1>a, <2>2 DEF CopyIsKnown
  <1>3. CASE UpdateRunningStatus
    <2> DEFINE v == WithStatus("Running", CachedDeployment.ready)
    <2>1. v \in Website
      BY <1>a, <1>d, WrittenType
    <2>2. pc \in ProvisionPCs /\ site = Current
      BY <1>3, <1>b, <1>f, <2>1 DEF UpdateRunningStatus, ProvisionPCs
    <2> QED
      BY <1>a, <2>2 DEF CopyIsKnown
  <1>4. CASE SetErrorStatus
    <2> DEFINE v == WithStatus("Error", site.ready)
    <2>1. v \in Website
      BY <1>a, <1>d, WrittenType
    <2>2. pc \in ProvisionPCs /\ site = Current
      BY <1>4, <1>f, <2>1 DEF SetErrorStatus, ProvisionPCs
    <2> QED
      BY <1>a, <2>2 DEF CopyIsKnown
  <1>5. CASE SetSuspendedStatus
    <2> DEFINE v == WithStatus(site.phase, FALSE)
    <2>1. v \in Website /\ v.phase = site.phase
      BY <1>a, <1>d, WrittenType, WrittenSpec
    <2> QED
      BY <1>5, <1>f, <2>1 DEF SetSuspendedStatus
  <1>6. CASE SetTerminating
    <2> DEFINE v == WithStatus("Terminating", site.ready)
    <2>1. v \in Website
      BY <1>a, <1>d, WrittenType
    <2>2. pc = "terminate" /\ site = Current
      BY <1>6, <1>f, <2>1 DEF SetTerminating
    <2> QED
      BY <1>a, <2>2 DEF CopyIsKnown
  <1>7. CASE RemoveFinalizer
    <2> DEFINE v == [Current EXCEPT !.fin = FALSE, !.exists = FALSE]
    <2>1. v \in Website /\ v.exists = FALSE
      BY <1>a, WrittenType, WrittenSpec
    <2> QED
      BY <1>7, <1>f, <2>1 DEF RemoveFinalizer
  <1>8. CASE WebsiteEvent
    BY <1>8, <1>a, EventFacts DEF WebsiteEvent
  <1>9. CASE UNCHANGED log
    BY <1>9, <1>b
  <1>10. ASSUME NEW u \in Users, NEW c \in Contents, CreateWebsite(u, c) PROVE FALSE
    BY <1>10 DEF CreateWebsite
  <1>11. ASSUME NEW u \in Users, NEW c \in [aliases: SUBSET Aliases, selfsigned: BOOLEAN],
                WriteSpec(u, c)
         PROVE  FALSE
    <2> DEFINE v == [Current EXCEPT !.owner = u, !.spec = specs + 1, !.content = c]
    <2>1. v \in Website
      BY <1>a, WrittenType
    <2>2. v.phase = "Suspended"
      BY <1>c DEF Website
    <2> QED
      BY <1>11, <1>e, <2>1, <2>2 DEF WriteSpec, Publish
  <1>12. CASE SuspendWebsite
    <2> DEFINE v == WithStatus("Suspended", Current.ready)
    <2>1. v \in Website /\ v.phase = "Suspended"
      BY <1>a, <1>d, WrittenType, WrittenSpec
    <2> QED
      BY <1>12, <1>e, <2>1 DEF SuspendWebsite, SetWebsitePhase, Publish
  <1>13. CASE DeleteWebsite
    <2> DEFINE v == IF Current.fin THEN [Current EXCEPT !.del = TRUE]
                                   ELSE [Current EXCEPT !.exists = FALSE]
    <2>1. v \in Website
      BY <1>a, WrittenType
    <2>2. v.phase = "Suspended"
      BY <1>c DEF Website
    <2> QED
      BY <1>13, <1>e, <2>1, <2>2 DEF DeleteWebsite, Publish
  <1>14. CASE Panel
    BY <1>14, <1>d, <1>10, <1>11, <1>12, <1>13, SiteConstants
       DEF Panel, UpdateWebsite, TransferResources
  <1>15. CASE ChildAction
    BY <1>15, <1>a, <1>b, ChildSteps
  <1>16. CASE Reconcile \/ ReconcileDeployment \/ ScaleToZero \/ Restart \/ Controllers
              \/ DeploymentEvent \/ (\E k \in {"service", "secret"} : CacheSync(k))
              \/ UNCHANGED vars
    BY <1>16, <1>b DEF Reconcile, ReconcileDeployment, ScaleToZero, Restart,
       Controllers, Rollout, CollectDeployment, Collect, DeploymentEvent, CacheSync, vars
  <1> QED
    BY <1>1, <1>2, <1>3, <1>4, <1>5, <1>6, <1>7, <1>8, <1>14, <1>15, <1>16
       DEF Next, Operator, Provision, ChildAction, Caches

\* A suspension stands until the panel lifts it, whatever the reconciler's
\* copy, the caches and lost calls do.
THEOREM SuspensionsStand == Spec => SuspensionStands
  <1>1. SiteInv /\ [Next]_vars =>
          [(/\ Current.exists /\ ~Current.del /\ Current.phase = "Suspended"
            /\ Current'.exists /\ Current'.phase # "Suspended")
              => UnsuspendWebsite]_vars
    BY SuspensionStep
  <1> QED
    BY <1>1, SiteInvariant, PTL DEF Spec, SuspensionStands

\* No step puts an older spec into a Deployment that goes on existing.
LEMMA RollbackStep ==
  ASSUME SiteInv, [Next]_vars, CurrentDeployment'.exists
  PROVE  CurrentDeployment'.spec >= CurrentDeployment.spec
  <1>1. TypeOK /\ SpecsInOrder /\ DeploymentMoves
    BY DeploymentStep DEF SiteInv
  <1>2. site.spec \in Nat /\ CurrentDeployment.spec \in Nat
    BY <1>1, SpecNumbers
  <1>3. NoDeployment.exists = FALSE
    BY DEF NoDeployment
  <1> QED
    BY <1>1, <1>2, <1>3 DEF DeploymentMoves, SpecsInOrder

\* A site is never rolled back to an older spec than the one that runs.
THEOREM SitesNeverRollBack == Spec => NoRollback
  <1>1. SiteInv /\ [Next]_vars =>
          [CurrentDeployment'.exists =>
             CurrentDeployment'.spec >= CurrentDeployment.spec]_vars
    BY RollbackStep
  <1> QED
    BY <1>1, SiteInvariant, PTL DEF Spec, NoRollback
==============================================================================
