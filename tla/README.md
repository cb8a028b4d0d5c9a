# kubecp: a TLA+ verification project

kubecp is a web hosting control panel that runs on Kubernetes. Users and
administrators work with a REST API (panel-core); it stores what they ask for as
custom resources; an operator (hosting-operator) reconciles the resources into
databases, Deployments, routes, mail accounts and DNS zones. This directory models
the parts in which the order of events matters, checks the models with TLC and
proves their main properties with TLAPS.

Contents: [inventory](#1-inventory), [modules](#2-modules-and-how-they-correspond-to-the-code),
[runs](#3-runs-bounds-and-fairness), [proofs](#4-proofs),
[findings](#5-where-the-code-and-its-own-words-disagree),
[abstractions](#6-abstractions-and-what-is-left-out), [plan](#7-plan).

All paths below are relative to `src/`; `controller/` is
`hosting-operator/internal/controller/` and `api/` is `panel-core/internal/api/`.

## 1. Inventory

| Component | State it keeps | Operations | Interacts with |
|---|---|---|---|
| Database reconciler, `controller/database_controller.go` | none of its own: the Database object (finalizer, phase, password), databases and accounts in MariaDB | reconcile, provision, clean up | informer cache, API server, MariaDB |
| Database handlers, `api/databases.go` | none | create, list, get, delete, change password | Database objects |
| Website reconciler, `controller/website_controller.go`, `uservolume.go`, `sftp_volumes.go` | Website object (finalizer, status), Deployment, Service, HTTPProxies, Secret, claims, SFTP Deployment, PowerDNS zone | reconcile, provision, suspend, delete | caches, API server, garbage collector, Deployment controller, PowerDNS |
| Website handlers, `api/websites.go` | none | create (wizard), update, delete, add and remove alias, suspend, unsuspend; checks of domain, quota, owner UID | Website objects |
| EmailDomain, `controller/emaildomain_controller.go`, `api/email_domains.go` | EmailDomain object, DKIM Secret | reconcile, create, spam and catch-all settings, rotate DKIM, delete with cascade | EmailAccounts, garbage collector |
| EmailAccount, `controller/emailaccount_controller.go`, `dovecot_passwd.go`, `api/emails.go` | EmailAccount object, Keycloak user, an (empty) Dovecot passwd Secret | reconcile, create, forwarding, quota, delete | Keycloak, EmailDomain |
| SFTPAccount, `controller/sftpaccount_controller.go` | a status | reconcile | none |
| Users, `api/users.go`, `panel-core/internal/keycloak/admin.go` | Keycloak users, namespaces | create, update (self or by an administrator), delete, suspend, impersonate, transfer resources | Keycloak, Websites, Databases |
| Hosting plans, `api/hostingplans.go` | plan objects, namespace labels, ResourceQuota, LimitRange | CRUD, assign | namespaces |
| DNS, `api/dns.go`, `panel-core/internal/powerdns/client.go` | PowerDNS zones and record sets | create and delete zones, create, update and delete records, secondary configuration | PowerDNS; the operator and the wizard create zones too |
| Backups, `api/backups.go`, `panel-backup/backup.sh` | Jobs, CronJobs, archives | create, restore, schedule, delete, status | Kubernetes Jobs |
| Backup import, `api/backup_import.go` | none | create Websites, Databases and EmailAccounts from an archive, past the checks of their handlers | the objects themselves |
| Certificates, cron jobs, firewall, PHP profiles, settings, file manager, authentication, monitoring, UI, images, Helm chart | see the components of PROJECT.json | | |

What is hard in this system:

- *Level-triggered reconcilers over stale caches.* A reconciler reads an informer
  copy that may be several versions, or a whole incarnation of the object, behind
  the API server. It writes with the copy's resourceVersion (so writes of stale
  copies are refused), but calls MariaDB, PowerDNS and unversioned creates with
  whatever the copy says.
- *No state between reconciles.* How far the last one got has to be read off the
  objects; the operator may stop between any two calls, and a call may fail after
  it took effect.
- *Two writers of the status.* The panel suspends sites and changes passwords by
  writing the status subresource that the reconciler writes too.
- *Deletion and re-creation under one name*, while finalizers, the garbage collector
  and caches are still busy with the previous incarnation.
- *Check-then-act handlers* in panel-core: domain uniqueness, quotas, owner UIDs,
  record sets, Keycloak users are read, decided on, and written with no lock.
- *Failures in the middle* of handlers that write to several stores.

The full list, each hazard at its line with the properties that would catch it, is in
`hazards` of PROJECT.json; those without a property have a note that says why.

What makes each component correct:

- *Database*: a deletion from a stale cache never drops data the owner re-created;
  nothing is left in MariaDB without an object; one password per incarnation; Ready
  means usable; every database becomes Ready and every deletion completes.
- *Website*: a suspension is not undone by a reconcile under way; a site is never
  rolled back to an older spec; suspended sites stop, the others end up served with
  their latest spec, deleted ones take their children along; a transfer hands over.
- *Email*: a user's edits survive the reconcilers' writes of whole objects; a domain ends
  up Active with a key of its own; an account ends up Active once its domain is, and with
  the label its domain finds it by; accounts go with their domain.
- *Several sites*: a domain is served by one site, a UID belongs to one owner, the quota
  holds, except for what overlapping requests, failed lists and the unchecked `UpdateWebsite`
  explain.
- *Accounts and plans*: who is disabled stays out; a suspension reaches every site but for
  those whose write was lost or overtaken; an assigned plan is in force.
- *DNS*: a record that is added displaces none; a zone with an account is changed by its
  user or an administrator only; a secondary follows; a zone the operator has reported
  exists.
- *Backups*: a finished job is shown as what it was (not modelled).

## 2. Modules and how they correspond to the code

| Module | What it is |
|---|---|
| `DatabaseController` | one Database resource: panel, API server, cache, reconciler, MariaDB |
| `DatabaseLifecycle` | abstract specification: what the owner of a database is promised |
| `DatabaseProperties` | type invariant, properties, refinement mapping, inductive invariant |
| `DatabaseProofs` | `LifecycleInv` and the refinement of `DatabaseLifecycle` |
| `DatabaseUseProofs` | on top of it: nothing orphaned, passwords kept, Ready means usable |
| `MCDatabase` | model for TLC |
| `WebsiteController` | one Website resource: panel, API server, caches, reconciler, children, controllers of Kubernetes |
| `WebsiteProperties` | type invariant, properties, inductive invariant |
| `WebsiteProofs` | theorems about `WebsiteController` |
| `MCWebsite` | model for TLC: the two kinds of spec it tries |
| `MailResource` | what the two mail reconcilers share: a versioned resource, its cache, a reconcile in progress |
| `EmailDomain`, `MCEmailDomain` | one EmailDomain with its DKIM Secret; its properties |
| `DomainPhases` | abstract specification: what an EmailDomain shows to the rest of the system |
| `EmailAccount`, `MCEmailAccount` | one EmailAccount, created or imported, and the deletion of its domain; its properties |
| `WebsiteRegistry` | the Websites of all users: domains, owner UIDs, quota |
| `Tenants` | extends `WebsiteRegistry` with Keycloak accounts, namespaces, suspension and plans |
| `TenantsProperties`, `MCTenants` | what `Tenants` is checked for, and the model for TLC |
| `DnsZones`, `DnsProperties`, `MCDns` | one DNS zone between panel, operator, wizard and secondary |
| `MailProofs` | lemmas about `MailResource` that the next two share |
| `EmailDomainProofs`, `EmailAccountProofs` | theorems about the two mail models |
| `TenantsProofs` | theorems about `Tenants` and `WebsiteRegistry` |
| `DnsProofs` | theorems about `DnsZones` |

### The object and its cache

The controllers keep the object as a sequence of versions, `log`. Its last element is
what the API server holds (`Current`), its first what the operator's informer serves
(`Cached`). A write appends a version unless it changes nothing; a watch event moves the
cache forward by one or more versions and queues the key. The cache never goes back, not
across a restart either: the new process lists a version at least as recent as the last
one served, and may still be behind.

The reconciler is a process with a program counter (`pc`, the next call it makes) and a
local copy of the object (`db`, `site`) with its resourceVersion (`rv`; in the website
model a flag, `fresh`, that it is the current one). A write is accepted only if that is
the API server's. A write fails by being refused, by being lost before it arrives, or by
being applied with the answer lost; every call has these outcomes, bounded by
`MaxDisturbances`. A version carries its incarnation (`uid`), since object names are
reused. `Return(TRUE)` is an error result (the key is queued again), `Return(FALSE)` a
nil result: what happens next is up to the watches.

### DatabaseController

| Code | Model |
|---|---|
| `Reconcile` (58-112): not found, deleted, finalizer, phase "", Ready, Creating with a password | `FirstCall`, `Reconcile`, `AddFinalizer`, `SetCreating` |
| `provisionDatabase` (152-228) | `Ping`, `PersistPassword`, `CreateSchema`, `CreateUser`, `AlterUser`, `Grant`, `FlushPrivileges`, one step per call |
| `updateReadyStatus`, `setErrorStatus` | `UpdateReadyStatus`, `SetErrorStatus` |
| `reconcileDelete` (115-149) | `SetTerminating`, `PingBeforeDrop`, `DropSchema`, `DropUser`, `RemoveFinalizer` |
| `CreateDatabase`, `DeleteDatabase` | actions of the same names |
| `UpdateDatabasePassword`: read, update, update status | `PasswordGet`, `PasswordUpdate`, `PasswordStatus`, `PasswordAbort` |

MariaDB is three variables: the incarnation whose data stand under a name, the password
of the account, the grants. `data[n]` remembers for whom the database was made, which the
program cannot see; the properties are about it. Passwords are numbers: a new one is one
that no status has shown.

`spec.name` and the resource name differ: the panel lower-cases and maps `_` to `-`, so
two incarnations of one resource may have different `spec.name`s. `Names` is the set of
them.

`DatabaseLifecycle` is the contract without caches, versions and retries: request,
retire, provide, drop, forget. Data of the present incarnation are dropped only after its
deletion was asked for, and an incarnation with data is not forgotten before that. The
mapping takes the API server's object for the incarnation and MariaDB's data as they are.

### WebsiteController

| Code | Model |
|---|---|
| `Reconcile` (85-167) | `FirstCall`, `AfterFinalizer`, `Reconcile`, `AddFinalizer` (goes on with the answer), `SetProvisioning` |
| `EnsureUserVolume`, `SyncSFTPVolumes` | `ReconcilePVC`, `SyncSFTPVolumes` (its failure is only logged) |
| `reconcileDeployment`, `desiredDeployment` | `ReconcileDeployment`: cached read, then create or versioned update; the selector keeps the owner it was created with |
| `reconcileService`, `reconcileSelfSignedCerts` | read through a cache (`seen`), created when missing there, refused if it exists all the same |
| `reconcileIngress`, `reconcileAliasHTTPProxies` | read from the API server; an existing HTTPProxy keeps its owner reference |
| `reconcileDNSZone` | `ReconcileDNSZone` (its failure is only logged) |
| `updateRunningStatus`, `setErrorStatus` | `UpdateRunningStatus`, `SetErrorStatus` |
| `reconcileSuspended` | `ScaleToZero`, `SetSuspendedStatus` |
| `reconcileDelete` | `SetTerminating`, `RemoveFinalizer` |
| `SetupWithManager` (For, Owns) | `WebsiteEvent`, `DeploymentEvent`, `CacheSync` |
| `api/websites.go`, `TransferResources`, `SuspendUser` per site | `CreateWebsite`, `UpdateWebsite` (also the alias handlers), `TransferResources`, `SuspendWebsite`, `UnsuspendWebsite`, `DeleteWebsite` |
| Kubernetes (external) | `Rollout`, `CollectDeployment`, `Collect`, `Restart` |

Specs are numbered in the order they are written; `content` is the part of a spec that
decides which children there are. A handler of the panel that reads and writes back
carries the resourceVersion it read, so a request that succeeds is one step and one that
is refused changes nothing.

### MailResource, EmailDomain, EmailAccount

`MailResource` has the object and cache of the previous models in a smaller form: of a
spec it keeps the number of the last edit, of the resourceVersion whether it is current
(`fresh`). It offers the two kinds of write that the reconcilers make: `Write`, whose
error ends the reconcile and queues it again, and `TryWrite`, whose outcome is ignored.
Both modules extend it.

| Code | Model |
|---|---|
| `EmailDomainReconciler.Reconcile` (48-100) | `Reconcile`, `AddFinalizer` (an error counts), `SetPending`, `UpdateActive` (an error does not) |
| `reconcileDKIM` (120-186) | `ReconcileDKIM`: any Secret in the cache will do; otherwise a create, which may collide |
| `setError`, `reconcileDelete` | `SetError`, `SetTerminating`, `RemoveFinalizer` |
| `SetupWithManager` (For, Owns Secret) | `WatchEvent`, `SecretEvent` |
| `CreateEmailDomain`, `UpdateSpamConfig`, `UpdateCatchAll`, `RotateDKIM`, `DeleteEmailDomain` | actions of the same names |
| `EmailAccountReconciler.Reconcile` (53-116) | `Reconcile`, `AddFinalizer`, `EnsureLabels`, `Validate` (reads account and domain again, from the caches), `SetCreating`, `UpdateActiveStatus`, `SetErrorStatus` |
| `CreateEmail` (150-280) | `CreateLogin`, `CheckDomain`, `CreateAccount` |
| `createResourcesFromArchive` (282-312) of `api/backup_import.go` | `ImportAccount` |
| cascade of `DeleteEmailDomain` (184-227) | `GetDomain`, `ListAccounts`, `DeleteListed`, `DeleteDomain` |

The import writes EmailAccount objects itself: no look at the domain, no user in Keycloak,
and no label of the domain, which the cascade deletion goes by, until the reconciler adds it. It
names them otherwise than `CreateEmail` does, so that the name of the modelled account is
either one that is imported or one that `CreateEmail` gives (`imported`).

The two are composed by an interface. `DomainPhases` says what an EmailDomain looks like
from outside: existence, deletion mark, phase. `EmailDomain` is shown to implement it
(`ImplementsDomainPhases`), and `EmailAccount` takes its actions for the environment, so
that the account is checked against every domain the domain reconciler can produce
without repeating that reconciler.

### WebsiteRegistry and Tenants

`WebsiteRegistry` is about the requests of panel-core. Several are in flight (`req`), each
a record of the next call and of what it has read so far. A call is a step; the last Get
and Update of a handler are one step, since the API server refuses the Update of an old
copy. Each request remembers which sites others have written since it arrived or, in a
suspension, since the list (`since`), whether others have written what it has read
(`stale`: the plans for `CreateWebsite`, the account for the handlers that write it back,
the namespace for `AssignPlan`), whether a list failed and the handler went on (`failed`),
and the sites whose write failed (`missed`). The program has no such fields; they are there
so that the properties can say when a check may miss something, rather than not say
anything. `from`, the site a request has its UID from, is another: the code forgets it.

| Code | Model |
|---|---|
| `CreateWebsite` (186-299) | `CreateWebsite` (the list of sites in `checkWebsiteQuota`), `CheckLimit` (its list of plans), `CheckDomains`, `ResolveOwnUID`, `ResolveMaxUID`, `StoreWebsite` |
| `AddAlias` | `AddAlias` (`checkDomainUniqueness`), `StoreAlias` (finds the site and its owner; an administrator passes) |
| `RemoveAlias`, `UpdateWebsite` (checks no domain), `DeleteWebsite`, `TransferResources` | actions of the same names |
| the operator's part | `OperatorStatus`, `OperatorDone`; in detail in `WebsiteController` |
| `UpdateUser`, `SuspendUser`, `UnsuspendUser`, `DeleteUser` | read of the account, then `PutUser` or `DeleteAccount`, `DeleteNamespace` |
| `setUserWebsitesPhase` | `ListWebsites`, `SetPhase` per site, `PhasesSet` |
| `UpdateCurrentUser`, `CreateUser`, plan handlers | actions of the same names |
| `AssignPlan` | `AssignPlan`, `LabelNamespaceWithPlan`, `ApplyResourceQuota`, `ApplyLimitRange`, `PlanAssigned` |

Keycloak has no versions: `PutUser` writes the account as it was read. A name that is
registered again is another account (`id`), and a write to the old one is refused.

### DnsZones

One zone, which may be deleted and created again under its name (`id`). A handler reads
the zone and checks its account (`GetZone` with `canAccessZone`), writes (`Write`, or
`WriteFails`), and announces the change (`Notify`); `CreateRecord` sends the whole record set back with the
new record in it. The operator makes sure that the zone exists (`EnsureGet`,
`EnsureCreate`), the wizard creates it (`WizardCreateZone`). Record names are sequences of
labels with or without a final dot, and `resolveRecordName` does to them what the code
does to strings. Of the record types A and CNAME are kept: the one may have several
records, the other excludes all others of its name, which PowerDNS enforces (`Consistent`).
`UpdateSecondaryConfig` stores whether transfers are allowed; the masters it answers are
stored nowhere.

## 3. Runs, bounds and fairness

| Run | Bounds | Result |
|---|---|---|
| `database_safety` | 2 names, 2 incarnations, 1 password request, 2 disturbances; 1.2 M states | `TypeOK`, `NoOrphans`, `UndisturbedReadyIsUsable`, `LifecycleInv`, `LifecycleSpec`, `PasswordIsKept` hold |
| `database_liveness` | 1 name, 2 incarnations, 1 request, 2 disturbances; 0.5 M states | `DeletionCompletes`, `BecomesReady` hold |
| `database_ready` | 1 incarnation, 1 disturbance | `ReadyMeansUsable` violated (finding 1) |
| `database_password` | 1 incarnation, 1 password change | `PasswordChangeReachesMariaDB` violated (finding 2) |
| `website_safety` | 2 users, plain and full specs, 1 incarnation, 1 disturbance; 1.2 M states | `TypeOK`, `SiteInv`, `SuspensionStands`, `NoRollback` hold |
| `website_liveness` | 1 user, plain specs, 1 incarnation, 2 disturbances; 0.46 M states | `SuspendedSiteStops`, `SiteConverges`, `DeletionCompletes` hold |
| `website_transfer` | 2 users, 1 disturbance (the transfer itself) | `TransferCompletes` violated (finding 3) |
| `website_recreate` | 2 incarnations, no disturbance | `RunningIsRouted` violated (finding 4) |
| `email_domain` | 2 incarnations, 2 edits or rotations, 2 faults; 0.27 M states | `TypeOK`, `EditsStay`, `ImplementsDomainPhases`, `DomainConverges`, `DeletionCompletes` hold |
| `email_account` | 2 incarnations, created or imported, 1 edit, 3 changes of the domain, 1 fault; 2.0 M states | `TypeOK`, `EditsStay`, `AccountConverges`, `AccountsGoWithDomain`, `DeletionCompletes` hold |
| `tenants` | 2 users, 2 domains, 2 plans, 3 requests, 2 at a time, 1 fault; 1.9 M states | `TypeOK`, `AssignedPlanApplies`, `DomainsServedOnce`, `UidsFitOwners`, `QuotaHolds`, `DisabledStaysOut`, `SuspensionReachesSites` hold |
| `dns_zone` | 2 users, one an administrator, 2 incarnations of the zone, 4 requests, 2 at a time, 1 fault; 0.55 M states | `TypeOK`, `NoDuplicateRecords`, `SecondaryFollows`, `EnsuredZoneExists`, `CreateOnlyAdds`, `AccountsKeepTheirZones` hold |

*Bounds.* `MaxIncarnations` bounds how often the resource is created: two are what it
takes for a stale copy to belong to another incarnation. `MaxDisturbances` bounds failed
and lost calls, restarts and the panel's changes together: one is enough for every single
failure at every call, with every cache lag; two for a failure during the recovery from
another, or for a failure during a suspension. Reconciles, retries, watch events, cache
lag and version numbers are not bounded. The website safety run has one incarnation and
one disturbance; its three main properties are proved for all values. In the liveness
runs two disturbances matter: a single lost write is repaired by the watch event of the
write before it, also if the code did not retry. `website_liveness` has plain sites only, so
that what `SiteConverges` and `DeletionCompletes` say of alias proxies and certificates is not
exercised there.

In the request models every hazard takes two requests that overlap and, at most, a third
before them: the deletion of a site whose UID is then looked for, a site to be suspended.
`tenants` starts with any plans, so that two assignments of different plans fit. A zone
that changes hands between check and write takes four requests (create, check, delete,
create). The three changes of the domain in `email_account` let it appear, become Active
and be deleted, or be deleted and appear again, while an account is being created or
imported. Users, requests and domains are interchangeable in `tenants`, requests in
`dns_zone`; the runs use that symmetry, and check no liveness.

*What the request properties say.* Two overlapping requests can give a domain to two
sites, a UID to two owners and a plan one site too many, lift a suspension or leave a site
of a suspended user running: none of it is prevented by the code, and the hazards name the
lines. The properties do not deny these races; they say that nothing else does the damage.
`DomainsServedOnce` is about every step of the model: only `UpdateWebsite`, which does not
check, and a `CreateWebsite` or `AddAlias` whose list failed, or that the other site was
written after, give a site the domain of another. `SuspensionReachesSites` exempts a
suspension whose list failed altogether, and otherwise single sites: those whose own write
failed and those written since the list, so that a loop that stops at the first error would
be found. The excuses are somewhat wider than the gap itself, since `since` counts from the
arrival of a request, not from its list (but for the suspension).
`UidsFitOwners` excuses a request only if somebody wrote the very site it has the UID from. An earlier form
excused less, passed with two domains and turned out to be unprovable: with three, a site
that was transferred away before the request arrived keeps the UID of its former owner, the
request takes that UID from another of the owner's sites, that one is deleted, and the new
site shares its UID with the transferred one only. The form that is checked now is proved.

*Deadlock* is not checked, because the system really stops: once nothing is queued and
the panel makes no request, nobody has anything to do.

*Fairness.* Weak fairness of the operator's worker, of each watch, and of the Deployment
controller and garbage collector: controller-runtime keeps a worker running for a queue
that is not empty, requeues failed keys with a backoff, and informers reconnect. Nothing
is assumed of the panel: no request has to come, and none has to be finished; `tenants`
and `dns_zone` state no fairness at all. Failures
stop eventually because they are bounded; that is what "once failures stop" means in the
properties.

Every property has a mutant, an operator placed before the definition it replaces and
marked `Mutant:`; it changes the code the way a plausible bug would, and TLC then finds
the property violated.

## 4. Proofs

Every invariant, action property and refinement that a passing run checks is also a theorem
here, for every value of the constants. What is left to TLC alone is liveness.

*Assumptions.* `ConstantsAssumption` (some name; the bounds are naturals), `SiteConstants`
(some user; contents have their type; bounds), `MailConstants` and `AccountConstants`
(bounds), `DnsConstants` (administrators are users; names are sequences of labels; A is a
record type, and the address and host that the operator and the wizard write exist; bounds),
`RegistryConstants` (finitely many domains, which counting sites against a quota takes; plans
are numbers, limits have their type; bounds) and `NobodyIsNoRequest` (the marker for "no
request" is none). TLC evaluates each of them.

| Theorem | Says |
|---|---|
| `DatabaseProofs!TypeCorrect` | `Spec => []TypeOK` |
| `DatabaseProofs!LifecycleInvariant` | `Spec => []LifecycleInv` |
| `DatabaseProofs!LifecycleImplemented` | `Spec => LifecycleSpec`: the controller implements `DatabaseLifecycle` |
| `DatabaseUseProofs!KnownInvariant` | `Spec => []KnownInv` |
| `DatabaseUseProofs!NothingOrphaned` | `Spec => []NoOrphans` |
| `DatabaseUseProofs!PasswordsAreKept` | `Spec => PasswordIsKept` |
| `DatabaseUseProofs!ReadyIsUsable` | `Spec => []UndisturbedReadyIsUsable` |
| `WebsiteProofs!SiteTypeCorrect`, `SiteInvariant` | `Spec => []TypeOK`, `Spec => []SiteInv` |
| `WebsiteProofs!SuspensionsStand`, `SitesNeverRollBack` | `Spec => SuspensionStands`, `Spec => NoRollback` |
| `EmailDomainProofs!DomainInvariant`, `DomainTypeCorrect` | `Spec => []DomainInv`, `Spec => []TypeOK` |
| `EmailDomainProofs!DomainEditsStay` | `Spec => EditsStay` |
| `EmailDomainProofs!DomainPhasesImplemented` | `Spec => ImplementsDomainPhases` |
| `EmailAccountProofs!AccountInvariant`, `AccountTypeCorrect` | `Spec => []AccountInv`, `Spec => []TypeOK` |
| `EmailAccountProofs!AccountsLeaveWithDomain`, `AccountEditsStay` | `Spec => []AccountsGoWithDomain`, `Spec => EditsStay` |
| `DnsProofs!DnsInvariant`, `DnsTypeCorrect` | `Spec => []DnsInv`, `Spec => []TypeOK` |
| `DnsProofs!RecordsNeverDuplicate`, `SecondaryUpToDate`, `EnsuredZonesExist` | `NoDuplicateRecords`, `SecondaryFollows`, `EnsuredZoneExists` are invariants |
| `DnsProofs!ZonesOfAccountsAreSafe`, `CreateRecordOnlyAdds` | `Spec => AccountsKeepTheirZones`, `Spec => CreateOnlyAdds` |
| `TenantsProofs!TenantsInvariant`, `TenantsTypeCorrect` | `Spec => []TenantsInv`, `Spec => []TypeOK` |
| `TenantsProofs!AssignedPlansApply` | `Spec => []AssignedPlanApplies` |
| `TenantsProofs!DomainsAreServedOnce`, `UidsAlwaysFit`, `QuotaAlwaysHolds` | `DomainsServedOnce`, `UidsFitOwners`, `QuotaHolds` |
| `TenantsProofs!SuspensionsReachSites`, `TheDisabledStayOut` | `SuspensionReachesSites`, `DisabledStaysOut` |

*Databases, the lifecycle.* The dangerous step is a DROP by a reconciler whose copy says
"deleted" while the API server already holds the next incarnation. It is harmless because
that next incarnation has no data yet: MariaDB holds nothing later than the incarnation the
reconciler works on (`DataIsKnown`). That needs the copy to be no newer than the cache
(`CopyIsOld`), versions to come in order (`LogOrdered`: incarnations grow, a deletion mark
and a disappearance are for good), and the provisioning branch to work on the present
incarnation although its copy is old (`CallFitsCopy`). The last is the subtle one: a copy
with a finalizer and no deletion mark belongs to an object that nobody can have removed,
since only this operator removes the finalizer, and only after it has seen the mark
(`SeenIsHeld`). `LifecycleInv` is the conjunction; every action preserves each part, and
under it every step is a step of the abstract specification or a stutter.

*Databases, their use.* `KnownInv` adds to `LifecycleInv` that an incarnation keeps its
`spec.name`, that an incarnation with the finalizer is the one in the cache and in the
reconciler's hands (`SeenIsLast`: the operator put the finalizer there itself, from a current
copy), and that a current copy has the object's password (`PasswordKnown`). Two lemmas say
what a step can do at all: `LogMoves` (nothing, a rewrite of the present incarnation, a new
one, or a watch event) and `CopyMoves` (keep, renew, patch or read the copy); each part of
the invariant is then a matter of combining them.
`PasswordIsKept` follows at once: an accepted write carries the password that is there, or
there was none. For `NoOrphans` the finalizer has to be mentioned (`Owned`: whatever stands in
MariaDB is that of the present object, and the object has its finalizer; after each DROP the
dropped is gone), since it is what keeps the object from going first.
`UndisturbedReadyIsUsable` needs most (`UsableInv`): Reconcile takes Creating with a password
for provisioned, so the proof has to show that, undisturbed, this state is left by the same
reconcile that brings it about (`PhaseFits`), that what each call finds in MariaDB is what the
calls before it made (`Progress`), and that an old copy under way provisions the same password
(`OnePassword`). A DROP cannot hit a Ready database: with its finalizer it is the incarnation
in the reconciler's hands (`SeenIsLast`), whose copy then would be deleted.

*Websites.* A status write can lift a suspension only if it is accepted, so its copy is
the current object, so the copy is Suspended, which contradicts the branch the reconciler
is in: `CopyIsKnown` says that a fresh copy is the current object and that the branch fits
the copy. Rollback is excluded by order: the spec of the running Deployment is at most
that of the reconciler's copy, which is at most the cache's, which is at most the API
server's (`SpecsInOrder`). The middle comparison is why a mixture of cached and direct
reads would break it, which is what the mutant of `NoRollback` does.

*Mail.* Both reconcilers write whole objects. `Synced` (in `MailProofs`, for every set of
phases and calls) says that a copy under the current resourceVersion agrees with the object in
all but the status, which is why an accepted write takes back no edit. For `AccountsGoWithDomain`
the deletion has to be followed from its list on: `StrayInv` says that an account nobody has
missed has a domain that is not being deleted, is on the list while the accounts are deleted,
and is gone when the domain's turn comes; no write of the reconciler brings it back, since an
accepted one has the deletion mark of the object. `ImplementsDomainPhases` needs to know from which
phase each status is written: `PhaseInv` ties the call to the deletion mark and the phase of the
copy, and a fresh copy to the object.

*DNS.* PowerDNS has no versions, so the invariant is about what the requests carry: the user
was checked against the zone with that number (`Checked`; numbers are not used again), no record
is sent twice (`SentDistinct`), and a request nobody has overtaken sends back all the set has
(`Complete`). For `AccountsKeepTheirZones` a lemma, `WhoChanges`, goes through all steps: the
operator and the wizard only create a zone where there is none. `SecondaryFollows` is inductive
with the request that will announce named (`Announced`).

*Tenants.* `TenantsInv` states of each request in flight what it may count on from the call that
established it: the domains it checked are free (`Free`), it counted no less than the sites there
are (`Counted`) and there is room for one (`Within`), its UID fits (`Fitting`), the sites listed
are written, failed or still on the list (`Reached`), and so on, each for what nobody has
written since. The central lemma, `Unharmed`, shows that whatever other
requests do, by marking what they write (`since`, `stale`) they leave that intact; then every
step is split into what it does to its own request and what it does to the others. The
properties are what the last call of a request makes of it. `DomainsServedOnce` speaks of all
steps, so that `Gains` shows of each that it gives no site a domain, but for those of the three
handlers. That the greatest UID is greatest
takes a fact about finite sets, obtained from the well-foundedness of strict inclusion.

Each inductive invariant was an invariant of the corresponding TLC model before it was proved.

*Only model-checked*: liveness (`DeletionCompletes`, `BecomesReady`, `SuspendedSiteStops`,
`SiteConverges`, `DomainConverges`, `AccountConverges`), which TLAPS does not support here. The
properties of the four runs that find a violation do not hold.

## 5. Where the code and its own words disagree

1. `controller/database_controller.go:101` takes "Creating with a password" for
   "provisioned". The password is stored before the first CREATE, so an operator that
   restarts in between reports Ready, "Database and user created successfully" (245),
   with nothing in MariaDB. `UndisturbedReadyIsUsable` shows that, apart from restarts,
   lost API calls and password changes, Ready does mean usable.
2. `api/databases.go:255-256`: "The operator will detect the change and update MariaDB
   accordingly." The reconciler returns at once for a Ready database with a password.
3. `api/users.go:556` "Transfers resources from one user to another by updating
   hosting.panel/user labels." The owner is part of the Deployment's immutable selector:
   the update of a transferred site is refused for ever, and the site stays in Error.
4. `controller/website_controller.go:409` "reconcileIngress ensures a Contour HTTPProxy
   resource exists for the website's domains." A site re-created right after its deletion
   adopts the old HTTPProxy without owning it; the garbage collector deletes it, nothing
   watches it, and the Running site has no route until something else queues it:
   controller-runtime's periodic resync, ten hours by default, at the latest.

Seen on the way, not turned into runs:

- `api/dns.go:156-159`: "Regular users can only access zones they own", "ListZones already
  filters by ownership so the user can only reach zones they can see." The zones of the
  operator and the wizard have no account: `ListZones` shows them to administrators only, and
  `canAccessZone` lets everybody in. `AccountsKeepTheirZones` is about the other zones.
- `api/websites.go:765-766`: "verifies that a domain (primary or alias) is not already used by
  any other website in the cluster." `UpdateWebsite` (406-412) replaces the aliases without
  that check, so that no overlap is needed for two sites to serve one domain.
- `api/users.go:438`: "Disables the Keycloak account and sets all user's Website CRDs to
  Suspended phase." The outcome of each write is thrown away (513): a site that the operator
  writes between the list and the write stays Running. A failed list (503) leaves all of
  them. The request reports success.
- `controller/emailaccount_controller.go:214`: "Email account provisioned successfully". The
  import (`api/backup_import.go:306`) stores accounts and makes no Keycloak user, which is what
  a mail user logs in by, and `DeleteUser` (`api/users.go:369`) deletes that of any account;
  they are Active all the same. `CreateEmail` makes the user before it checks the domain and
  the quota, and leaves it behind when they fail.
- `api/users.go:669`: `UpdateCurrentUser` writes a Keycloak user in which only names and
  email are set. `Enabled` is sent as false, so that a user who edits the own profile is
  disabled, unless Keycloak refuses the empty user name sent with it; `Tenants` has it as
  the code has it.
- `api/email_domains.go:252`: "Clear DKIM secret name in status to trigger re-generation by
  operator". The reconciler finds the Secret and keeps the key.
- `api/users.go:417`: `ensureNamespace` is never called. `AssignPlan` needs the namespace and
  fails unless somebody has made it.
- `api/hostingplans.go:329-466`: a plan without limits leaves the ResourceQuota and LimitRange
  of the plan before in force; deleting a plan does too.
- `api/websites.go:824`: the quota is that of the first plan there is, and counts the sites
  of all users.
- `api/websites.go:737-760`: the UID of a user whose sites are all gone is given to the
  next user, whose files may meet those the first one left on a volume.
- `api/users.go:358`: the websites of a deleted user stay, and go to the next user registered
  under the name.
- `api/email_domains.go:216`: the Keycloak users of deleted accounts stay.

Nobody sets the phase `Pending` that the CRDs of websites, databases and accounts list;
HTTPProxies of removed aliases stay until the site is deleted; the comment in
`controller/sftp_volumes.go` that `SyncSFTPVolumes` is not called from the website
reconciler is contradicted by `website_controller.go:131`.

## 6. Abstractions and what is left out

- One resource name per controller model; what several resources share is in `Tenants`. The
  work queue serialises the reconciles of one key.
- One operator process. Leader election is off by default and two may overlap during a
  rollout; see the hazards.
- Conditions, messages, reasons, usage figures and pod replica counts above one are left
  out; a phase is what the code compares.
- A MariaDB call, and the read and the write of one child, are one step. Between the
  read of a HTTPProxy or claim and its write nobody but this operator and the garbage
  collector acts on it. A claim or the SFTP Deployment that the cache has not seen makes
  a call fail; it is counted among the failures.
- controller-runtime queues every object again after its resync period, ten hours by default.
  The models have no such event: what converges does so without it, and finding 4 lasts until
  it.
- PowerDNS and the SFTP Deployment are taken to be configured.
- Of the create wizard, the Website and its DNS zone are modelled, the EmailDomain is not.
- Of mail: `accountCount`, the Dovecot passwd Secret (no account has the password hash it
  looks for), the owner's label (which has no effect on the account's life), the users in
  Keycloak (which nothing else in this model depends on). The import creates one account of a given name; what it does for Databases
  is `CreateDatabase`, and its Websites lack fields that the CRD requires
  (`helm-chart/crds/website-crd.yaml:121-123`) and are refused.
- Of users: passwords, roles, the volume made at registration, impersonation, the transfer
  of databases and email domains. Of plans: amounts, and the quotas of databases and mail
  accounts, which are the same check on another list.
- Of DNS: TTLs, serials, comments and types other than A and CNAME.
- In `Tenants` a site goes by its primary domain; two domains that differ in a dot and a
  hyphen have one object name, and the second is refused by the API server.
- Authorization decides whether a request is made at all; requests in the models are
  those that were allowed.

Not modelled: backups and schedules (Jobs and a shell script), the parsing of archives,
certificates, cron jobs, firewall, PHP profiles and settings (one read-modify-write of one
object per request), the SFTPAccount reconciler (provisions nothing), the file manager,
authentication, monitoring, the UI and the deployment files. Each has its reason in
PROJECT.json.

## 7. Plan

1. The same theorems from fewer assumptions where it says more about the system: `NoOrphans`
   for the names whose MariaDB calls did not fail, rather than for runs without any failure.
2. The safety half of convergence (what a settled site or account looks like when nothing is
   queued and no event is pending), which is an invariant and could be proved.
3. A second operator process in the database model (leader election is off by default).
4. Backups, if the status shown for Jobs and the retention in the script are worth it.
