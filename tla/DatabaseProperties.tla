------------------------- MODULE DatabaseProperties -------------------------
(***************************************************************************)
(* What DatabaseController is checked for.                                 *)
(***************************************************************************)
EXTENDS DatabaseController

PCs == {"idle", "finalize", "create", "ping", "persist", "createDatabase",
        "createUser", "alterUser", "grant", "flush", "ready", "fail",
        "terminate", "pingDrop", "dropDatabase", "dropUser", "unfinalize"}

\* Every variable has its type; the cache is never empty or ahead of the API
\* server.
TypeOK ==
    /\ log \in Seq(Version)
    /\ revision \in Nat
    /\ Len(log) \in 1 .. revision
    /\ queued \in BOOLEAN
    /\ pc \in PCs
    /\ db \in Version
    /\ rv \in 0 .. revision
    /\ data \in [Names -> Nat]
    /\ users \in [Names -> Nat]
    /\ grants \in SUBSET Names
    /\ preq \in [Requests -> [step: {"idle", "update", "status"}, rv: Nat,
                              phase: Phases]]
    /\ passwords \in Nat
    /\ sqlFaults \in Nat /\ apiFaults \in Nat
    /\ crashes \in Nat /\ changes \in Nat
    /\ Disturbances <= MaxDisturbances

\* The promise of DatabaseLifecycle, with the API server's object as the
\* incarnation: a DROP of a reconcileDelete that works from a stale cache
\* never hits a database the owner has re-created, and no object leaves the
\* API server behind the reconciler's back while its data stand.
Lifecycle == INSTANCE DatabaseLifecycle WITH
    inc <- Current.uid,
    live <- Current.exists,
    retiring <- Current.exists /\ Current.del,
    data <- data
LifecycleSpec == Lifecycle!Spec

\* As long as no MariaDB call failed, what stands in MariaDB belongs to the
\* object in the API server: reconcileDelete drops both the database and
\* the account before it lets the object go, through restarts, lost API
\* calls, stale caches and re-creation under another spec.name.
NoOrphans ==
    sqlFaults = 0 =>
        \A n \in Names :
            data[n] # 0 \/ users[n] # 0 =>
                Current.exists /\ Current.name = n /\ data[n] \in {0, Current.uid}

\* A Ready database can be used: it stands in MariaDB and its account has
\* the password that the status shows (database_controller.go:245,
\* "Database and user created successfully").
ReadyMeansUsable ==
    Current.exists /\ ~Current.del /\ Current.phase = "Ready" =>
        /\ data[Current.name] # 0
        /\ users[Current.name] = Current.pw
        /\ Current.name \in grants

\* ReadyMeansUsable holds, whatever MariaDB does and however stale the
\* cache, unless the operator restarts, an API call is lost or the panel
\* changes the password: only these can separate the password in the status
\* from the provisioning that belongs to it (database_controller.go:101).
UndisturbedReadyIsUsable ==
    crashes = 0 /\ apiFaults = 0 /\ changes = 0 => ReadyMeansUsable

\* Once the status of an incarnation shows a password, only the panel's
\* password handler replaces it: no retry, restart or stale cache makes the
\* reconciler publish a second generated password
\* (database_controller.go:185-187).
PasswordIsKept ==
    [][(Current.pw # 0 /\ Current'.uid = Current.uid /\ Current'.pw # Current.pw)
          => \E r \in Requests : PasswordStatus(r)]_vars

\* A deletion that was asked for completes: reconcileDelete goes on until
\* the finalizer is gone, also when MariaDB is down.
DeletionCompletes ==
    \A u \in 1 .. MaxIncarnations :
        (Current.uid = u /\ Current.del) ~> (Current.uid # u \/ ~Current.exists)

\* Every database that is not deleted becomes Ready once failures stop,
\* from any phase and any cache state.
BecomesReady ==
    \A u \in 1 .. MaxIncarnations :
        (Current.uid = u /\ Current.exists)
            ~> (Current.uid # u \/ ~Current.exists \/ Current.del
                \/ Current.phase = "Ready")

\* A password that the panel writes to a Ready database reaches its account
\* in MariaDB (databases.go:256, "The operator will detect the change and
\* update MariaDB accordingly").
PasswordChangeReachesMariaDB ==
    \A n \in Names :
        (Current.exists /\ Current.name = n /\ Current.phase = "Ready" /\ users[n] # 0)
            ~> (~Current.exists \/ Current.del \/ users[n] = Current.pw)

-----------------------------------------------------------------------------
(***************************************************************************)
(* Why LifecycleSpec holds: an inductive invariant.                        *)
(***************************************************************************)

\* Version w can come after version v: incarnations only grow, and within
\* one the deletion mark, the finalizer and the disappearance are for good.
Follows(v, w) ==
    /\ v.uid <= w.uid
    /\ v.uid = w.uid => /\ v.del => w.del
                        /\ w.exists => v.exists
                        /\ v.fin /\ w.exists => w.fin

\* The versions the watch has yet to deliver are in order, and an object
\* that exists belongs to a numbered incarnation.
LogOrdered ==
    /\ \A i, j \in 1 .. Len(log) : i <= j => Follows(log[i], log[j])
    /\ Current.exists => Current.uid > 0

\* An incarnation that the operator can still see provisioned, with its
\* finalizer and not deleted, is the present one: only the operator removes
\* the finalizer, and only after it has seen the deletion.
SeenIsHeld ==
    \A i \in 1 .. Len(log) :
        log[i].exists /\ log[i].fin /\ ~log[i].del =>
            Current.uid = log[i].uid /\ Current.exists

ProvisionPCs == {"create", "ping", "persist", "createDatabase", "createUser",
                 "alterUser", "grant", "flush", "ready", "fail"}
CleanupPCs == {"terminate", "pingDrop", "dropDatabase", "dropUser", "unfinalize"}

\* The reconciler's copy is no newer than the cache, and it is the present
\* object if its resourceVersion is current.
CopyIsOld ==
    pc # "idle" =>
        /\ db.exists
        /\ Follows(db, Cached)
        /\ rv = revision => /\ Current.exists
                            /\ Current.uid = db.uid
                            /\ Current.del = db.del
                            /\ Current.fin = db.fin

CallFitsCopy ==
    /\ pc = "finalize" => ~db.del
    /\ pc \in ProvisionPCs => /\ db.fin
                              /\ ~db.del
                              /\ Current.uid = db.uid
                              /\ Current.exists
    /\ pc \in CleanupPCs => db.del

\* MariaDB holds no data of an incarnation the operator has not seen yet,
\* nor of one later than the incarnation it works on; and the incarnation
\* whose data it holds keeps its finalizer as long as it exists.
DataIsKnown ==
    \A n \in Names :
        /\ data[n] <= Cached.uid
        /\ pc # "idle" => data[n] <= db.uid
        /\ data[n] = Current.uid /\ Current.exists => Current.fin

\* The inductive invariant behind LifecycleSpec.
LifecycleInv ==
    /\ TypeOK
    /\ LogOrdered
    /\ SeenIsHeld
    /\ CopyIsOld
    /\ CallFitsCopy
    /\ DataIsKnown
=============================================================================
