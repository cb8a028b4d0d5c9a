------------------------- MODULE DatabaseController -------------------------
(***************************************************************************)
(* The life of one Database custom resource: the panel-core handlers that  *)
(* create it, delete it and change its password, the Kubernetes object the *)
(* API server keeps for it, the operator's reconciler that reads the       *)
(* object through a lagging informer cache, and the databases and accounts *)
(* the reconciler keeps in MariaDB.                                        *)
(*                                                                         *)
(* One resource name (the worker queue serialises per name).  Its          *)
(* incarnations may carry different spec.name values: the panel derives    *)
(* the resource name from spec.name by lower-casing and by mapping "_" to  *)
(* "-", which is a function but not one-to-one.  Names is the set of       *)
(* spec.names behind this resource name; no other resource uses them.      *)
(***************************************************************************)
EXTENDS Naturals, Sequences

CONSTANTS
    Names,            \* spec.names that map to this resource name
    Requests,         \* concurrent "change password" requests of the panel
    MaxIncarnations,  \* bound: how often the resource is created
    MaxDisturbances   \* bound: failed MariaDB calls, lost API calls,
                      \* operator restarts and password changes, together

ASSUME ConstantsAssumption ==
    /\ Names # {}
    /\ MaxIncarnations \in Nat
    /\ MaxDisturbances \in Nat

VARIABLES
    log,        \* versions of the object, from the one in the operator's
                \* informer cache to the one the API server holds
    revision,   \* resourceVersion of the API server's version
    queued,     \* work queue: the resource's key waits for a reconcile
    pc,         \* reconciler: the next call it makes
    db,         \* reconciler: its local copy of the object
    rv,         \* reconciler: resourceVersion of that copy, 0 if none
    data,       \* MariaDB: incarnation whose database stands under a name
    users,      \* MariaDB: password of the account usr_<name>, 0 if none
    grants,     \* MariaDB: names whose account was granted its database
    preq,       \* panel: the password requests in flight
    passwords,  \* how many passwords a status has shown so far
    sqlFaults, apiFaults, crashes, changes  \* how often each happened

cluster == <<log, revision>>
worker  == <<queued, pc, db, rv>>
mariadb == <<data, users, grants>>
bounds  == <<passwords, sqlFaults, apiFaults, crashes, changes>>
vars    == <<cluster, worker, mariadb, preq, bounds>>

Disturbances == sqlFaults + apiFaults + crashes + changes

-----------------------------------------------------------------------------
(***************************************************************************)
(* The object and its versions.  A version says which incarnation (uid) it *)
(* belongs to and whether the object exists; the last version of a deleted *)
(* incarnation is the one with exists = FALSE.                             *)
(***************************************************************************)
Phases == {"", "Creating", "Ready", "Error", "Terminating"}

Version == [uid: Nat, exists: BOOLEAN, name: Names, fin: BOOLEAN,
            del: BOOLEAN, phase: Phases, pw: Nat]

\* What a watch or a read yields before the first incarnation.
NoVersion == [uid |-> 0, exists |-> FALSE, name |-> CHOOSE n \in Names : TRUE,
              fin |-> FALSE, del |-> FALSE, phase |-> "", pw |-> 0]

Cached == log[1]
Current == log[Len(log)]

Publish(v) == /\ log' = Append(log, v)
              /\ revision' = revision + 1

\* A write that changes nothing yields no new version.
Store(v) == IF v = Current THEN UNCHANGED cluster ELSE Publish(v)

\* The API server accepts a write that carries the current resourceVersion.
Accepted(v) == /\ rv = revision
               /\ Store(v)

\* A write of the reconciler that fails: refused as stale, or lost on the
\* way there (no new version) or on the way back (applied all the same).
Failed(v) ==
    \/ /\ rv # revision
       /\ UNCHANGED <<cluster, apiFaults>>
    \/ /\ Disturbances < MaxDisturbances
       /\ apiFaults' = apiFaults + 1
       /\ \/ UNCHANGED cluster
          \/ Accepted(v)

\* A password nobody has used: the random one of generatePassword, or the
\* one a user picks.  It is used up once the API server has stored it.
FreshPassword == passwords + 1
CountPassword ==
    passwords' = IF Current'.pw > passwords THEN Current'.pw ELSE passwords

\* Update writes metadata and spec, Status().Update writes the status.
WithFinalizer(fin) == [Current EXCEPT !.fin = fin]
WithStatus(phase, pw) == [Current EXCEPT !.phase = phase, !.pw = pw]

-----------------------------------------------------------------------------
(***************************************************************************)
(* Init                                                                    *)
(***************************************************************************)
NoRequest == [step |-> "idle", rv |-> 0, phase |-> ""]

Init ==
    /\ log = <<NoVersion>>
    /\ revision = 1
    /\ queued = FALSE
    /\ pc = "idle"
    /\ db = NoVersion
    /\ rv = 0
    /\ data = [n \in Names |-> 0]
    /\ users = [n \in Names |-> 0]
    /\ grants = {}
    /\ preq = [r \in Requests |-> NoRequest]
    /\ passwords = 0
    /\ sqlFaults = 0
    /\ apiFaults = 0
    /\ crashes = 0
    /\ changes = 0

-----------------------------------------------------------------------------
(***************************************************************************)
(* The reconciler                                                          *)
(***************************************************************************)

\* Mutant: provisions before the finalizer is in place.
FirstCallUnfinalized(v) ==
    IF ~v.exists                             THEN "idle"
    ELSE IF v.del                            THEN "terminate"
    ELSE IF v.phase = ""                     THEN "create"
    ELSE IF v.phase = "Ready" /\ v.pw # 0    THEN "idle"
    ELSE IF v.phase = "Creating" /\ v.pw # 0 THEN "ready"
    ELSE "ping"

\* The call a reconcile of version v makes first; "idle": it returns at once.
FirstCall(v) ==
    IF ~v.exists                             THEN "idle"
    ELSE IF v.del                            THEN "terminate"
    ELSE IF ~v.fin                           THEN "finalize"
    ELSE IF v.phase = ""                     THEN "create"
    ELSE IF v.phase = "Ready" /\ v.pw # 0    THEN "idle"
    ELSE IF v.phase = "Creating" /\ v.pw # 0 THEN "ready"
    ELSE "ping"

\* The reconcile ends; the key goes back to the queue if it failed.
Return(requeue) ==
    /\ pc' = "idle"
    /\ db' = NoVersion
    /\ rv' = 0
    /\ queued' = (queued \/ requeue)

\* It goes on with another call and the copy it has.
Continue(call) ==
    /\ pc' = call
    /\ UNCHANGED <<db, rv, queued>>

\* It goes on with the object as the API server answered it.
ContinueFresh(call) ==
    /\ pc' = call
    /\ db' = Current'
    /\ rv' = revision'
    /\ UNCHANGED queued

\* Mutant: the copy of a stale cache claims to be the current version.
ReconcileUnversioned ==
    /\ pc = "idle"
    /\ queued
    /\ queued' = FALSE
    /\ pc' = FirstCall(Cached)
    /\ IF pc' = "idle" THEN db' = NoVersion /\ rv' = 0
                       ELSE db' = Cached /\ rv' = revision
    /\ UNCHANGED <<cluster, mariadb, preq, bounds>>

Reconcile ==
    /\ pc = "idle"
    /\ queued
    /\ queued' = FALSE
    /\ pc' = FirstCall(Cached)
    /\ IF pc' = "idle" THEN db' = NoVersion /\ rv' = 0
                       ELSE db' = Cached /\ rv' = revision + 1 - Len(log)
    /\ UNCHANGED <<cluster, mariadb, preq, bounds>>

AddFinalizer ==
    /\ pc = "finalize"
    /\ \/ /\ Accepted(WithFinalizer(TRUE))
          /\ Return(FALSE)
          /\ UNCHANGED apiFaults
       \/ /\ Failed(WithFinalizer(TRUE))
          /\ Return(TRUE)
    /\ UNCHANGED <<mariadb, preq, passwords, sqlFaults, crashes, changes>>

SetCreating ==
    /\ pc = "create"
    /\ \/ /\ Accepted(WithStatus("Creating", db.pw))
          /\ Return(FALSE)
          /\ UNCHANGED apiFaults
       \/ /\ Failed(WithStatus("Creating", db.pw))
          /\ Return(TRUE)
    /\ UNCHANGED <<mariadb, preq, passwords, sqlFaults, crashes, changes>>

-----------------------------------------------------------------------------
(***************************************************************************)
(* provisionDatabase, one step per call.  A MariaDB call has its effect    *)
(* and goes on, or fails, with or without its effect.                      *)
(***************************************************************************)
SqlCall(Effect, call, onError) ==
    /\ \/ /\ Effect
          /\ Continue(call)
          /\ UNCHANGED sqlFaults
       \/ /\ Disturbances < MaxDisturbances
          /\ sqlFaults' = sqlFaults + 1
          /\ Effect \/ UNCHANGED mariadb
          /\ Continue(onError)
    /\ UNCHANGED <<cluster, preq, passwords, apiFaults, crashes, changes>>

\* Mutant: draws a password although the status has one.
PingRegenerate ==
    /\ pc = "ping"
    /\ SqlCall(UNCHANGED mariadb, "persist", "fail")

Ping ==
    /\ pc = "ping"
    /\ SqlCall(UNCHANGED mariadb,
               IF db.pw = 0 THEN "persist" ELSE "createDatabase", "fail")

\* The local copy holds the new password whether or not the write succeeds.
PersistPassword ==
    /\ pc = "persist"
    /\ \/ /\ Accepted(WithStatus(db.phase, FreshPassword))
          /\ ContinueFresh("createDatabase")
          /\ UNCHANGED apiFaults
       \/ /\ Failed(WithStatus(db.phase, FreshPassword))
          /\ db' = [db EXCEPT !.pw = FreshPassword]
          /\ pc' = "fail"
          /\ UNCHANGED <<rv, queued>>
    /\ CountPassword
    /\ UNCHANGED <<mariadb, preq, sqlFaults, crashes, changes>>

\* CREATE DATABASE IF NOT EXISTS keeps a database that is already there.
CreateSchema ==
    /\ pc = "createDatabase"
    /\ SqlCall(/\ data' = [data EXCEPT ![db.name] = IF @ = 0 THEN db.uid ELSE @]
               /\ UNCHANGED <<users, grants>>,
               "createUser", "fail")

\* CREATE USER IF NOT EXISTS keeps the password of an existing account.
CreateUser ==
    /\ pc = "createUser"
    /\ SqlCall(/\ users' = [users EXCEPT ![db.name] = IF @ = 0 THEN db.pw ELSE @]
               /\ UNCHANGED <<data, grants>>,
               "alterUser", "fail")

AlterUser ==
    /\ pc = "alterUser"
    /\ SqlCall(/\ users' = [users EXCEPT ![db.name] = db.pw]
               /\ UNCHANGED <<data, grants>>,
               "grant", "fail")

Grant ==
    /\ pc = "grant"
    /\ SqlCall(/\ grants' = grants \union {db.name}
               /\ UNCHANGED <<data, users>>,
               "flush", "fail")

FlushPrivileges ==
    /\ pc = "flush"
    /\ SqlCall(UNCHANGED mariadb, "ready", "fail")

\* Mutant: a failed write of the Ready status is not retried.
UpdateReadyStatusOnce ==
    /\ pc = "ready"
    /\ \/ Accepted(WithStatus("Ready", db.pw)) /\ UNCHANGED apiFaults
       \/ Failed(WithStatus("Ready", db.pw))
    /\ Return(FALSE)
    /\ UNCHANGED <<mariadb, preq, passwords, sqlFaults, crashes, changes>>

UpdateReadyStatus ==
    /\ pc = "ready"
    /\ \/ /\ Accepted(WithStatus("Ready", db.pw))
          /\ Return(FALSE)
          /\ UNCHANGED apiFaults
       \/ /\ Failed(WithStatus("Ready", db.pw))
          /\ Return(TRUE)
    /\ UNCHANGED <<mariadb, preq, passwords, sqlFaults, crashes, changes>>

\* Mutant: retries without recording the error.
SetErrorStatusUnrecorded ==
    /\ pc = "fail"
    /\ Return(TRUE)
    /\ UNCHANGED <<cluster, mariadb, preq, bounds>>

\* Mutant: writes the reason of the condition into the phase.
SetErrorStatusReason ==
    /\ pc = "fail"
    /\ \/ Accepted(WithStatus("ProvisionFailed", db.pw)) /\ UNCHANGED apiFaults
       \/ Failed(WithStatus("ProvisionFailed", db.pw))
    /\ Return(TRUE)
    /\ CountPassword
    /\ UNCHANGED <<mariadb, preq, sqlFaults, crashes, changes>>

\* The status write's own failure is ignored; the reconcile is retried.
SetErrorStatus ==
    /\ pc = "fail"
    /\ \/ Accepted(WithStatus("Error", db.pw)) /\ UNCHANGED apiFaults
       \/ Failed(WithStatus("Error", db.pw))
    /\ Return(TRUE)
    /\ CountPassword
    /\ UNCHANGED <<mariadb, preq, sqlFaults, crashes, changes>>

-----------------------------------------------------------------------------
(***************************************************************************)
(* reconcileDelete                                                         *)
(***************************************************************************)

\* A failed status write is ignored, and leaves a stale resourceVersion.
SetTerminating ==
    /\ pc = "terminate"
    /\ \/ /\ Accepted(WithStatus("Terminating", db.pw))
          /\ ContinueFresh("pingDrop")
          /\ UNCHANGED apiFaults
       \/ /\ Failed(WithStatus("Terminating", db.pw))
          /\ db' = [db EXCEPT !.phase = "Terminating"]
          /\ pc' = "pingDrop"
          /\ UNCHANGED <<rv, queued>>
    /\ UNCHANGED <<mariadb, preq, passwords, sqlFaults, crashes, changes>>

PingBeforeDrop ==
    /\ pc = "pingDrop"
    /\ SqlCall(UNCHANGED mariadb, "dropDatabase", "unfinalize")

\* Mutant: drops the database called like the resource, not like spec.name.
DropSchemaByResourceName ==
    /\ pc = "dropDatabase"
    /\ SqlCall(UNCHANGED mariadb, "dropUser", "dropUser")

DropSchema ==
    /\ pc = "dropDatabase"
    /\ SqlCall(/\ data' = [data EXCEPT ![db.name] = 0]
               /\ UNCHANGED <<users, grants>>,
               "dropUser", "dropUser")

DropUser ==
    /\ pc = "dropUser"
    /\ SqlCall(/\ users' = [users EXCEPT ![db.name] = 0]
               /\ grants' = grants \ {db.name}
               /\ UNCHANGED data,
               "unfinalize", "unfinalize")

\* Mutant: a refused or lost update is not retried.
RemoveFinalizerOnce ==
    LET gone == [Current EXCEPT !.fin = FALSE, !.exists = FALSE] IN
    /\ pc = "unfinalize"
    /\ \/ Accepted(gone) /\ UNCHANGED apiFaults
       \/ Failed(gone)
    /\ Return(FALSE)
    /\ UNCHANGED <<mariadb, preq, passwords, sqlFaults, crashes, changes>>

\* With its last finalizer gone the deleted object disappears.
RemoveFinalizer ==
    LET gone == [Current EXCEPT !.fin = FALSE, !.exists = FALSE] IN
    /\ pc = "unfinalize"
    /\ \/ /\ Accepted(gone)
          /\ Return(FALSE)
          /\ UNCHANGED apiFaults
       \/ /\ Failed(gone)
          /\ Return(TRUE)
    /\ UNCHANGED <<mariadb, preq, passwords, sqlFaults, crashes, changes>>

-----------------------------------------------------------------------------
(***************************************************************************)
(* The informer and the operator process                                   *)
(***************************************************************************)

\* The cache moves forward to a later version and the key is queued; after
\* a broken watch it may miss versions, never go back.
WatchEvent ==
    /\ \E i \in 2 .. Len(log) : log' = SubSeq(log, i, Len(log))
    /\ queued' = TRUE
    /\ UNCHANGED <<revision, pc, db, rv, mariadb, preq, bounds>>

\* The reconcile in progress is lost; the new process lists the objects,
\* from an API server that is at least as recent, and queues all of them.
Restart ==
    /\ Disturbances < MaxDisturbances
    /\ crashes' = crashes + 1
    /\ Return(TRUE)
    /\ UNCHANGED <<cluster, mariadb, preq, passwords, sqlFaults, apiFaults, changes>>

-----------------------------------------------------------------------------
(***************************************************************************)
(* The panel                                                               *)
(***************************************************************************)
CreateDatabase(n) ==
    /\ ~Current.exists
    /\ Current.uid < MaxIncarnations
    /\ Publish([NoVersion EXCEPT !.uid = Current.uid + 1,
                                 !.exists = TRUE, !.name = n])
    /\ UNCHANGED <<worker, mariadb, preq, bounds>>

\* Without a finalizer the object disappears at once, with one it is marked.
DeleteDatabase ==
    /\ Current.exists
    /\ ~Current.del
    /\ Publish(IF Current.fin THEN [Current EXCEPT !.del = TRUE]
                              ELSE [Current EXCEPT !.exists = FALSE])
    /\ UNCHANGED <<worker, mariadb, preq, bounds>>

PasswordGet(r) ==
    /\ preq[r].step = "idle"
    /\ Disturbances < MaxDisturbances
    /\ changes' = changes + 1
    /\ Current.exists
    /\ preq' = [preq EXCEPT ![r] = [step |-> "update", rv |-> revision,
                                    phase |-> Current.phase]]
    /\ UNCHANGED <<cluster, worker, mariadb, passwords, sqlFaults, apiFaults, crashes>>

\* The new annotation makes a new version whose status is the old one.
PasswordUpdate(r) ==
    /\ preq[r].step = "update"
    /\ Current.exists
    /\ preq[r].rv = revision
    /\ Publish(Current)
    /\ preq' = [preq EXCEPT ![r].step = "status", ![r].rv = revision + 1]
    /\ UNCHANGED <<worker, mariadb, bounds>>

PasswordStatus(r) ==
    /\ preq[r].step = "status"
    /\ Current.exists
    /\ preq[r].rv = revision
    /\ Store(WithStatus(preq[r].phase, FreshPassword))
    /\ CountPassword
    /\ preq' = [preq EXCEPT ![r] = NoRequest]
    /\ UNCHANGED <<worker, mariadb, sqlFaults, apiFaults, crashes, changes>>

\* A conflict, a lost call or a stopped panel ends the request where it is.
PasswordAbort(r) ==
    /\ preq[r].step # "idle"
    /\ preq' = [preq EXCEPT ![r] = NoRequest]
    /\ UNCHANGED <<cluster, worker, mariadb, bounds>>

-----------------------------------------------------------------------------
Provision == \/ Ping \/ PersistPassword \/ CreateSchema \/ CreateUser
             \/ AlterUser \/ Grant \/ FlushPrivileges \/ UpdateReadyStatus
             \/ SetErrorStatus

Cleanup == \/ SetTerminating \/ PingBeforeDrop \/ DropSchema \/ DropUser
           \/ RemoveFinalizer

Operator == Reconcile \/ AddFinalizer \/ SetCreating \/ Provision \/ Cleanup

Panel == \/ \E n \in Names : CreateDatabase(n)
         \/ DeleteDatabase
         \/ \E r \in Requests : \/ PasswordGet(r) \/ PasswordUpdate(r)
                                \/ PasswordStatus(r) \/ PasswordAbort(r)

Next == Operator \/ WatchEvent \/ Restart \/ Panel

\* The operator keeps running its worker and its watch; nobody has to call
\* the panel, and a request of the panel need not be finished.
Fairness == WF_vars(Operator) /\ WF_vars(WatchEvent)

Spec == Init /\ [][Next]_vars /\ Fairness
=============================================================================
