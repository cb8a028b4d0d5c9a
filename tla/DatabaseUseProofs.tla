-------------------------- MODULE DatabaseUseProofs --------------------------
(***************************************************************************)
(* More proofs about DatabaseController, on top of LifecycleInv: nothing   *)
(* is left behind in MariaDB, a password once shown is kept, and a Ready   *)
(* database can be used, as long as nothing happens that the reconciler    *)
(* cannot make up for.                                                     *)
(***************************************************************************)
EXTENDS DatabaseProofs

\* An incarnation keeps its spec.name.
NameKept ==
    /\ \A i, j \in 1 .. Len(log) : log[i].uid = log[j].uid => log[i].name = log[j].name
    /\ pc # "idle" /\ db.uid = Cached.uid => db.name = Cached.name

\* An incarnation with the finalizer is the one the operator works on.
SeenIsLast ==
    Current.exists /\ Current.fin =>
        /\ Cached.uid = Current.uid
        /\ pc # "idle" => db.uid = Current.uid

\* A current copy has the password of the object, but for one that was
\* drawn for an object without and could not be stored.
PasswordKnown ==
    /\ pc = "persist" => db.pw = 0
    /\ pc # "idle" /\ rv = revision =>
          db.pw = Current.pw \/ (pc = "fail" /\ Current.pw = 0)

\* NoOrphans, with the finalizer that sees to it: while the finalizer is
\* there the object stays, and it is removed after both DROPs.
Owned ==
    sqlFaults = 0 =>
        /\ \A n \in Names : data[n] # 0 \/ users[n] # 0 =>
              /\ Current.exists /\ Current.fin
              /\ Current.name = n
              /\ data[n] \in {0, Current.uid}
        /\ pc \in {"dropUser", "unfinalize"} => data[db.name] = 0
        /\ pc = "unfinalize" => users[db.name] = 0

KnownInv == LifecycleInv /\ NameKept /\ SeenIsLast /\ PasswordKnown

-----------------------------------------------------------------------------
Undisturbed == crashes = 0 /\ apiFaults = 0 /\ changes = 0

Alive == Current.exists /\ ~Current.del

\* No password requests; a current copy is the object.
Alone ==
    /\ \A r \in Requests : preq[r].step = "idle"
    /\ pc # "idle" /\ rv = revision => db = Current

\* All versions of the incarnation that have a password have the same.
OnePassword ==
    /\ \A i \in 1 .. Len(log) :
          log[i].uid = Current.uid /\ log[i].pw # 0 => log[i].pw = Current.pw
    /\ pc \notin {"idle", "fail"} /\ db.uid = Current.uid /\ db.pw # 0 =>
          db.pw = Current.pw

\* The calls after the password is stored.
SetupPCs == {"createDatabase", "createUser", "alterUser", "grant", "flush", "ready"}

\* What the phase says.  Creating with a password, the state in which
\* Reconcile takes the database for provisioned, is left by the reconcile
\* that brings it about.
PhaseFits ==
    Alive =>
        /\ Current.phase # "" => Current.fin
        /\ Current.phase = "" => Current.pw = 0
        /\ Current.phase = "Ready" => Current.pw # 0
        /\ Current.phase = "Creating" /\ Current.pw # 0 =>
              pc \in SetupPCs \union {"fail"} /\ rv = revision

\* What has been done in MariaDB before each call.
Provisioned(call) == pc = call \/ (pc = "ready" /\ rv = revision)

Progress ==
    /\ pc \in SetupPCs => db.pw # 0
    /\ pc = "create" => db.phase = ""
    /\ pc \in {"ping", "persist"} => db.phase # ""
    /\ pc \in ProvisionPCs /\ rv = revision => db.phase # "Ready"
    /\ (\E call \in {"createUser", "alterUser", "grant", "flush"} : Provisioned(call)) =>
          data[db.name] # 0
    /\ (\E call \in {"grant", "flush"} : Provisioned(call)) => users[db.name] = db.pw
    /\ Provisioned("flush") => db.name \in grants

Usable == Alone /\ OnePassword /\ PhaseFits /\ Progress /\ ReadyMeansUsable

UsableInv == Undisturbed => Usable

-----------------------------------------------------------------------------
(***************************************************************************)
(* What a step does to the object and to the reconciler's copy             *)
(***************************************************************************)

\* Version v is the present incarnation, or its end: the finalizer is added
\* by a reconcile that returns, it holds the object until the operator
\* removes it, and a password is replaced by its owner.
Rewrite(v) ==
    /\ v \in Version
    /\ Publish(v)
    /\ v.uid = Current.uid /\ v.name = Current.name
    /\ v.exists => Current.exists
    /\ v.fin => Current.fin \/ (pc # "idle" /\ rv = revision /\ pc' = "idle")
    /\ Current.exists /\ Current.fin => (v.exists /\ v.fin) \/ RemoveFinalizer
    /\ v.pw = Current.pw \/ Current.pw = 0 \/ \E r \in Requests : PasswordStatus(r)

\* What TypeOK says of the object and the copy.
LEMMA CopyTypes ==
  ASSUME KnownInv
  PROVE  /\ TypeOK /\ LifecycleInv
         /\ Current \in Version /\ Cached \in Version /\ db \in Version
         /\ db.phase \in Phases /\ db.pw \in Nat /\ db.name \in Names /\ db.uid \in Nat
         /\ Len(log) \in Nat /\ 1 <= Len(log) /\ revision \in Nat /\ rv \in Nat
         /\ FreshPassword \in Nat
         /\ {"Creating", "Ready", "Error", "Terminating"} \subseteq Phases
  <1>1. TypeOK /\ LifecycleInv
    BY DEF KnownInv, LifecycleInv
  <1>2. Current \in Version /\ Cached \in Version /\ db \in Version
    BY <1>1, EndsType DEF TypeOK
  <1>3. Len(log) \in Nat /\ 1 <= Len(log) /\ revision \in Nat /\ rv \in Nat
    BY <1>1, EndsType DEF TypeOK
  <1>4. db.phase \in Phases /\ db.pw \in Nat /\ db.name \in Names /\ db.uid \in Nat
    BY <1>2 DEF Version
  <1>5. {"Creating", "Ready", "Error", "Terminating"} \subseteq Phases
    BY DEF Phases
  <1> QED
    BY <1>1, <1>2, <1>3, <1>4, <1>5, WrittenType

\* A status write of the reconciler.
LEMMA StatusRewrites ==
  ASSUME KnownInv, pc # "idle", NEW STATE p, p \in Phases, NEW STATE w, w \in Nat,
         w = db.pw \/ pc = "persist",
         Accepted(WithStatus(p, w)) \/ Failed(WithStatus(p, w))
  PROVE  UNCHANGED cluster \/ (rv = revision /\ Rewrite(WithStatus(p, w)))
  <1> DEFINE v == WithStatus(p, w)
  <1>1. TypeOK /\ Current \in Version /\ v \in Version
    BY CopyTypes, WrittenType
  <1>2. UNCHANGED cluster \/ (rv = revision /\ Publish(v))
    BY <1>1, WriteFacts
  <1>3. /\ v.uid = Current.uid /\ v.name = Current.name /\ v.exists = Current.exists
        /\ v.fin = Current.fin /\ v.pw = w
    BY <1>1 DEF WithStatus, Version
  <1>4. rv = revision => w = Current.pw \/ Current.pw = 0
    BY DEF KnownInv, PasswordKnown
  <1> QED
    BY <1>1, <1>2, <1>3, <1>4 DEF Rewrite

\* What a step does to the object: nothing, a rewrite, a new incarnation,
\* or it becomes known to the cache.
LEMMA LogMoves ==
  ASSUME KnownInv, [Next]_vars
  PROVE  \/ UNCHANGED cluster
         \/ \E v \in Version : Rewrite(v)
         \/ \E n \in Names : CreateDatabase(n)
         \/ WatchEvent
  <1>a. /\ TypeOK /\ LifecycleInv /\ Current \in Version
        /\ db.phase \in Phases /\ db.pw \in Nat /\ FreshPassword \in Nat
        /\ {"Creating", "Ready", "Error", "Terminating"} \subseteq Phases
    BY CopyTypes
  <1>b. \A p \in Phases, w \in Nat : WithStatus(p, w) \in Version
    BY <1>a, WrittenType
  <1>1. CASE Reconcile \/ Restart \/ UNCHANGED vars
    BY <1>1 DEF Reconcile, Restart, vars
  <1>2. CASE AddFinalizer
    <2> DEFINE v == WithFinalizer(TRUE)
    <2>1. v \in Version
      BY <1>a, WrittenType
    <2>2. /\ v.uid = Current.uid /\ v.name = Current.name /\ v.exists = Current.exists
          /\ v.pw = Current.pw /\ v.fin
      BY <1>a DEF WithFinalizer, Version
    <2>3. pc # "idle" /\ pc' = "idle"
      BY <1>2 DEF AddFinalizer, Return
    <2>4. UNCHANGED cluster \/ (rv = revision /\ Publish(v))
      BY <1>a, <1>2, <2>1, WriteFacts DEF AddFinalizer
    <2> QED
      BY <2>1, <2>2, <2>3, <2>4 DEF Rewrite
  <1>3. CASE SetCreating
    <2>1. UNCHANGED cluster \/ Rewrite(WithStatus("Creating", db.pw))
      BY <1>3, <1>a, StatusRewrites DEF SetCreating
    <2> QED
      BY <1>a, <1>b, <2>1
  <1>4. CASE PersistPassword
    <2>1. UNCHANGED cluster \/ Rewrite(WithStatus(db.phase, FreshPassword))
      BY <1>4, <1>a, StatusRewrites DEF PersistPassword
    <2> QED
      BY <1>a, <1>b, <2>1
  <1>5. CASE UpdateReadyStatus
    <2>1. UNCHANGED cluster \/ Rewrite(WithStatus("Ready", db.pw))
      BY <1>5, <1>a, StatusRewrites DEF UpdateReadyStatus
    <2> QED
      BY <1>a, <1>b, <2>1
  <1>6. CASE SetErrorStatus
    <2>1. UNCHANGED cluster \/ Rewrite(WithStatus("Error", db.pw))
      BY <1>6, <1>a, StatusRewrites DEF SetErrorStatus
    <2> QED
      BY <1>a, <1>b, <2>1
  <1>7. CASE SetTerminating
    <2>1. UNCHANGED cluster \/ Rewrite(WithStatus("Terminating", db.pw))
      BY <1>7, <1>a, StatusRewrites DEF SetTerminating
    <2> QED
      BY <1>a, <1>b, <2>1
  <1>8. CASE \/ Ping \/ CreateSchema \/ CreateUser \/ AlterUser \/ Grant
             \/ FlushPrivileges \/ PingBeforeDrop \/ DropSchema \/ DropUser
    BY <1>a, <1>8, SqlSteps
  <1>9. CASE RemoveFinalizer
    <2> DEFINE v == [Current EXCEPT !.fin = FALSE, !.exists = FALSE]
    <2>1. v \in Version
      BY <1>a, WrittenType
    <2>2. /\ v.uid = Current.uid /\ v.name = Current.name /\ ~v.exists /\ ~v.fin
          /\ v.pw = Current.pw
      BY <1>a DEF Version
    <2>3. UNCHANGED cluster \/ Publish(v)
      BY <1>a, <1>9, WriteFacts DEF RemoveFinalizer
    <2> QED
      BY <1>9, <2>1, <2>2, <2>3 DEF Rewrite
  <1>10. CASE WatchEvent
    BY <1>10
  <1>11. ASSUME NEW n \in Names, CreateDatabase(n)
         PROVE  \E k \in Names : CreateDatabase(k)
    BY <1>11
  <1>12. CASE DeleteDatabase
    <2> DEFINE v == IF Current.fin THEN [Current EXCEPT !.del = TRUE]
                                   ELSE [Current EXCEPT !.exists = FALSE]
    <2>1. v \in Version
      BY <1>a, WrittenType
    <2>2. /\ v.uid = Current.uid /\ v.name = Current.name /\ Current.exists
          /\ v.fin = Current.fin /\ v.pw = Current.pw /\ (Current.fin => v.exists)
      BY <1>a, <1>12 DEF Version, DeleteDatabase
    <2>3. Publish(v)
      BY <1>12 DEF DeleteDatabase
    <2> QED
      BY <2>1, <2>2, <2>3 DEF Rewrite
  <1>13. ASSUME NEW r \in Requests,
                PasswordGet(r) \/ PasswordUpdate(r) \/ PasswordStatus(r) \/ PasswordAbort(r)
         PROVE  UNCHANGED cluster \/ \E v \in Version : Rewrite(v)
    <2>1. CASE PasswordGet(r) \/ PasswordAbort(r)
      BY <2>1 DEF PasswordGet, PasswordAbort
    <2>2. CASE PasswordUpdate(r)
      BY <1>a, <2>2 DEF PasswordUpdate, Rewrite
    <2>3. CASE PasswordStatus(r)
      <3> DEFINE v == WithStatus(preq[r].phase, FreshPassword)
      <3>1. v \in Version
        BY <1>a, <1>b DEF TypeOK
      <3>2. /\ v.uid = Current.uid /\ v.name = Current.name /\ v.exists = Current.exists
            /\ v.fin = Current.fin
        BY <1>a DEF WithStatus, Version
      <3>3. UNCHANGED cluster \/ Publish(v)
        BY <2>3 DEF PasswordStatus, Store
      <3> QED
        BY <2>3, <3>1, <3>2, <3>3 DEF Rewrite
    <2> QED
      BY <1>13, <2>1, <2>2, <2>3
  <1> QED
    BY <1>1, <1>2, <1>3, <1>4, <1>5, <1>6, <1>7, <1>8, <1>9, <1>10, <1>11, <1>12, <1>13
       DEF Next, Operator, Provision, Cleanup, Panel

\* The reconcile keeps its copy, and a failed one stays failed.
Keeps == /\ UNCHANGED <<db, rv>>
         /\ pc = "idle" => pc' = "idle"
         /\ pc = "fail" => pc' \in {"idle", "fail"}
         /\ pc' = "persist" => pc = "persist" \/ db.pw = 0

\* It goes on with the answer to its write.
Renews == /\ pc # "idle" /\ rv = revision
          /\ db' = Current' /\ rv' = revision'
          /\ Current'.uid = Current.uid
          /\ pc' \in {"createDatabase", "pingDrop"}

\* It goes on with a patched copy of the same version: its write was
\* refused as stale, or lost.
Patches == /\ pc # "idle" /\ rv' = rv
           /\ (rv # revision /\ UNCHANGED cluster) \/ apiFaults' = apiFaults + 1
           /\ db'.uid = db.uid /\ db'.name = db.name
           /\ \/ pc = "persist" /\ pc' = "fail"
              \/ pc = "terminate" /\ pc' = "pingDrop" /\ db'.pw = db.pw

\* What a step does to the reconciler's copy of the object.
LEMMA CopyMoves ==
  ASSUME KnownInv, [Next]_vars
  PROVE  pc' = "idle" \/ Keeps \/ Renews \/ Patches \/ Reconcile
  <1>a. /\ TypeOK /\ LifecycleInv /\ Current \in Version /\ db \in Version
        /\ db.phase \in Phases /\ db.pw \in Nat /\ FreshPassword \in Nat
        /\ {"Creating", "Ready", "Error", "Terminating"} \subseteq Phases
    BY CopyTypes
  <1>1. CASE Restart \/ AddFinalizer \/ SetCreating \/ UpdateReadyStatus \/ SetErrorStatus
             \/ RemoveFinalizer
    BY <1>1 DEF Restart, AddFinalizer, SetCreating, UpdateReadyStatus, SetErrorStatus,
                RemoveFinalizer, Return
  <1>2. CASE PersistPassword
    <2>1. pc = "persist"
      BY <1>2 DEF PersistPassword
    <2>2. CASE Accepted(WithStatus(db.phase, FreshPassword)) /\ ContinueFresh("createDatabase")
      <3>1. UNCHANGED cluster \/ Rewrite(WithStatus(db.phase, FreshPassword))
        BY <1>a, <2>1, <2>2, StatusRewrites
      <3>2. Current'.uid = Current.uid
        BY <1>a, <3>1, PublishFacts DEF Rewrite, cluster, Current
      <3> QED
        BY <2>1, <2>2, <3>2 DEF Accepted, ContinueFresh, Renews
    <2>3. CASE /\ Failed(WithStatus(db.phase, FreshPassword))
               /\ db' = [db EXCEPT !.pw = FreshPassword] /\ pc' = "fail" /\ rv' = rv
      BY <1>a, <2>1, <2>3 DEF Patches, Version, Failed
    <2> QED
      BY <1>2, <2>2, <2>3 DEF PersistPassword
  <1>3. CASE SetTerminating
    <2>1. pc = "terminate"
      BY <1>3 DEF SetTerminating
    <2>2. CASE Accepted(WithStatus("Terminating", db.pw)) /\ ContinueFresh("pingDrop")
      <3>1. UNCHANGED cluster \/ Rewrite(WithStatus("Terminating", db.pw))
        BY <1>a, <2>1, <2>2, StatusRewrites
      <3>2. Current'.uid = Current.uid
        BY <1>a, <3>1, PublishFacts DEF Rewrite, cluster, Current
      <3> QED
        BY <2>1, <2>2, <3>2 DEF Accepted, ContinueFresh, Renews
    <2>3. CASE /\ Failed(WithStatus("Terminating", db.pw))
               /\ db' = [db EXCEPT !.phase = "Terminating"] /\ pc' = "pingDrop" /\ rv' = rv
      BY <1>a, <2>1, <2>3 DEF Patches, Version, Failed
    <2> QED
      BY <1>3, <2>2, <2>3 DEF SetTerminating
  <1>4. CASE \/ Ping \/ CreateSchema \/ CreateUser \/ AlterUser \/ Grant
             \/ FlushPrivileges \/ PingBeforeDrop \/ DropSchema \/ DropUser
    BY <1>4 DEF Ping, CreateSchema, CreateUser, AlterUser, Grant, FlushPrivileges,
                PingBeforeDrop, DropSchema, DropUser, SqlCall, Continue, Keeps
  <1>5. CASE WatchEvent \/ DeleteDatabase \/ UNCHANGED vars
    BY <1>5 DEF WatchEvent, DeleteDatabase, vars, worker, Keeps
  <1>6. ASSUME NEW n \in Names, CreateDatabase(n) PROVE Keeps
    BY <1>6 DEF CreateDatabase, worker, Keeps
  <1>7. ASSUME NEW r \in Requests,
               PasswordGet(r) \/ PasswordUpdate(r) \/ PasswordStatus(r) \/ PasswordAbort(r)
        PROVE  Keeps
    BY <1>7 DEF PasswordGet, PasswordUpdate, PasswordStatus, PasswordAbort, worker, Keeps
  <1> QED
    BY <1>1, <1>2, <1>3, <1>4, <1>5, <1>6, <1>7
       DEF Next, Operator, Provision, Cleanup, Panel

-----------------------------------------------------------------------------
(***************************************************************************)
(* What the operator knows                                                 *)
(***************************************************************************)

\* Versions and the copy are numbered in the order they were made.
LEMMA Numbered ==
  ASSUME LifecycleInv
  PROVE  /\ \A i \in 1 .. Len(log) : log[i] \in Version /\ log[i].uid <= Current.uid
         /\ \A i \in 1 .. Len(log) : Cached.uid <= log[i].uid
         /\ pc # "idle" => db.uid <= Cached.uid
         /\ Cached.uid <= Current.uid
  <1>1. /\ TypeOK /\ Cached \in Version /\ Current \in Version
        /\ Len(log) \in Nat /\ 1 <= Len(log)
    BY EndsType DEF LifecycleInv, TypeOK
  <1>2. \A i \in 1 .. Len(log) : log[i] \in Version /\ log[i].uid <= Current.uid
    BY <1>1, CurrentIsLatest DEF TypeOK, Follows
  <1>3. \A i \in 1 .. Len(log) : Cached.uid <= log[i].uid
    BY <1>1 DEF LifecycleInv, LogOrdered, Follows, Cached
  <1>4. pc # "idle" => db.uid <= Cached.uid
    BY DEF LifecycleInv, CopyIsOld, Follows
  <1>5. Cached.uid <= Current.uid
    BY CurrentIsLatest DEF Follows
  <1> QED
    BY <1>2, <1>3, <1>4, <1>5

\* All versions of an incarnation have the same spec.name.
LogNamed == \A i, j \in 1 .. Len(log) : log[i].uid = log[j].uid => log[i].name = log[j].name

\* No step gives an incarnation a second name.
LEMMA LogNamedStep == KnownInv /\ [Next]_vars => LogNamed'
  <1> SUFFICES ASSUME KnownInv, [Next]_vars PROVE LogNamed'
    OBVIOUS
  <1>a. /\ TypeOK /\ LifecycleInv /\ Current \in Version
        /\ Len(log) \in Nat /\ 1 <= Len(log)
    BY CopyTypes
  <1>b. \A i \in 1 .. Len(log) : log[i] \in Version /\ log[i].uid <= Current.uid
    BY <1>a, Numbered
  <1>c. LogNamed
    BY DEF KnownInv, NameKept, LogNamed
  <1>1. CASE UNCHANGED cluster
    BY <1>1, <1>c DEF cluster, LogNamed
  <1>2. ASSUME NEW v \in Version, Publish(v),
               \A i \in 1 .. Len(log) : log[i].uid = v.uid => log[i].name = v.name
        PROVE  LogNamed'
    <2>1. /\ Len(log') = Len(log) + 1 /\ log'[Len(log')] = v
          /\ \A i \in 1 .. Len(log) : log'[i] = log[i]
      BY <1>a, <1>2, PublishFacts
    <2>2. \A i \in 1 .. Len(log') : i \in 1 .. Len(log) \/ i = Len(log')
      BY <1>a, <2>1
    <2>3. ASSUME NEW i \in 1 .. Len(log'), NEW j \in 1 .. Len(log'), log'[i].uid = log'[j].uid
          PROVE  log'[i].name = log'[j].name
      <3>1. CASE i \in 1 .. Len(log) /\ j \in 1 .. Len(log)
        BY <1>c, <2>1, <2>3, <3>1 DEF LogNamed
      <3>2. CASE i = Len(log') \/ j = Len(log')
        BY <1>2, <2>1, <2>2, <2>3, <3>2
      <3> QED
        BY <2>2, <3>1, <3>2
    <2> QED
      BY <2>3 DEF LogNamed
  <1>3. ASSUME NEW v \in Version, Rewrite(v) PROVE LogNamed'
    <2>1. \A i \in 1 .. Len(log) : log[i].uid = v.uid => log[i].name = v.name
      BY <1>a, <1>c, <1>3 DEF Rewrite, LogNamed, Current
    <2> QED
      BY <1>2, <1>3, <2>1 DEF Rewrite
  <1>4. ASSUME NEW n \in Names, CreateDatabase(n) PROVE LogNamed'
    <2> DEFINE v == [NoVersion EXCEPT !.uid = Current.uid + 1, !.exists = TRUE, !.name = n]
    <2>1. v \in Version
      BY <1>a, WrittenType
    <2>2. v.uid = Current.uid + 1
      BY NoVersionType DEF NoVersion
    <2>3. \A i \in 1 .. Len(log) : log[i].uid # v.uid
      BY <1>a, <1>b, <2>2 DEF Version
    <2>4. Publish(v)
      BY <1>4 DEF CreateDatabase
    <2> QED
      BY <1>2, <2>1, <2>3, <2>4
  <1>5. CASE WatchEvent
    <2>1. PICK i \in 2 .. Len(log) : log' = SubSeq(log, i, Len(log))
      BY <1>5 DEF WatchEvent
    <2>2. /\ Len(log') = Len(log) - i + 1
          /\ \A k \in 1 .. Len(log') : log'[k] = log[k + i - 1]
      BY <1>a, <2>1, WatchFacts
    <2>3. \A k \in 1 .. Len(log') : k + i - 1 \in 1 .. Len(log)
      BY <1>a, <2>1, <2>2
    <2>4. ASSUME NEW k \in 1 .. Len(log'), NEW j \in 1 .. Len(log'), log'[k].uid = log'[j].uid
          PROVE  log'[k].name = log'[j].name
      BY <1>c, <2>2, <2>3, <2>4 DEF LogNamed
    <2> QED
      BY <2>4 DEF LogNamed
  <1> QED
    BY <1>1, <1>3, <1>4, <1>5, LogMoves

\* The cache stays where it is or moves on along the log.
LEMMA CacheMoves ==
  ASSUME KnownInv, [Next]_vars
  PROVE  \/ Cached' = Cached
         \/ WatchEvent /\ Current' = Current /\ \E i \in 2 .. Len(log) : Cached' = log[i]
  <1>a. TypeOK /\ Len(log) \in Nat /\ Current \in Version
    BY CopyTypes
  <1>1. CASE UNCHANGED cluster
    BY <1>1 DEF cluster, Cached
  <1>2. ASSUME NEW v \in Version, Rewrite(v) PROVE Cached' = Cached
    BY <1>a, <1>2, PublishFacts DEF Rewrite
  <1>3. ASSUME NEW n \in Names, CreateDatabase(n) PROVE Cached' = Cached
    BY <1>a, <1>3, PublishFacts, WrittenType DEF CreateDatabase
  <1>4. CASE WatchEvent
    <2>1. PICK i \in 2 .. Len(log) : log' = SubSeq(log, i, Len(log))
      BY <1>4 DEF WatchEvent
    <2>2. Cached' = log[i] /\ Current' = Current
      BY <1>a, <2>1, WatchFacts
    <2> QED
      BY <1>4, <2>1, <2>2
  <1> QED
    BY <1>1, <1>2, <1>3, <1>4, LogMoves

\* The copy has the spec.name of its incarnation.
LEMMA CopyNamedStep ==
  ASSUME KnownInv, [Next]_vars, pc' # "idle", db'.uid = Cached'.uid
  PROVE  db'.name = Cached'.name
  <1>a. /\ TypeOK /\ LifecycleInv /\ Cached \in Version /\ db \in Version
        /\ Len(log) \in Nat /\ 1 <= Len(log)
    BY CopyTypes
  <1>b. /\ \A i \in 1 .. Len(log) : log[i] \in Version /\ Cached.uid <= log[i].uid
        /\ pc # "idle" => db.uid <= Cached.uid
    BY <1>a, Numbered
  <1>c. /\ LogNamed
        /\ pc # "idle" /\ db.uid = Cached.uid => db.name = Cached.name
    BY DEF KnownInv, NameKept, LogNamed
  <1>d. LogNamed' /\ 1 <= Len(log') /\ Len(log') \in Nat
    BY <1>a, LogNamedStep, LifecycleStep DEF LifecycleInv, TypeOK
  <1>e. CASE Cached' = Cached
    <2>1. CASE Keeps \/ Patches
      BY <1>c, <1>e, <2>1 DEF Keeps, Patches
    <2>2. CASE Renews
      BY <1>d, <2>2 DEF Renews, LogNamed, Cached, Current
    <2>3. CASE Reconcile
      BY <1>e, <2>3 DEF Reconcile
    <2> QED
      BY <2>1, <2>2, <2>3, CopyMoves
  <1>f. CASE WatchEvent /\ \E i \in 2 .. Len(log) : Cached' = log[i]
    <2>1. pc' = pc /\ db' = db
      BY <1>f DEF WatchEvent
    <2>2. PICK i \in 2 .. Len(log) : Cached' = log[i]
      BY <1>f
    <2>3. i \in 1 .. Len(log) /\ 1 \in 1 .. Len(log)
      BY <1>a, <2>2
    <2>4. db.uid <= Cached.uid /\ Cached.uid <= log[i].uid /\ db.uid = log[i].uid
      BY <1>b, <2>1, <2>2, <2>3
    <2>5. db.uid = Cached.uid
      BY <1>a, <1>b, <2>3, <2>4 DEF Version
    <2> QED
      BY <1>c, <2>1, <2>2, <2>3, <2>4, <2>5 DEF LogNamed, Cached
  <1> QED
    BY <1>e, <1>f, CacheMoves

\* The incarnation with the finalizer is the one the operator works on.
LEMMA SeenStep == KnownInv /\ [Next]_vars => SeenIsLast'
  <1> SUFFICES ASSUME KnownInv, [Next]_vars, Current'.exists, Current'.fin
               PROVE  /\ Cached'.uid = Current'.uid
                      /\ pc' # "idle" => db'.uid = Current'.uid
    BY DEF SeenIsLast
  <1>a. /\ TypeOK /\ LifecycleInv /\ Current \in Version /\ Cached \in Version /\ db \in Version
        /\ Len(log) \in Nat /\ 1 <= Len(log)
    BY CopyTypes
  <1>b. /\ \A i \in 1 .. Len(log) : log[i] \in Version /\ Cached.uid <= log[i].uid
                                    /\ log[i].uid <= Current.uid
        /\ pc # "idle" => db.uid <= Cached.uid
        /\ Cached.uid <= Current.uid
    BY <1>a, Numbered
  <1>c. Current.exists /\ Current.fin =>
           Cached.uid = Current.uid /\ (pc # "idle" => db.uid = Current.uid)
    BY DEF KnownInv, SeenIsLast
  <1>1. /\ Current'.uid = Current.uid
        /\ \/ Current.exists /\ Current.fin
           \/ pc # "idle" /\ rv = revision /\ pc' = "idle" /\ Cached' = Cached
    <2>1. CASE UNCHANGED cluster
      BY <2>1 DEF cluster, Current
    <2>2. ASSUME NEW v \in Version, Rewrite(v)
          PROVE  <1>1!1 /\ <1>1!2
      BY <1>a, <2>2, PublishFacts DEF Rewrite
    <2>3. ASSUME NEW n \in Names, CreateDatabase(n) PROVE FALSE
      <3> DEFINE v == [NoVersion EXCEPT !.uid = Current.uid + 1, !.exists = TRUE, !.name = n]
      <3>1. v \in Version /\ ~v.fin
        BY <1>a, WrittenType, NoVersionType DEF NoVersion
      <3>2. Current' = v
        BY <1>a, <2>3, <3>1, PublishFacts DEF CreateDatabase
      <3> QED
        BY <3>1, <3>2
    <2>4. CASE WatchEvent
      BY <1>a, <2>4, WatchFacts DEF WatchEvent
    <2> QED
      BY <2>1, <2>2, <2>3, <2>4, LogMoves
  <1>2. Cached'.uid = Current'.uid
    <2>1. CASE Current.exists /\ Current.fin
      <3>1. Cached.uid = Current.uid
        BY <1>c, <2>1
      <3>2. \A i \in 2 .. Len(log) : log[i].uid = Current.uid
        BY <1>a, <1>b, <3>1 DEF Version
      <3> QED
        BY <1>1, <3>1, <3>2, CacheMoves
    <2>2. CASE pc # "idle" /\ rv = revision /\ pc' = "idle" /\ Cached' = Cached
      <3>1. Current.uid = db.uid
        BY <2>2 DEF KnownInv, LifecycleInv, CopyIsOld
      <3> QED
        BY <1>1, <1>a, <1>b, <2>2, <3>1 DEF Version
    <2> QED
      BY <1>1, <2>1, <2>2
  <1>3. ASSUME pc' # "idle" PROVE db'.uid = Current'.uid
    <2>1. Current.exists /\ Current.fin
      BY <1>1, <1>3
    <2>2. Cached.uid = Current.uid /\ (pc # "idle" => db.uid = Current.uid)
      BY <1>c, <2>1
    <2>3. CASE Keeps \/ Patches
      BY <1>1, <1>3, <2>2, <2>3 DEF Keeps, Patches
    <2>4. CASE Renews
      BY <2>4 DEF Renews
    <2>5. CASE Reconcile
      BY <1>1, <1>3, <2>2, <2>5 DEF Reconcile
    <2> QED
      BY <1>3, <2>3, <2>4, <2>5, CopyMoves
  <1> QED
    BY <1>2, <1>3

\* A copy is current only if nothing was published since it was read.
LEMMA StillCurrent ==
  ASSUME KnownInv, [Next]_vars, rv = revision', ~WatchEvent
  PROVE  UNCHANGED cluster
  <1>a. /\ TypeOK /\ rv \in Nat /\ revision \in Nat /\ rv <= revision
    BY CopyTypes DEF TypeOK
  <1>1. ASSUME NEW v \in Version, Publish(v) PROVE FALSE
    BY <1>a, <1>1 DEF Publish
  <1>2. ASSUME NEW v \in Version, Rewrite(v) PROVE FALSE
    BY <1>1, <1>2 DEF Rewrite
  <1>3. ASSUME NEW n \in Names, CreateDatabase(n) PROVE FALSE
    <2>1. [NoVersion EXCEPT !.uid = Current.uid + 1, !.exists = TRUE, !.name = n] \in Version
      BY <1>a, WrittenType
    <2> QED
      BY <1>1, <1>3, <2>1 DEF CreateDatabase
  <1> QED
    BY <1>2, <1>3, LogMoves

\* The copy read by a reconcile is the object if it is current.
LEMMA ReadIsCurrent ==
  ASSUME TypeOK, Reconcile, pc' # "idle"
  PROVE  /\ db' = Cached /\ UNCHANGED cluster
         /\ rv' = revision' => Cached = Current
  BY DEF TypeOK, Reconcile, cluster, Cached, Current

\* A current copy has the password of the object.
LEMMA PasswordStep == KnownInv /\ [Next]_vars => PasswordKnown'
  <1> SUFFICES ASSUME KnownInv, [Next]_vars PROVE PasswordKnown'
    OBVIOUS
  <1>a. TypeOK /\ Cached \in Version /\ db \in Version
    BY CopyTypes
  <1>b. /\ pc = "persist" => db.pw = 0
        /\ pc # "idle" /\ rv = revision =>
              db.pw = Current.pw \/ (pc = "fail" /\ Current.pw = 0)
    BY DEF KnownInv, PasswordKnown
  <1>c. Reconcile => pc' # "persist"
    BY DEF Reconcile, FirstCall
  <1>1. ASSUME pc' = "persist" PROVE db'.pw = 0
    BY <1>1, <1>b, <1>c, CopyMoves DEF Keeps, Renews, Patches
  <1>2. ASSUME pc' # "idle", rv' = revision'
        PROVE  db'.pw = Current'.pw \/ (pc' = "fail" /\ Current'.pw = 0)
    <2>0. WatchEvent => Current' = Current /\ revision' = revision
      BY <1>a, WatchFacts DEF WatchEvent
    <2>1. rv' = rv => rv = revision /\ Current' = Current
      <3>1. CASE WatchEvent
        BY <1>2, <2>0, <3>1
      <3>2. CASE ~WatchEvent
        BY <1>2, <3>2, StillCurrent DEF cluster, Current
      <3> QED
        BY <3>1, <3>2
    <2>2. CASE Keeps
      BY <1>2, <1>b, <2>1, <2>2 DEF Keeps
    <2>3. CASE Patches
      BY <1>2, <1>b, <2>1, <2>3 DEF Patches
    <2>4. CASE Renews
      BY <2>4 DEF Renews
    <2>5. CASE Reconcile
      BY <1>2, <1>a, <2>5, ReadIsCurrent DEF cluster, Current
    <2> QED
      BY <1>2, <2>2, <2>3, <2>4, <2>5, CopyMoves
  <1> QED
    BY <1>1, <1>2 DEF PasswordKnown

\* Every step keeps what the operator knows.
LEMMA KnownStep == KnownInv /\ [Next]_vars => KnownInv'
  <1> SUFFICES ASSUME KnownInv, [Next]_vars PROVE KnownInv'
    OBVIOUS
  <1>1. LifecycleInv'
    BY LifecycleStep DEF KnownInv
  <1>2. NameKept'
    BY LogNamedStep, CopyNamedStep DEF LogNamed, NameKept
  <1> QED
    BY <1>1, <1>2, SeenStep, PasswordStep DEF KnownInv

\* The operator never mistakes an incarnation for another: the finalizer is
\* only ever on the one it works on, and a copy with the current
\* resourceVersion has the password of the object.
THEOREM KnownInvariant == Spec => []KnownInv
  <1>1. Init => NameKept /\ SeenIsLast /\ PasswordKnown
    <2> SUFFICES ASSUME Init PROVE NameKept /\ SeenIsLast /\ PasswordKnown
      OBVIOUS
    <2>1. pc = "idle" /\ Len(log) = 1 /\ Current = NoVersion
      BY DEF Init, Current
    <2>2. ~Current.exists
      BY <2>1 DEF NoVersion
    <2> QED
      BY <2>1, <2>2 DEF NameKept, SeenIsLast, PasswordKnown
  <1>2. Init => LifecycleInv
    BY LifecycleInit
  <1> QED
    BY <1>1, <1>2, KnownStep, PTL DEF Spec, KnownInv

\* Only the panel's password handler replaces a password the status shows:
\* no retry, restart or stale cache makes the reconciler publish a second
\* generated password.
THEOREM PasswordsAreKept == Spec => PasswordIsKept
  <1>1. KnownInv /\ [Next]_vars =>
          [(Current.pw # 0 /\ Current'.uid = Current.uid /\ Current'.pw # Current.pw)
              => \E r \in Requests : PasswordStatus(r)]_vars
    <2> SUFFICES ASSUME KnownInv, [Next]_vars, Current.pw # 0,
                        Current'.uid = Current.uid, Current'.pw # Current.pw
                 PROVE  \E r \in Requests : PasswordStatus(r)
      OBVIOUS
    <2>a. TypeOK /\ Current \in Version
      BY CopyTypes
    <2>1. CASE UNCHANGED cluster
      BY <2>1 DEF cluster, Current
    <2>2. ASSUME NEW v \in Version, Rewrite(v)
          PROVE  \E r \in Requests : PasswordStatus(r)
      BY <2>a, <2>2, PublishFacts DEF Rewrite
    <2>3. ASSUME NEW n \in Names, CreateDatabase(n) PROVE FALSE
      <3> DEFINE v == [NoVersion EXCEPT !.uid = Current.uid + 1, !.exists = TRUE, !.name = n]
      <3>1. v \in Version /\ v.uid = Current.uid + 1
        BY <2>a, WrittenType, NoVersionType DEF NoVersion
      <3>2. Current' = v
        BY <2>a, <2>3, <3>1, PublishFacts DEF CreateDatabase
      <3> QED
        BY <2>a, <3>1, <3>2 DEF Version
    <2>4. CASE WatchEvent
      BY <2>a, <2>4, WatchFacts DEF WatchEvent
    <2> QED
      BY <2>1, <2>2, <2>3, <2>4, LogMoves
  <1> QED
    BY <1>1, KnownInvariant, PTL DEF Spec, PasswordIsKept

-----------------------------------------------------------------------------
(***************************************************************************)
(* Nothing is left behind in MariaDB                                       *)
(***************************************************************************)

\* The failure counters count.
LEMMA FaultsGrow ==
  ASSUME TypeOK, [Next]_vars
  PROVE  /\ sqlFaults' \in {sqlFaults, sqlFaults + 1}
         /\ apiFaults' \in {apiFaults, apiFaults + 1}
         /\ crashes' \in {crashes, crashes + 1}
         /\ changes' \in {changes, changes + 1}
  <1> DEFINE grown == /\ sqlFaults' \in {sqlFaults, sqlFaults + 1}
                      /\ apiFaults' \in {apiFaults, apiFaults + 1}
                      /\ crashes' \in {crashes, crashes + 1}
                      /\ changes' \in {changes, changes + 1}
  <1>1. CASE Reconcile \/ WatchEvent \/ DeleteDatabase \/ UNCHANGED vars
    BY <1>1 DEF Reconcile, WatchEvent, DeleteDatabase, vars, bounds
  <1>2. CASE \/ AddFinalizer \/ SetCreating \/ PersistPassword \/ UpdateReadyStatus
             \/ SetErrorStatus \/ SetTerminating \/ RemoveFinalizer
    BY <1>2 DEF AddFinalizer, SetCreating, PersistPassword, UpdateReadyStatus,
                SetErrorStatus, SetTerminating, RemoveFinalizer, Failed
  <1>3. CASE \/ Ping \/ CreateSchema \/ CreateUser \/ AlterUser \/ Grant
             \/ FlushPrivileges \/ PingBeforeDrop \/ DropSchema \/ DropUser
    BY <1>3 DEF Ping, CreateSchema, CreateUser, AlterUser, Grant, FlushPrivileges,
                PingBeforeDrop, DropSchema, DropUser, SqlCall
  <1>4. CASE Restart
    BY <1>4 DEF Restart
  <1>5. ASSUME NEW n \in Names, CreateDatabase(n) PROVE grown
    BY <1>5 DEF CreateDatabase, bounds
  <1>6. ASSUME NEW r \in Requests,
               PasswordGet(r) \/ PasswordUpdate(r) \/ PasswordStatus(r) \/ PasswordAbort(r)
        PROVE  grown
    BY <1>6 DEF PasswordGet, PasswordUpdate, PasswordStatus, PasswordAbort, bounds
  <1> QED
    BY <1>1, <1>2, <1>3, <1>4, <1>5, <1>6 DEF Next, Operator, Provision, Cleanup, Panel

\* A copy of the present incarnation has its spec.name.
LEMMA SameName ==
  ASSUME KnownInv, pc # "idle", db.uid = Current.uid
  PROVE  db.name = Current.name
  <1>1. /\ Current \in Version /\ Cached \in Version /\ db \in Version
        /\ Len(log) \in Nat /\ 1 <= Len(log) /\ LifecycleInv
    BY CopyTypes
  <1>2. db.uid <= Cached.uid /\ Cached.uid <= Current.uid
    BY <1>1, Numbered
  <1>3. Cached.uid = Current.uid
    BY <1>1, <1>2 DEF Version
  <1> QED
    BY <1>1, <1>3 DEF KnownInv, NameKept, Cached, Current

\* Something stands in MariaDB.
Standing == \E n \in Names : data[n] # 0 \/ users[n] # 0

\* While something stands, the finalizer holds the object.
LEMMA ObjectHeld ==
  ASSUME KnownInv, Owned, [Next]_vars, sqlFaults = 0, Standing
  PROVE  /\ Current'.exists /\ Current'.fin
         /\ Current'.name = Current.name /\ Current'.uid = Current.uid
  <1>a. TypeOK /\ Current \in Version
    BY CopyTypes
  <1>b. Current.exists /\ Current.fin
    BY DEF Owned, Standing
  <1>1. CASE UNCHANGED cluster
    BY <1>1, <1>b DEF cluster, Current
  <1>2. ASSUME NEW v \in Version, Rewrite(v), ~RemoveFinalizer
        PROVE  /\ Current'.exists /\ Current'.fin
               /\ Current'.name = Current.name /\ Current'.uid = Current.uid
    BY <1>a, <1>b, <1>2, PublishFacts DEF Rewrite
  <1>3. CASE RemoveFinalizer
    <2> DEFINE v == [Current EXCEPT !.fin = FALSE, !.exists = FALSE]
    <2>1. pc = "unfinalize"
      BY <1>3 DEF RemoveFinalizer
    <2>2. UNCHANGED cluster \/ rv = revision
      BY <1>a, <1>3, WriteFacts DEF RemoveFinalizer
    <2>3. ASSUME rv = revision PROVE FALSE
      <3>1. db.uid = Current.uid
        BY <2>1, <2>3 DEF KnownInv, LifecycleInv, CopyIsOld
      <3>2. db.name = Current.name
        BY <2>1, <3>1, SameName
      <3>3. data[db.name] = 0 /\ users[db.name] = 0
        BY <2>1 DEF Owned
      <3> QED
        BY <3>2, <3>3 DEF Owned, Standing
    <2> QED
      BY <1>1, <2>2, <2>3
  <1>4. ~\E n \in Names : CreateDatabase(n)
    BY <1>b DEF CreateDatabase
  <1>5. CASE WatchEvent
    BY <1>a, <1>b, <1>5, WatchFacts DEF WatchEvent
  <1> QED
    BY <1>1, <1>2, <1>3, <1>4, <1>5, LogMoves

\* A step that leaves MariaDB alone.
LEMMA QuietOwned ==
  ASSUME KnownInv, Owned, [Next]_vars, UNCHANGED <<data, users>>,
         pc' \notin {"dropUser", "unfinalize"} \/ UNCHANGED <<pc, db>>
  PROVE  Owned'
  <1> SUFFICES ASSUME sqlFaults' = 0
               PROVE  /\ \A n \in Names : data'[n] # 0 \/ users'[n] # 0 =>
                            /\ Current'.exists /\ Current'.fin
                            /\ Current'.name = n
                            /\ data'[n] \in {0, Current'.uid}
                      /\ pc' \in {"dropUser", "unfinalize"} => data'[db'.name] = 0
                      /\ pc' = "unfinalize" => users'[db'.name] = 0
    BY DEF Owned
  <1>1. sqlFaults = 0
    BY CopyTypes, FaultsGrow DEF TypeOK
  <1>2. ASSUME NEW n \in Names, data'[n] # 0 \/ users'[n] # 0
        PROVE  /\ Current'.exists /\ Current'.fin
               /\ Current'.name = n
               /\ data'[n] \in {0, Current'.uid}
    <2>1. Standing
      BY <1>2 DEF Standing
    <2>2. /\ Current'.exists /\ Current'.fin
          /\ Current'.name = Current.name /\ Current'.uid = Current.uid
      BY <1>1, <2>1, ObjectHeld
    <2> QED
      BY <1>1, <1>2, <2>2 DEF Owned
  <1> QED
    BY <1>1, <1>2 DEF Owned

\* A MariaDB call that fails, or does nothing, or sets up what belongs to the
\* object, or drops it.
LEMMA SqlOwned ==
  ASSUME KnownInv, Owned, [Next]_vars,
         \/ Ping \/ CreateSchema \/ CreateUser \/ AlterUser \/ Grant
         \/ FlushPrivileges \/ PingBeforeDrop \/ DropSchema \/ DropUser
  PROVE  Owned'
  <1>a. TypeOK /\ Current \in Version /\ db \in Version /\ db.name \in Names
    BY CopyTypes
  <1>b. data \in [Names -> Nat] /\ users \in [Names -> Nat]
    BY <1>a DEF TypeOK
  <1> SUFFICES ASSUME sqlFaults' = 0 PROVE Owned'
    BY DEF Owned
  <1>0. sqlFaults = 0
    BY <1>a, FaultsGrow DEF TypeOK
  <1>1. UNCHANGED <<cluster, db, rv>> /\ Current' = Current
    BY <1>a, SqlSteps DEF cluster, Current
  <1>2. ASSUME UNCHANGED <<data, users>>, pc' \notin {"dropUser", "unfinalize"}
        PROVE  Owned'
    BY <1>2, QuietOwned
  <1>3. CASE Ping \/ Grant \/ FlushPrivileges
    BY <1>2, <1>3 DEF Ping, Grant, FlushPrivileges, SqlCall, Continue, mariadb
  <1>4. CASE PingBeforeDrop
    <2>1. pc' = "dropDatabase" /\ UNCHANGED <<data, users>>
      BY <1>0, <1>4 DEF PingBeforeDrop, SqlCall, Continue, mariadb
    <2> QED
      BY <1>2, <2>1
  <1>5. CASE CreateSchema \/ CreateUser \/ AlterUser
    <2>1. pc \in ProvisionPCs /\ pc # "idle" /\ pc' \in {"createUser", "alterUser", "grant", "fail"}
      BY <1>5 DEF CreateSchema, CreateUser, AlterUser, ProvisionPCs, SqlCall, Continue
    <2>2. db.uid = Current.uid /\ Current.exists /\ db.fin
      BY <2>1 DEF KnownInv, LifecycleInv, CallFitsCopy
    <2>3. Current.fin
      BY <2>1, <2>2, CurrentIsLatest DEF KnownInv, Follows
    <2>4. db.name = Current.name
      BY <2>1, <2>2, SameName
    <2>5. /\ \A n \in Names \ {db.name} : data'[n] = data[n] /\ users'[n] = users[n]
          /\ data'[db.name] \in {data[db.name], db.uid}
      BY <1>a, <1>b, <1>5 DEF CreateSchema, CreateUser, AlterUser, SqlCall, mariadb
    <2>6. \A n \in Names : data[n] \in {0, Current.uid}
                           /\ (n # db.name => data[n] = 0 /\ users[n] = 0)
      BY <1>0, <1>b, <2>4 DEF Owned
    <2>7. ASSUME NEW n \in Names, data'[n] # 0 \/ users'[n] # 0
          PROVE  Current.exists /\ Current.fin /\ Current.name = n /\ data'[n] \in {0, Current.uid}
      BY <2>2, <2>3, <2>4, <2>5, <2>6, <2>7
    <2> QED
      BY <1>1, <2>1, <2>7 DEF Owned
  <1>6. CASE DropSchema \/ DropUser
    <2>1. /\ \A n \in Names : data'[n] \in {0, data[n]} /\ users'[n] \in {0, users[n]}
          /\ data'[db.name] = 0
          /\ pc' = "unfinalize" => users'[db.name] = 0
      <3>1. CASE DropSchema
        <4>1. data' = [data EXCEPT ![db.name] = 0] /\ users' = users /\ pc' = "dropUser"
          BY <1>0, <1>a, <3>1 DEF DropSchema, SqlCall, Continue, TypeOK
        <4> QED
          BY <1>a, <1>b, <4>1
      <3>2. CASE DropUser
        <4>1. data' = data /\ users' = [users EXCEPT ![db.name] = 0] /\ pc = "dropUser"
          BY <1>0, <1>a, <3>2 DEF DropUser, SqlCall, Continue, TypeOK
        <4>2. data[db.name] = 0
          BY <1>0, <4>1 DEF Owned
        <4> QED
          BY <1>a, <1>b, <4>1, <4>2
      <3> QED
        BY <1>6, <3>1, <3>2
    <2>2. ASSUME NEW n \in Names, data'[n] # 0 \/ users'[n] # 0
          PROVE  Current.exists /\ Current.fin /\ Current.name = n /\ data'[n] \in {0, Current.uid}
      BY <1>0, <2>1, <2>2 DEF Owned
    <2> QED
      BY <1>1, <2>1, <2>2 DEF Owned
  <1> QED
    BY <1>3, <1>4, <1>5, <1>6

\* Every step keeps Owned.
LEMMA OwnedStep == KnownInv /\ Owned /\ [Next]_vars => Owned'
  <1> SUFFICES ASSUME KnownInv, Owned, [Next]_vars PROVE Owned'
    OBVIOUS
  <1>1. CASE Restart \/ AddFinalizer \/ SetCreating \/ UpdateReadyStatus \/ SetErrorStatus
             \/ RemoveFinalizer \/ PersistPassword \/ SetTerminating
    BY <1>1, QuietOwned
       DEF Restart, AddFinalizer, SetCreating, UpdateReadyStatus, SetErrorStatus,
           RemoveFinalizer, PersistPassword, SetTerminating, ContinueFresh, Return, mariadb
  <1>2. CASE Reconcile
    <2>1. pc' \notin {"dropUser", "unfinalize"}
      BY <1>2 DEF Reconcile, FirstCall
    <2> QED
      BY <1>2, <2>1, QuietOwned DEF Reconcile, mariadb
  <1>3. CASE \/ Ping \/ CreateSchema \/ CreateUser \/ AlterUser \/ Grant
             \/ FlushPrivileges \/ PingBeforeDrop \/ DropSchema \/ DropUser
    BY <1>3, SqlOwned
  <1>4. CASE WatchEvent \/ DeleteDatabase \/ UNCHANGED vars
    BY <1>4, QuietOwned DEF WatchEvent, DeleteDatabase, vars, worker, mariadb
  <1>5. ASSUME NEW n \in Names, CreateDatabase(n) PROVE Owned'
    BY <1>5, QuietOwned DEF CreateDatabase, worker, mariadb
  <1>6. ASSUME NEW r \in Requests,
               PasswordGet(r) \/ PasswordUpdate(r) \/ PasswordStatus(r) \/ PasswordAbort(r)
        PROVE  Owned'
    BY <1>6, QuietOwned
       DEF PasswordGet, PasswordUpdate, PasswordStatus, PasswordAbort, worker, mariadb
  <1> QED
    BY <1>1, <1>2, <1>3, <1>4, <1>5, <1>6 DEF Next, Operator, Provision, Cleanup, Panel

\* As long as no MariaDB call failed, what stands in MariaDB belongs to the
\* object in the API server, through restarts, lost API calls, stale caches
\* and re-creation under another spec.name.
THEOREM NothingOrphaned == Spec => []NoOrphans
  <1>1. Init => Owned
    BY DEF Init, Owned
  <1>2. Owned => NoOrphans
    BY DEF Owned, NoOrphans
  <1> QED
    BY <1>1, <1>2, OwnedStep, KnownInvariant, PTL DEF Spec

-----------------------------------------------------------------------------
(***************************************************************************)
(* A Ready database can be used, while nothing disturbs the operator       *)
(***************************************************************************)
Calm == KnownInv /\ Undisturbed /\ Usable

\* An accepted write leaves the API server with what was written.
LEMMA AcceptedFacts ==
  ASSUME TypeOK, NEW STATE v, v \in Version, Accepted(v)
  PROVE  rv = revision /\ Current' = v
  <1>1. CASE v = Current
    BY <1>1 DEF Accepted, Store, cluster, Current
  <1>2. CASE v # Current
    BY <1>2, PublishFacts DEF Accepted, Store
  <1> QED
    BY <1>1, <1>2

\* Without lost calls a write fails only because the copy is stale.
LEMMA RefusedFacts ==
  ASSUME TypeOK, NEW STATE v, Failed(v), apiFaults' = 0
  PROVE  rv # revision /\ UNCHANGED cluster /\ Current' = Current /\ Cached' = Cached
  BY DEF TypeOK, Failed, cluster, Current, Cached

\* Without password requests only the operator writes passwords.
LEMMA NoRequests ==
  ASSUME TypeOK, Alone, changes' = 0, [Next]_vars
  PROVE  /\ UNCHANGED preq
         /\ \A r \in Requests : ~(\/ PasswordGet(r) \/ PasswordUpdate(r)
                                  \/ PasswordStatus(r) \/ PasswordAbort(r))
  <1>1. \A r \in Requests : ~(\/ PasswordGet(r) \/ PasswordUpdate(r)
                              \/ PasswordStatus(r) \/ PasswordAbort(r))
    BY DEF TypeOK, Alone, PasswordGet, PasswordUpdate, PasswordStatus, PasswordAbort
  <1>2. CASE Reconcile \/ WatchEvent \/ DeleteDatabase \/ Restart \/ UNCHANGED vars
    BY <1>1, <1>2 DEF Reconcile, WatchEvent, DeleteDatabase, Restart, vars
  <1>3. CASE \/ AddFinalizer \/ SetCreating \/ PersistPassword \/ UpdateReadyStatus
             \/ SetErrorStatus \/ SetTerminating \/ RemoveFinalizer
    BY <1>1, <1>3 DEF AddFinalizer, SetCreating, PersistPassword, UpdateReadyStatus,
                      SetErrorStatus, SetTerminating, RemoveFinalizer
  <1>4. CASE \/ Ping \/ CreateSchema \/ CreateUser \/ AlterUser \/ Grant
             \/ FlushPrivileges \/ PingBeforeDrop \/ DropSchema \/ DropUser
    BY <1>1, <1>4 DEF Ping, CreateSchema, CreateUser, AlterUser, Grant, FlushPrivileges,
                      PingBeforeDrop, DropSchema, DropUser, SqlCall
  <1>5. CASE \E n \in Names : CreateDatabase(n)
    BY <1>1, <1>5 DEF CreateDatabase
  <1> QED
    BY <1>1, <1>2, <1>3, <1>4, <1>5 DEF Next, Operator, Provision, Cleanup, Panel

\* A current copy is the object.
LEMMA AloneStep ==
  ASSUME Calm, Undisturbed', [Next]_vars
  PROVE  Alone'
  <1>a. KnownInv /\ TypeOK /\ Alone /\ changes' = 0 /\ apiFaults' = 0 /\ apiFaults = 0
    BY CopyTypes DEF Calm, Undisturbed, Usable
  <1>b. pc # "idle" /\ rv = revision => db = Current
    BY <1>a DEF Alone
  <1>1. \A r \in Requests : preq'[r].step = "idle"
    BY <1>a, NoRequests DEF Alone
  <1>2. ASSUME pc' # "idle", rv' = revision' PROVE db' = Current'
    <2>0. WatchEvent => Current' = Current /\ revision' = revision
      BY <1>a, WatchFacts DEF WatchEvent
    <2>1. rv' = rv => rv = revision /\ Current' = Current
      <3>1. CASE WatchEvent
        BY <1>2, <2>0, <3>1
      <3>2. CASE ~WatchEvent
        BY <1>2, <1>a, <3>2, StillCurrent DEF cluster, Current
      <3> QED
        BY <3>1, <3>2
    <2>2. CASE Keeps
      BY <1>2, <1>b, <2>1, <2>2 DEF Keeps
    <2>3. CASE Patches
      BY <1>a, <2>1, <2>3 DEF Patches
    <2>4. CASE Renews
      BY <2>4 DEF Renews
    <2>5. CASE Reconcile
      BY <1>2, <1>a, <2>5, ReadIsCurrent DEF cluster, Current
    <2> QED
      BY <1>2, <1>a, <2>2, <2>3, <2>4, <2>5, CopyMoves
  <1> QED
    BY <1>1, <1>2 DEF Alone

\* Without password requests a password is only ever set once.
LEMMA SetOnce ==
  ASSUME Calm, Undisturbed', [Next]_vars
  PROVE  \/ /\ Current'.uid = Current.uid
            /\ Current'.pw = Current.pw \/ Current.pw = 0
         \/ Current'.uid = Current.uid + 1
  <1>a. KnownInv /\ TypeOK /\ Alone /\ changes' = 0 /\ Current \in Version
    BY CopyTypes DEF Calm, Undisturbed, Usable
  <1>1. CASE UNCHANGED cluster
    BY <1>1 DEF cluster, Current
  <1>2. ASSUME NEW v \in Version, Rewrite(v)
        PROVE  Current'.uid = Current.uid /\ (Current'.pw = Current.pw \/ Current.pw = 0)
    <2>1. ~\E r \in Requests : PasswordStatus(r)
      BY <1>a, NoRequests
    <2> QED
      BY <1>a, <1>2, <2>1, PublishFacts DEF Rewrite
  <1>3. ASSUME NEW n \in Names, CreateDatabase(n) PROVE Current'.uid = Current.uid + 1
    <2> DEFINE v == [NoVersion EXCEPT !.uid = Current.uid + 1, !.exists = TRUE, !.name = n]
    <2>1. v \in Version /\ v.uid = Current.uid + 1
      BY <1>a, WrittenType, NoVersionType DEF NoVersion
    <2> QED
      BY <1>a, <1>3, <2>1, PublishFacts DEF CreateDatabase
  <1>4. CASE WatchEvent
    BY <1>a, <1>4, WatchFacts DEF WatchEvent
  <1> QED
    BY <1>a, <1>1, <1>2, <1>3, <1>4, LogMoves

\* All versions of the incarnation that have a password have the same.
LogPassword == \A i \in 1 .. Len(log) :
                  log[i].uid = Current.uid /\ log[i].pw # 0 => log[i].pw = Current.pw

\* No step adds a version with another password.
LEMMA LogPasswordStep ==
  ASSUME Calm, Undisturbed', [Next]_vars
  PROVE  LogPassword'
  <1>a. /\ KnownInv /\ TypeOK /\ LifecycleInv /\ Current \in Version
        /\ Len(log) \in Nat /\ 1 <= Len(log)
    BY CopyTypes DEF Calm
  <1>b. \A i \in 1 .. Len(log) : log[i] \in Version /\ log[i].uid <= Current.uid
    BY <1>a, Numbered
  <1>c. LogPassword
    BY DEF Calm, Usable, OnePassword, LogPassword
  <1>d. \A i \in 1 .. Len(log) :
           log[i].uid = Current'.uid /\ log[i].pw # 0 => log[i].pw = Current'.pw
    <2>1. CASE Current'.uid = Current.uid /\ (Current'.pw = Current.pw \/ Current.pw = 0)
      BY <1>c, <2>1 DEF LogPassword
    <2>2. CASE Current'.uid = Current.uid + 1
      BY <1>a, <1>b, <2>2 DEF Version
    <2> QED
      BY <2>1, <2>2, SetOnce
  <1>1. CASE UNCHANGED cluster
    BY <1>1, <1>d DEF cluster, LogPassword
  <1>2. ASSUME NEW v \in Version, Publish(v) PROVE LogPassword'
    <2>1. /\ Len(log') = Len(log) + 1 /\ log'[Len(log')] = v /\ Current' = v
          /\ \A i \in 1 .. Len(log) : log'[i] = log[i]
      BY <1>a, <1>2, PublishFacts
    <2>2. \A i \in 1 .. Len(log') : i \in 1 .. Len(log) \/ i = Len(log')
      BY <1>a, <2>1
    <2>3. ASSUME NEW i \in 1 .. Len(log'), log'[i].uid = Current'.uid, log'[i].pw # 0
          PROVE  log'[i].pw = Current'.pw
      BY <1>d, <2>1, <2>2, <2>3
    <2> QED
      BY <2>3 DEF LogPassword
  <1>3. ASSUME NEW n \in Names, CreateDatabase(n) PROVE LogPassword'
    <2>1. [NoVersion EXCEPT !.uid = Current.uid + 1, !.exists = TRUE, !.name = n] \in Version
      BY <1>a, WrittenType
    <2> QED
      BY <1>2, <1>3, <2>1 DEF CreateDatabase
  <1>4. CASE WatchEvent
    <2>1. PICK i \in 2 .. Len(log) : log' = SubSeq(log, i, Len(log))
      BY <1>4 DEF WatchEvent
    <2>2. /\ Len(log') = Len(log) - i + 1
          /\ \A k \in 1 .. Len(log') : log'[k] = log[k + i - 1]
      BY <1>a, <2>1, WatchFacts
    <2>3. \A k \in 1 .. Len(log') : k + i - 1 \in 1 .. Len(log)
      BY <1>a, <2>1, <2>2
    <2>4. ASSUME NEW k \in 1 .. Len(log'), log'[k].uid = Current'.uid, log'[k].pw # 0
          PROVE  log'[k].pw = Current'.pw
      BY <1>d, <2>2, <2>3, <2>4
    <2> QED
      BY <2>4 DEF LogPassword
  <1> QED
    BY <1>a, <1>1, <1>2, <1>3, <1>4, LogMoves DEF Rewrite

\* A copy of the present incarnation that has a password has the object's.
LEMMA OnePasswordStep ==
  ASSUME Calm, Undisturbed', [Next]_vars
  PROVE  OnePassword'
  <1>a. /\ KnownInv /\ TypeOK /\ LifecycleInv /\ Current \in Version /\ Cached \in Version
        /\ Len(log) \in Nat /\ 1 <= Len(log) /\ db \in Version
        /\ apiFaults' = 0 /\ apiFaults = 0
    BY CopyTypes DEF Calm, Undisturbed
  <1>b. pc # "idle" => db.uid <= Current.uid
    BY <1>a, Numbered DEF Version
  <1>c. /\ LogPassword
        /\ pc \notin {"idle", "fail"} /\ db.uid = Current.uid /\ db.pw # 0 => db.pw = Current.pw
    BY DEF Calm, Usable, OnePassword, LogPassword
  <1>1. ASSUME pc' \notin {"idle", "fail"}, db'.uid = Current'.uid, db'.pw # 0
        PROVE  db'.pw = Current'.pw
    <2>1. ASSUME db'.uid = db.uid, db'.pw = db.pw, pc \notin {"idle", "fail"}
          PROVE  db'.pw = Current'.pw
      BY <1>1, <1>a, <1>b, <1>c, <2>1, SetOnce DEF Version
    <2>2. CASE Keeps
      BY <1>1, <2>1, <2>2 DEF Keeps
    <2>3. CASE Patches
      BY <1>1, <2>1, <2>3 DEF Patches
    <2>4. CASE Renews
      BY <2>4 DEF Renews
    <2>5. CASE Reconcile
      <3>1. db' = log[1] /\ Current' = Current
        BY <1>1, <1>a, <2>5, ReadIsCurrent DEF cluster, Current, Cached
      <3> QED
        BY <1>1, <1>a, <1>c, <3>1 DEF LogPassword
    <2> QED
      BY <1>1, <1>a, <2>2, <2>3, <2>4, <2>5, CopyMoves
  <1> QED
    BY <1>1, LogPasswordStep DEF OnePassword, LogPassword

\* What phase, progress and MariaDB have to do with each other.
Fits == PhaseFits /\ Progress /\ ReadyMeansUsable

\* What Calm says, in one place.
LEMMA CalmFacts ==
  ASSUME Calm
  PROVE  /\ KnownInv /\ TypeOK /\ LifecycleInv
         /\ PhaseFits /\ Progress /\ ReadyMeansUsable
         /\ Current \in Version /\ Cached \in Version /\ db \in Version
         /\ db.phase \in Phases /\ db.pw \in Nat /\ db.name \in Names /\ db.uid \in Nat
         /\ {"Creating", "Ready", "Error", "Terminating"} \subseteq Phases
         /\ FreshPassword \in Nat /\ FreshPassword # 0
         /\ data \in [Names -> Nat] /\ users \in [Names -> Nat] /\ grants \in SUBSET Names
         /\ pc # "idle" /\ rv = revision => db = Current
         /\ pc \in ProvisionPCs => /\ db.fin /\ ~db.del
                                   /\ db.uid = Current.uid /\ db.name = Current.name
                                   /\ Current.exists /\ Current.fin /\ Current.uid > 0
  <1>1. KnownInv /\ TypeOK /\ LifecycleInv
    BY CopyTypes DEF Calm
  <1>2. PhaseFits /\ Progress /\ ReadyMeansUsable /\ (pc # "idle" /\ rv = revision => db = Current)
    BY DEF Calm, Usable, Alone
  <1>3. FreshPassword # 0
    BY <1>1 DEF FreshPassword, TypeOK
  <1>4. data \in [Names -> Nat] /\ users \in [Names -> Nat] /\ grants \in SUBSET Names
    BY <1>1 DEF TypeOK
  <1>5. ASSUME pc \in ProvisionPCs
        PROVE  /\ db.fin /\ ~db.del
               /\ db.uid = Current.uid /\ db.name = Current.name
               /\ Current.exists /\ Current.fin /\ Current.uid > 0
    <2>1. pc # "idle"
      BY <1>5 DEF ProvisionPCs
    <2>2. db.uid = Current.uid /\ Current.exists /\ db.fin /\ ~db.del
      BY <1>1, <1>5 DEF LifecycleInv, CallFitsCopy
    <2>3. Current.fin
      BY <1>1, <2>1, <2>2, CurrentIsLatest DEF Follows
    <2>4. db.name = Current.name
      BY <1>1, <2>1, <2>2, SameName
    <2>5. Current.uid > 0
      BY <1>1, <2>2 DEF LifecycleInv, LogOrdered
    <2> QED
      BY <2>2, <2>3, <2>4, <2>5
  <1> QED
    BY <1>1, <1>2, <1>3, <1>4, <1>5, CopyTypes

\* A reconcile that returns leaves no progress to account for.
LEMMA IdleProgress ==
  ASSUME pc' = "idle" \/ pc' = "pingDrop"
  PROVE  Progress'
  BY DEF Progress, SetupPCs, ProvisionPCs, Provisioned

\* A write that is refused as stale.
LEMMA RefusedFits ==
  ASSUME Calm, Current' = Current, rv # revision, UNCHANGED mariadb
  PROVE  PhaseFits' /\ ReadyMeansUsable'
  <1>1. PhaseFits /\ ReadyMeansUsable
    BY CalmFacts
  <1>2. PhaseFits'
    BY <1>1 DEF PhaseFits, Alive
  <1>3. ReadyMeansUsable'
    BY <1>1 DEF ReadyMeansUsable, mariadb
  <1> QED
    BY <1>2, <1>3

\* Adding the finalizer leaves the status alone.
LEMMA FinalizeFits ==
  ASSUME Calm, Undisturbed', AddFinalizer
  PROVE  Fits'
  <1>a. /\ TypeOK /\ Current \in Version /\ PhaseFits /\ ReadyMeansUsable
        /\ apiFaults' = 0
    BY CalmFacts DEF Undisturbed
  <1> DEFINE v == WithFinalizer(TRUE)
  <1>b. v \in Version
    BY <1>a, WrittenType
  <1>c. /\ v.exists = Current.exists /\ v.del = Current.del /\ v.phase = Current.phase
        /\ v.pw = Current.pw /\ v.name = Current.name /\ v.fin
    BY <1>a DEF WithFinalizer, Version
  <1>1. pc = "finalize" /\ pc' = "idle" /\ UNCHANGED mariadb
    BY DEF AddFinalizer, Return
  <1>2. CASE Accepted(v)
    <2>1. Current' = v
      BY <1>a, <1>b, <1>2, AcceptedFacts
    <2>2. PhaseFits'
      BY <1>a, <1>c, <1>1, <2>1 DEF PhaseFits, Alive, SetupPCs
    <2>3. ReadyMeansUsable'
      BY <1>a, <1>c, <1>1, <2>1 DEF ReadyMeansUsable, mariadb
    <2> QED
      BY <1>1, <2>2, <2>3, IdleProgress DEF Fits
  <1>3. CASE Failed(v)
    BY <1>a, <1>1, <1>3, RefusedFacts, RefusedFits, IdleProgress DEF Fits
  <1> QED
    BY <1>2, <1>3 DEF AddFinalizer

\* The first status.
LEMMA CreatingFits ==
  ASSUME Calm, Undisturbed', SetCreating
  PROVE  Fits'
  <1>a. /\ TypeOK /\ Current \in Version /\ PhaseFits /\ Progress /\ ReadyMeansUsable
        /\ apiFaults' = 0 /\ "Creating" \in Phases /\ db.pw \in Nat
    BY CalmFacts DEF Undisturbed
  <1> DEFINE v == WithStatus("Creating", db.pw)
  <1>b. v \in Version
    BY <1>a, WrittenType
  <1>c. /\ v.exists = Current.exists /\ v.del = Current.del /\ v.phase = "Creating"
        /\ v.pw = db.pw /\ v.fin = Current.fin
    BY <1>a DEF WithStatus, Version
  <1>1. pc = "create" /\ pc' = "idle" /\ UNCHANGED mariadb
    BY DEF SetCreating, Return
  <1>2. CASE Accepted(v)
    <2>1. Current' = v /\ rv = revision
      BY <1>a, <1>b, <1>2, AcceptedFacts
    <2>2. db = Current /\ Current.fin
      BY <1>1, <2>1, CalmFacts DEF ProvisionPCs
    <2>3. Current.phase = ""
      BY <1>a, <1>1, <2>2 DEF Progress
    <2>4. PhaseFits'
      BY <1>a, <1>c, <2>1, <2>2, <2>3 DEF PhaseFits, Alive
    <2>5. ReadyMeansUsable'
      BY <1>c, <2>1 DEF ReadyMeansUsable
    <2> QED
      BY <1>1, <2>4, <2>5, IdleProgress DEF Fits
  <1>3. CASE Failed(v)
    BY <1>a, <1>1, <1>3, RefusedFacts, RefusedFits, IdleProgress DEF Fits
  <1> QED
    BY <1>2, <1>3 DEF SetCreating

\* A generated password: the object is not Ready, and if it is Creating the
\* reconcile goes on to provision it.
LEMMA PersistFits ==
  ASSUME Calm, Undisturbed', PersistPassword
  PROVE  Fits'
  <1>a. /\ TypeOK /\ Current \in Version /\ PhaseFits /\ Progress /\ ReadyMeansUsable
        /\ apiFaults' = 0 /\ db.phase \in Phases /\ FreshPassword \in Nat /\ FreshPassword # 0
    BY CalmFacts DEF Undisturbed
  <1> DEFINE v == WithStatus(db.phase, FreshPassword)
  <1>b. v \in Version
    BY <1>a, WrittenType
  <1>c. /\ v.exists = Current.exists /\ v.del = Current.del /\ v.phase = db.phase
        /\ v.pw = FreshPassword /\ v.fin = Current.fin
    BY <1>a DEF WithStatus, Version
  <1>1. pc = "persist" /\ UNCHANGED mariadb
    BY DEF PersistPassword
  <1>2. CASE Accepted(v) /\ ContinueFresh("createDatabase")
    <2>1. Current' = v /\ rv = revision
      BY <1>a, <1>b, <1>2, AcceptedFacts
    <2>2. Current.fin /\ db.phase # "" /\ db.phase # "Ready"
      BY <1>a, <1>1, <2>1, CalmFacts DEF ProvisionPCs, Progress
    <2>3. pc' = "createDatabase" /\ rv' = revision' /\ db' = v
      BY <1>2, <2>1 DEF ContinueFresh
    <2>4. PhaseFits'
      BY <1>a, <1>c, <2>1, <2>2, <2>3 DEF PhaseFits, Alive, SetupPCs
    <2>5. Progress'
      BY <1>a, <1>c, <2>2, <2>3 DEF Progress, Provisioned
    <2>6. ReadyMeansUsable'
      BY <1>c, <2>1, <2>2 DEF ReadyMeansUsable
    <2> QED
      BY <2>4, <2>5, <2>6 DEF Fits
  <1>3. CASE Failed(v) /\ pc' = "fail" /\ rv' = rv
    <2>1. rv # revision /\ Current' = Current /\ revision' = revision
      BY <1>a, <1>3, RefusedFacts DEF cluster
    <2>2. Progress'
      BY <1>3, <2>1 DEF Progress, Provisioned, SetupPCs
    <2> QED
      BY <1>1, <2>1, <2>2, RefusedFits DEF Fits
  <1> QED
    BY <1>2, <1>3 DEF PersistPassword

\* Ready is written over what the reconcile has provisioned.
LEMMA ReadyFits ==
  ASSUME Calm, Undisturbed', UpdateReadyStatus
  PROVE  Fits'
  <1>a. /\ TypeOK /\ Current \in Version /\ PhaseFits /\ Progress /\ ReadyMeansUsable
        /\ apiFaults' = 0 /\ "Ready" \in Phases /\ db.pw \in Nat
    BY CalmFacts DEF Undisturbed
  <1> DEFINE v == WithStatus("Ready", db.pw)
  <1>b. v \in Version
    BY <1>a, WrittenType
  <1>c. /\ v.exists = Current.exists /\ v.del = Current.del /\ v.phase = "Ready"
        /\ v.pw = db.pw /\ v.fin = Current.fin /\ v.name = Current.name
    BY <1>a DEF WithStatus, Version
  <1>1. pc = "ready" /\ pc' = "idle" /\ UNCHANGED mariadb
    BY DEF UpdateReadyStatus, Return
  <1>2. CASE Accepted(v)
    <2>1. Current' = v /\ rv = revision
      BY <1>a, <1>b, <1>2, AcceptedFacts
    <2>2. db = Current /\ Current.fin
      BY <1>1, <2>1, CalmFacts DEF ProvisionPCs
    <2>3. /\ db.pw # 0
          /\ data[db.name] # 0 /\ users[db.name] = db.pw /\ db.name \in grants
      BY <1>a, <1>1, <2>1 DEF Progress, Provisioned, SetupPCs
    <2>4. PhaseFits'
      BY <1>c, <2>1, <2>2, <2>3 DEF PhaseFits, Alive
    <2>5. ReadyMeansUsable'
      BY <1>c, <1>1, <2>1, <2>2, <2>3 DEF ReadyMeansUsable, mariadb
    <2> QED
      BY <1>1, <2>4, <2>5, IdleProgress DEF Fits
  <1>3. CASE Failed(v)
    BY <1>a, <1>1, <1>3, RefusedFacts, RefusedFits, IdleProgress DEF Fits
  <1> QED
    BY <1>2, <1>3 DEF UpdateReadyStatus

\* An error makes the next reconcile provision again.
LEMMA ErrorFits ==
  ASSUME Calm, Undisturbed', SetErrorStatus
  PROVE  Fits'
  <1>a. /\ TypeOK /\ Current \in Version /\ PhaseFits /\ Progress /\ ReadyMeansUsable
        /\ apiFaults' = 0 /\ "Error" \in Phases /\ db.pw \in Nat
    BY CalmFacts DEF Undisturbed
  <1> DEFINE v == WithStatus("Error", db.pw)
  <1>b. v \in Version
    BY <1>a, WrittenType
  <1>c. /\ v.exists = Current.exists /\ v.del = Current.del /\ v.phase = "Error"
        /\ v.fin = Current.fin
    BY <1>a DEF WithStatus, Version
  <1>1. pc = "fail" /\ pc' = "idle" /\ UNCHANGED mariadb
    BY DEF SetErrorStatus, Return
  <1>2. CASE Accepted(v)
    <2>1. Current' = v
      BY <1>a, <1>b, <1>2, AcceptedFacts
    <2>2. Current.fin
      BY <1>1, CalmFacts DEF ProvisionPCs
    <2>3. PhaseFits' /\ ReadyMeansUsable'
      BY <1>c, <2>1, <2>2 DEF PhaseFits, Alive, ReadyMeansUsable
    <2> QED
      BY <1>1, <2>3, IdleProgress DEF Fits
  <1>3. CASE Failed(v)
    BY <1>a, <1>1, <1>3, RefusedFacts, RefusedFits, IdleProgress DEF Fits
  <1> QED
    BY <1>2, <1>3 DEF SetErrorStatus

\* The writes of a cleanup hit an object that is being deleted.
LEMMA CleanupWriteFits ==
  ASSUME Calm, Undisturbed', SetTerminating \/ RemoveFinalizer
  PROVE  Fits'
  <1>a. /\ TypeOK /\ LifecycleInv /\ Current \in Version /\ apiFaults' = 0
        /\ "Terminating" \in Phases /\ db.pw \in Nat
    BY CalmFacts DEF Undisturbed
  <1>b. WithStatus("Terminating", db.pw) \in Version
        /\ [Current EXCEPT !.fin = FALSE, !.exists = FALSE] \in Version
    BY <1>a, WrittenType
  <1>c. /\ WithStatus("Terminating", db.pw).del = Current.del
        /\ [Current EXCEPT !.fin = FALSE, !.exists = FALSE].exists = FALSE
    BY <1>a DEF WithStatus, Version
  <1>1. /\ pc \in CleanupPCs /\ pc # "idle" /\ UNCHANGED mariadb
        /\ pc' = "idle" \/ pc' = "pingDrop"
    BY DEF SetTerminating, RemoveFinalizer, ContinueFresh, Return, CleanupPCs
  <1>2. ASSUME NEW STATE v, v \in Version, Accepted(v), v.del = Current.del \/ ~v.exists
        PROVE  Fits'
    <2>1. Current' = v /\ rv = revision
      BY <1>a, <1>2, AcceptedFacts
    <2>2. Current.del
      BY <1>a, <1>1, <2>1 DEF LifecycleInv, CopyIsOld, CallFitsCopy
    <2>3. PhaseFits' /\ ReadyMeansUsable'
      BY <1>2, <2>1, <2>2 DEF PhaseFits, Alive, ReadyMeansUsable
    <2> QED
      BY <1>1, <2>3, IdleProgress DEF Fits
  <1>3. ASSUME NEW STATE v, v \in Version, Failed(v) PROVE Fits'
    BY <1>a, <1>1, <1>3, RefusedFacts, RefusedFits, IdleProgress DEF Fits
  <1>4. CASE SetTerminating
    BY <1>b, <1>c, <1>2, <1>3, <1>4 DEF SetTerminating
  <1>5. CASE RemoveFinalizer
    BY <1>b, <1>c, <1>2, <1>3, <1>5 DEF RemoveFinalizer
  <1> QED
    BY <1>4, <1>5

\* The MariaDB calls leave the object and the copy alone.
LEMMA SqlFrame ==
  ASSUME TypeOK,
         \/ Ping \/ CreateSchema \/ CreateUser \/ AlterUser \/ Grant
         \/ FlushPrivileges \/ PingBeforeDrop \/ DropSchema \/ DropUser
  PROVE  Current' = Current /\ UNCHANGED <<db, rv, revision>>
  BY SqlSteps DEF cluster, Current

\* Provisioning does not disturb what the status says.
LEMMA ProvisionPhase ==
  ASSUME Calm, Current' = Current, UNCHANGED <<db, rv, revision>>,
         pc \in SetupPCs \union {"fail"} => pc' \in SetupPCs \union {"fail"}
  PROVE  PhaseFits'
  <1>1. PhaseFits
    BY CalmFacts
  <1> QED
    BY <1>1 DEF PhaseFits, Alive

\* It provides a Ready database with what it has already.
LEMMA ProvisionReady ==
  ASSUME Calm, Current' = Current, pc \in ProvisionPCs,
         data[db.name] # 0 => data'[db.name] # 0,
         \/ users'[db.name] = users[db.name]
         \/ users[db.name] = 0
         \/ pc \in SetupPCs /\ users'[db.name] = db.pw,
         grants \subseteq grants'
  PROVE  ReadyMeansUsable'
  <1> SUFFICES ASSUME Current.exists, ~Current.del, Current.phase = "Ready"
               PROVE  /\ data'[Current.name] # 0
                      /\ users'[Current.name] = Current.pw
                      /\ Current.name \in grants'
    BY DEF ReadyMeansUsable
  <1>1. /\ PhaseFits /\ Progress /\ ReadyMeansUsable
        /\ db.uid = Current.uid /\ db.name = Current.name
    BY CalmFacts
  <1>2. /\ data[Current.name] # 0 /\ users[Current.name] = Current.pw
        /\ Current.name \in grants /\ Current.pw # 0
    BY <1>1 DEF ReadyMeansUsable, PhaseFits, Alive
  <1>3. pc \in SetupPCs => db.pw = Current.pw
    BY <1>1 DEF Progress, SetupPCs, Calm, Usable, OnePassword
  <1> QED
    BY <1>1, <1>2, <1>3

\* The calls of provisionDatabase.
LEMMA ProvisionFits ==
  ASSUME Calm, \/ Ping \/ CreateSchema \/ CreateUser \/ AlterUser \/ Grant \/ FlushPrivileges
  PROVE  Fits'
  <1>a. /\ TypeOK /\ PhaseFits /\ Progress
        /\ db.phase \in Phases /\ db.pw \in Nat /\ db.name \in Names /\ db.uid \in Nat
        /\ data \in [Names -> Nat] /\ users \in [Names -> Nat] /\ grants \in SUBSET Names
    BY CalmFacts
  <1>b. Current' = Current /\ UNCHANGED <<db, rv, revision>>
    BY <1>a, SqlFrame
  <1>c. pc \in ProvisionPCs
    BY DEF Ping, CreateSchema, CreateUser, AlterUser, Grant, FlushPrivileges, ProvisionPCs
  <1>d. db.uid # 0
    BY <1>a, <1>c, CalmFacts
  <1>1. PhaseFits'
    <2>1. pc \in SetupPCs \union {"fail"} => pc' \in SetupPCs \union {"fail"}
      BY DEF Ping, CreateSchema, CreateUser, AlterUser, Grant, FlushPrivileges,
             SqlCall, Continue, SetupPCs
    <2> QED
      BY <1>b, <2>1, ProvisionPhase
  <1>2. ReadyMeansUsable'
    <2>1. CASE Ping \/ FlushPrivileges
      BY <1>b, <1>c, <2>1, ProvisionReady DEF Ping, FlushPrivileges, SqlCall, mariadb
    <2>2. CASE CreateSchema
      <3>1. UNCHANGED <<users, grants>> /\ (data[db.name] # 0 => data'[db.name] # 0)
        BY <1>a, <2>2 DEF CreateSchema, SqlCall, mariadb
      <3> QED
        BY <1>b, <1>c, <3>1, ProvisionReady
    <2>3. CASE CreateUser
      <3>1. UNCHANGED <<data, grants>> /\ (users[db.name] # 0 => users'[db.name] = users[db.name])
        BY <1>a, <2>3 DEF CreateUser, SqlCall, mariadb
      <3> QED
        BY <1>b, <1>c, <3>1, ProvisionReady
    <2>4. CASE AlterUser
      <3>1. UNCHANGED <<data, grants>> /\ users'[db.name] \in {users[db.name], db.pw}
        BY <1>a, <2>4 DEF AlterUser, SqlCall, mariadb
      <3>2. pc \in SetupPCs
        BY <2>4 DEF AlterUser, SetupPCs
      <3> QED
        BY <1>b, <1>c, <3>1, <3>2, ProvisionReady
    <2>5. CASE Grant
      BY <1>b, <1>c, <2>5, ProvisionReady DEF Grant, SqlCall, mariadb
    <2> QED
      BY <2>1, <2>2, <2>3, <2>4, <2>5
  <1>3. ASSUME pc' = "fail" PROVE Progress'
    <2>1. pc \in ProvisionPCs /\ rv' = revision' => db'.phase # "Ready"
      BY <1>a, <1>b, <1>c DEF Progress
    <2> QED
      BY <1>3, <1>c, <2>1 DEF Progress, Provisioned, SetupPCs
  <1>4. ASSUME pc' # "fail" PROVE Progress'
    <2>1. rv' = revision' => db'.phase # "Ready"
      BY <1>a, <1>b, <1>c DEF Progress
    <2>2. CASE Ping
      BY <1>4, <1>a, <1>b, <2>1, <2>2 DEF Ping, SqlCall, Continue, Progress, Provisioned, SetupPCs
    <2>3. CASE CreateSchema
      <3>1. pc = "createDatabase" /\ pc' = "createUser" /\ data'[db.name] # 0
        BY <1>4, <1>a, <1>d, <2>3 DEF CreateSchema, SqlCall, Continue
      <3> QED
        BY <1>a, <1>b, <2>1, <3>1 DEF Progress, Provisioned, SetupPCs
    <2>4. CASE CreateUser
      <3>1. pc = "createUser" /\ pc' = "alterUser" /\ data' = data
        BY <1>4, <2>4 DEF CreateUser, SqlCall, Continue
      <3> QED
        BY <1>a, <1>b, <2>1, <3>1 DEF Progress, Provisioned, SetupPCs
    <2>5. CASE AlterUser
      <3>1. pc = "alterUser" /\ pc' = "grant" /\ data' = data /\ users'[db.name] = db.pw
        BY <1>4, <1>a, <2>5 DEF AlterUser, SqlCall, Continue
      <3> QED
        BY <1>a, <1>b, <2>1, <3>1 DEF Progress, Provisioned, SetupPCs
    <2>6. CASE Grant
      <3>1. /\ pc = "grant" /\ pc' = "flush" /\ data' = data /\ users' = users
            /\ db.name \in grants'
        BY <1>4, <1>a, <2>6 DEF Grant, SqlCall, Continue
      <3> QED
        BY <1>a, <1>b, <2>1, <3>1 DEF Progress, Provisioned, SetupPCs
    <2>7. CASE FlushPrivileges
      <3>1. pc = "flush" /\ pc' = "ready" /\ UNCHANGED mariadb
        BY <1>4, <2>7 DEF FlushPrivileges, SqlCall, Continue
      <3> QED
        BY <1>a, <1>b, <2>1, <3>1 DEF Progress, Provisioned, SetupPCs, mariadb
    <2> QED
      BY <2>2, <2>3, <2>4, <2>5, <2>6, <2>7
  <1> QED
    BY <1>1, <1>2, <1>3, <1>4 DEF Fits

\* The calls of reconcileDelete: with its finalizer, the incarnation they
\* work on is the present one, which is not alive then.
LEMMA CleanupFits ==
  ASSUME Calm, PingBeforeDrop \/ DropSchema \/ DropUser
  PROVE  Fits'
  <1>a. /\ KnownInv /\ TypeOK /\ LifecycleInv /\ PhaseFits /\ ReadyMeansUsable
    BY CalmFacts
  <1>b. Current' = Current /\ UNCHANGED <<db, rv, revision>>
    BY <1>a, SqlFrame
  <1>1. /\ pc \in CleanupPCs /\ pc # "idle" /\ pc \notin SetupPCs \union {"fail"}
        /\ pc' \in {"dropDatabase", "dropUser", "unfinalize"}
    BY DEF PingBeforeDrop, DropSchema, DropUser, SqlCall, Continue, CleanupPCs, SetupPCs
  <1>2. PhaseFits'
    BY <1>b, <1>1, ProvisionPhase
  <1>3. Progress'
    BY <1>1 DEF Progress, Provisioned, SetupPCs, ProvisionPCs
  <1>4. ASSUME Current.exists, ~Current.del, Current.phase = "Ready" PROVE FALSE
    <2>1. Current.fin
      BY <1>a, <1>4 DEF PhaseFits, Alive
    <2>2. db.uid = Current.uid
      BY <1>a, <1>1, <1>4, <2>1 DEF KnownInv, SeenIsLast
    <2>3. db.del
      BY <1>a, <1>1 DEF LifecycleInv, CallFitsCopy
    <2> QED
      BY <1>a, <1>1, <1>4, <2>2, <2>3, CurrentIsLatest DEF Follows
  <1>5. ReadyMeansUsable'
    BY <1>b, <1>4 DEF ReadyMeansUsable
  <1> QED
    BY <1>2, <1>3, <1>5 DEF Fits

\* A reconcile begins: what looks half done, or Ready without a password, is
\* not the present version.
LEMMA ReconcileFits ==
  ASSUME Calm, Reconcile
  PROVE  Fits'
  <1>a. TypeOK /\ PhaseFits /\ ReadyMeansUsable /\ Cached \in Version
    BY CalmFacts
  <1>1. /\ Current' = Current /\ UNCHANGED mariadb /\ pc = "idle" /\ pc' = FirstCall(Cached)
        /\ revision' = revision
    BY DEF Reconcile, cluster, Current
  <1>2. PhaseFits' /\ ReadyMeansUsable'
    BY <1>a, <1>1 DEF PhaseFits, Alive, ReadyMeansUsable, mariadb, SetupPCs
  <1>3. CASE pc' = "idle"
    BY <1>2, <1>3, IdleProgress DEF Fits
  <1>4. CASE pc' # "idle"
    <2>1. db' = Cached /\ (rv' = revision' => Cached = Current)
      BY <1>a, <1>4, ReadIsCurrent
    <2>2. /\ pc' \in SetupPCs => pc' = "ready" /\ Cached.phase = "Creating" /\ Cached.pw # 0
          /\ pc' \notin {"createUser", "alterUser", "grant", "flush"}
          /\ pc' = "create" => Cached.phase = ""
          /\ pc' \in {"ping", "persist"} => Cached.phase # ""
          /\ pc' \in ProvisionPCs => Cached.exists /\ ~Cached.del
          /\ pc' \in ProvisionPCs /\ Cached.phase = "Ready" => Cached.pw = 0
      BY <1>1, <1>4 DEF FirstCall, SetupPCs, ProvisionPCs
    <2>3. pc' \in ProvisionPCs /\ rv' = revision' => pc' # "ready" /\ Cached.phase # "Ready"
      BY <1>a, <1>1, <2>1, <2>2 DEF PhaseFits, Alive, SetupPCs
    <2>4. "ready" \in ProvisionPCs /\ "ready" \in SetupPCs
      BY DEF ProvisionPCs, SetupPCs
    <2>5. Progress'
      BY <2>1, <2>2, <2>3, <2>4 DEF Progress, Provisioned
    <2> QED
      BY <1>2, <2>5 DEF Fits
  <1> QED
    BY <1>3, <1>4

\* Steps of others: a copy that is current after them was so before.
LEMMA OthersProgress ==
  ASSUME Calm, UNCHANGED <<pc, db, rv>>, UNCHANGED mariadb,
         rv' = revision' => rv = revision
  PROVE  Progress'
  <1>1. Progress
    BY CalmFacts
  <1> QED
    BY <1>1 DEF Progress, Provisioned, mariadb

\* The cache, the panel, and steps of nobody.
LEMMA OthersFit ==
  ASSUME Calm, \/ WatchEvent \/ DeleteDatabase \/ UNCHANGED vars
               \/ \E n \in Names : CreateDatabase(n)
  PROVE  Fits'
  <1>a. TypeOK /\ PhaseFits /\ ReadyMeansUsable /\ Current \in Version
    BY CalmFacts
  <1>b. rv \in Nat /\ revision \in Nat /\ rv <= revision
    BY <1>a DEF TypeOK
  <1>1. CASE WatchEvent \/ UNCHANGED vars
    <2>1. /\ Current' = Current /\ UNCHANGED <<pc, db, rv, revision>> /\ UNCHANGED mariadb
      BY <1>a, <1>1, WatchFacts DEF WatchEvent, vars, cluster, worker, Current
    <2>2. PhaseFits' /\ ReadyMeansUsable'
      BY <1>a, <2>1 DEF PhaseFits, Alive, ReadyMeansUsable, mariadb
    <2> QED
      BY <2>1, <2>2, OthersProgress DEF Fits
  <1>2. ASSUME NEW STATE v, v \in Version, Publish(v), UNCHANGED worker, UNCHANGED mariadb,
               \/ v.del \/ ~v.exists
               \/ v.phase = "" /\ v.pw = 0
        PROVE  Fits'
    <2>1. Current' = v /\ revision' = revision + 1
      BY <1>a, <1>2, PublishFacts
    <2>2. PhaseFits' /\ ReadyMeansUsable'
      BY <1>2, <2>1 DEF PhaseFits, Alive, ReadyMeansUsable
    <2>3. UNCHANGED <<pc, db, rv>>
      BY <1>2 DEF worker
    <2>4. rv # revision + 1
      BY <1>b
    <2> QED
      BY <1>2, <2>1, <2>2, <2>3, <2>4, OthersProgress DEF Fits
  <1>3. CASE DeleteDatabase
    <2> DEFINE v == IF Current.fin THEN [Current EXCEPT !.del = TRUE]
                                   ELSE [Current EXCEPT !.exists = FALSE]
    <2>1. v \in Version /\ (v.del \/ ~v.exists)
      BY <1>a, WrittenType DEF Version
    <2>2. Publish(v) /\ UNCHANGED worker /\ UNCHANGED mariadb
      BY <1>3 DEF DeleteDatabase
    <2> QED
      BY <1>2, <2>1, <2>2
  <1>4. ASSUME NEW n \in Names, CreateDatabase(n) PROVE Fits'
    <2> DEFINE v == [NoVersion EXCEPT !.uid = Current.uid + 1, !.exists = TRUE, !.name = n]
    <2>1. v \in Version /\ v.phase = "" /\ v.pw = 0
      BY <1>a, WrittenType, NoVersionType DEF NoVersion
    <2>2. Publish(v) /\ UNCHANGED worker /\ UNCHANGED mariadb
      BY <1>4 DEF CreateDatabase
    <2> QED
      BY <1>2, <2>1, <2>2
  <1> QED
    BY <1>1, <1>3, <1>4

\* Every step keeps UsableInv.
LEMMA UsableStep == KnownInv /\ UsableInv /\ [Next]_vars => UsableInv'
  <1> SUFFICES ASSUME KnownInv, UsableInv, [Next]_vars, Undisturbed' PROVE Usable'
    BY DEF UsableInv
  <1>a. TypeOK
    BY CopyTypes
  <1>b. Undisturbed /\ crashes' = crashes /\ crashes \in Nat
    BY <1>a, FaultsGrow DEF TypeOK, Undisturbed
  <1>c. Calm
    BY <1>b DEF Calm, UsableInv
  <1>d. Alone' /\ OnePassword'
    BY <1>c, AloneStep, OnePasswordStep
  <1>e. ~Restart
    <2>1. crashes + 1 # crashes
      BY <1>b
    <2>2. Restart => crashes' = crashes + 1
      BY DEF Restart
    <2> QED
      BY <1>b, <2>1, <2>2
  <1>f. \A r \in Requests : ~(\/ PasswordGet(r) \/ PasswordUpdate(r)
                              \/ PasswordStatus(r) \/ PasswordAbort(r))
    BY <1>a, <1>c, NoRequests DEF Calm, Usable, Undisturbed
  <1> SUFFICES Fits'
    BY <1>d DEF Usable, Fits
  <1>1. CASE \/ Ping \/ CreateSchema \/ CreateUser \/ AlterUser \/ Grant \/ FlushPrivileges
    BY <1>c, <1>1, ProvisionFits
  <1>2. CASE PingBeforeDrop \/ DropSchema \/ DropUser
    BY <1>c, <1>2, CleanupFits
  <1>3. CASE SetTerminating \/ RemoveFinalizer
    BY <1>c, <1>3, CleanupWriteFits
  <1>4. CASE AddFinalizer \/ SetCreating \/ PersistPassword \/ UpdateReadyStatus \/ SetErrorStatus
    BY <1>c, <1>4, FinalizeFits, CreatingFits, PersistFits, ReadyFits, ErrorFits
  <1>5. CASE Reconcile
    BY <1>c, <1>5, ReconcileFits
  <1>6. CASE \/ WatchEvent \/ DeleteDatabase \/ UNCHANGED vars
             \/ \E n \in Names : CreateDatabase(n)
    BY <1>c, <1>6, OthersFit
  <1> QED
    BY <1>e, <1>f, <1>1, <1>2, <1>3, <1>4, <1>5, <1>6
       DEF Next, Operator, Provision, Cleanup, Panel

\* A Ready database stands in MariaDB, and its account has the password that
\* the status shows, whatever MariaDB does and however stale the cache,
\* unless the operator restarts, an API call is lost or the panel changes
\* the password.
THEOREM ReadyIsUsable == Spec => []UndisturbedReadyIsUsable
  <1>1. Init => UsableInv
    <2> SUFFICES ASSUME Init PROVE Usable
      BY DEF UsableInv
    <2>1. pc = "idle" /\ Len(log) = 1 /\ Current = NoVersion /\ log[1] = Current
      BY DEF Init, Current
    <2>2. ~Current.exists
      <3>1. NoVersion.exists = FALSE
        BY DEF NoVersion
      <3> QED
        BY <2>1, <3>1
    <2>3. Alone
      BY <2>1 DEF Init, Alone, NoRequest
    <2>4. OnePassword
      BY <2>1 DEF OnePassword
    <2>5. PhaseFits /\ ReadyMeansUsable
      BY <2>2 DEF PhaseFits, Alive, ReadyMeansUsable
    <2>6. Progress
      BY <2>1 DEF Progress, Provisioned, SetupPCs, ProvisionPCs
    <2> QED
      BY <2>3, <2>4, <2>5, <2>6 DEF Usable
  <1>2. UsableInv => UndisturbedReadyIsUsable
    BY DEF UsableInv, Usable, Undisturbed, UndisturbedReadyIsUsable
  <1> QED
    BY <1>1, <1>2, UsableStep, KnownInvariant, PTL DEF Spec
==============================================================================
