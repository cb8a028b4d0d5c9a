--------------------------- MODULE DatabaseProofs ---------------------------
(***************************************************************************)
(* Proofs about DatabaseController, for every set of names and requests    *)
(* and every bound: type correctness, the inductive invariant              *)
(* LifecycleInv, and the refinement of DatabaseLifecycle.                  *)
(***************************************************************************)
EXTENDS DatabaseProperties, TLAPS

-----------------------------------------------------------------------------
(***************************************************************************)
(* The object log                                                          *)
(***************************************************************************)

\* NoVersion, the value of an empty read, is a version.
LEMMA NoVersionType == NoVersion \in Version
  <1>1. (CHOOSE n \in Names : TRUE) \in Names
    BY ConstantsAssumption
  <1> QED
    BY <1>1 DEF NoVersion, Version, Phases

\* The cached and the current version are versions.
LEMMA EndsType == TypeOK => /\ Cached \in Version
                            /\ Current \in Version
                            /\ Len(log) \in Nat
  BY DEF TypeOK, Cached, Current

\* A new version becomes the current one and leaves the others in place.
LEMMA PublishFacts ==
  ASSUME TypeOK, NEW STATE v, v \in Version, Publish(v)
  PROVE  /\ log' \in Seq(Version)
         /\ Len(log') = Len(log) + 1
         /\ revision' = revision + 1
         /\ Current' = v
         /\ Cached' = Cached
         /\ log'[Len(log')] = v
         /\ \A i \in 1 .. Len(log) : log'[i] = log[i]
  BY DEF TypeOK, Publish, Current, Cached

\* A write of the reconciler, successful or not, leaves the log alone or
\* publishes the written version from a current copy.
LEMMA WriteFacts ==
  ASSUME TypeOK, NEW STATE v, Accepted(v) \/ Failed(v)
  PROVE  UNCHANGED cluster \/ (rv = revision /\ Publish(v))
  BY DEF Accepted, Failed, Store, cluster

\* A watch event drops a prefix of the log.
LEMMA WatchFacts ==
  ASSUME TypeOK, NEW i \in 2 .. Len(log), log' = SubSeq(log, i, Len(log))
  PROVE  /\ log' \in Seq(Version)
         /\ Len(log') = Len(log) - i + 1
         /\ \A k \in 1 .. Len(log') : log'[k] = log[k + i - 1]
         /\ Cached' = log[i]
         /\ Current' = Current
  <1>0. /\ log \in Seq(Version)
        /\ Len(log) \in Nat /\ i \in Nat /\ 1 < i /\ i <= Len(log)
    BY DEF TypeOK
  <1>1. /\ log' \in Seq(Version)
        /\ Len(log') = Len(log) - i + 1
        /\ \A k \in 1 .. Len(log') : log'[k] = log[k + i - 1]
    BY <1>0
  <1>2. Len(log') \in 1 .. Len(log') /\ 1 \in 1 .. Len(log')
        /\ (1 + i) - 1 = i /\ (Len(log') + i) - 1 = Len(log)
    BY <1>0, <1>1
  <1>3. log'[1] = log[i] /\ log'[Len(log')] = log[Len(log)]
    BY <1>1, <1>2
  <1> QED
    BY <1>1, <1>3 DEF Cached, Current

\* The calls a reconcile can begin with, and for which versions.
LEMMA FirstCallFacts ==
  ASSUME NEW v \in Version
  PROVE  /\ FirstCall(v) \in PCs
         /\ FirstCall(v) # "idle" => v.exists
         /\ FirstCall(v) = "finalize" => ~v.del
         /\ FirstCall(v) \in ProvisionPCs => v.exists /\ v.fin /\ ~v.del
         /\ FirstCall(v) \in CleanupPCs => v.del
  BY DEF FirstCall, Version, PCs, ProvisionPCs, CleanupPCs

-----------------------------------------------------------------------------
(***************************************************************************)
(* Type correctness                                                        *)
(***************************************************************************)

\* A written version is a version again.
LEMMA WrittenType ==
  ASSUME TypeOK
  PROVE  /\ \A f \in BOOLEAN : WithFinalizer(f) \in Version
         /\ \A p \in Phases, w \in Nat : WithStatus(p, w) \in Version
         /\ [Current EXCEPT !.fin = FALSE, !.exists = FALSE] \in Version
         /\ [Current EXCEPT !.del = TRUE] \in Version
         /\ [Current EXCEPT !.exists = FALSE] \in Version
         /\ \A n \in Names : [NoVersion EXCEPT !.uid = Current.uid + 1,
                              !.exists = TRUE, !.name = n] \in Version
         /\ FreshPassword \in Nat
  <1>1. Current \in Version
    BY EndsType
  <1>2. NoVersion \in Version
    BY NoVersionType
  <1>3. /\ \A f \in BOOLEAN : WithFinalizer(f) \in Version
        /\ \A p \in Phases, w \in Nat : WithStatus(p, w) \in Version
    BY <1>1 DEF WithFinalizer, WithStatus, Version
  <1>4. /\ [Current EXCEPT !.fin = FALSE, !.exists = FALSE] \in Version
        /\ [Current EXCEPT !.del = TRUE] \in Version
        /\ [Current EXCEPT !.exists = FALSE] \in Version
    BY <1>1 DEF Version
  <1>5. \A n \in Names : [NoVersion EXCEPT !.uid = Current.uid + 1,
                              !.exists = TRUE, !.name = n] \in Version
    <2>1. Current.uid + 1 \in Nat
      BY <1>1 DEF Version
    <2> QED
      BY <1>2, <2>1 DEF Version
  <1>6. FreshPassword \in Nat
    BY DEF FreshPassword, TypeOK
  <1> QED
    BY <1>3, <1>4, <1>5, <1>6

\* What TypeOK says of the API server and of the failure counters.
ClusterType == /\ log \in Seq(Version)
               /\ revision \in Nat
               /\ Len(log) \in 1 .. revision
               /\ rv \in 0 .. revision
FaultType == /\ sqlFaults \in Nat /\ apiFaults \in Nat
             /\ crashes \in Nat /\ changes \in Nat
             /\ Disturbances <= MaxDisturbances

\* Publishing a version, or leaving the log alone, keeps the log well typed.
LEMMA PublishType ==
  ASSUME TypeOK, NEW STATE v, v \in Version, UNCHANGED cluster \/ Publish(v),
         rv' = rv \/ rv' = 0 \/ rv' = revision'
  PROVE  ClusterType' /\ Current' \in Version
  <1>1. CASE UNCHANGED cluster
    BY <1>1, EndsType DEF cluster, ClusterType, TypeOK, Current
  <1>2. CASE Publish(v)
    BY <1>2, PublishFacts DEF ClusterType, TypeOK
  <1> QED
    BY <1>1, <1>2

\* A failed write costs one lost API call at most.
LEMMA FailedFaults ==
  ASSUME TypeOK, NEW STATE v, (UNCHANGED apiFaults) \/ Failed(v),
         UNCHANGED <<sqlFaults, crashes, changes>>
  PROVE  FaultType'
  BY ConstantsAssumption DEF Failed, FaultType, TypeOK, Disturbances

\* Counting passwords yields a number.
LEMMA CountType ==
  ASSUME TypeOK, CountPassword, Current' \in Version
  PROVE  passwords' \in Nat
  BY DEF CountPassword, TypeOK, Version

\* Writes of the reconciler, in one place: v is what it writes, and the
\* local copy becomes NoVersion, the answer, or a patched copy.
LEMMA WriteType ==
  ASSUME TypeOK, NEW STATE v, v \in Version,
         \/ Accepted(v) /\ UNCHANGED apiFaults
         \/ Failed(v),
         rv' = rv \/ rv' = 0 \/ rv' = revision',
         UNCHANGED <<sqlFaults, crashes, changes>>
  PROVE  ClusterType' /\ FaultType' /\ Current' \in Version
  BY WriteFacts, PublishType, FailedFaults

\* MariaDB calls change nothing but MariaDB, the call and the counter.
LEMMA SqlType ==
  ASSUME TypeOK, NEW ACTION Effect, NEW call \in PCs, NEW onError \in PCs,
         SqlCall(Effect, call, onError)
  PROVE  /\ ClusterType' /\ FaultType' /\ pc' \in PCs /\ pc' \in {call, onError}
         /\ UNCHANGED <<cluster, queued, db, rv, preq, passwords>>
         /\ Effect \/ UNCHANGED mariadb
  <1>1. /\ pc' \in {call, onError} /\ UNCHANGED <<cluster, queued, db, rv, preq, passwords>>
        /\ Effect \/ UNCHANGED mariadb
    BY DEF SqlCall, Continue
  <1>2. ClusterType'
    BY <1>1 DEF ClusterType, TypeOK, cluster
  <1>3. FaultType'
    <2>1. /\ UNCHANGED <<apiFaults, crashes, changes>>
          /\ \/ UNCHANGED sqlFaults
             \/ Disturbances < MaxDisturbances /\ sqlFaults' = sqlFaults + 1
      BY DEF SqlCall
    <2> QED
      BY <2>1, ConstantsAssumption DEF FaultType, TypeOK, Disturbances
  <1> QED
    BY <1>1, <1>2, <1>3

\* Every step keeps the types.
LEMMA TypeStep == TypeOK /\ [Next]_vars => TypeOK'
  <1> SUFFICES ASSUME TypeOK, [Next]_vars PROVE TypeOK'
    OBVIOUS
  <1>a. db \in Version /\ NoVersion \in Version /\ Cached \in Version /\ Current \in Version
    BY NoVersionType, EndsType DEF TypeOK
  <1>b. db.phase \in Phases /\ db.pw \in Nat
    BY <1>a DEF Version
  <1>c. [db EXCEPT !.pw = FreshPassword] \in Version
        /\ [db EXCEPT !.phase = "Terminating"] \in Version
    BY <1>a, WrittenType, ZenonT(40) DEF Version, Phases
  <1> DEFINE Parts == /\ ClusterType /\ FaultType
                      /\ queued \in BOOLEAN /\ pc \in PCs /\ db \in Version
                      /\ passwords \in Nat
                      /\ data \in [Names -> Nat] /\ users \in [Names -> Nat]
                      /\ grants \in SUBSET Names
                      /\ preq \in [Requests -> [step: {"idle", "update", "status"},
                                                rv: Nat, phase: Phases]]
  <1>d. Parts' => TypeOK'
    BY DEF ClusterType, FaultType, TypeOK
  <1>e. Parts
    BY DEF ClusterType, FaultType, TypeOK
  <1>1. CASE Reconcile
    <2>1. pc' \in PCs /\ db' \in Version
      BY <1>1, <1>a, FirstCallFacts DEF Reconcile
    <2>2. ClusterType'
      BY <1>1, <1>e DEF Reconcile, cluster, ClusterType
    <2> QED
      BY <1>1, <1>d, <1>e, <2>1, <2>2
         DEF Reconcile, mariadb, bounds, FaultType, Disturbances
  <1>2. CASE AddFinalizer
    <2>1. WithFinalizer(TRUE) \in Version
      BY WrittenType
    <2>2. ClusterType' /\ FaultType'
      BY <1>2, <2>1, WriteType DEF AddFinalizer, Return
    <2> QED
      BY <1>2, <1>a, <1>d, <1>e, <2>2 DEF AddFinalizer, Return, mariadb, PCs
  <1>3. CASE SetCreating
    <2>1. WithStatus("Creating", db.pw) \in Version
      BY <1>b, WrittenType DEF Phases
    <2>2. ClusterType' /\ FaultType'
      BY <1>3, <2>1, WriteType DEF SetCreating, Return
    <2> QED
      BY <1>3, <1>a, <1>d, <1>e, <2>2 DEF SetCreating, Return, mariadb, PCs
  <1>4. CASE Ping
    <2>1. (IF db.pw = 0 THEN "persist" ELSE "createDatabase") \in PCs /\ "fail" \in PCs
      BY DEF PCs
    <2>2. /\ ClusterType' /\ FaultType' /\ pc' \in PCs
          /\ UNCHANGED <<cluster, queued, db, rv, preq, passwords>>
          /\ UNCHANGED mariadb
      BY <1>4, <2>1, SqlType DEF Ping
    <2> QED
      BY <1>d, <1>e, <2>2 DEF mariadb
  <1>5. CASE PersistPassword
    <2>1. WithStatus(db.phase, FreshPassword) \in Version
      BY <1>b, WrittenType
    <2>2. ClusterType' /\ FaultType' /\ Current' \in Version
      BY <1>5, <2>1, WriteType DEF PersistPassword, ContinueFresh
    <2>3. passwords' \in Nat
      BY <1>5, <2>2, CountType DEF PersistPassword
    <2> QED
      BY <1>5, <1>a, <1>c, <1>d, <1>e, <2>2, <2>3
         DEF PersistPassword, ContinueFresh, mariadb, PCs
  <1>6. CASE CreateSchema
    <2> DEFINE Effect == /\ data' = [data EXCEPT ![db.name] = IF @ = 0 THEN db.uid ELSE @]
                         /\ UNCHANGED <<users, grants>>
    <2>1. "createUser" \in PCs /\ "fail" \in PCs
      BY DEF PCs
    <2>2. /\ ClusterType' /\ FaultType' /\ pc' \in PCs
          /\ UNCHANGED <<cluster, queued, db, rv, preq, passwords>>
          /\ Effect \/ UNCHANGED mariadb
      BY <1>6, <2>1, SqlType DEF CreateSchema
    <2> QED
      BY <1>a, <1>d, <1>e, <2>2 DEF mariadb, Version
  <1>7. CASE CreateUser
    <2> DEFINE Effect == /\ users' = [users EXCEPT ![db.name] = IF @ = 0 THEN db.pw ELSE @]
                         /\ UNCHANGED <<data, grants>>
    <2>1. "alterUser" \in PCs /\ "fail" \in PCs
      BY DEF PCs
    <2>2. /\ ClusterType' /\ FaultType' /\ pc' \in PCs
          /\ UNCHANGED <<cluster, queued, db, rv, preq, passwords>>
          /\ Effect \/ UNCHANGED mariadb
      BY <1>7, <2>1, SqlType DEF CreateUser
    <2> QED
      BY <1>a, <1>b, <1>d, <1>e, <2>2 DEF mariadb, Version
  <1>8. CASE AlterUser
    <2> DEFINE Effect == /\ users' = [users EXCEPT ![db.name] = db.pw]
                         /\ UNCHANGED <<data, grants>>
    <2>1. "grant" \in PCs /\ "fail" \in PCs
      BY DEF PCs
    <2>2. /\ ClusterType' /\ FaultType' /\ pc' \in PCs
          /\ UNCHANGED <<cluster, queued, db, rv, preq, passwords>>
          /\ Effect \/ UNCHANGED mariadb
      BY <1>8, <2>1, SqlType DEF AlterUser
    <2> QED
      BY <1>a, <1>b, <1>d, <1>e, <2>2 DEF mariadb, Version
  <1>9. CASE Grant
    <2> DEFINE Effect == /\ grants' = grants \union {db.name}
                         /\ UNCHANGED <<data, users>>
    <2>1. "flush" \in PCs /\ "fail" \in PCs
      BY DEF PCs
    <2>2. /\ ClusterType' /\ FaultType' /\ pc' \in PCs
          /\ UNCHANGED <<cluster, queued, db, rv, preq, passwords>>
          /\ Effect \/ UNCHANGED mariadb
      BY <1>9, <2>1, SqlType DEF Grant
    <2> QED
      BY <1>a, <1>d, <1>e, <2>2 DEF mariadb, Version
  <1>10. CASE FlushPrivileges
    <2>1. "ready" \in PCs /\ "fail" \in PCs
      BY DEF PCs
    <2>2. /\ ClusterType' /\ FaultType' /\ pc' \in PCs
          /\ UNCHANGED <<cluster, queued, db, rv, preq, passwords>>
          /\ UNCHANGED mariadb
      BY <1>10, <2>1, SqlType DEF FlushPrivileges
    <2> QED
      BY <1>d, <1>e, <2>2 DEF mariadb
  <1>11. CASE UpdateReadyStatus
    <2>1. WithStatus("Ready", db.pw) \in Version
      BY <1>b, WrittenType DEF Phases
    <2>2. ClusterType' /\ FaultType'
      BY <1>11, <2>1, WriteType DEF UpdateReadyStatus, Return
    <2> QED
      BY <1>11, <1>a, <1>d, <1>e, <2>2 DEF UpdateReadyStatus, Return, mariadb, PCs
  <1>12. CASE SetErrorStatus
    <2>1. WithStatus("Error", db.pw) \in Version
      BY <1>b, WrittenType DEF Phases
    <2>2. ClusterType' /\ FaultType' /\ Current' \in Version
      BY <1>12, <2>1, WriteType DEF SetErrorStatus, Return
    <2>3. passwords' \in Nat
      BY <1>12, <2>2, CountType DEF SetErrorStatus
    <2> QED
      BY <1>12, <1>a, <1>d, <1>e, <2>2, <2>3 DEF SetErrorStatus, Return, mariadb, PCs
  <1>13. CASE SetTerminating
    <2>1. WithStatus("Terminating", db.pw) \in Version
      BY <1>b, WrittenType DEF Phases
    <2>2. ClusterType' /\ FaultType' /\ Current' \in Version
      BY <1>13, <2>1, WriteType DEF SetTerminating, ContinueFresh
    <2> QED
      BY <1>13, <1>a, <1>c, <1>d, <1>e, <2>2
         DEF SetTerminating, ContinueFresh, mariadb, PCs
  <1>14. CASE PingBeforeDrop
    <2>1. "dropDatabase" \in PCs /\ "unfinalize" \in PCs
      BY DEF PCs
    <2>2. /\ ClusterType' /\ FaultType' /\ pc' \in PCs
          /\ UNCHANGED <<cluster, queued, db, rv, preq, passwords>>
          /\ UNCHANGED mariadb
      BY <1>14, <2>1, SqlType DEF PingBeforeDrop
    <2> QED
      BY <1>d, <1>e, <2>2 DEF mariadb
  <1>15. CASE DropSchema
    <2> DEFINE Effect == /\ data' = [data EXCEPT ![db.name] = 0]
                         /\ UNCHANGED <<users, grants>>
    <2>1. "dropUser" \in PCs
      BY DEF PCs
    <2>2. /\ ClusterType' /\ FaultType' /\ pc' \in PCs
          /\ UNCHANGED <<cluster, queued, db, rv, preq, passwords>>
          /\ Effect \/ UNCHANGED mariadb
      BY <1>15, <2>1, SqlType DEF DropSchema
    <2> QED
      BY <1>a, <1>d, <1>e, <2>2 DEF mariadb, Version
  <1>16. CASE DropUser
    <2> DEFINE Effect == /\ users' = [users EXCEPT ![db.name] = 0]
                         /\ grants' = grants \ {db.name}
                         /\ UNCHANGED data
    <2>1. "unfinalize" \in PCs
      BY DEF PCs
    <2>2. /\ ClusterType' /\ FaultType' /\ pc' \in PCs
          /\ UNCHANGED <<cluster, queued, db, rv, preq, passwords>>
          /\ Effect \/ UNCHANGED mariadb
      BY <1>16, <2>1, SqlType DEF DropUser
    <2> QED
      BY <1>a, <1>d, <1>e, <2>2 DEF mariadb, Version
  <1>17. CASE RemoveFinalizer
    <2>1. [Current EXCEPT !.fin = FALSE, !.exists = FALSE] \in Version
      BY WrittenType
    <2>2. ClusterType' /\ FaultType'
      BY <1>17, <2>1, WriteType DEF RemoveFinalizer, Return
    <2> QED
      BY <1>17, <1>a, <1>d, <1>e, <2>2 DEF RemoveFinalizer, Return, mariadb, PCs
  <1>18. CASE WatchEvent
    <2>1. PICK i \in 2 .. Len(log) : log' = SubSeq(log, i, Len(log))
      BY <1>18 DEF WatchEvent
    <2>2. log' \in Seq(Version) /\ Len(log') = Len(log) - i + 1
      BY <2>1, WatchFacts
    <2>3. ClusterType'
      BY <1>18, <1>e, <2>2 DEF WatchEvent, ClusterType
    <2> QED
      BY <1>18, <1>d, <1>e, <2>3 DEF WatchEvent, mariadb, bounds, FaultType, Disturbances
  <1>19. CASE Restart
    BY <1>19, <1>a, <1>d, <1>e, ConstantsAssumption
       DEF Restart, Return, cluster, mariadb, PCs, ClusterType, FaultType, Disturbances
  <1>20. CASE \E n \in Names : CreateDatabase(n)
    <2>1. PICK n \in Names : CreateDatabase(n)
      BY <1>20
    <2>2. ClusterType'
      BY <2>1, WrittenType, PublishType DEF CreateDatabase, worker
    <2> QED
      BY <2>1, <2>2, <1>d, <1>e
         DEF CreateDatabase, worker, mariadb, bounds, FaultType, Disturbances
  <1>21. CASE DeleteDatabase
    <2>1. ClusterType'
      BY <1>21, WrittenType, PublishType DEF DeleteDatabase, worker
    <2> QED
      BY <1>21, <2>1, <1>d, <1>e
         DEF DeleteDatabase, worker, mariadb, bounds, FaultType, Disturbances
  <1>22. ASSUME NEW r \in Requests, PasswordGet(r) PROVE TypeOK'
    <2>1. ClusterType' /\ FaultType'
      BY <1>22, <1>e, ConstantsAssumption
         DEF PasswordGet, cluster, worker, ClusterType, FaultType, Disturbances
    <2>2. [step |-> "update", rv |-> revision, phase |-> Current.phase]
            \in [step: {"idle", "update", "status"}, rv: Nat, phase: Phases]
      BY <1>a, <1>e DEF Version, ClusterType
    <2> QED
      BY <1>22, <1>d, <1>e, <2>1, <2>2 DEF PasswordGet, worker, mariadb
  <1>23. ASSUME NEW r \in Requests, PasswordUpdate(r) PROVE TypeOK'
    <2>1. ClusterType'
      BY <1>23, <1>a, PublishType DEF PasswordUpdate, worker
    <2> QED
      <3>1. revision + 1 \in Nat
        BY <1>e DEF ClusterType
      <3>2. preq' \in [Requests -> [step: {"idle", "update", "status"},
                                   rv: Nat, phase: Phases]]
        BY <1>23, <1>e, <3>1 DEF PasswordUpdate
      <3> QED
        BY <1>23, <2>1, <3>2, <1>d, <1>e
           DEF PasswordUpdate, worker, mariadb, bounds, FaultType, Disturbances
  <1>24. ASSUME NEW r \in Requests, PasswordStatus(r) PROVE TypeOK'
    <2>1. preq[r].phase \in Phases
      BY <1>e
    <2>2. WithStatus(preq[r].phase, FreshPassword) \in Version
      BY <2>1, WrittenType
    <2>3. ClusterType' /\ Current' \in Version
      BY <1>24, <2>2, PublishType DEF PasswordStatus, Store, worker
    <2>4. passwords' \in Nat
      BY <1>24, <2>3, CountType DEF PasswordStatus
    <2> QED
      BY <1>24, <2>3, <2>4, <1>d, <1>e
         DEF PasswordStatus, NoRequest, worker, mariadb, FaultType, Disturbances, Phases
  <1>25. ASSUME NEW r \in Requests, PasswordAbort(r) PROVE TypeOK'
    BY <1>25, <1>d, <1>e
       DEF PasswordAbort, NoRequest, cluster, worker, mariadb, bounds, ClusterType,
           FaultType, Disturbances, Phases
  <1>26. CASE UNCHANGED vars
    BY <1>26, <1>d, <1>e
       DEF vars, cluster, worker, mariadb, bounds, ClusterType, FaultType, Disturbances
  <1> QED
    BY <1>1, <1>2, <1>3, <1>4, <1>5, <1>6, <1>7, <1>8, <1>9, <1>10, <1>11, <1>12,
       <1>13, <1>14, <1>15, <1>16, <1>17, <1>18, <1>19, <1>20, <1>21, <1>22, <1>23,
       <1>24, <1>25, <1>26
       DEF Next, Operator, Provision, Cleanup, Panel

\* The initial state is well typed.
LEMMA InitType == Init => TypeOK
  <1> SUFFICES ASSUME Init PROVE TypeOK
    OBVIOUS
  <1>1. /\ log \in Seq(Version) /\ revision \in Nat
        /\ Len(log) \in 1 .. revision /\ rv \in 0 .. revision
        /\ db \in Version
    BY NoVersionType DEF Init
  <1>2. preq \in [Requests -> [step: {"idle", "update", "status"},
                              rv: Nat, phase: Phases]]
    BY DEF Init, NoRequest, Phases
  <1>3. Disturbances <= MaxDisturbances
    BY ConstantsAssumption DEF Init, Disturbances
  <1>4. pc \in PCs
    BY DEF Init, PCs
  <1> QED
    BY <1>1, <1>2, <1>3, <1>4 DEF Init, TypeOK

\* Every reachable state is well typed, for any number of names, requests,
\* incarnations and failures.
THEOREM TypeCorrect == Spec => []TypeOK
  BY InitType, TypeStep, PTL DEF Spec

-----------------------------------------------------------------------------
(***************************************************************************)
(* The inductive invariant                                                 *)
(***************************************************************************)

\* Coming after is transitive.
LEMMA FollowsTransitive ==
  ASSUME NEW u \in Version, NEW v \in Version, NEW w \in Version,
         Follows(u, v), Follows(v, w)
  PROVE  Follows(u, w)
  BY DEF Follows, Version

\* The current version comes after the cached one, and both after the
\* reconciler's copy.
LEMMA CurrentIsLatest ==
  ASSUME LifecycleInv
  PROVE  /\ Follows(Cached, Current)
         /\ \A i \in 1 .. Len(log) : Follows(log[i], Current)
         /\ pc # "idle" => Follows(db, Current)
  <1>1. \A i \in 1 .. Len(log) : Follows(log[i], Current)
    BY DEF LifecycleInv, LogOrdered, TypeOK, Current
  <1>2. Follows(Cached, Current)
    BY <1>1 DEF LifecycleInv, TypeOK, Cached
  <1>3. pc # "idle" => Follows(db, Current)
    BY <1>2, FollowsTransitive, EndsType DEF LifecycleInv, CopyIsOld, TypeOK
  <1> QED
    BY <1>1, <1>2, <1>3

\* The versions held by the operator's finalizer.
Held(v) == v.exists /\ v.fin /\ ~v.del

\* A new version that comes after the current one keeps the log in order,
\* and SeenIsHeld if no held version is left behind.
LEMMA PublishInv ==
  ASSUME LifecycleInv, NEW STATE v, v \in Version, Publish(v), Follows(Current, v),
         (\E i \in 1 .. Len(log) : Held(log[i])) => v.uid = Current.uid /\ v.exists,
         v.exists => v.uid > 0
  PROVE  LogOrdered' /\ SeenIsHeld'
  <1>0. TypeOK
    BY DEF LifecycleInv
  <1>1. /\ Len(log') = Len(log) + 1 /\ Current' = v
        /\ log'[Len(log) + 1] = v
        /\ \A i \in 1 .. Len(log) : log'[i] = log[i]
    BY <1>0, PublishFacts
  <1>2. \A i \in 1 .. Len(log) : Follows(log[i], v)
    <2> TAKE i \in 1 .. Len(log)
    <2>1. log[i] \in Version /\ Current \in Version
      BY <1>0, EndsType DEF TypeOK
    <2> QED
      BY <2>1, CurrentIsLatest, FollowsTransitive
  <1>3. Follows(v, v)
    BY DEF Follows, Version
  <1>4. LogOrdered'
    <2> SUFFICES ASSUME NEW i \in 1 .. Len(log) + 1, NEW j \in 1 .. Len(log) + 1, i <= j
                 PROVE  Follows(log'[i], log'[j])
      BY <1>1 DEF LogOrdered, Follows
    <2>0. Len(log) \in Nat
      BY <1>0, EndsType
    <2>1. CASE j \in 1 .. Len(log)
      <3>1. i \in 1 .. Len(log)
        BY <2>0, <2>1
      <3>2. Follows(log[i], log[j])
        BY <2>1, <3>1 DEF LifecycleInv, LogOrdered
      <3> QED
        BY <1>1, <2>1, <3>1, <3>2
    <2>2. CASE j = Len(log) + 1 /\ i \in 1 .. Len(log)
      BY <1>1, <1>2, <2>2
    <2>3. CASE j = Len(log) + 1 /\ i = Len(log) + 1
      BY <1>1, <1>3, <2>3
    <2> QED
      BY <2>0, <2>1, <2>2, <2>3
  <1>5. SeenIsHeld'
    <2> SUFFICES ASSUME NEW i \in 1 .. Len(log) + 1, Held(log'[i])
                 PROVE  v.uid = log'[i].uid /\ v.exists
      BY <1>1 DEF SeenIsHeld, Held
    <2>0. Len(log) \in Nat
      BY <1>0, EndsType
    <2>1. CASE i \in 1 .. Len(log)
      <3>1. Held(log[i])
        BY <1>1, <2>1
      <3>2. Current.uid = log[i].uid
        BY <2>1, <3>1 DEF LifecycleInv, SeenIsHeld, Held
      <3> QED
        BY <1>1, <2>1, <3>1, <3>2
    <2>2. CASE i = Len(log) + 1
      BY <1>1, <2>2 DEF Held
    <2> QED
      BY <2>0, <2>1, <2>2
  <1> QED
    BY <1>4, <1>5

\* Version v is the existing object with other metadata or status: what
\* every write but creation and disappearance publishes.
Touch(v) == /\ v.uid = Current.uid
            /\ v.exists /\ Current.exists
            /\ Current.del => v.del
            /\ Current.fin => v.fin

DataHeld == \A n \in Names : data[n] = Current.uid /\ Current.exists => Current.fin
DataSeen == \A n \in Names : data[n] <= Cached.uid

\* What a write to the existing object preserves.
LEMMA TouchInv ==
  ASSUME LifecycleInv, NEW STATE v, v \in Version,
         UNCHANGED cluster \/ (Publish(v) /\ Touch(v)), UNCHANGED data
  PROVE  /\ LogOrdered' /\ SeenIsHeld' /\ DataHeld' /\ DataSeen'
         /\ Cached' = Cached
         /\ Current'.uid = Current.uid
         /\ Current'.exists = Current.exists
  <1>0. TypeOK /\ Current \in Version
    BY EndsType DEF LifecycleInv
  <1>1. CASE UNCHANGED cluster
    BY <1>1 DEF cluster, LifecycleInv, LogOrdered, SeenIsHeld, DataIsKnown, DataHeld,
                DataSeen, Cached, Current
  <1>2. CASE Publish(v) /\ Touch(v)
    <2>1. Current' = v /\ Cached' = Cached
      BY <1>0, <1>2, PublishFacts
    <2>2. Follows(Current, v)
      BY <1>0, <1>2 DEF Follows, Touch, Version
    <2>3. LogOrdered' /\ SeenIsHeld'
      BY <1>2, <2>2, PublishInv DEF Touch, LifecycleInv, LogOrdered
    <2> QED
      BY <1>2, <2>1, <2>3 DEF Touch, LifecycleInv, DataIsKnown, DataHeld, DataSeen, Version
  <1> QED
    BY <1>1, <1>2

\* A status write, or adding the finalizer, touches the existing object.
LEMMA WorkerTouches ==
  ASSUME LifecycleInv, pc # "idle", NEW STATE v, v \in Version,
         Accepted(v) \/ Failed(v),
         \/ v = WithFinalizer(TRUE)
         \/ \E p \in Phases, w \in Nat : v = WithStatus(p, w)
  PROVE  UNCHANGED cluster \/ (rv = revision /\ Publish(v) /\ Touch(v))
  <1>1. TypeOK /\ Current \in Version
    BY EndsType DEF LifecycleInv
  <1>2. UNCHANGED cluster \/ (rv = revision /\ Publish(v))
    BY <1>1, WriteFacts
  <1>3. ASSUME rv = revision PROVE Touch(v)
    <2>1. Current.exists
      BY <1>3 DEF LifecycleInv, CopyIsOld
    <2> QED
      BY <1>1, <2>1 DEF Touch, WithFinalizer, WithStatus, Version
  <1> QED
    BY <1>2, <1>3

\* A reconcile that ends with a write to the existing object, or none.
LEMMA ReturnInv ==
  ASSUME LifecycleInv, TypeOK', NEW STATE v, v \in Version,
         UNCHANGED cluster \/ (Publish(v) /\ Touch(v)),
         UNCHANGED data, pc' = "idle"
  PROVE  LifecycleInv'
  <1>1. LogOrdered' /\ SeenIsHeld' /\ DataHeld' /\ DataSeen'
    BY TouchInv
  <1>2. CopyIsOld' /\ CallFitsCopy'
    BY DEF CopyIsOld, CallFitsCopy, ProvisionPCs, CleanupPCs
  <1> QED
    BY <1>1, <1>2 DEF LifecycleInv, DataIsKnown, DataHeld, DataSeen

\* A reconcile that goes on with the answer to a write it made.
LEMMA ContinueFreshInv ==
  ASSUME LifecycleInv, TypeOK', NEW STATE v, v \in Version, pc # "idle",
         rv = revision,
         UNCHANGED cluster \/ (Publish(v) /\ Touch(v)),
         Current'.del = Current.del, Current'.fin = Current.fin,
         NEW call \in PCs, ContinueFresh(call), UNCHANGED data,
         \/ pc \in ProvisionPCs /\ call \in ProvisionPCs
         \/ pc \in CleanupPCs /\ call \in CleanupPCs
  PROVE  LifecycleInv'
  <1>1. /\ LogOrdered' /\ SeenIsHeld' /\ DataHeld' /\ DataSeen'
        /\ Cached' = Cached /\ Current'.uid = Current.uid
        /\ Current'.exists = Current.exists
    BY TouchInv
  <1>2. /\ db' = Current' /\ rv' = revision' /\ pc' = call
    BY DEF ContinueFresh
  <1>3. /\ Current.exists /\ Current.uid = db.uid /\ Current.del = db.del
        /\ Current.fin = db.fin /\ db.exists /\ Follows(db, Cached)
    BY DEF LifecycleInv, CopyIsOld
  <1>4. CopyIsOld'
    <2>1. db'.uid = db.uid /\ db'.del = db.del /\ db'.fin = db.fin /\ db'.exists = db.exists
      BY <1>1, <1>2, <1>3
    <2>2. Follows(db', Cached')
      BY <1>1, <1>3, <2>1 DEF Follows
    <2>3. db'.exists /\ Current'.exists
      BY <1>1, <1>3, <2>1
    <2> QED
      BY <1>2, <2>2, <2>3 DEF CopyIsOld, Follows
  <1>5. CallFitsCopy'
    BY <1>1, <1>2, <1>3 DEF LifecycleInv, CallFitsCopy, ProvisionPCs, CleanupPCs
  <1>6. DataIsKnown'
    BY <1>1, <1>2, <1>3 DEF LifecycleInv, DataIsKnown, DataHeld, DataSeen
  <1> QED
    BY <1>1, <1>4, <1>5, <1>6 DEF LifecycleInv

\* A failed write that the reconciler ignores: the copy keeps its metadata
\* and its resourceVersion.
LEMMA ContinueStaleInv ==
  ASSUME LifecycleInv, TypeOK', NEW STATE v, v \in Version, pc # "idle",
         UNCHANGED cluster \/ (Publish(v) /\ Touch(v)), UNCHANGED <<rv, data>>,
         db'.uid = db.uid, db'.exists = db.exists, db'.del = db.del, db'.fin = db.fin,
         NEW call \in PCs, pc' = call,
         \/ pc \in ProvisionPCs /\ call \in ProvisionPCs
         \/ pc \in CleanupPCs /\ call \in CleanupPCs
  PROVE  LifecycleInv'
  <1>0. TypeOK
    BY DEF LifecycleInv
  <1>1. /\ LogOrdered' /\ SeenIsHeld' /\ DataHeld' /\ DataSeen'
        /\ Cached' = Cached /\ Current'.uid = Current.uid
        /\ Current'.exists = Current.exists
    BY TouchInv
  <1>2. db.exists /\ Follows(db, Cached)
    BY DEF LifecycleInv, CopyIsOld
  <1>3. Follows(db', Cached')
    BY <1>1, <1>2 DEF Follows
  <1>4. CopyIsOld'
    <2>1. CASE UNCHANGED cluster
      BY <1>2, <1>3, <2>1 DEF LifecycleInv, CopyIsOld, cluster, Current
    <2>2. CASE Publish(v)
      <3>1. rv' # revision'
        BY <1>0, <2>2 DEF Publish, TypeOK
      <3> QED
        BY <1>2, <1>3, <3>1 DEF CopyIsOld
    <2> QED
      BY <2>1, <2>2
  <1>5. CallFitsCopy'
    BY <1>1, <1>2 DEF LifecycleInv, CallFitsCopy, ProvisionPCs, CleanupPCs
  <1>6. DataIsKnown'
    BY <1>1 DEF LifecycleInv, DataIsKnown, DataHeld, DataSeen
  <1> QED
    BY <1>1, <1>4, <1>5, <1>6 DEF LifecycleInv

\* A MariaDB call between two calls of the same half of the reconciler.
LEMMA SqlInv ==
  ASSUME LifecycleInv, TypeOK', pc # "idle",
         UNCHANGED <<cluster, db, rv>>,
         \/ pc \in ProvisionPCs /\ pc' \in ProvisionPCs
         \/ pc \in CleanupPCs /\ pc' \in CleanupPCs,
         \A n \in Names : \/ data'[n] \in {0, data[n]}
                          \/ data'[n] = db.uid /\ pc \in ProvisionPCs
  PROVE  LifecycleInv'
  <1>0. /\ TypeOK /\ Current \in Version /\ Cached \in Version /\ db \in Version
    BY EndsType DEF LifecycleInv, TypeOK
  <1>1. LogOrdered' /\ SeenIsHeld' /\ Cached' = Cached /\ Current' = Current
    BY DEF LifecycleInv, cluster, LogOrdered, SeenIsHeld, Cached, Current
  <1>2. CopyIsOld'
    BY <1>1 DEF LifecycleInv, CopyIsOld, cluster
  <1>3. CallFitsCopy'
    BY <1>1 DEF LifecycleInv, CallFitsCopy, ProvisionPCs, CleanupPCs
  <1>4. DataIsKnown'
    <2> SUFFICES ASSUME NEW n \in Names
                 PROVE  /\ data'[n] <= Cached.uid /\ data'[n] <= db.uid
                        /\ data'[n] = Current.uid /\ Current.exists => Current.fin
      BY <1>1 DEF DataIsKnown
    <2>1. /\ data[n] <= Cached.uid /\ data[n] <= db.uid
          /\ data[n] = Current.uid /\ Current.exists => Current.fin
      BY DEF LifecycleInv, DataIsKnown
    <2>2. Follows(db, Cached) /\ Follows(db, Current) /\ Follows(Cached, Current)
      BY CurrentIsLatest DEF LifecycleInv, CopyIsOld
    <2>3. CASE data'[n] = data[n]
      BY <2>1, <2>3
    <2>4. CASE data'[n] = 0
      BY <1>0, <2>2, <2>4 DEF LifecycleInv, LogOrdered, Follows, Version
    <2>5. CASE data'[n] = db.uid /\ pc \in ProvisionPCs
      BY <1>0, <2>2, <2>5 DEF LifecycleInv, CallFitsCopy, Follows, Version
    <2> QED
      BY <2>3, <2>4, <2>5
  <1> QED
    BY <1>1, <1>2, <1>3, <1>4 DEF LifecycleInv

\* Steps of the panel and of the API server that leave the reconciler alone
\* publish something, so its resourceVersion is not the current one after.
LEMMA PanelTouchInv ==
  ASSUME LifecycleInv, TypeOK', NEW STATE v, v \in Version,
         UNCHANGED cluster \/ (Publish(v) /\ Touch(v)), UNCHANGED <<worker, data>>
  PROVE  LifecycleInv'
  <1>0. TypeOK
    BY DEF LifecycleInv
  <1>1. /\ LogOrdered' /\ SeenIsHeld' /\ DataHeld' /\ DataSeen'
        /\ Cached' = Cached /\ Current'.uid = Current.uid
        /\ Current'.exists = Current.exists
    BY TouchInv
  <1>2. CopyIsOld'
    <2>1. CASE UNCHANGED cluster
      BY <2>1 DEF LifecycleInv, CopyIsOld, cluster, worker, Current, Cached
    <2>2. CASE Publish(v)
      <3>1. rv' # revision'
        BY <1>0, <2>2 DEF Publish, TypeOK, worker
      <3> QED
        BY <1>1, <3>1 DEF LifecycleInv, CopyIsOld, worker
    <2> QED
      BY <2>1, <2>2
  <1>3. CallFitsCopy'
    BY <1>1 DEF LifecycleInv, CallFitsCopy, worker
  <1>4. DataIsKnown'
    BY <1>1 DEF LifecycleInv, DataIsKnown, DataHeld, DataSeen, worker
  <1> QED
    BY <1>1, <1>2, <1>3, <1>4 DEF LifecycleInv

\* Deleting an object that has no finalizer: nothing of it was provisioned.
LEMMA DeleteUnheldInv ==
  ASSUME LifecycleInv, TypeOK', DeleteDatabase, ~Current.fin
  PROVE  LifecycleInv'
  <1> DEFINE v == [Current EXCEPT !.exists = FALSE]
  <1>0. TypeOK /\ Current \in Version /\ v \in Version /\ db \in Version /\ Cached \in Version
    BY EndsType, WrittenType DEF LifecycleInv, TypeOK
  <1>1. Publish(v) /\ Current.exists /\ UNCHANGED <<worker, data>>
    BY DEF DeleteDatabase, mariadb
  <1>2. /\ Current' = v /\ Cached' = Cached /\ revision' = revision + 1
    BY <1>0, <1>1, PublishFacts
  <1>3. Follows(Current, v) /\ ~v.exists /\ v.uid = Current.uid
    BY <1>0 DEF Follows, Version
  <1>4. \A i \in 1 .. Len(log) : ~Held(log[i])
    BY <1>1, CurrentIsLatest DEF LifecycleInv, SeenIsHeld, Held, Follows
  <1>5. LogOrdered' /\ SeenIsHeld'
    BY <1>0, <1>1, <1>3, <1>4, PublishInv
  <1>6. CopyIsOld'
    <2>1. rv' # revision'
      BY <1>0, <1>1, <1>2 DEF TypeOK, worker
    <2> QED
      BY <1>1, <1>2, <2>1 DEF LifecycleInv, CopyIsOld, worker
  <1>7. pc \notin ProvisionPCs
    <2>1. SUFFICES ASSUME pc \in ProvisionPCs PROVE FALSE
      OBVIOUS
    <2>2. pc # "idle"
      BY <2>1 DEF ProvisionPCs
    <2> QED
      BY <1>1, <2>1, <2>2, CurrentIsLatest DEF LifecycleInv, CallFitsCopy, Follows
  <1>8. CallFitsCopy'
    BY <1>1, <1>7 DEF LifecycleInv, CallFitsCopy, worker
  <1>9. DataIsKnown'
    BY <1>1, <1>2, <1>3 DEF LifecycleInv, DataIsKnown, worker
  <1> QED
    BY <1>5, <1>6, <1>8, <1>9 DEF LifecycleInv

\* A new incarnation: no data of it stand in MariaDB yet, and the cache, the
\* reconciler and the data all lag behind it.
LEMMA CreateInv ==
  ASSUME LifecycleInv, TypeOK', NEW n \in Names, CreateDatabase(n)
  PROVE  LifecycleInv'
  <1> DEFINE v == [NoVersion EXCEPT !.uid = Current.uid + 1, !.exists = TRUE, !.name = n]
  <1>0. /\ TypeOK /\ Current \in Version /\ v \in Version /\ Cached \in Version
        /\ NoVersion \in Version
    BY EndsType, WrittenType, NoVersionType DEF LifecycleInv
  <1>1. Publish(v) /\ ~Current.exists /\ UNCHANGED <<worker, data>>
    BY DEF CreateDatabase, mariadb
  <1>2. /\ Current' = v /\ Cached' = Cached /\ revision' = revision + 1
    BY <1>0, <1>1, PublishFacts
  <1>3. v.uid = Current.uid + 1 /\ Current.uid \in Nat
    BY <1>0 DEF Version
  <1>4. Follows(Current, v) /\ v.uid > 0
    BY <1>3 DEF Follows
  <1>5. \A i \in 1 .. Len(log) : ~Held(log[i])
    BY <1>1 DEF LifecycleInv, SeenIsHeld, Held
  <1>6. LogOrdered' /\ SeenIsHeld'
    BY <1>0, <1>1, <1>4, <1>5, PublishInv
  <1>7. CopyIsOld'
    <2>1. rv' # revision'
      BY <1>0, <1>1, <1>2 DEF TypeOK, worker
    <2> QED
      BY <1>1, <1>2, <2>1 DEF LifecycleInv, CopyIsOld, worker
  <1>8. CallFitsCopy'
    BY <1>1 DEF LifecycleInv, CallFitsCopy, worker
  <1>9. DataIsKnown'
    <2> SUFFICES ASSUME NEW m \in Names PROVE data[m] # v.uid
      BY <1>1, <1>2 DEF LifecycleInv, DataIsKnown, worker
    <2>1. data[m] <= Cached.uid /\ Cached.uid <= Current.uid /\ data[m] \in Nat
      BY <1>0, CurrentIsLatest DEF LifecycleInv, DataIsKnown, Follows, TypeOK
    <2>2. Cached.uid \in Nat
      BY <1>0 DEF Version
    <2> QED
      BY <1>3, <2>1, <2>2
  <1> QED
    BY <1>6, <1>7, <1>8, <1>9 DEF LifecycleInv

\* Removing the finalizer: the operator has seen the deletion, so no version
\* it may still read looks provisioned.
LEMMA RemoveFinalizerInv ==
  ASSUME LifecycleInv, TypeOK', RemoveFinalizer
  PROVE  LifecycleInv'
  <1> DEFINE v == [Current EXCEPT !.fin = FALSE, !.exists = FALSE]
  <1>0. TypeOK /\ Current \in Version /\ v \in Version
    BY EndsType, WrittenType DEF LifecycleInv
  <1>1. pc = "unfinalize" /\ pc' = "idle" /\ UNCHANGED data
    BY DEF RemoveFinalizer, Return, mariadb
  <1>2. CopyIsOld' /\ CallFitsCopy'
    BY <1>1 DEF CopyIsOld, CallFitsCopy, ProvisionPCs, CleanupPCs
  <1>3. UNCHANGED cluster \/ (rv = revision /\ Publish(v))
    BY <1>0, WriteFacts DEF RemoveFinalizer
  <1>4. CASE UNCHANGED cluster
    BY <1>0, <1>1, <1>4, ReturnInv
  <1>5. CASE rv = revision /\ Publish(v)
    <2>1. Current' = v /\ Cached' = Cached
      BY <1>0, <1>5, PublishFacts
    <2>2. /\ Current.uid = db.uid /\ db.del /\ Follows(db, Cached)
          /\ Follows(Cached, Current)
      BY <1>1, <1>5, CurrentIsLatest DEF LifecycleInv, CopyIsOld, CallFitsCopy, CleanupPCs
    <2>3. Cached.uid = Current.uid /\ Cached.del
      BY <1>0, <2>2, EndsType DEF Follows, Version
    <2>4. \A i \in 1 .. Len(log) : ~Held(log[i])
      <3> SUFFICES ASSUME NEW i \in 1 .. Len(log), Held(log[i]) PROVE FALSE
        OBVIOUS
      <3>1. Current.uid = log[i].uid /\ ~log[i].del
        BY DEF LifecycleInv, SeenIsHeld, Held
      <3>2. Follows(Cached, log[i])
        <4>1. Len(log) \in Nat
          BY <1>0, EndsType
        <4>2. 1 \in 1 .. Len(log) /\ 1 <= i
          BY <4>1
        <4>3. \A j, k \in 1 .. Len(log) : j <= k => Follows(log[j], log[k])
          BY DEF LifecycleInv, LogOrdered
        <4> QED
          BY <4>2, <4>3 DEF Cached
      <3> QED
        BY <2>3, <3>1, <3>2 DEF Follows
    <2>5. Follows(Current, v) /\ ~v.exists
      BY <1>0 DEF Follows, Version
    <2>6. LogOrdered' /\ SeenIsHeld'
      BY <1>0, <1>5, <2>4, <2>5, PublishInv
    <2>7. DataIsKnown'
      BY <1>1, <2>1, <2>5 DEF LifecycleInv, DataIsKnown
    <2> QED
      BY <1>2, <2>6, <2>7 DEF LifecycleInv
  <1> QED
    BY <1>3, <1>4, <1>5

\* A watch event: the cache moves on along an ordered log.
LEMMA WatchInv ==
  ASSUME LifecycleInv, TypeOK', WatchEvent
  PROVE  LifecycleInv'
  <1>0. TypeOK
    BY DEF LifecycleInv
  <1>1. PICK i \in 2 .. Len(log) : log' = SubSeq(log, i, Len(log))
    BY DEF WatchEvent
  <1>2. /\ Len(log') = Len(log) - i + 1
        /\ \A k \in 1 .. Len(log') : log'[k] = log[k + i - 1]
        /\ Cached' = log[i] /\ Current' = Current
    BY <1>0, <1>1, WatchFacts
  <1>3. UNCHANGED <<revision, pc, db, rv, data>>
    BY DEF WatchEvent, mariadb
  <1>4. \A k \in 1 .. Len(log') : k + i - 1 \in 1 .. Len(log)
    BY <1>0, <1>2 DEF TypeOK
  <1>5. LogOrdered'
    <2>1. ASSUME NEW j \in 1 .. Len(log'), NEW k \in 1 .. Len(log'), j <= k
          PROVE  Follows(log'[j], log'[k])
      <3>1. j + i - 1 <= k + i - 1
        BY <1>0, <2>1 DEF TypeOK
      <3>2. Follows(log[j + i - 1], log[k + i - 1])
        BY <1>4, <3>1 DEF LifecycleInv, LogOrdered
      <3> QED
        BY <1>2, <3>2
    <2> QED
      BY <1>2, <2>1 DEF LifecycleInv, LogOrdered, Follows
  <1>6. SeenIsHeld'
    BY <1>2, <1>4 DEF LifecycleInv, SeenIsHeld
  <1>7. Follows(Cached, log[i]) /\ Cached \in Version /\ log[i] \in Version
    <2>1. Cached \in Version /\ Len(log) \in Nat
      BY <1>0, EndsType
    <2>2. 1 \in 1 .. Len(log) /\ i \in 1 .. Len(log) /\ 1 <= i
      BY <2>1
    <2>3. /\ log \in Seq(Version)
          /\ \A j, k \in 1 .. Len(log) : j <= k => Follows(log[j], log[k])
      BY <1>0 DEF LifecycleInv, LogOrdered, TypeOK
    <2>4. log[i] \in Version
      BY <2>2, <2>3
    <2> QED
      BY <2>1, <2>2, <2>3, <2>4 DEF Cached
  <1>8. CopyIsOld'
    <2>1. pc # "idle" => Follows(db, log[i])
      BY <1>0, <1>7, FollowsTransitive DEF LifecycleInv, CopyIsOld, TypeOK
    <2> QED
      BY <1>2, <1>3, <2>1 DEF LifecycleInv, CopyIsOld
  <1>9. CallFitsCopy'
    BY <1>2, <1>3 DEF LifecycleInv, CallFitsCopy
  <1>10. DataIsKnown'
    <2>1. \A n \in Names : data[n] \in Nat /\ data[n] <= Cached.uid
      BY <1>0 DEF LifecycleInv, DataIsKnown, TypeOK
    <2>2. Cached.uid <= log[i].uid /\ Cached.uid \in Nat /\ log[i].uid \in Nat
      BY <1>7 DEF Follows, Version
    <2> QED
      BY <1>2, <1>3, <2>1, <2>2 DEF LifecycleInv, DataIsKnown
  <1> QED
    BY <1>5, <1>6, <1>8, <1>9, <1>10 DEF LifecycleInv

\* A reconcile begins with the cached version.
LEMMA ReconcileInv ==
  ASSUME LifecycleInv, TypeOK', Reconcile
  PROVE  LifecycleInv'
  <1>0. TypeOK /\ Cached \in Version
    BY EndsType DEF LifecycleInv
  <1>1. /\ UNCHANGED <<cluster, data>> /\ pc' = FirstCall(Cached)
        /\ pc' # "idle" => db' = Cached /\ rv' = revision + 1 - Len(log)
    BY DEF Reconcile, mariadb
  <1>2. LogOrdered' /\ SeenIsHeld' /\ Cached' = Cached /\ Current' = Current
    BY <1>1 DEF LifecycleInv, cluster, LogOrdered, SeenIsHeld, Cached, Current
  <1>3. CopyIsOld'
    <2> SUFFICES ASSUME pc' # "idle" PROVE CopyIsOld'
      BY DEF CopyIsOld
    <2>1. db' = Cached /\ db'.exists
      BY <1>0, <1>1, FirstCallFacts
    <2>2. Follows(db', Cached')
      BY <1>0, <1>2, <2>1 DEF Follows, Version
    <2>3. rv' = revision' => Cached = Current
      BY <1>0, <1>1 DEF TypeOK, cluster, Cached, Current
    <2> QED
      BY <1>2, <2>1, <2>2, <2>3 DEF CopyIsOld
  <1>4. CallFitsCopy'
    <2>1. pc' \in ProvisionPCs => Current.uid = Cached.uid /\ Current.exists
      <3>1. 1 \in 1 .. Len(log)
        BY <1>0 DEF TypeOK
      <3>2. pc' \in ProvisionPCs => Held(Cached)
        BY <1>0, <1>1, FirstCallFacts DEF Held
      <3> QED
        BY <3>1, <3>2 DEF LifecycleInv, SeenIsHeld, Held, Cached
    <2>2. pc' \in ProvisionPCs \union CleanupPCs \union {"finalize"} => db' = Cached
      BY <1>1 DEF ProvisionPCs, CleanupPCs
    <2> QED
      BY <1>0, <1>1, <1>2, <2>1, <2>2, FirstCallFacts DEF CallFitsCopy
  <1>5. DataIsKnown'
    BY <1>1, <1>2 DEF LifecycleInv, DataIsKnown
  <1> QED
    BY <1>2, <1>3, <1>4, <1>5 DEF LifecycleInv

\* What each MariaDB call does to the incarnation data: only CreateSchema
\* and DropSchema change them, and only for the copy's own name.
LEMMA SqlSteps ==
  ASSUME TypeOK,
         \/ Ping \/ CreateSchema \/ CreateUser \/ AlterUser \/ Grant
         \/ FlushPrivileges \/ PingBeforeDrop \/ DropSchema \/ DropUser
  PROVE  /\ UNCHANGED <<cluster, db, rv>>
         /\ \/ pc \in ProvisionPCs /\ pc' \in ProvisionPCs
            \/ pc \in CleanupPCs /\ pc' \in CleanupPCs
         /\ \/ UNCHANGED data
            \/ /\ CreateSchema
               /\ data' = [data EXCEPT ![db.name] = IF @ = 0 THEN db.uid ELSE @]
            \/ /\ DropSchema
               /\ data' = [data EXCEPT ![db.name] = 0]
  <1>1. CASE Ping
    BY <1>1 DEF Ping, SqlCall, Continue, mariadb, cluster, ProvisionPCs, CleanupPCs
  <1>2. CASE CreateSchema
    BY <1>2 DEF CreateSchema, SqlCall, Continue, mariadb, cluster, ProvisionPCs, CleanupPCs
  <1>3. CASE CreateUser
    BY <1>3 DEF CreateUser, SqlCall, Continue, mariadb, cluster, ProvisionPCs, CleanupPCs
  <1>4. CASE AlterUser
    BY <1>4 DEF AlterUser, SqlCall, Continue, mariadb, cluster, ProvisionPCs, CleanupPCs
  <1>5. CASE Grant
    BY <1>5 DEF Grant, SqlCall, Continue, mariadb, cluster, ProvisionPCs, CleanupPCs
  <1>6. CASE FlushPrivileges
    BY <1>6 DEF FlushPrivileges, SqlCall, Continue, mariadb, cluster, ProvisionPCs, CleanupPCs
  <1>7. CASE PingBeforeDrop
    BY <1>7 DEF PingBeforeDrop, SqlCall, Continue, mariadb, cluster, ProvisionPCs, CleanupPCs
  <1>8. CASE DropSchema
    BY <1>8 DEF DropSchema, SqlCall, Continue, mariadb, cluster, ProvisionPCs, CleanupPCs
  <1>9. CASE DropUser
    BY <1>9 DEF DropUser, SqlCall, Continue, mariadb, cluster, ProvisionPCs, CleanupPCs
  <1> QED
    BY <1>1, <1>2, <1>3, <1>4, <1>5, <1>6, <1>7, <1>8, <1>9

\* A password request leaves the reconciler alone and touches the object.
LEMMA PasswordInv ==
  ASSUME LifecycleInv, TypeOK', NEW r \in Requests,
         PasswordGet(r) \/ PasswordUpdate(r) \/ PasswordStatus(r) \/ PasswordAbort(r)
  PROVE  LifecycleInv'
  <1>0. TypeOK /\ Current \in Version
    BY EndsType DEF LifecycleInv
  <1>1. CASE PasswordGet(r) \/ PasswordAbort(r)
    BY <1>0, <1>1, PanelTouchInv DEF PasswordGet, PasswordAbort, mariadb
  <1>2. CASE PasswordUpdate(r)
    BY <1>0, <1>2, PanelTouchInv DEF PasswordUpdate, mariadb, Touch
  <1>3. CASE PasswordStatus(r)
    <2> DEFINE v == WithStatus(preq[r].phase, FreshPassword)
    <2>1. v \in Version
      BY <1>0, WrittenType DEF TypeOK
    <2>2. Touch(v)
      BY <1>0, <1>3 DEF PasswordStatus, Touch, WithStatus, Version
    <2> QED
      BY <1>3, <2>1, <2>2, PanelTouchInv DEF PasswordStatus, Store, mariadb
  <1> QED
    BY <1>1, <1>2, <1>3

\* Every step keeps the inductive invariant.
LEMMA LifecycleStep == LifecycleInv /\ [Next]_vars => LifecycleInv'
  <1> SUFFICES ASSUME LifecycleInv, [Next]_vars PROVE LifecycleInv'
    OBVIOUS
  <1>a. TypeOK /\ TypeOK'
    BY TypeStep DEF LifecycleInv
  <1>b. /\ Current \in Version /\ db.phase \in Phases /\ db.pw \in Nat
        /\ db \in Version /\ FreshPassword \in Nat
    BY <1>a, EndsType, WrittenType DEF TypeOK, Version
  <1>c. \A p \in Phases, w \in Nat : WithStatus(p, w) \in Version
    BY <1>a, WrittenType
  <1>1. CASE Reconcile
    BY <1>a, <1>1, ReconcileInv
  <1>2. CASE AddFinalizer
    <2>1. WithFinalizer(TRUE) \in Version
      BY <1>a, WrittenType
    <2>2. /\ UNCHANGED cluster \/ (Publish(WithFinalizer(TRUE)) /\ Touch(WithFinalizer(TRUE)))
      BY <1>2, <2>1, WorkerTouches DEF AddFinalizer
    <2> QED
      BY <1>a, <1>2, <2>1, <2>2, ReturnInv DEF AddFinalizer, Return, mariadb
  <1>3. CASE SetCreating
    <2> DEFINE v == WithStatus("Creating", db.pw)
    <2>1. v \in Version /\ \E p \in Phases, w \in Nat : v = WithStatus(p, w)
      BY <1>b, <1>c DEF Phases
    <2>2. UNCHANGED cluster \/ (Publish(v) /\ Touch(v))
      BY <1>3, <2>1, WorkerTouches DEF SetCreating
    <2> QED
      BY <1>a, <1>3, <2>1, <2>2, ReturnInv DEF SetCreating, Return, mariadb
  <1>4. CASE PersistPassword
    <2> DEFINE v == WithStatus(db.phase, FreshPassword)
    <2>1. v \in Version /\ \E p \in Phases, w \in Nat : v = WithStatus(p, w)
      BY <1>b, <1>c
    <2>2. UNCHANGED cluster \/ (rv = revision /\ Publish(v) /\ Touch(v))
      BY <1>4, <2>1, WorkerTouches DEF PersistPassword
    <2>3. /\ "createDatabase" \in PCs /\ "fail" \in PCs /\ pc # "idle"
          /\ pc \in ProvisionPCs /\ "createDatabase" \in ProvisionPCs
          /\ "fail" \in ProvisionPCs /\ UNCHANGED data
      BY <1>4 DEF PersistPassword, PCs, ProvisionPCs, mariadb
    <2>4. CASE Accepted(v) /\ ContinueFresh("createDatabase")
      <3>1. Current'.del = Current.del /\ Current'.fin = Current.fin
        <4>1. CASE UNCHANGED cluster
          BY <4>1 DEF cluster, Current
        <4>2. CASE Publish(v)
          BY <1>a, <1>b, <2>1, <4>2, PublishFacts DEF WithStatus, Version
        <4> QED
          BY <2>2, <4>1, <4>2
      <3> QED
        BY <1>a, <2>1, <2>2, <2>3, <2>4, <3>1, ContinueFreshInv DEF Accepted
    <2>5. CASE pc' = "fail" /\ db' = [db EXCEPT !.pw = FreshPassword] /\ rv' = rv
      BY <1>a, <1>b, <2>1, <2>2, <2>3, <2>5, ContinueStaleInv DEF Version
    <2> QED
      BY <1>4, <2>4, <2>5 DEF PersistPassword
  <1>5. CASE UpdateReadyStatus
    <2> DEFINE v == WithStatus("Ready", db.pw)
    <2>1. v \in Version /\ \E p \in Phases, w \in Nat : v = WithStatus(p, w)
      BY <1>b, <1>c DEF Phases
    <2>2. UNCHANGED cluster \/ (Publish(v) /\ Touch(v))
      BY <1>5, <2>1, WorkerTouches DEF UpdateReadyStatus
    <2> QED
      BY <1>a, <1>5, <2>1, <2>2, ReturnInv DEF UpdateReadyStatus, Return, mariadb
  <1>6. CASE SetErrorStatus
    <2> DEFINE v == WithStatus("Error", db.pw)
    <2>1. v \in Version /\ \E p \in Phases, w \in Nat : v = WithStatus(p, w)
      BY <1>b, <1>c DEF Phases
    <2>2. UNCHANGED cluster \/ (Publish(v) /\ Touch(v))
      BY <1>6, <2>1, WorkerTouches DEF SetErrorStatus
    <2> QED
      BY <1>a, <1>6, <2>1, <2>2, ReturnInv DEF SetErrorStatus, Return, mariadb
  <1>7. CASE SetTerminating
    <2> DEFINE v == WithStatus("Terminating", db.pw)
    <2>1. v \in Version /\ \E p \in Phases, w \in Nat : v = WithStatus(p, w)
      BY <1>b, <1>c DEF Phases
    <2>2. UNCHANGED cluster \/ (rv = revision /\ Publish(v) /\ Touch(v))
      BY <1>7, <2>1, WorkerTouches DEF SetTerminating
    <2>3. /\ "pingDrop" \in PCs /\ pc # "idle" /\ pc \in CleanupPCs
          /\ "pingDrop" \in CleanupPCs /\ UNCHANGED data
      BY <1>7 DEF SetTerminating, PCs, CleanupPCs, mariadb
    <2>4. CASE Accepted(v) /\ ContinueFresh("pingDrop")
      <3>1. Current'.del = Current.del /\ Current'.fin = Current.fin
        <4>1. CASE UNCHANGED cluster
          BY <4>1 DEF cluster, Current
        <4>2. CASE Publish(v)
          BY <1>a, <1>b, <2>1, <4>2, PublishFacts DEF WithStatus, Version
        <4> QED
          BY <2>2, <4>1, <4>2
      <3> QED
        BY <1>a, <2>1, <2>2, <2>3, <2>4, <3>1, ContinueFreshInv DEF Accepted
    <2>5. CASE pc' = "pingDrop" /\ db' = [db EXCEPT !.phase = "Terminating"] /\ rv' = rv
      BY <1>a, <1>b, <2>1, <2>2, <2>3, <2>5, ContinueStaleInv DEF Version
    <2> QED
      BY <1>7, <2>4, <2>5 DEF SetTerminating
  <1>8. CASE \/ Ping \/ CreateSchema \/ CreateUser \/ AlterUser \/ Grant
             \/ FlushPrivileges \/ PingBeforeDrop \/ DropSchema \/ DropUser
    <2>1. /\ UNCHANGED <<cluster, db, rv>>
          /\ \/ pc \in ProvisionPCs /\ pc' \in ProvisionPCs
             \/ pc \in CleanupPCs /\ pc' \in CleanupPCs
          /\ \/ UNCHANGED data
             \/ /\ CreateSchema
                /\ data' = [data EXCEPT ![db.name] = IF @ = 0 THEN db.uid ELSE @]
             \/ data' = [data EXCEPT ![db.name] = 0]
      BY <1>a, <1>8, SqlSteps
    <2>2. pc # "idle" /\ (CreateSchema => pc \in ProvisionPCs)
      BY <2>1 DEF ProvisionPCs, CleanupPCs, CreateSchema
    <2>3. \A n \in Names : \/ data'[n] \in {0, data[n]}
                           \/ data'[n] = db.uid /\ pc \in ProvisionPCs
      BY <1>a, <1>b, <2>1, <2>2, ZenonT(40) DEF TypeOK, Version
    <2> QED
      BY <1>a, <2>1, <2>2, <2>3, SqlInv
  <1>9. CASE RemoveFinalizer
    BY <1>a, <1>9, RemoveFinalizerInv
  <1>10. CASE WatchEvent
    BY <1>a, <1>10, WatchInv
  <1>11. CASE Restart
    BY <1>a, <1>b, <1>11, ReturnInv DEF Restart, Return, mariadb
  <1>12. ASSUME NEW n \in Names, CreateDatabase(n) PROVE LifecycleInv'
    BY <1>a, <1>12, CreateInv
  <1>13. CASE DeleteDatabase
    <2>1. CASE ~Current.fin
      BY <1>a, <1>13, <2>1, DeleteUnheldInv
    <2>2. CASE Current.fin
      <3> DEFINE v == [Current EXCEPT !.del = TRUE]
      <3>1. v \in Version
        BY <1>a, WrittenType
      <3>2. Publish(v) /\ Touch(v) /\ UNCHANGED <<worker, data>>
        BY <1>b, <1>13, <2>2 DEF DeleteDatabase, Touch, Version, mariadb
      <3> QED
        BY <1>a, <3>1, <3>2, PanelTouchInv
    <2> QED
      BY <2>1, <2>2
  <1>14. ASSUME NEW r \in Requests,
                PasswordGet(r) \/ PasswordUpdate(r) \/ PasswordStatus(r) \/ PasswordAbort(r)
         PROVE  LifecycleInv'
    BY <1>a, <1>14, PasswordInv
  <1>15. CASE UNCHANGED vars
    BY <1>a, <1>b, <1>15, PanelTouchInv DEF vars, mariadb
  <1> QED
    BY <1>1, <1>2, <1>3, <1>4, <1>5, <1>6, <1>7, <1>8, <1>9, <1>10, <1>11, <1>12,
       <1>13, <1>14, <1>15 DEF Next, Operator, Provision, Cleanup, Panel

\* The initial state satisfies the inductive invariant.
LEMMA LifecycleInit == Init => LifecycleInv
  <1> SUFFICES ASSUME Init PROVE LifecycleInv
    OBVIOUS
  <1>1. TypeOK
    BY InitType
  <1>2. Len(log) = 1 /\ log[1] = NoVersion /\ Current = NoVersion /\ Cached = NoVersion
    BY DEF Init, Current, Cached
  <1>3. LogOrdered /\ SeenIsHeld
    <2>1. NoVersion.uid = 0 /\ ~NoVersion.exists
      BY DEF NoVersion
    <2>2. Follows(NoVersion, NoVersion)
      BY <2>1 DEF Follows
    <2>3. \A i \in 1 .. Len(log) : log[i] = NoVersion
      BY <1>2
    <2>4. LogOrdered
      BY <1>2, <2>1, <2>2, <2>3 DEF LogOrdered
    <2>5. SeenIsHeld
      BY <2>1, <2>3 DEF SeenIsHeld
    <2> QED
      BY <2>4, <2>5
  <1>4. CopyIsOld /\ CallFitsCopy
    BY DEF Init, CopyIsOld, CallFitsCopy, ProvisionPCs, CleanupPCs
  <1>5. DataIsKnown
    <2>1. Cached.uid = 0 /\ ~Current.exists
      BY <1>2 DEF NoVersion
    <2>2. pc = "idle" /\ \A n \in Names : data[n] = 0
      BY DEF Init
    <2>3. ASSUME NEW n \in Names
          PROVE  /\ data[n] <= Cached.uid
                 /\ pc # "idle" => data[n] <= db.uid
                 /\ data[n] = Current.uid /\ Current.exists => Current.fin
      BY <2>1, <2>2
    <2> QED
      BY <2>3 DEF DataIsKnown
  <1> QED
    BY <1>1, <1>3, <1>4, <1>5 DEF LifecycleInv

\* The inductive invariant holds in every reachable state.
THEOREM LifecycleInvariant == Spec => []LifecycleInv
  BY LifecycleInit, LifecycleStep, PTL DEF Spec

-----------------------------------------------------------------------------
(***************************************************************************)
(* DatabaseController implements DatabaseLifecycle                         *)
(***************************************************************************)

\* A write that touches the object without marking it for deletion is no
\* step of the abstract specification.
LEMMA TouchStutters ==
  ASSUME LifecycleInv, NEW STATE v, v \in Version,
         UNCHANGED cluster \/ (Publish(v) /\ Touch(v) /\ v.del = Current.del),
         UNCHANGED data
  PROVE  UNCHANGED Lifecycle!vars
  <1>1. TypeOK
    BY DEF LifecycleInv
  <1>2. CASE UNCHANGED cluster
    BY <1>2 DEF cluster, Current, Lifecycle!vars
  <1>3. CASE Publish(v) /\ Touch(v) /\ v.del = Current.del
    <2>1. Current' = v
      BY <1>1, <1>3, PublishFacts
    <2> QED
      BY <1>3, <2>1 DEF Touch, Lifecycle!vars
  <1> QED
    BY <1>2, <1>3

\* Every step of the controller is a step of the lifecycle or none.
LEMMA LifecycleRefined ==
  LifecycleInv /\ [Next]_vars => [Lifecycle!Next]_(Lifecycle!vars)
  <1> SUFFICES ASSUME LifecycleInv, [Next]_vars
               PROVE  Lifecycle!Next \/ UNCHANGED Lifecycle!vars
    OBVIOUS
  <1>a. /\ TypeOK /\ Current \in Version /\ db \in Version /\ Cached \in Version
        /\ FreshPassword \in Nat
    BY EndsType, WrittenType DEF LifecycleInv, TypeOK
  <1>b. db.phase \in Phases /\ db.pw \in Nat /\ db.name \in Names /\ db.uid \in Nat
    BY <1>a DEF Version
  <1>c. \A p \in Phases, w \in Nat :
          WithStatus(p, w) \in Version /\ WithStatus(p, w).del = Current.del
    BY <1>a, WrittenType, ZenonT(40) DEF WithStatus, Version
  <1>d. WithFinalizer(TRUE) \in Version /\ WithFinalizer(TRUE).del = Current.del
    BY <1>a, WrittenType DEF WithFinalizer, Version
  <1>1. CASE Reconcile \/ Restart
    BY <1>a, <1>1, TouchStutters DEF Reconcile, Restart, mariadb
  <1>2. CASE AddFinalizer
    BY <1>2, <1>d, WorkerTouches, TouchStutters DEF AddFinalizer, mariadb
  <1>3. ASSUME NEW p \in Phases, NEW w \in Nat, pc # "idle", UNCHANGED mariadb,
               Accepted(WithStatus(p, w)) \/ Failed(WithStatus(p, w))
        PROVE  UNCHANGED Lifecycle!vars
    <2>1. WithStatus(p, w) \in Version /\ WithStatus(p, w).del = Current.del
      BY <1>c
    <2>2. UNCHANGED cluster \/ (Publish(WithStatus(p, w)) /\ Touch(WithStatus(p, w)))
      BY <1>3, <2>1, WorkerTouches
    <2> QED
      BY <1>3, <2>1, <2>2, TouchStutters DEF mariadb
  <1>4. CASE \/ SetCreating \/ PersistPassword \/ UpdateReadyStatus
             \/ SetErrorStatus \/ SetTerminating
    <2>1. {"Creating", "Ready", "Error", "Terminating"} \subseteq Phases
      BY DEF Phases
    <2>2. CASE SetCreating
      BY <1>3, <1>b, <2>1, <2>2 DEF SetCreating
    <2>3. CASE PersistPassword
      BY <1>3, <1>a, <1>b, <2>3 DEF PersistPassword
    <2>4. CASE UpdateReadyStatus
      BY <1>3, <1>b, <2>1, <2>4 DEF UpdateReadyStatus
    <2>5. CASE SetErrorStatus
      BY <1>3, <1>b, <2>1, <2>5 DEF SetErrorStatus
    <2>6. CASE SetTerminating
      BY <1>3, <1>b, <2>1, <2>6 DEF SetTerminating
    <2> QED
      BY <1>4, <2>2, <2>3, <2>4, <2>5, <2>6
  <1>5. CASE \/ Ping \/ CreateSchema \/ CreateUser \/ AlterUser \/ Grant
             \/ FlushPrivileges \/ PingBeforeDrop \/ DropSchema \/ DropUser
    <2>1. /\ UNCHANGED cluster
          /\ \/ UNCHANGED data
             \/ /\ CreateSchema
                /\ data' = [data EXCEPT ![db.name] = IF @ = 0 THEN db.uid ELSE @]
             \/ /\ DropSchema
                /\ data' = [data EXCEPT ![db.name] = 0]
      BY <1>a, <1>5, SqlSteps
    <2>2. UNCHANGED Current
      BY <2>1 DEF cluster, Current
    <2>3. CASE UNCHANGED data
      BY <2>2, <2>3 DEF Lifecycle!vars
    <2>4. CASE /\ CreateSchema
               /\ data' = [data EXCEPT ![db.name] = IF @ = 0 THEN db.uid ELSE @]
      <3>1. Current.exists /\ Current.uid = db.uid
        BY <2>4 DEF LifecycleInv, CallFitsCopy, ProvisionPCs, CreateSchema
      <3>2. CASE data[db.name] = 0
        <4>1. Lifecycle!Provide(db.name)
          BY <2>2, <2>4, <3>1, <3>2 DEF Lifecycle!Provide
        <4> QED
          BY <1>b, <4>1 DEF Lifecycle!Next
      <3>3. CASE data[db.name] # 0
        <4>1. data' = data
          BY <1>a, <2>4, <3>3 DEF TypeOK
        <4> QED
          BY <2>2, <4>1 DEF Lifecycle!vars
      <3> QED
        BY <3>2, <3>3
    <2>5. CASE DropSchema /\ data' = [data EXCEPT ![db.name] = 0]
      <3>1. pc # "idle" /\ db.del
        BY <2>5 DEF LifecycleInv, CallFitsCopy, CleanupPCs, DropSchema
      <3>2. Follows(db, Current) /\ data[db.name] <= db.uid
        BY <1>b, <3>1, CurrentIsLatest DEF LifecycleInv, DataIsKnown
      <3>3. ~(Current.exists /\ ~(Current.exists /\ Current.del) /\ data[db.name] = Current.uid)
        BY <1>a, <1>b, <3>1, <3>2 DEF Follows, TypeOK, Version
      <3>4. Lifecycle!Drop(db.name)
        BY <2>2, <2>5, <3>3 DEF Lifecycle!Drop
      <3> QED
        BY <1>b, <3>4 DEF Lifecycle!Next
    <2> QED
      BY <2>1, <2>3, <2>4, <2>5
  <1>6. CASE RemoveFinalizer
    <2> DEFINE v == [Current EXCEPT !.fin = FALSE, !.exists = FALSE]
    <2>1. v \in Version /\ ~v.exists /\ v.uid = Current.uid
      BY <1>a, WrittenType DEF Version
    <2>2. UNCHANGED data /\ (UNCHANGED cluster \/ (rv = revision /\ Publish(v)))
      BY <1>a, <1>6, WriteFacts DEF RemoveFinalizer, mariadb
    <2>3. CASE UNCHANGED cluster
      BY <2>1, <2>2, <2>3, TouchStutters
    <2>4. CASE rv = revision /\ Publish(v)
      <3>1. Current.exists /\ Current.del
        BY <1>6, <2>4 DEF LifecycleInv, CopyIsOld, CallFitsCopy, CleanupPCs, RemoveFinalizer
      <3>2. Current' = v
        BY <1>a, <2>1, <2>4, PublishFacts
      <3>3. Lifecycle!Forget
        BY <2>1, <2>2, <3>1, <3>2 DEF Lifecycle!Forget
      <3> QED
        BY <3>3 DEF Lifecycle!Next
    <2> QED
      BY <2>2, <2>3, <2>4
  <1>7. CASE WatchEvent
    <2>1. Current' = Current
      BY <1>a, <1>7, WatchFacts DEF WatchEvent
    <2> QED
      BY <1>7, <2>1 DEF WatchEvent, mariadb, Lifecycle!vars
  <1>8. ASSUME NEW n \in Names, CreateDatabase(n) PROVE Lifecycle!Next
    <2> DEFINE v == [NoVersion EXCEPT !.uid = Current.uid + 1, !.exists = TRUE, !.name = n]
    <2>1. v \in Version
      BY <1>a, WrittenType
    <2>2. Current' = v
      BY <1>a, <1>8, <2>1, PublishFacts DEF CreateDatabase
    <2>3. v.uid = Current.uid + 1 /\ v.exists /\ ~v.del
      BY NoVersionType DEF NoVersion
    <2>4. Lifecycle!Request
      BY <1>8, <2>2, <2>3 DEF CreateDatabase, mariadb, Lifecycle!Request
    <2> QED
      BY <2>4 DEF Lifecycle!Next
  <1>9. CASE DeleteDatabase
    <2>0. Current.exists /\ ~Current.del /\ UNCHANGED data
      BY <1>9 DEF DeleteDatabase, mariadb
    <2>1. CASE Current.fin
      <3> DEFINE v == [Current EXCEPT !.del = TRUE]
      <3>1. v \in Version /\ v.del /\ v.exists = Current.exists /\ v.uid = Current.uid
        BY <1>a, WrittenType DEF Version
      <3>2. Current' = v
        BY <1>a, <1>9, <2>1, <3>1, PublishFacts DEF DeleteDatabase
      <3>3. Lifecycle!Retire
        BY <2>0, <3>1, <3>2 DEF Lifecycle!Retire
      <3> QED
        BY <3>3 DEF Lifecycle!Next
    <2>2. CASE ~Current.fin
      <3> DEFINE v == [Current EXCEPT !.exists = FALSE]
      <3>1. v \in Version /\ ~v.exists /\ v.uid = Current.uid
        BY <1>a, WrittenType DEF Version
      <3>2. Current' = v
        BY <1>a, <1>9, <2>2, <3>1, PublishFacts DEF DeleteDatabase
      <3>3. \A n \in Names : data[n] # Current.uid
        BY <2>0, <2>2 DEF LifecycleInv, DataIsKnown
      <3>4. Lifecycle!Forget
        BY <2>0, <3>1, <3>2, <3>3 DEF Lifecycle!Forget
      <3> QED
        BY <3>4 DEF Lifecycle!Next
    <2> QED
      BY <2>1, <2>2
  <1>10. ASSUME NEW r \in Requests,
                PasswordGet(r) \/ PasswordUpdate(r) \/ PasswordStatus(r) \/ PasswordAbort(r)
         PROVE  UNCHANGED Lifecycle!vars
    <2>1. CASE PasswordGet(r) \/ PasswordAbort(r)
      BY <1>a, <2>1, TouchStutters DEF PasswordGet, PasswordAbort, mariadb
    <2>2. CASE PasswordUpdate(r)
      BY <1>a, <2>2, TouchStutters DEF PasswordUpdate, mariadb, Touch
    <2>3. CASE PasswordStatus(r)
      <3> DEFINE v == WithStatus(preq[r].phase, FreshPassword)
      <3>1. v \in Version /\ v.del = Current.del
        BY <1>a, <1>c DEF TypeOK
      <3>2. Touch(v)
        BY <1>a, <2>3 DEF PasswordStatus, Touch, WithStatus, Version
      <3> QED
        BY <2>3, <3>1, <3>2, TouchStutters DEF PasswordStatus, Store, mariadb
    <2> QED
      BY <1>10, <2>1, <2>2, <2>3
  <1>11. CASE UNCHANGED vars
    BY <1>a, <1>11, TouchStutters DEF vars, mariadb
  <1> QED
    BY <1>1, <1>2, <1>4, <1>5, <1>6, <1>7, <1>8, <1>9, <1>10, <1>11
       DEF Next, Operator, Provision, Cleanup, Panel

\* DatabaseController implements DatabaseLifecycle: whatever the cache, the
\* failures and the interleaving, a DROP never hits a live database that
\* nobody asked to delete, and no object disappears over standing data
\* before its deletion was asked for.
THEOREM LifecycleImplemented == Spec => LifecycleSpec
  <1>1. Init => Lifecycle!Init
    <2> SUFFICES ASSUME Init PROVE Lifecycle!Init
      OBVIOUS
    <2>1. Current = NoVersion
      BY DEF Init, Current
    <2>2. NoVersion.uid = 0 /\ ~NoVersion.exists /\ NoVersion.exists = FALSE
      BY DEF NoVersion
    <2> QED
      BY <2>1, <2>2 DEF Init, Lifecycle!Init
  <1> QED
    BY <1>1, LifecycleRefined, LifecycleInvariant, PTL DEF Spec, LifecycleSpec, Lifecycle!Spec
=============================================================================
