----------------------------- MODULE MailProofs -----------------------------
(***************************************************************************)
(* Proofs about MailResource, for every set of phases and calls: what its  *)
(* operators do to the versions of the resource, and the invariant Synced  *)
(* of the reconciler's copy, which the proofs about EmailDomain and        *)
(* EmailAccount share.                                                     *)
(***************************************************************************)
EXTENDS MailResource, TLAPS

\* The versions between the cache and the API server.
Versions == {log[i] : i \in 1 .. Len(log)}

\* A copy under the current resourceVersion is the current resource, but for
\* the status; no version has an edit that was not made.
Synced ==
    /\ \A v \in Versions : v.edit <= changes
    /\ pc = "idle" => ~fresh
    /\ fresh => /\ copy.exists = Current.exists
                /\ copy.del = Current.del
                /\ copy.edit = Current.edit

\* What a step may not do to an edit.
EditKept == Current.exists /\ Current'.exists => Current'.edit >= Current.edit

-----------------------------------------------------------------------------
(***************************************************************************)
(* The log of the resource                                                 *)
(***************************************************************************)

\* The ends of the log are versions, and versions are resources.
LEMMA Ends ==
  ASSUME NEW R, log \in Seq(R), Len(log) > 0
  PROVE  /\ Len(log) \in Nat \ {0}
         /\ Cached \in Versions /\ Current \in Versions
         /\ Cached \in R /\ Current \in R
         /\ Versions \subseteq R
  <1>1. Len(log) \in Nat \ {0}
    OBVIOUS
  <1>2. 1 \in 1 .. Len(log) /\ Len(log) \in 1 .. Len(log)
    BY <1>1
  <1>3. \A i \in 1 .. Len(log) : log[i] \in R
    OBVIOUS
  <1> QED
    BY <1>1, <1>2, <1>3 DEF Versions, Cached, Current

\* A stored version becomes the current one; no other version is new.
LEMMA StoreFacts ==
  ASSUME NEW R, log \in Seq(R), Len(log) > 0,
         NEW STATE v, v \in R, Store(v)
  PROVE  /\ log' \in Seq(R) /\ Len(log') > 0
         /\ Current' = v
         /\ \A w \in Versions' : w \in Versions \/ w = v
  <1>1. CASE v = Current
    <2>1. log' = log
      BY <1>1 DEF Store
    <2> QED
      BY <1>1, <2>1 DEF Current, Versions
  <1>2. CASE v # Current
    <2>1. log' = Append(log, v)
      BY <1>2 DEF Store
    <2>2. /\ log' \in Seq(R) /\ Len(log') = Len(log) + 1
          /\ log'[Len(log) + 1] = v
          /\ \A i \in 1 .. Len(log) : log'[i] = log[i]
      BY <2>1
    <2>3. Len(log) \in Nat \ {0}
      BY Ends
    <2>4. \A i \in 1 .. Len(log') : i \in 1 .. Len(log) \/ i = Len(log) + 1
      BY <2>2, <2>3
    <2>5. \A w \in Versions' : w \in Versions \/ w = v
      BY <2>2, <2>4 DEF Versions
    <2> QED
      BY <2>2, <2>3, <2>5 DEF Current
  <1> QED
    BY <1>1, <1>2

\* An unchanged log has the same versions.
LEMMA SameLog ==
  ASSUME UNCHANGED log
  PROVE  Versions' = Versions /\ Current' = Current /\ Cached' = Cached
  BY DEF Versions, Current, Cached

\* A delivered version is dropped from the log, never the current one.
LEMMA DeliverFacts ==
  ASSUME NEW R, log \in Seq(R), Len(log) > 1, log' = Tail(log)
  PROVE  /\ log' \in Seq(R) /\ Len(log') > 0
         /\ Current' = Current
         /\ Versions' \subseteq Versions
  <1>1. /\ log' \in Seq(R) /\ Len(log') = Len(log) - 1
        /\ \A i \in 1 .. Len(log') : log'[i] = log[i + 1]
    OBVIOUS
  <1>2. Len(log) \in Nat /\ Len(log') \in Nat \ {0}
    BY <1>1
  <1>3. Len(log') \in 1 .. Len(log') /\ Len(log') + 1 = Len(log)
        /\ \A i \in 1 .. Len(log') : i + 1 \in 1 .. Len(log)
    BY <1>1, <1>2
  <1>4. Current' = Current
    BY <1>1, <1>3 DEF Current
  <1>5. Versions' \subseteq Versions
    BY <1>1, <1>3 DEF Versions
  <1> QED
    BY <1>1, <1>2, <1>4, <1>5

\* A list drops versions from the log, never the current one.
LEMMA RebootFacts ==
  ASSUME NEW R, log \in Seq(R), Len(log) > 0,
         NEW i \in 1 .. Len(log), log' = SubSeq(log, i, Len(log))
  PROVE  /\ log' \in Seq(R) /\ Len(log') > 0
         /\ Current' = Current
         /\ Versions' \subseteq Versions
         /\ log[i] \in R
  <1>1. Len(log) \in Nat \ {0} /\ i \in Nat \ {0} /\ i <= Len(log)
    BY Ends
  <1>2. /\ log' \in Seq(R) /\ Len(log') = Len(log) - i + 1
        /\ \A k \in 1 .. Len(log') : log'[k] = log[i + k - 1]
    BY <1>1
  <1>3. /\ Len(log') > 0 /\ Len(log') \in 1 .. Len(log')
        /\ i + Len(log') - 1 = Len(log)
        /\ \A k \in 1 .. Len(log') : i + k - 1 \in 1 .. Len(log)
    BY <1>1, <1>2
  <1>4. Current' = Current
    BY <1>2, <1>3 DEF Current
  <1>5. Versions' \subseteq Versions
    BY <1>2, <1>3 DEF Versions
  <1> QED
    BY <1>1, <1>2, <1>3, <1>4, <1>5

\* A log of one version has it at both ends.
LEMMA Caught == ASSUME Len(log) = 1 PROVE Cached = Current
  BY DEF Cached, Current

-----------------------------------------------------------------------------
(***************************************************************************)
(* What is written                                                         *)
(***************************************************************************)

\* One more is a number, and more.
LEMMA OneMore == \A n \in Nat : n + 1 \in Nat /\ \A m \in Nat : m <= n => n + 1 >= m
  OBVIOUS

\* The value of an empty read is a resource.
LEMMA EmptyType ==
  ASSUME NEW phases, "" \in phases
  PROVE  NoResource \in Resource(phases)
  BY DEF NoResource, Resource

\* What the panel writes are resources, and hold the edits they should.
LEMMA PanelWrites ==
  ASSUME NEW phases, "" \in phases, Current \in Resource(phases), changes \in Nat,
         Current.edit <= changes
  PROVE  /\ Created \in Resource(phases) /\ Created.edit = 0 /\ Created.exists
         /\ LET v == [Created EXCEPT !.label = TRUE] IN
              v \in Resource(phases) /\ v.edit = 0
         /\ Edited \in Resource(phases) /\ Edited.edit = changes + 1
         /\ Edited.edit >= Current.edit
         /\ Edited.exists = Current.exists /\ Edited.del = Current.del
         /\ Deleted \in Resource(phases) /\ Deleted.edit = Current.edit
         /\ Deleted.exists => Current.exists /\ Deleted.del
  <1>1. NoResource \in Resource(phases)
    BY EmptyType
  <1>0. Current.uid \in Nat /\ Current.edit \in Nat /\ Current.exists \in BOOLEAN
    BY DEF Resource
  <1>2. Current.uid + 1 \in Nat /\ changes + 1 \in Nat /\ changes + 1 >= Current.edit
    BY <1>0, OneMore, Zenon
  <1>3. Created \in Resource(phases) /\ Created.edit = 0 /\ Created.exists
    BY <1>1, <1>2 DEF Created, NoResource, Resource
  <1>7. LET v == [Created EXCEPT !.label = TRUE] IN v \in Resource(phases) /\ v.edit = 0
    BY <1>3 DEF Resource
  <1>4. /\ Edited \in Resource(phases) /\ Edited.edit = changes + 1
        /\ Edited.exists = Current.exists /\ Edited.del = Current.del
    BY <1>2 DEF Edited, Resource
  <1>5. Edited.edit >= Current.edit
    BY <1>2, <1>4
  <1>6. /\ Deleted \in Resource(phases) /\ Deleted.edit = Current.edit
        /\ Deleted.exists => Current.exists /\ Deleted.del
    BY <1>0 DEF Deleted, Resource
  <1> QED
    BY <1>3, <1>4, <1>5, <1>6, <1>7

\* Faults are counted.
LEMMA FaultFacts == ASSUME faults \in Nat, Fault PROVE faults' \in Nat
  <1>1. faults' = faults + 1
    BY DEF Fault
  <1> QED
    BY <1>1

-----------------------------------------------------------------------------
(***************************************************************************)
(* The steps on a resource preserve its types and Synced, and keep edits   *)
(***************************************************************************)

\* A step of the panel or of the watch: the versions and what it publishes.
LEMMA PublishStep ==
  ASSUME NEW phases, NEW calls, ResourceTypeOK(phases, calls), Synced,
         NEW STATE v, v \in Resource(phases), Publish(v),
         changes' \in Nat, changes' >= changes, faults' \in Nat,
         v.edit <= changes', Current.exists => v.edit >= Current.edit
  PROVE  ResourceTypeOK(phases, calls)' /\ Synced' /\ EditKept
  <1> DEFINE R == Resource(phases)
  <1>1. /\ log \in Seq(R) /\ Len(log) > 0 /\ Store(v)
        /\ UNCHANGED <<queued, pc, copy>> /\ fresh' = (fresh /\ v = Current)
    BY DEF ResourceTypeOK, Publish
  <1> HIDE DEF R
  <1>2. /\ log' \in Seq(R) /\ Len(log') > 0 /\ Current' = v
        /\ \A w \in Versions' : w \in Versions \/ w = v
    BY <1>1, StoreFacts DEF R
  <1>3. ResourceTypeOK(phases, calls)'
    BY <1>1, <1>2 DEF ResourceTypeOK, R
  <1>4. \A w \in Versions' : w.edit <= changes'
    <2> SUFFICES ASSUME NEW w \in Versions' PROVE w.edit <= changes'
      OBVIOUS
    <2>1. CASE w = v
      BY <2>1
    <2>2. CASE w \in Versions
      <3>1. w \in R
        BY <1>1, <2>2, Ends
      <3>2. w.edit <= changes /\ w.edit \in Nat /\ changes \in Nat
        BY <2>2, <3>1 DEF Synced, R, Resource, ResourceTypeOK
      <3> QED
        BY <3>2
    <2> QED
      BY <1>2, <2>1, <2>2
  <1>5. Synced'
    BY <1>1, <1>2, <1>4 DEF Synced
  <1> QED
    BY <1>2, <1>3, <1>5 DEF EditKept

\* The handlers that change a resource: each bumps the counter by one.
LEMMA ChangeStep ==
  ASSUME NEW phases, NEW calls, ResourceTypeOK(phases, calls), Synced, UNCHANGED faults,
         NEW STATE v, v \in Resource(phases), Change(v),
         v.edit = Current.edit \/ v.edit = changes + 1
  PROVE  ResourceTypeOK(phases, calls)' /\ Synced' /\ EditKept
  <1>1. /\ changes \in Nat /\ faults \in Nat /\ changes' = changes + 1 /\ Publish(v)
        /\ log \in Seq(Resource(phases)) /\ Len(log) > 0
    BY DEF ResourceTypeOK, Change
  <1>2. Current \in Resource(phases) /\ Current \in Versions
    BY <1>1, Ends
  <1>3. Current.edit \in Nat /\ Current.edit <= changes
    BY <1>2 DEF Synced, Resource
  <1>4. /\ changes' \in Nat /\ changes' >= changes
        /\ v.edit <= changes' /\ v.edit >= Current.edit
    BY <1>1, <1>3
  <1> QED
    BY <1>1, <1>4, PublishStep

\* A step of the reconciler, which stores v or nothing.
LEMMA WorkerStep ==
  ASSUME NEW phases, NEW calls, ResourceTypeOK(phases, calls), Synced, UNCHANGED changes,
         faults' \in Nat, queued' \in BOOLEAN, pc' \in calls,
         copy' \in Resource(phases), fresh' \in BOOLEAN,
         pc' = "idle" => ~fresh',
         NEW STATE v, v \in Resource(phases), v.edit = copy.edit,
         UNCHANGED log \/ (fresh /\ Store(v)),
         fresh' => /\ copy'.exists = Current'.exists
                   /\ copy'.del = Current'.del
                   /\ copy'.edit = Current'.edit
  PROVE  /\ ResourceTypeOK(phases, calls)' /\ Synced' /\ EditKept
         /\ Current' = Current \/ (fresh /\ Current' = v)
  <1> DEFINE R == Resource(phases)
  <1>1. log \in Seq(R) /\ Len(log) > 0 /\ changes \in Nat
    BY DEF ResourceTypeOK
  <1> HIDE DEF R
  <1>2. /\ log' \in Seq(R) /\ Len(log') > 0
        /\ Current' = Current \/ (fresh /\ Current' = v)
        /\ \A w \in Versions' : w \in Versions \/ (fresh /\ w = v)
    <2>1. CASE UNCHANGED log
      BY <1>1, <2>1, SameLog
    <2>2. CASE fresh /\ Store(v)
      BY <1>1, <2>2, StoreFacts DEF R
    <2> QED
      BY <2>1, <2>2
  <1>3. Current \in R /\ Current \in Versions /\ Current.edit \in Nat
    <2>1. Current \in R /\ Current \in Versions
      BY <1>1, Ends
    <2> QED
      BY <2>1 DEF R, Resource
  <1>4. fresh => v.edit = Current.edit
    BY DEF Synced
  <1>5. ResourceTypeOK(phases, calls)'
    BY <1>1, <1>2 DEF ResourceTypeOK, R
  <1>6. \A w \in Versions' : w.edit <= changes'
    BY <1>2, <1>3, <1>4 DEF Synced
  <1>7. Synced'
    BY <1>6 DEF Synced
  <1>8. Current'.edit >= Current.edit
    <2>1. Current'.edit = Current.edit
      BY <1>2, <1>4
    <2> QED
      BY <1>3, <2>1
  <1> QED
    BY <1>2, <1>5, <1>7, <1>8 DEF EditKept

\* The edit of an unchanged resource is kept.
LEMMA SameEdit ==
  ASSUME NEW phases, log \in Seq(Resource(phases)), Len(log) > 0, Current' = Current
  PROVE  EditKept
  <1>1. Current \in Resource(phases)
    BY Ends
  <1>2. Current.edit \in Nat
    BY <1>1 DEF Resource
  <1>3. Current'.edit = Current.edit
    OBVIOUS
  <1>4. Current'.edit >= Current.edit
    BY <1>2, <1>3
  <1> QED
    BY <1>4 DEF EditKept

\* The reconcile ends, after a write or without one.
LEMMA ReturnStep ==
  ASSUME NEW phases, "" \in phases, NEW calls, "idle" \in calls,
         ResourceTypeOK(phases, calls), Synced, UNCHANGED changes, faults' \in Nat,
         NEW STATE v, v \in Resource(phases), v.edit = copy.edit,
         UNCHANGED log \/ (fresh /\ Store(v)),
         NEW requeue \in BOOLEAN, Return(requeue)
  PROVE  /\ ResourceTypeOK(phases, calls)' /\ Synced' /\ EditKept
         /\ Current' = Current \/ (fresh /\ Current' = v)
  <1>1. NoResource \in Resource(phases)
    BY EmptyType
  <1>2. /\ queued' \in BOOLEAN /\ pc' \in calls /\ copy' \in Resource(phases)
        /\ fresh' = FALSE
    BY <1>1 DEF Return, ResourceTypeOK
  <1> QED
    BY <1>2, WorkerStep

\* The reconcile goes on with the copy it has written, or tried to write.
LEMMA ContinueStep ==
  ASSUME NEW phases, NEW calls, ResourceTypeOK(phases, calls), Synced, UNCHANGED changes,
         faults' \in Nat,
         NEW STATE v, v \in Resource(phases), v.edit = copy.edit,
         v.exists = copy.exists, v.del = copy.del,
         NEW STATE call, call \in calls, call # "idle",
         NEW STATE current, current \in BOOLEAN, Continue(call, v, current),
         \/ fresh /\ Store(v)
         \/ UNCHANGED log /\ (current => fresh)
  PROVE  /\ ResourceTypeOK(phases, calls)' /\ Synced' /\ EditKept
         /\ Current' = Current \/ (fresh /\ Current' = v)
  <1>1. /\ queued' \in BOOLEAN /\ pc' \in calls /\ copy' = v /\ copy' \in Resource(phases)
        /\ fresh' = current /\ fresh' \in BOOLEAN /\ pc' # "idle"
    BY DEF Continue, ResourceTypeOK
  <1>2. ASSUME fresh'
        PROVE  /\ copy'.exists = Current'.exists
               /\ copy'.del = Current'.del
               /\ copy'.edit = Current'.edit
    <2>1. CASE fresh /\ Store(v)
      <3>1. Current' = v
        BY <2>1, StoreFacts DEF ResourceTypeOK
      <3> QED
        BY <1>1, <3>1
    <2>2. CASE UNCHANGED log /\ (current => fresh)
      <3>1. Current' = Current /\ fresh
        BY <1>1, <1>2, <2>2, SameLog
      <3> QED
        BY <1>1, <3>1 DEF Synced
    <2> QED
      BY <2>1, <2>2
  <1>3. UNCHANGED log \/ (fresh /\ Store(v))
    OBVIOUS
  <1> QED
    BY <1>1, <1>2, <1>3, WorkerStep

\* A write whose error is ignored, at the end of a reconcile.
LEMMA TryReturnStep ==
  ASSUME NEW phases, "" \in phases, NEW calls, "idle" \in calls,
         ResourceTypeOK(phases, calls), Synced, UNCHANGED changes,
         NEW STATE v, v \in Resource(phases), v.edit = copy.edit,
         NEW requeue \in BOOLEAN,
         LET next(current) == Return(requeue) IN TryWrite(v, next)
  PROVE  /\ ResourceTypeOK(phases, calls)' /\ Synced' /\ EditKept
         /\ Current' = Current \/ (fresh /\ Current' = v)
  <1>1. faults \in Nat
    BY DEF ResourceTypeOK
  <1>2. faults' \in Nat /\ Return(requeue) /\ (UNCHANGED log \/ (fresh /\ Store(v)))
    BY <1>1, FaultFacts DEF TryWrite
  <1> QED
    BY <1>2, ReturnStep

\* TryWrite with a reconcile that goes on with what it has tried to write.
TryContinue(v, call) ==
    \/ fresh /\ Store(v) /\ Continue(call, v, TRUE) /\ UNCHANGED faults
    \/ ~fresh /\ Continue(call, v, FALSE) /\ UNCHANGED <<log, faults>>
    \/ Fault /\ fresh /\ Store(v) /\ Continue(call, v, FALSE)
    \/ Fault /\ UNCHANGED log /\ Continue(call, v, fresh)

\* A write whose error is ignored, on the way.
LEMMA TryContinueStep ==
  ASSUME NEW phases, NEW calls, ResourceTypeOK(phases, calls), Synced, UNCHANGED changes,
         NEW STATE v, v \in Resource(phases), v.edit = copy.edit,
         v.exists = copy.exists, v.del = copy.del,
         NEW call \in calls, call # "idle",
         TryContinue(v, call)
  PROVE  /\ ResourceTypeOK(phases, calls)' /\ Synced' /\ EditKept
         /\ Current' = Current \/ (fresh /\ Current' = v)
         /\ pc' = call /\ copy' = v
         /\ UNCHANGED log \/ (fresh /\ Store(v))
  <1>1. faults \in Nat /\ fresh \in BOOLEAN
    BY DEF ResourceTypeOK
  <1>2. PICK current \in BOOLEAN :
           /\ faults' \in Nat /\ Continue(call, v, current)
           /\ \/ fresh /\ Store(v)
              \/ UNCHANGED log /\ (current => fresh)
    <2>1. CASE fresh /\ Store(v) /\ Continue(call, v, TRUE) /\ UNCHANGED faults
      BY <1>1, <2>1
    <2>2. CASE ~fresh /\ Continue(call, v, FALSE) /\ UNCHANGED <<log, faults>>
      BY <1>1, <2>2
    <2>3. CASE Fault /\ fresh /\ Store(v) /\ Continue(call, v, FALSE)
      BY <1>1, <2>3, FaultFacts
    <2>4. CASE Fault /\ UNCHANGED log /\ Continue(call, v, fresh)
      BY <1>1, <2>4, FaultFacts
    <2> QED
      BY <2>1, <2>2, <2>3, <2>4 DEF TryContinue
  <1>3. pc' = call /\ copy' = v
    BY <1>2 DEF Continue
  <1>4. UNCHANGED log \/ (fresh /\ Store(v))
    BY <1>2
  <1> QED
    BY <1>2, <1>3, <1>4, ContinueStep

\* The reconcile begins, or reads the resource again.
LEMMA ReadStep ==
  ASSUME NEW phases, NEW calls, ResourceTypeOK(phases, calls), Synced,
         UNCHANGED <<log, changes>>, faults' \in Nat, queued' \in BOOLEAN,
         pc' \in calls, pc' # "idle", copy' = Cached, fresh' = (Len(log) = 1)
  PROVE  ResourceTypeOK(phases, calls)' /\ Synced' /\ EditKept
  <1>1. log \in Seq(Resource(phases)) /\ Len(log) > 0 /\ copy \in Resource(phases)
    BY DEF ResourceTypeOK
  <1>2. Cached \in Resource(phases)
    BY <1>1, Ends
  <1>3. fresh' => copy' = Current'
    BY Caught, SameLog
  <1> QED
    BY <1>1, <1>2, <1>3, WorkerStep

\* Nothing of the resource changes.
LEMMA StutterStep ==
  ASSUME NEW phases, NEW calls, ResourceTypeOK(phases, calls), Synced,
         UNCHANGED <<log, pc, copy, fresh, changes>>, faults' \in Nat, queued' \in BOOLEAN
  PROVE  ResourceTypeOK(phases, calls)' /\ Synced' /\ EditKept
  <1>1. Current' = Current /\ Versions' = Versions
    BY SameLog
  <1>2. Current.edit \in Nat
    <2>1. Current \in Resource(phases)
      BY Ends DEF ResourceTypeOK
    <2> QED
      BY <2>1 DEF Resource
  <1> QED
    BY <1>1, <1>2 DEF ResourceTypeOK, Synced, EditKept

\* The watch and a restart change neither the resource nor its edits.
LEMMA DeliverStep ==
  ASSUME NEW phases, NEW calls, ResourceTypeOK(phases, calls), Synced, Deliver,
         UNCHANGED <<changes, faults>>
  PROVE  /\ ResourceTypeOK(phases, calls)' /\ Synced' /\ EditKept
         /\ Current' = Current /\ Versions' \subseteq Versions
  <1>1. /\ log' \in Seq(Resource(phases)) /\ Len(log') > 0
        /\ Current' = Current /\ Versions' \subseteq Versions
    BY DeliverFacts DEF ResourceTypeOK, Deliver
  <1>2. Current.edit \in Nat
    <2>1. Current \in Resource(phases)
      BY Ends DEF ResourceTypeOK
    <2> QED
      BY <2>1 DEF Resource
  <1> QED
    BY <1>1, <1>2 DEF ResourceTypeOK, Synced, EditKept, Deliver

LEMMA RebootStep ==
  ASSUME NEW phases, "" \in phases, NEW calls, "idle" \in calls,
         ResourceTypeOK(phases, calls), Synced, Reboot, UNCHANGED changes
  PROVE  /\ ResourceTypeOK(phases, calls)' /\ Synced' /\ EditKept
         /\ Current' = Current /\ Versions' \subseteq Versions
  <1>1. PICK i \in 1 .. Len(log) :
           log' = SubSeq(log, i, Len(log)) /\ queued' = log[i].exists
    BY DEF Reboot
  <1>2. /\ log' \in Seq(Resource(phases)) /\ Len(log') > 0 /\ log[i] \in Resource(phases)
        /\ Current' = Current /\ Versions' \subseteq Versions
    BY <1>1, RebootFacts DEF ResourceTypeOK
  <1>3. queued' \in BOOLEAN
    BY <1>1, <1>2 DEF Resource
  <1>4. NoResource \in Resource(phases)
    BY EmptyType
  <1>5. faults' \in Nat
    BY FaultFacts DEF Reboot, ResourceTypeOK
  <1>6. ResourceTypeOK(phases, calls)'
    BY <1>2, <1>3, <1>4, <1>5 DEF ResourceTypeOK, Reboot
  <1>7. Synced'
    BY <1>2 DEF Synced, Reboot
  <1>8. EditKept
    BY <1>2, SameEdit DEF ResourceTypeOK
  <1> QED
    BY <1>2, <1>6, <1>7, <1>8
=============================================================================
