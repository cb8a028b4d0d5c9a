-------------------------- MODULE EmailDomainProofs --------------------------
(***************************************************************************)
(* Proofs about EmailDomain, for every bound: type correctness, that no    *)
(* edit of a domain is lost, and that EmailDomain implements DomainPhases, *)
(* the domain that EmailAccount takes for its environment.                 *)
(***************************************************************************)
EXTENDS EmailDomain, MailProofs

Calls == {"idle", "finalize", "pending", "dkim", "active", "fail", "terminate", "unfinalize"}

ResourceType == ResourceTypeOK(Phases, Calls)

KeyType == secret \in Nat /\ seen \in Nat /\ lost \in BOOLEAN

\* The reconciler is at a call of reconcileDelete only with a copy that is
\* being deleted, and at the others only with one that is not; before it has
\* written a phase, a current copy shows the current phase.
PhaseInv ==
    /\ pc \in {"terminate", "unfinalize"} => copy.exists /\ copy.del
    /\ pc \in {"finalize", "pending", "dkim", "active", "fail"} => copy.exists /\ ~copy.del
    /\ pc \in {"finalize", "pending"} /\ fresh => copy.phase = Current.phase
    /\ pc = "pending" => copy.phase = ""

DomainInv == ResourceType /\ KeyType /\ Synced /\ PhaseInv

-----------------------------------------------------------------------------
LEMMA TypeParts == TypeOK <=> ResourceType /\ KeyType
  BY DEF TypeOK, ResourceType, KeyType, Calls

LEMMA Literals == "" \in Phases /\ "idle" \in Calls
  BY DEF Phases, Calls

\* Initially there is no domain.
LEMMA InitInv == Init => DomainInv /\ Abstract!DomInit
  <1> SUFFICES ASSUME Init PROVE DomainInv /\ Abstract!DomInit
    OBVIOUS
  <1>1. NoResource \in Resource(Phases)
    BY EmptyType, Literals
  <1>2. /\ log = <<NoResource>> /\ copy = NoResource /\ fresh = FALSE /\ pc = "idle"
        /\ changes = 0 /\ faults = 0 /\ queued = FALSE
    BY DEF Init, ResourceInit
  <1>3. log \in Seq(Resource(Phases)) /\ Len(log) = 1 /\ log[1] = NoResource
    BY <1>1, <1>2
  <1>4. ResourceType
    <2>1. Len(log) > 0 /\ changes \in Nat /\ faults \in Nat
      BY <1>2, <1>3
    <2>2. queued \in BOOLEAN /\ pc \in Calls /\ fresh \in BOOLEAN
      BY <1>2, Literals
    <2> QED
      BY <1>1, <1>2, <1>3, <2>1, <2>2 DEF ResourceType, ResourceTypeOK
  <1>5. \A v \in Versions : v = NoResource
    BY <1>3 DEF Versions
  <1>6. NoResource.edit = 0 /\ NoResource.exists = FALSE
    BY DEF NoResource
  <1>7. Synced /\ PhaseInv
    BY <1>2, <1>5, <1>6 DEF Synced, PhaseInv
  <1>8. KeyType
    BY DEF KeyType, Init
  <1>9. Abstract!DomInit
    <2>1. Current = NoResource
      BY <1>3 DEF Current
    <2> QED
      BY <1>6, <2>1 DEF Abstract!DomInit, Abstract!NoDomain
  <1> QED
    BY <1>4, <1>7, <1>8, <1>9 DEF DomainInv

-----------------------------------------------------------------------------
(***************************************************************************)
(* What the domain shows                                                   *)
(***************************************************************************)

\* A step is one of DomainPhases, or not seen by it.
Shown == [Abstract!DomNext]_(IF Current.exists
                             THEN [exists |-> TRUE, del |-> Current.del,
                                   phase |-> Current.phase]
                             ELSE [exists |-> FALSE, del |-> FALSE, phase |-> ""])

\* A write that changes neither of what is shown.
LEMMA ShownSame ==
  ASSUME Current'.exists = Current.exists, Current'.del = Current.del,
         Current'.phase = Current.phase
  PROVE  Shown
  BY DEF Shown

LEMMA ShownAppear ==
  ASSUME Current.exists = FALSE, Current'.exists = TRUE, Current'.del = FALSE,
         Current'.phase = ""
  PROVE  Shown
  BY DEF Shown, Abstract!DomNext, Abstract!Appear

LEMMA ShownRecords ==
  ASSUME NEW r \in [exists: BOOLEAN, del: BOOLEAN, phase: Phases],
         NEW s \in [exists: BOOLEAN, del: BOOLEAN, phase: Phases], s.exists = r.exists
  PROVE  /\ s.del = r.del => s = [r EXCEPT !.phase = s.phase]
         /\ s.phase = r.phase /\ s.del = TRUE => s = [r EXCEPT !.del = TRUE]
  OBVIOUS

LEMMA ShownReport ==
  ASSUME Current.phase \in Phases, Current'.phase \in Phases,
         Current.exists = TRUE, Current.del = FALSE, Current'.exists = TRUE,
         Current'.del = FALSE, Current'.phase \in {"Pending", "Active", "Error"},
         Current'.phase = "Pending" => Current.phase = ""
  PROVE  Shown
  <1> DEFINE d == IF Current.exists
                  THEN [exists |-> TRUE, del |-> Current.del, phase |-> Current.phase]
                  ELSE [exists |-> FALSE, del |-> FALSE, phase |-> ""]
  <1>1. /\ d = [exists |-> TRUE, del |-> FALSE, phase |-> Current.phase]
        /\ d' = [exists |-> TRUE, del |-> FALSE, phase |-> Current'.phase]
    OBVIOUS
  <1> HIDE DEF d
  <1>2. /\ d.exists /\ ~d.del
        /\ \E p \in {"Pending", "Active", "Error"} :
             /\ p = "Pending" => d.phase = ""
             /\ d' = [d EXCEPT !.phase = p]
    <2>1. Current'.phase = "Pending" => d.phase = ""
      BY <1>1
    <2>2. d' = [d EXCEPT !.phase = Current'.phase]
      <3>1. /\ d \in [exists: BOOLEAN, del: BOOLEAN, phase: Phases]
            /\ d' \in [exists: BOOLEAN, del: BOOLEAN, phase: Phases]
        BY <1>1
      <3>2. d'.exists = d.exists /\ d'.del = d.del /\ d'.phase = Current'.phase
        BY <1>1
      <3> QED
        BY <3>1, <3>2, ShownRecords
    <2> QED
      BY <1>1, <2>1, <2>2
  <1>3. Abstract!Report
    BY <1>2 DEF d, Abstract!Report
  <1> QED
    BY <1>3 DEF Shown, Abstract!DomNext

LEMMA ShownCondemn ==
  ASSUME Current.phase \in Phases,
         Current.exists = TRUE, Current.del = FALSE,
         \/ Current'.exists = FALSE
         \/ Current'.exists = TRUE /\ Current'.del = TRUE /\ Current'.phase = Current.phase
  PROVE  Shown
  <1> DEFINE d == IF Current.exists
                  THEN [exists |-> TRUE, del |-> Current.del, phase |-> Current.phase]
                  ELSE [exists |-> FALSE, del |-> FALSE, phase |-> ""]
  <1>1. /\ d = [exists |-> TRUE, del |-> FALSE, phase |-> Current.phase]
        /\ \/ d' = [exists |-> FALSE, del |-> FALSE, phase |-> ""]
           \/ d' = [exists |-> TRUE, del |-> TRUE, phase |-> Current.phase]
    OBVIOUS
  <1> HIDE DEF d
  <1>2. /\ d.exists /\ ~d.del
        /\ d' \in {[d EXCEPT !.del = TRUE], [exists |-> FALSE, del |-> FALSE, phase |-> ""]}
    <2>1. d.exists /\ ~d.del
      BY <1>1
    <2>2. CASE d' = [exists |-> TRUE, del |-> TRUE, phase |-> Current.phase]
      <3>1. /\ d \in [exists: BOOLEAN, del: BOOLEAN, phase: Phases]
            /\ d' \in [exists: BOOLEAN, del: BOOLEAN, phase: Phases]
        BY <1>1, <2>2
      <3>2. d'.exists = d.exists /\ d'.del = TRUE /\ d'.phase = d.phase
        BY <1>1, <2>2
      <3>3. d' = [d EXCEPT !.del = TRUE]
        BY <3>1, <3>2, ShownRecords
      <3> QED
        BY <2>1, <3>3
    <2> QED
      BY <1>1, <2>1, <2>2
  <1>3. Abstract!Condemn
    BY <1>2 DEF d, Abstract!Condemn, Abstract!NoDomain
  <1> QED
    BY <1>3 DEF Shown, Abstract!DomNext

LEMMA ShownTerminate ==
  ASSUME Current.phase \in Phases,
         Current.exists = TRUE, Current.del = TRUE,
         \/ Current'.exists = FALSE
         \/ Current'.exists = TRUE /\ Current'.del = TRUE /\ Current'.phase = "Terminating"
  PROVE  Shown
  <1> DEFINE d == IF Current.exists
                  THEN [exists |-> TRUE, del |-> Current.del, phase |-> Current.phase]
                  ELSE [exists |-> FALSE, del |-> FALSE, phase |-> ""]
  <1>1. /\ d = [exists |-> TRUE, del |-> TRUE, phase |-> Current.phase]
        /\ \/ d' = [exists |-> FALSE, del |-> FALSE, phase |-> ""]
           \/ d' = [exists |-> TRUE, del |-> TRUE, phase |-> "Terminating"]
    OBVIOUS
  <1> HIDE DEF d
  <1>2. /\ d.exists /\ d.del
        /\ d' \in {[d EXCEPT !.phase = "Terminating"],
                   [exists |-> FALSE, del |-> FALSE, phase |-> ""]}
    <2>1. d.exists /\ d.del
      BY <1>1
    <2>2. CASE d' = [exists |-> TRUE, del |-> TRUE, phase |-> "Terminating"]
      <3>1. /\ d \in [exists: BOOLEAN, del: BOOLEAN, phase: Phases]
            /\ d' \in [exists: BOOLEAN, del: BOOLEAN, phase: Phases]
        BY <1>1, <2>2 DEF Phases
      <3>2. d'.exists = d.exists /\ d'.del = d.del /\ d'.phase = "Terminating"
        BY <1>1, <2>2
      <3>3. d' = [d EXCEPT !.phase = "Terminating"]
        BY <3>1, <3>2, ShownRecords
      <3> QED
        BY <2>1, <3>3
    <2> QED
      BY <1>1, <2>1, <2>2
  <1>3. Abstract!Terminate
    BY <1>2 DEF d, Abstract!Terminate, Abstract!NoDomain
  <1> QED
    BY <1>3 DEF Shown, Abstract!DomNext

-----------------------------------------------------------------------------
(***************************************************************************)
(* The reconciler                                                          *)
(***************************************************************************)

\* The facts of the invariant that every step uses.
LEMMA StateFacts ==
  ASSUME DomainInv
  PROVE  /\ ResourceTypeOK(Phases, Calls) /\ Synced /\ KeyType /\ PhaseInv
         /\ log \in Seq(Resource(Phases)) /\ Len(log) > 0
         /\ copy \in Resource(Phases) /\ faults \in Nat /\ fresh \in BOOLEAN
         /\ Current \in Resource(Phases) /\ Cached \in Resource(Phases)
         /\ Current.exists \in BOOLEAN /\ Current.del \in BOOLEAN /\ Current.phase \in Phases
         /\ Current.edit \in Nat /\ Current.edit <= changes /\ changes \in Nat
  <1>1. /\ ResourceTypeOK(Phases, Calls) /\ Synced /\ KeyType /\ PhaseInv
        /\ log \in Seq(Resource(Phases)) /\ Len(log) > 0
        /\ copy \in Resource(Phases) /\ faults \in Nat /\ fresh \in BOOLEAN
        /\ changes \in Nat
    BY DEF DomainInv, ResourceType, ResourceTypeOK
  <1>2. /\ Current \in Resource(Phases) /\ Cached \in Resource(Phases)
        /\ Current \in Versions
    BY <1>1, Ends
  <1>3. /\ Current.exists \in BOOLEAN /\ Current.del \in BOOLEAN /\ Current.phase \in Phases
        /\ Current.edit \in Nat
    BY <1>2 DEF Resource
  <1> QED
    BY <1>1, <1>2, <1>3 DEF Synced

\* The copies the reconciler writes back.
LEMMA WrittenType ==
  ASSUME copy \in Resource(Phases)
  PROVE  /\ \A p \in Phases :
              LET v == [copy EXCEPT !.phase = p] IN
              /\ v \in Resource(Phases) /\ v.edit = copy.edit
              /\ v.exists = copy.exists /\ v.del = copy.del /\ v.phase = p
         /\ LET v == [copy EXCEPT !.fin = TRUE] IN
              /\ v \in Resource(Phases) /\ v.edit = copy.edit
              /\ v.exists = copy.exists /\ v.del = copy.del /\ v.phase = copy.phase
         /\ LET v == [copy EXCEPT !.ref = TRUE] IN
              /\ v \in Resource(Phases) /\ v.edit = copy.edit
              /\ v.exists = copy.exists /\ v.del = copy.del
         /\ LET v == [copy EXCEPT !.fin = FALSE, !.exists = FALSE] IN
              /\ v \in Resource(Phases) /\ v.edit = copy.edit
              /\ v.exists = FALSE
  BY DEF Resource

\* What is stored is shown; without a write nothing is.
LEMMA StoredCurrent ==
  ASSUME DomainInv, NEW STATE v, v \in Resource(Phases), Store(v)
  PROVE  Current' = v
  BY StateFacts, StoreFacts

LEMMA ReconcileStep ==
  ASSUME DomainInv, Reconcile
  PROVE  DomainInv' /\ EditKept /\ Shown
  <1>1. /\ UNCHANGED <<log, changes, faults>> /\ queued' = FALSE
        /\ UNCHANGED <<secret, seen, lost>>
        /\ pc' = FirstCall(Cached) /\ pc = "idle"
    BY DEF Reconcile, Begin, bounds
  <1>2. Current' = Current
    BY <1>1, SameLog
  <1>3. Shown
    BY <1>2, ShownSame
  <1>4. KeyType'
    BY <1>1, StateFacts DEF KeyType
  <1>5. CASE pc' = "idle"
    <2>1. UNCHANGED <<pc, copy, fresh>>
      BY <1>1, <1>5 DEF Reconcile, Begin
    <2>2. ResourceTypeOK(Phases, Calls)' /\ Synced' /\ EditKept
      BY <1>1, <2>1, StateFacts, StutterStep
    <2>3. PhaseInv'
      BY <1>5 DEF PhaseInv
    <2> QED
      BY <1>3, <1>4, <2>2, <2>3 DEF DomainInv, ResourceType
  <1>6. CASE pc' # "idle"
    <2>1. copy' = Cached /\ fresh' = (Len(log) = 1)
      BY <1>6 DEF Reconcile, Begin
    <2>2. /\ pc' \in Calls
          /\ pc' \in {"terminate", "unfinalize"} => Cached.exists /\ Cached.del
          /\ pc' \in {"finalize", "pending", "dkim", "active", "fail"}
                => Cached.exists /\ ~Cached.del
          /\ pc' = "pending" => Cached.phase = ""
      BY <1>1 DEF FirstCall, AfterFinalizer, Calls
    <2>3. ResourceTypeOK(Phases, Calls)' /\ Synced' /\ EditKept
      BY <1>1, <1>6, <2>1, <2>2, StateFacts, ReadStep
    <2>4. fresh' => copy' = Current'
      BY <1>2, <2>1, Caught
    <2>5. PhaseInv'
      BY <2>1, <2>2, <2>4 DEF PhaseInv
    <2> QED
      BY <1>3, <1>4, <2>3, <2>5 DEF DomainInv, ResourceType
  <1> QED
    BY <1>5, <1>6

LEMMA AddFinalizerStep ==
  ASSUME DomainInv, AddFinalizer
  PROVE  DomainInv' /\ EditKept /\ Shown
  <1> DEFINE v == [copy EXCEPT !.fin = TRUE]
  <1>1. /\ pc = "finalize" /\ UNCHANGED <<secret, seen, lost, changes>>
        /\ Write(v, Continue(AfterFinalizer(v), v, TRUE))
    BY DEF AddFinalizer
  <1>2. /\ v \in Resource(Phases) /\ v.edit = copy.edit /\ v.exists = copy.exists
        /\ v.del = copy.del /\ v.phase = copy.phase
    BY StateFacts, WrittenType
  <1> HIDE DEF v
  <1>3. /\ copy.exists /\ ~copy.del /\ (fresh => copy.phase = Current.phase)
        /\ fresh => copy.exists = Current.exists /\ copy.del = Current.del
    BY <1>1, StateFacts DEF PhaseInv, Synced
  <1>4. /\ faults' \in Nat /\ (UNCHANGED log \/ (fresh /\ Store(v)))
        /\ \/ fresh /\ Store(v) /\ Continue(AfterFinalizer(v), v, TRUE)
           \/ Return(TRUE)
    BY <1>1, StateFacts, FaultFacts DEF Write
  <1>5. KeyType'
    BY <1>1, StateFacts DEF KeyType
  <1>6. Shown
    <2>1. CASE UNCHANGED log
      BY <2>1, SameLog, ShownSame
    <2>2. CASE fresh /\ Store(v)
      BY <1>2, <1>3, <2>2, StoredCurrent, ShownSame
    <2> QED
      BY <1>4, <2>1, <2>2
  <1>7. CASE fresh /\ Store(v) /\ Continue(AfterFinalizer(v), v, TRUE)
    <2>1. /\ AfterFinalizer(v) \in Calls /\ AfterFinalizer(v) \in {"pending", "dkim"}
          /\ AfterFinalizer(v) # "idle"
          /\ AfterFinalizer(v) = "pending" => v.phase = ""
      BY DEF AfterFinalizer, Calls
    <2>2. ResourceTypeOK(Phases, Calls)' /\ Synced' /\ EditKept
      BY <1>1, <1>2, <1>4, <1>7, <2>1, StateFacts, ContinueStep
    <2>3. pc' = AfterFinalizer(v) /\ copy' = v /\ Current' = v
      BY <1>2, <1>7, StoredCurrent DEF Continue
    <2>4. PhaseInv'
      BY <1>2, <1>3, <2>1, <2>3 DEF PhaseInv
    <2> QED
      BY <1>5, <1>6, <2>2, <2>4 DEF DomainInv, ResourceType
  <1>8. CASE Return(TRUE)
    <2>1. ResourceTypeOK(Phases, Calls)' /\ Synced' /\ EditKept
      BY <1>1, <1>2, <1>4, <1>8, StateFacts, Literals, ReturnStep
    <2>2. PhaseInv'
      BY <1>8 DEF PhaseInv, Return
    <2> QED
      BY <1>5, <1>6, <2>1, <2>2 DEF DomainInv, ResourceType
  <1> QED
    BY <1>4, <1>7, <1>8

\* A status written at the end of a reconcile.
LEMMA LastWriteStep ==
  ASSUME DomainInv, NEW p \in {"Active", "Error"}, NEW requeue \in BOOLEAN,
         pc \in {"active", "fail"},
         LET next(current) == Return(requeue) IN TryWrite([copy EXCEPT !.phase = p], next),
         UNCHANGED <<secret, seen, changes>>, lost' \in BOOLEAN
  PROVE  DomainInv' /\ EditKept /\ Shown
  <1> DEFINE v == [copy EXCEPT !.phase = p]
  <1>1. Return(requeue) /\ (UNCHANGED log \/ (fresh /\ Store(v)))
    BY DEF TryWrite
  <1>2. /\ v \in Resource(Phases) /\ v.edit = copy.edit /\ v.exists = copy.exists
        /\ v.del = copy.del /\ v.phase = p
    BY StateFacts, WrittenType DEF Phases
  <1>3. LET next(current) == Return(requeue) IN TryWrite(v, next)
    OBVIOUS
  <1> HIDE DEF v
  <1>4. ResourceTypeOK(Phases, Calls)' /\ Synced' /\ EditKept
    BY <1>2, <1>3, StateFacts, Literals, TryReturnStep
  <1>5. PhaseInv' /\ KeyType'
    BY <1>1, StateFacts DEF PhaseInv, KeyType, Return
  <1>6. Shown
    <2>1. CASE UNCHANGED log
      BY <2>1, SameLog, ShownSame
    <2>2. CASE fresh /\ Store(v)
      <3>1. /\ copy.exists /\ ~copy.del
            /\ copy.exists = Current.exists /\ copy.del = Current.del
        BY <2>2, StateFacts DEF PhaseInv, Synced
      <3>2. Current' = v /\ Current.exists = TRUE /\ Current.del = FALSE
        BY <1>2, <2>2, <3>1, StoredCurrent, StateFacts
      <3>3. Current'.phase \in Phases
        BY <1>2, <3>2 DEF Phases
      <3> QED
        BY <1>2, <3>1, <3>2, <3>3, StateFacts, ShownReport
    <2> QED
      BY <1>1, <2>1, <2>2
  <1> QED
    BY <1>4, <1>5, <1>6 DEF DomainInv, ResourceType

\* A status written on the way.
LEMMA SetPendingStep ==
  ASSUME DomainInv, SetPending
  PROVE  DomainInv' /\ EditKept /\ Shown
  <1> DEFINE v == [copy EXCEPT !.phase = "Pending"]
  <1>1. /\ pc = "pending" /\ TryContinue(v, "dkim")
        /\ UNCHANGED <<secret, seen, lost, changes>>
    BY DEF SetPending, TryWrite, TryContinue
  <1>2. /\ v \in Resource(Phases) /\ v.edit = copy.edit /\ v.exists = copy.exists
        /\ v.del = copy.del /\ v.phase = "Pending"
    BY StateFacts, WrittenType DEF Phases
  <1> HIDE DEF v
  <1>3. "dkim" \in Calls
    BY DEF Calls
  <1>4. /\ ResourceTypeOK(Phases, Calls)' /\ Synced' /\ EditKept
        /\ pc' = "dkim" /\ copy' = v
        /\ UNCHANGED log \/ (fresh /\ Store(v))
    BY <1>1, <1>2, <1>3, StateFacts, TryContinueStep
  <1>5. copy.exists /\ ~copy.del /\ copy.phase = ""
    BY <1>1, StateFacts DEF PhaseInv
  <1>6. PhaseInv' /\ KeyType'
    BY <1>1, <1>2, <1>4, <1>5, StateFacts DEF PhaseInv, KeyType
  <1>7. Shown
    <2>1. CASE UNCHANGED log
      BY <2>1, SameLog, ShownSame
    <2>2. CASE fresh /\ Store(v)
      <3>1. /\ copy.exists = Current.exists /\ copy.del = Current.del
            /\ copy.phase = Current.phase
        BY <1>1, <2>2, StateFacts DEF PhaseInv, Synced
      <3>2. /\ Current' = v /\ Current.exists = TRUE /\ Current.del = FALSE
            /\ Current.phase = ""
        BY <1>2, <1>5, <2>2, <3>1, StoredCurrent, StateFacts
      <3>3. Current'.phase \in Phases
        BY <1>2, <3>2 DEF Phases
      <3> QED
        BY <1>2, <3>1, <3>2, <3>3, StateFacts, ShownReport
    <2> QED
      BY <1>4, <2>1, <2>2
  <1> QED
    BY <1>4, <1>6, <1>7 DEF DomainInv, ResourceType

\* Steps that leave the resource alone.
LEMMA Unseen ==
  ASSUME UNCHANGED log
  PROVE  Shown
  BY SameLog, ShownSame

LEMMA ReconcileDKIMStep ==
  ASSUME DomainInv, ReconcileDKIM
  PROVE  DomainInv' /\ EditKept /\ Shown
  <1> DEFINE v == [copy EXCEPT !.ref = TRUE]
  <1>1. /\ pc = "dkim" /\ UNCHANGED <<log, seen, lost, changes>>
        /\ faults' \in Nat
        /\ secret' = secret \/ secret' = copy.uid
        /\ Continue("active", v, fresh) \/ Continue("fail", copy, fresh)
    <2>1. v.uid = copy.uid
      BY StateFacts DEF Resource
    <2> QED
      BY <2>1, StateFacts, FaultFacts DEF ReconcileDKIM
  <1>2. /\ v \in Resource(Phases) /\ v.edit = copy.edit /\ v.exists = copy.exists
        /\ v.del = copy.del
    BY StateFacts, WrittenType
  <1> HIDE DEF v
  <1>3. copy.exists /\ ~copy.del
    BY <1>1, StateFacts DEF PhaseInv
  <1>4. KeyType'
    <2>1. copy.uid \in Nat
      BY StateFacts DEF Resource
    <2> QED
      BY <1>1, <2>1, StateFacts DEF KeyType
  <1>5. ResourceTypeOK(Phases, Calls)' /\ Synced' /\ EditKept
    <2>1. "active" \in Calls /\ "fail" \in Calls
      BY DEF Calls
    <2>2. CASE Continue("active", v, fresh)
      BY <1>1, <1>2, <2>1, <2>2, StateFacts, ContinueStep
    <2>3. CASE Continue("fail", copy, fresh)
      BY <1>1, <2>1, <2>3, StateFacts, ContinueStep
    <2> QED
      BY <1>1, <2>2, <2>3
  <1>6. PhaseInv'
    BY <1>1, <1>2, <1>3 DEF Continue, PhaseInv
  <1> QED
    BY <1>1, <1>4, <1>5, <1>6, Unseen DEF DomainInv, ResourceType

LEMMA SetTerminatingStep ==
  ASSUME DomainInv, SetTerminating
  PROVE  DomainInv' /\ EditKept /\ Shown
  <1> DEFINE v == [copy EXCEPT !.phase = "Terminating"]
  <1>1. /\ pc = "terminate" /\ TryContinue(v, "unfinalize")
        /\ UNCHANGED <<secret, seen, lost, changes>>
    BY DEF SetTerminating, TryWrite, TryContinue
  <1>2. /\ v \in Resource(Phases) /\ v.edit = copy.edit /\ v.exists = copy.exists
        /\ v.del = copy.del /\ v.phase = "Terminating"
    BY StateFacts, WrittenType DEF Phases
  <1> HIDE DEF v
  <1>3. "unfinalize" \in Calls
    BY DEF Calls
  <1>4. /\ ResourceTypeOK(Phases, Calls)' /\ Synced' /\ EditKept
        /\ pc' = "unfinalize" /\ copy' = v
        /\ UNCHANGED log \/ (fresh /\ Store(v))
    BY <1>1, <1>2, <1>3, StateFacts, TryContinueStep
  <1>5. copy.exists /\ copy.del
    BY <1>1, StateFacts DEF PhaseInv
  <1>6. PhaseInv' /\ KeyType'
    BY <1>1, <1>2, <1>4, <1>5, StateFacts DEF PhaseInv, KeyType
  <1>7. Shown
    <2>1. CASE UNCHANGED log
      BY <2>1, Unseen
    <2>2. CASE fresh /\ Store(v)
      <3>1. copy.exists = Current.exists /\ copy.del = Current.del
        BY <2>2, StateFacts DEF Synced
      <3>2. Current' = v /\ Current.exists = TRUE /\ Current.del = TRUE
        BY <1>2, <1>5, <2>2, <3>1, StoredCurrent, StateFacts
      <3> QED
        BY <1>2, <3>1, <3>2, StateFacts, ShownTerminate
    <2> QED
      BY <1>4, <2>1, <2>2
  <1> QED
    BY <1>4, <1>6, <1>7 DEF DomainInv, ResourceType

LEMMA RemoveFinalizerStep ==
  ASSUME DomainInv, RemoveFinalizer
  PROVE  DomainInv' /\ EditKept /\ Shown
  <1> DEFINE v == [copy EXCEPT !.fin = FALSE, !.exists = FALSE]
  <1>1. /\ pc = "unfinalize" /\ Write(v, Return(FALSE))
        /\ UNCHANGED <<secret, seen, lost, changes>>
    BY DEF RemoveFinalizer
  <1>2. v \in Resource(Phases) /\ v.edit = copy.edit /\ v.exists = FALSE
    BY StateFacts, WrittenType
  <1> HIDE DEF v
  <1>3. /\ faults' \in Nat /\ (UNCHANGED log \/ (fresh /\ Store(v)))
        /\ Return(FALSE) \/ Return(TRUE)
    BY <1>1, StateFacts, FaultFacts DEF Write
  <1>4. ResourceTypeOK(Phases, Calls)' /\ Synced' /\ EditKept
    BY <1>1, <1>2, <1>3, StateFacts, Literals, ReturnStep
  <1>5. PhaseInv' /\ KeyType'
    BY <1>1, <1>3, StateFacts DEF PhaseInv, KeyType, Return
  <1>6. Shown
    <2>1. CASE UNCHANGED log
      BY <2>1, Unseen
    <2>2. CASE fresh /\ Store(v)
      <3>1. /\ copy.exists /\ copy.del
            /\ copy.exists = Current.exists /\ copy.del = Current.del
        BY <1>1, <2>2, StateFacts DEF Synced, PhaseInv
      <3>2. Current' = v /\ Current.exists = TRUE /\ Current.del = TRUE
        BY <1>2, <2>2, <3>1, StoredCurrent, StateFacts
      <3> QED
        BY <1>2, <3>1, <3>2, StateFacts, ShownTerminate
    <2> QED
      BY <1>3, <2>1, <2>2
  <1> QED
    BY <1>4, <1>5, <1>6 DEF DomainInv, ResourceType

LEMMA OperatorStep ==
  ASSUME DomainInv, Operator
  PROVE  DomainInv' /\ EditKept /\ Shown
  <1>1. CASE UpdateActive
    <2>1. /\ pc = "active" /\ UNCHANGED <<secret, seen, changes>>
          /\ LET next(current) == Return(FALSE) IN
             TryWrite([copy EXCEPT !.phase = "Active"], next)
          /\ lost' = (lost \/ faults' # faults)
      BY <1>1 DEF UpdateActive
    <2>2. lost' \in BOOLEAN
      BY <2>1, StateFacts DEF KeyType
    <2> QED
      BY <2>1, <2>2, LastWriteStep
  <1>2. CASE SetError
    <2>1. /\ pc = "fail" /\ UNCHANGED <<secret, seen, lost, changes>>
          /\ LET next(current) == Return(TRUE) IN
             TryWrite([copy EXCEPT !.phase = "Error"], next)
      BY <1>2 DEF SetError
    <2>2. lost' \in BOOLEAN
      BY <2>1, StateFacts DEF KeyType
    <2> QED
      BY <2>1, <2>2, LastWriteStep
  <1> QED
    BY <1>1, <1>2, ReconcileStep, AddFinalizerStep, SetPendingStep, ReconcileDKIMStep,
       SetTerminatingStep, RemoveFinalizerStep DEF Operator

-----------------------------------------------------------------------------
(***************************************************************************)
(* Watches, garbage collection, restarts                                   *)
(***************************************************************************)

\* A step that stores nothing and leaves the reconciler at its call.
LEMMA QuietStep ==
  ASSUME DomainInv, UNCHANGED <<log, pc, copy, fresh, changes, faults>>, queued' \in BOOLEAN,
         KeyType'
  PROVE  DomainInv' /\ EditKept /\ Shown
  <1>1. ResourceTypeOK(Phases, Calls)' /\ Synced' /\ EditKept
    BY StateFacts, StutterStep
  <1>2. PhaseInv'
    BY StateFacts, SameLog DEF PhaseInv
  <1> QED
    BY <1>1, <1>2, Unseen DEF DomainInv, ResourceType

LEMMA EnvironmentStep ==
  ASSUME DomainInv, WatchEvent \/ SecretEvent \/ CollectSecret \/ Restart
  PROVE  DomainInv' /\ EditKept /\ Shown
  <1>1. CASE WatchEvent
    <2>1. Deliver /\ UNCHANGED <<secret, seen, lost, changes, faults>>
      BY <1>1 DEF WatchEvent, bounds
    <2>2. ResourceTypeOK(Phases, Calls)' /\ Synced' /\ EditKept /\ Current' = Current
      BY <2>1, StateFacts, DeliverStep
    <2>3. PhaseInv' /\ KeyType'
      BY <2>1, <2>2, StateFacts DEF PhaseInv, KeyType, Deliver
    <2> QED
      BY <2>2, <2>3, ShownSame DEF DomainInv, ResourceType
  <1>2. CASE SecretEvent
    <2>1. /\ UNCHANGED <<log, pc, copy, fresh, secret, lost, changes, faults>>
          /\ queued' = TRUE /\ seen' = secret
      BY <1>2 DEF SecretEvent, bounds
    <2>2. KeyType'
      BY <2>1, StateFacts DEF KeyType
    <2> QED
      BY <2>1, <2>2, QuietStep
  <1>3. CASE CollectSecret
    <2>1. /\ UNCHANGED <<log, operator, seen, lost, changes, faults>> /\ secret' = 0
      BY <1>3 DEF CollectSecret, bounds
    <2>2. KeyType' /\ queued' \in BOOLEAN /\ UNCHANGED <<pc, copy, fresh>>
      BY <2>1, StateFacts DEF KeyType, operator, ResourceTypeOK
    <2> QED
      BY <2>1, <2>2, QuietStep
  <1>4. CASE Restart
    <2>1. Reboot /\ seen' \in {seen, secret} /\ UNCHANGED <<secret, lost, changes>>
      BY <1>4 DEF Restart
    <2>2. ResourceTypeOK(Phases, Calls)' /\ Synced' /\ EditKept /\ Current' = Current
      BY <2>1, StateFacts, Literals, RebootStep
    <2>3. PhaseInv' /\ KeyType'
      BY <2>1, StateFacts DEF PhaseInv, KeyType, Reboot
    <2> QED
      BY <2>2, <2>3, ShownSame DEF DomainInv, ResourceType
  <1> QED
    BY <1>1, <1>2, <1>3, <1>4

-----------------------------------------------------------------------------
(***************************************************************************)
(* The handlers of the panel                                               *)
(***************************************************************************)

\* A version of the panel takes away the currency of the reconciler's copy.
LEMMA PublishPhases ==
  ASSUME DomainInv, NEW STATE v, v \in Resource(Phases), Publish(v)
  PROVE  PhaseInv' /\ Current' = v
  <1>1. Current' = v
    BY StoredCurrent DEF Publish
  <1>2. UNCHANGED <<pc, copy>> /\ fresh' = (fresh /\ v = Current)
    BY DEF Publish
  <1> QED
    BY <1>1, <1>2, StateFacts DEF PhaseInv

LEMMA CreateStep ==
  ASSUME DomainInv, CreateEmailDomain
  PROVE  DomainInv' /\ EditKept /\ Shown
  <1>1. /\ ~Current.exists /\ Publish(Created) /\ lost' = FALSE
        /\ UNCHANGED <<secret, seen, changes, faults>>
    BY DEF CreateEmailDomain
  <1>2. Created \in Resource(Phases) /\ Created.edit = 0
    BY StateFacts, Literals, PanelWrites
  <1>3. /\ Created.exists = TRUE /\ Created.del = FALSE /\ Created.phase = ""
    BY DEF Created, NoResource
  <1>4. ResourceTypeOK(Phases, Calls)' /\ Synced' /\ EditKept
    <2>1. Created.edit <= changes /\ changes >= changes
      BY <1>2, StateFacts
    <2> QED
      BY <1>1, <1>2, <2>1, StateFacts, PublishStep
  <1>5. PhaseInv' /\ Current' = Created
    BY <1>1, <1>2, PublishPhases
  <1>6. KeyType'
    BY <1>1, StateFacts DEF KeyType
  <1>7. Current.exists = FALSE
    BY <1>1, StateFacts
  <1>8. Shown
    BY <1>3, <1>5, <1>7, ShownAppear
  <1> QED
    BY <1>4, <1>5, <1>6, <1>8 DEF DomainInv, ResourceType

\* The edits of a user, and RotateDKIM, change nothing that is shown.
LEMMA EditStep ==
  ASSUME DomainInv, UNCHANGED <<secret, seen, lost, faults>>,
         Change(Edited) \/ Change([Current EXCEPT !.ref = FALSE])
  PROVE  DomainInv' /\ EditKept /\ Shown
  <1>1. KeyType'
    BY StateFacts DEF KeyType
  <1>2. CASE Change(Edited)
    <2>1. Edited \in Resource(Phases) /\ Edited.edit = changes + 1
      BY StateFacts, Literals, PanelWrites
    <2>2. /\ Edited.exists = Current.exists /\ Edited.del = Current.del
          /\ Edited.phase = Current.phase
      BY StateFacts DEF Edited, Resource
    <2>3. ResourceTypeOK(Phases, Calls)' /\ Synced' /\ EditKept
      BY <1>2, <2>1, StateFacts, ChangeStep
    <2>4. PhaseInv' /\ Current' = Edited
      BY <1>2, <2>1, PublishPhases DEF Change
    <2> QED
      BY <1>1, <2>2, <2>3, <2>4, ShownSame DEF DomainInv, ResourceType
  <1>3. CASE Change([Current EXCEPT !.ref = FALSE])
    <2> DEFINE v == [Current EXCEPT !.ref = FALSE]
    <2>1. /\ v \in Resource(Phases) /\ v.edit = Current.edit
          /\ v.exists = Current.exists /\ v.del = Current.del /\ v.phase = Current.phase
      BY StateFacts DEF Resource
    <2>2. Change(v)
      BY <1>3
    <2> HIDE DEF v
    <2>3. ResourceTypeOK(Phases, Calls)' /\ Synced' /\ EditKept
      BY <2>1, <2>2, StateFacts, ChangeStep
    <2>4. PhaseInv' /\ Current' = v
      BY <2>1, <2>2, PublishPhases DEF Change
    <2> QED
      BY <1>1, <2>1, <2>3, <2>4, ShownSame DEF DomainInv, ResourceType
  <1> QED
    BY <1>2, <1>3

LEMMA DeleteStep ==
  ASSUME DomainInv, DeleteEmailDomain
  PROVE  DomainInv' /\ EditKept /\ Shown
  <1>1. /\ Current.exists /\ ~Current.del /\ Publish(Deleted)
        /\ UNCHANGED <<secret, seen, lost, changes, faults>>
    BY DEF DeleteEmailDomain, bounds
  <1>2. Deleted \in Resource(Phases) /\ Deleted.edit = Current.edit
    BY StateFacts, Literals, PanelWrites
  <1>3. \/ Deleted.exists = FALSE
        \/ Deleted.exists = Current.exists /\ Deleted.del = TRUE
           /\ Deleted.phase = Current.phase
    BY StateFacts DEF Deleted, Resource
  <1>4. ResourceTypeOK(Phases, Calls)' /\ Synced' /\ EditKept
    <2>1. /\ Deleted.edit <= changes /\ Deleted.edit >= Current.edit
          /\ changes >= changes
      BY <1>2, StateFacts
    <2> QED
      BY <1>1, <1>2, <2>1, StateFacts, PublishStep
  <1>5. PhaseInv' /\ Current' = Deleted
    BY <1>1, <1>2, PublishPhases
  <1>6. KeyType'
    BY <1>1, StateFacts DEF KeyType
  <1>7. Current.exists = TRUE /\ Current.del = FALSE
    BY <1>1, StateFacts
  <1>8. Shown
    BY <1>3, <1>5, <1>7, StateFacts, ShownCondemn
  <1> QED
    BY <1>4, <1>5, <1>6, <1>8 DEF DomainInv, ResourceType

\* Every step preserves the invariant, keeps the edits and is shown.
LEMMA InvStep ==
  ASSUME DomainInv, [Next]_vars
  PROVE  DomainInv' /\ EditKept /\ Shown
  <1>1. CASE Operator
    BY <1>1, OperatorStep
  <1>2. CASE WatchEvent \/ SecretEvent \/ CollectSecret \/ Restart
    BY <1>2, EnvironmentStep
  <1>3. CASE CreateEmailDomain \/ DeleteEmailDomain
    BY <1>3, CreateStep, DeleteStep
  <1>4. CASE UpdateSpamConfig \/ UpdateCatchAll \/ RotateDKIM
    BY <1>4, EditStep DEF UpdateSpamConfig, UpdateCatchAll, RotateDKIM
  <1>5. CASE UNCHANGED vars
    <2>1. UNCHANGED <<log, pc, copy, fresh, changes, faults, secret, seen, lost, queued>>
      BY <1>5 DEF vars, operator, bounds
    <2>2. KeyType' /\ queued' \in BOOLEAN
      BY <2>1, StateFacts DEF KeyType, ResourceTypeOK
    <2> QED
      BY <2>1, <2>2, QuietStep
  <1> QED
    BY <1>1, <1>2, <1>3, <1>4, <1>5 DEF Next, Panel

-----------------------------------------------------------------------------
(***************************************************************************)
(* The theorems                                                            *)
(***************************************************************************)

\* The inductive invariant of EmailDomain: types, Synced and PhaseInv.
THEOREM DomainInvariant == Spec => []DomainInv
  <1>1. DomainInv /\ [Next]_vars => DomainInv'
    BY InvStep
  <1>2. Init => DomainInv
    BY InitInv
  <1> QED
    BY <1>1, <1>2, PTL DEF Spec

\* Every variable of EmailDomain keeps its type, whatever the bounds are.
THEOREM DomainTypeCorrect == Spec => []TypeOK
  <1>1. DomainInv => TypeOK
    BY TypeParts DEF DomainInv
  <1> QED
    BY <1>1, DomainInvariant, PTL

\* The finalizer and the status are written from a copy that may be old, yet
\* no edit of a domain is ever taken back.
THEOREM DomainEditsStay == Spec => EditsStay
  <1>1. DomainInv /\ [Next]_vars
        => [Current.exists /\ Current'.exists => Current'.edit >= Current.edit]_log
    BY InvStep DEF EditKept
  <1> QED
    BY <1>1, DomainInvariant, PTL DEF Spec, EditsStay

\* EmailDomain implements DomainPhases: whatever copy the reconciler writes
\* from, however writes are lost, the phases come in the order EmailAccount
\* assumes, and a domain that is being deleted never looks Active again.
THEOREM DomainPhasesImplemented == Spec => ImplementsDomainPhases
  <1>1. Init => Abstract!DomInit
    BY InitInv
  <1>2. DomainInv /\ [Next]_vars
        => [Abstract!DomNext]_(IF Current.exists
                               THEN [exists |-> TRUE, del |-> Current.del,
                                     phase |-> Current.phase]
                               ELSE [exists |-> FALSE, del |-> FALSE, phase |-> ""])
    BY InvStep DEF Shown
  <1> QED
    BY <1>1, <1>2, DomainInvariant, PTL DEF Spec, ImplementsDomainPhases, Abstract!DomSpec
=============================================================================
