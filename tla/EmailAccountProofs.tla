------------------------- MODULE EmailAccountProofs -------------------------
(***************************************************************************)
(* Proofs about EmailAccount, for every bound: type correctness, that an   *)
(* account goes with its domain unless it is a stray, and that no edit of  *)
(* an account is lost.                                                     *)
(***************************************************************************)
EXTENDS EmailAccount, MailProofs

Calls == {"idle", "finalize", "label", "validate", "creating", "active", "fail",
          "terminate", "unfinalize"}

ResourceType == ResourceTypeOK(AccountPhases, Calls)

RequestType ==
    /\ dom \in [exists: BOOLEAN, del: BOOLEAN, phase: Phases]
    /\ accepted \in BOOLEAN
    /\ domainChanges \in Nat
    /\ imported \in BOOLEAN
    /\ creating \in {"no", "check", "create"}
    /\ deleting \in {"no", "list", "accounts", "domain"}
    /\ listed \in BOOLEAN
    /\ stray \in BOOLEAN

\* An account that is no stray has a domain nobody has asked to delete, and
\* a deletion that has listed the accounts is going to delete it first.
StrayInv ==
    Held /\ ~stray => /\ dom.exists /\ ~dom.del
                      /\ deleting # "domain"
                      /\ deleting = "accounts" => listed

AccountInv == ResourceType /\ RequestType /\ Synced /\ StrayInv

-----------------------------------------------------------------------------
LEMMA TypeParts == TypeOK <=> ResourceType /\ RequestType
  BY DEF TypeOK, ResourceType, RequestType, Calls

LEMMA Literals == /\ "" \in AccountPhases
                  /\ Calls \ {"idle"} = {"finalize", "label", "validate", "creating", "active",
                                         "fail", "terminate", "unfinalize"}
                  /\ "idle" \in Calls
  BY DEF AccountPhases, Calls

\* Initially there is no account.
LEMMA InitInv == Init => AccountInv
  <1> SUFFICES ASSUME Init PROVE AccountInv
    OBVIOUS
  <1>1. NoResource \in Resource(AccountPhases)
    BY EmptyType, Literals
  <1>2. log = <<NoResource>> /\ copy = NoResource /\ fresh = FALSE /\ pc = "idle"
        /\ changes = 0 /\ faults = 0 /\ queued = FALSE
    BY DEF Init, ResourceInit
  <1>3. log \in Seq(Resource(AccountPhases)) /\ Len(log) = 1 /\ log[1] = NoResource
    BY <1>1, <1>2
  <1>4. ResourceType
    <2>1. Len(log) > 0 /\ changes \in Nat /\ faults \in Nat
      BY <1>2, <1>3
    <2>2. queued \in BOOLEAN /\ pc \in Calls /\ fresh \in BOOLEAN
      BY <1>2, Literals
    <2> QED
      BY <1>1, <1>2, <1>3, <2>1, <2>2 DEF ResourceType, ResourceTypeOK
  <1>5. \A v \in Versions : v = NoResource
    BY <1>3 DEF Versions
  <1>6. Synced /\ StrayInv
    <2>1. NoResource.edit = 0 /\ NoResource.exists = FALSE
      BY DEF NoResource
    <2>2. Current = NoResource
      BY <1>3 DEF Current
    <2> QED
      BY <1>2, <1>5, <2>1, <2>2 DEF Synced, StrayInv, Held
  <1>8. RequestType
    BY DEF RequestType, Init, DomInit, NoDomain, Phases
  <1> QED
    BY <1>4, <1>6, <1>8 DEF AccountInv

-----------------------------------------------------------------------------
(***************************************************************************)
(* Steps that leave the requests alone                                     *)
(***************************************************************************)

\* No step of the reconciler makes an account that is held.
LEMMA RequestsSame ==
  ASSUME AccountInv, UNCHANGED <<domain, accepted, requests>>, Held' => Held
  PROVE  RequestType' /\ StrayInv'
  BY DEF AccountInv, RequestType, StrayInv, domain, requests

\* An unchanged account is held if it was.
LEMMA HeldSame == ASSUME Current' = Current PROVE Held' => Held
  BY DEF Held

\* So is one that is written from a copy under the current resourceVersion.
LEMMA HeldWritten ==
  ASSUME Synced, NEW STATE v, v.exists => copy.exists, v.del = copy.del,
         Current' = Current \/ (fresh /\ Current' = v)
  PROVE  Held' => Held
  BY DEF Held, Synced

\* The copies the reconciler writes back.
LEMMA WrittenType ==
  ASSUME copy \in Resource(AccountPhases)
  PROVE  /\ \A p \in AccountPhases :
              LET v == [copy EXCEPT !.phase = p] IN
              /\ v \in Resource(AccountPhases) /\ v.edit = copy.edit
              /\ v.exists = copy.exists /\ v.del = copy.del
         /\ LET v == [copy EXCEPT !.phase = "Active", !.ref = TRUE] IN
              /\ v \in Resource(AccountPhases) /\ v.edit = copy.edit
              /\ v.exists = copy.exists /\ v.del = copy.del
         /\ LET v == [copy EXCEPT !.fin = TRUE] IN
              /\ v \in Resource(AccountPhases) /\ v.edit = copy.edit
              /\ v.exists = copy.exists /\ v.del = copy.del
         /\ LET v == [copy EXCEPT !.label = TRUE] IN
              /\ v \in Resource(AccountPhases) /\ v.edit = copy.edit
              /\ v.exists = copy.exists /\ v.del = copy.del
         /\ LET v == [copy EXCEPT !.fin = FALSE, !.exists = FALSE] IN
              /\ v \in Resource(AccountPhases) /\ v.edit = copy.edit
              /\ v.exists = FALSE /\ v.del = copy.del
  BY DEF Resource, AccountPhases

LEMMA OperatorStep ==
  ASSUME AccountInv, Operator
  PROVE  AccountInv' /\ EditKept
  <1>0. /\ ResourceTypeOK(AccountPhases, Calls) /\ Synced /\ RequestType /\ StrayInv
        /\ log \in Seq(Resource(AccountPhases)) /\ Len(log) > 0
        /\ copy \in Resource(AccountPhases) /\ faults \in Nat
    BY DEF AccountInv, ResourceType, ResourceTypeOK
  <1>1. CASE Reconcile
    <2>1. /\ UNCHANGED <<log, changes, faults>> /\ queued' = FALSE
          /\ UNCHANGED <<domain, accepted, requests>>
          /\ pc' = FirstCall(Cached) /\ pc = "idle"
      BY <1>1 DEF Reconcile, Begin
    <2>2. CASE pc' = "idle"
      <3>1. UNCHANGED <<pc, copy, fresh>>
        BY <1>1, <2>1, <2>2 DEF Reconcile, Begin
      <3>2. ResourceTypeOK(AccountPhases, Calls)' /\ Synced' /\ EditKept
        BY <1>0, <2>1, <3>1, StutterStep
      <3>3. Held' => Held
        BY <2>1, SameLog, HeldSame
      <3> QED
        BY <2>1, <3>2, <3>3, RequestsSame DEF AccountInv, ResourceType
    <2>3. CASE pc' # "idle"
      <3>1. copy' = Cached /\ fresh' = (Len(log) = 1)
        BY <1>1, <2>3 DEF Reconcile, Begin
      <3>2. pc' \in Calls
        BY <2>1 DEF FirstCall, Calls
      <3>3. ResourceTypeOK(AccountPhases, Calls)' /\ Synced' /\ EditKept
        BY <1>0, <2>1, <2>3, <3>1, <3>2, ReadStep
      <3>4. Held' => Held
        BY <2>1, SameLog, HeldSame
      <3> QED
        BY <2>1, <3>3, <3>4, RequestsSame DEF AccountInv, ResourceType
    <2> QED
      BY <2>2, <2>3
  <1>2. CASE AddFinalizer
    <2> DEFINE v == [copy EXCEPT !.fin = TRUE]
               call == IF v.label THEN "validate" ELSE "label"
    <2>1. /\ Write(v, Continue(call, v, TRUE)) /\ UNCHANGED changes
          /\ UNCHANGED <<domain, accepted, requests>>
      BY <1>2 DEF AddFinalizer
    <2>2. /\ v \in Resource(AccountPhases) /\ v.edit = copy.edit /\ v.exists = copy.exists
          /\ v.del = copy.del
      BY <1>0, WrittenType
    <2>c. call \in Calls /\ call # "idle"
      BY DEF Calls
    <2> HIDE DEF v, call
    <2>3. /\ faults' \in Nat /\ (UNCHANGED log \/ (fresh /\ Store(v)))
          /\ (fresh /\ Store(v) /\ Continue(call, v, TRUE)) \/ Return(TRUE)
      BY <1>0, <2>1, FaultFacts DEF Write
    <2>4. /\ ResourceTypeOK(AccountPhases, Calls)' /\ Synced' /\ EditKept
          /\ Current' = Current \/ (fresh /\ Current' = v)
      <3>1. CASE fresh /\ Store(v) /\ Continue(call, v, TRUE)
        BY <1>0, <2>1, <2>2, <2>c, <2>3, <3>1, ContinueStep
      <3>2. CASE Return(TRUE)
        BY <1>0, <2>1, <2>2, <2>3, <3>2, Literals, ReturnStep
      <3> QED
        BY <2>3, <3>1, <3>2
    <2>5. Held' => Held
      BY <1>0, <2>2, <2>4, HeldWritten
    <2> QED
      BY <2>1, <2>4, <2>5, RequestsSame DEF AccountInv, ResourceType
  <1>3. CASE Validate
    <2>1. UNCHANGED <<log, changes, faults>> /\ UNCHANGED <<domain, accepted, requests>>
      BY <1>3 DEF Validate
    <2>2. CASE Cached.exists
      <3>1. /\ copy' = Cached /\ fresh' = (Len(log) = 1) /\ UNCHANGED queued
            /\ pc' \in Calls \ {"idle"}
        BY <1>3, <2>2, Literals DEF Validate, Continue
      <3>2. ResourceTypeOK(AccountPhases, Calls)' /\ Synced' /\ EditKept
        <4>1. pc' \in Calls /\ pc' # "idle" /\ queued' \in BOOLEAN /\ faults' \in Nat
          BY <1>0, <2>1, <3>1 DEF ResourceTypeOK
        <4> QED
          BY <1>0, <2>1, <3>1, <4>1, ReadStep
      <3>3. Held' => Held
        BY <2>1, SameLog, HeldSame
      <3> QED
        BY <2>1, <3>2, <3>3, RequestsSame DEF AccountInv, ResourceType
    <2>3. CASE ~Cached.exists
      <3>1. Return(TRUE)
        BY <1>3, <2>3 DEF Validate
      <3>2. ResourceTypeOK(AccountPhases, Calls)' /\ Synced' /\ EditKept
        BY <1>0, <2>1, <3>1, Literals, ReturnStep
      <3>3. Held' => Held
        BY <2>1, SameLog, HeldSame
      <3> QED
        BY <2>1, <3>2, <3>3, RequestsSame DEF AccountInv, ResourceType
    <2> QED
      BY <2>2, <2>3
  <1>4. CASE SetCreating
    <2> DEFINE v == [copy EXCEPT !.phase = "Creating"]
    <2>1. /\ Write(v, Continue("active", v, TRUE)) /\ UNCHANGED changes
          /\ UNCHANGED <<domain, accepted, requests>>
      BY <1>4 DEF SetCreating
    <2>2. /\ v \in Resource(AccountPhases) /\ v.edit = copy.edit /\ v.exists = copy.exists
          /\ v.del = copy.del
      BY <1>0, WrittenType DEF AccountPhases
    <2> HIDE DEF v
    <2>3. /\ faults' \in Nat /\ (UNCHANGED log \/ (fresh /\ Store(v)))
          /\ (fresh /\ Store(v) /\ Continue("active", v, TRUE)) \/ Return(TRUE)
      BY <1>0, <2>1, FaultFacts DEF Write
    <2>4. /\ ResourceTypeOK(AccountPhases, Calls)' /\ Synced' /\ EditKept
          /\ Current' = Current \/ (fresh /\ Current' = v)
      <3>1. CASE fresh /\ Store(v) /\ Continue("active", v, TRUE)
        <4>1. "active" \in Calls
          BY DEF Calls
        <4> QED
          BY <1>0, <2>1, <2>2, <2>3, <3>1, <4>1, ContinueStep
      <3>2. CASE Return(TRUE)
        BY <1>0, <2>1, <2>2, <2>3, <3>2, Literals, ReturnStep
      <3> QED
        BY <2>3, <3>1, <3>2
    <2>5. Held' => Held
      BY <1>0, <2>2, <2>4, HeldWritten
    <2> QED
      BY <2>1, <2>4, <2>5, RequestsSame DEF AccountInv, ResourceType
  <1>5. CASE UpdateActiveStatus
    <2> DEFINE v == [copy EXCEPT !.phase = "Active", !.ref = TRUE]
    <2>1. /\ Write(v, Return(FALSE)) /\ UNCHANGED changes
          /\ UNCHANGED <<domain, accepted, requests>>
      BY <1>5 DEF UpdateActiveStatus
    <2>2. /\ v \in Resource(AccountPhases) /\ v.edit = copy.edit /\ v.exists = copy.exists
          /\ v.del = copy.del
      BY <1>0, WrittenType
    <2> HIDE DEF v
    <2>3. /\ faults' \in Nat /\ (UNCHANGED log \/ (fresh /\ Store(v)))
          /\ Return(FALSE) \/ Return(TRUE)
      BY <1>0, <2>1, FaultFacts DEF Write
    <2>4. /\ ResourceTypeOK(AccountPhases, Calls)' /\ Synced' /\ EditKept
          /\ Current' = Current \/ (fresh /\ Current' = v)
      BY <1>0, <2>1, <2>2, <2>3, Literals, ReturnStep
    <2>5. Held' => Held
      BY <1>0, <2>2, <2>4, HeldWritten
    <2> QED
      BY <2>1, <2>4, <2>5, RequestsSame DEF AccountInv, ResourceType
  <1>6. CASE SetErrorStatus
    <2> DEFINE v == [copy EXCEPT !.phase = "Error"]
    <2>1. /\ LET next(current) == Return(TRUE) IN TryWrite(v, next)
          /\ UNCHANGED changes /\ UNCHANGED <<domain, accepted, requests>>
      BY <1>6 DEF SetErrorStatus
    <2>2. /\ v \in Resource(AccountPhases) /\ v.edit = copy.edit /\ v.exists = copy.exists
          /\ v.del = copy.del
      BY <1>0, WrittenType DEF AccountPhases
    <2> HIDE DEF v
    <2>3. /\ ResourceTypeOK(AccountPhases, Calls)' /\ Synced' /\ EditKept
          /\ Current' = Current \/ (fresh /\ Current' = v)
      BY <1>0, <2>1, <2>2, Literals, TryReturnStep
    <2>4. Held' => Held
      BY <1>0, <2>2, <2>3, HeldWritten
    <2> QED
      BY <2>1, <2>3, <2>4, RequestsSame DEF AccountInv, ResourceType
  <1>7. CASE SetTerminating
    <2> DEFINE v == [copy EXCEPT !.phase = "Terminating"]
    <2>1. /\ TryContinue(v, "unfinalize")
          /\ UNCHANGED changes /\ UNCHANGED <<domain, accepted, requests>>
      BY <1>7 DEF SetTerminating, TryWrite, TryContinue
    <2>2. /\ v \in Resource(AccountPhases) /\ v.edit = copy.edit /\ v.exists = copy.exists
          /\ v.del = copy.del
      BY <1>0, WrittenType DEF AccountPhases
    <2> HIDE DEF v
    <2>3. "unfinalize" \in Calls
      BY DEF Calls
    <2>4. /\ ResourceTypeOK(AccountPhases, Calls)' /\ Synced' /\ EditKept
          /\ Current' = Current \/ (fresh /\ Current' = v)
      BY <1>0, <2>1, <2>2, <2>3, TryContinueStep
    <2>5. Held' => Held
      BY <1>0, <2>2, <2>4, HeldWritten
    <2> QED
      BY <2>1, <2>4, <2>5, RequestsSame DEF AccountInv, ResourceType
  <1>8. CASE RemoveFinalizer
    <2> DEFINE v == [copy EXCEPT !.fin = FALSE, !.exists = FALSE]
    <2>1. /\ Write(v, Return(FALSE)) /\ UNCHANGED changes
          /\ UNCHANGED <<domain, accepted, requests>>
      BY <1>8 DEF RemoveFinalizer
    <2>2. /\ v \in Resource(AccountPhases) /\ v.edit = copy.edit /\ v.exists = FALSE
          /\ v.del = copy.del
      BY <1>0, WrittenType
    <2> HIDE DEF v
    <2>3. /\ faults' \in Nat /\ (UNCHANGED log \/ (fresh /\ Store(v)))
          /\ Return(FALSE) \/ Return(TRUE)
      BY <1>0, <2>1, FaultFacts DEF Write
    <2>4. /\ ResourceTypeOK(AccountPhases, Calls)' /\ Synced' /\ EditKept
          /\ Current' = Current \/ (fresh /\ Current' = v)
      BY <1>0, <2>1, <2>2, <2>3, Literals, ReturnStep
    <2>5. Held' => Held
      BY <1>0, <2>2, <2>4, HeldWritten
    <2> QED
      BY <2>1, <2>4, <2>5, RequestsSame DEF AccountInv, ResourceType
  <1>9. CASE EnsureLabels
    <2> DEFINE v == [copy EXCEPT !.label = TRUE]
               call == "validate"
    <2>1. /\ Write(v, Continue(call, v, TRUE)) /\ UNCHANGED changes
          /\ UNCHANGED <<domain, accepted, requests>>
      BY <1>9 DEF EnsureLabels
    <2>2. /\ v \in Resource(AccountPhases) /\ v.edit = copy.edit /\ v.exists = copy.exists
          /\ v.del = copy.del
      BY <1>0, WrittenType
    <2>c. call \in Calls /\ call # "idle"
      BY DEF Calls
    <2> HIDE DEF v, call
    <2>3. /\ faults' \in Nat /\ (UNCHANGED log \/ (fresh /\ Store(v)))
          /\ (fresh /\ Store(v) /\ Continue(call, v, TRUE)) \/ Return(TRUE)
      BY <1>0, <2>1, FaultFacts DEF Write
    <2>4. /\ ResourceTypeOK(AccountPhases, Calls)' /\ Synced' /\ EditKept
          /\ Current' = Current \/ (fresh /\ Current' = v)
      <3>1. CASE fresh /\ Store(v) /\ Continue(call, v, TRUE)
        BY <1>0, <2>1, <2>2, <2>c, <2>3, <3>1, ContinueStep
      <3>2. CASE Return(TRUE)
        BY <1>0, <2>1, <2>2, <2>3, <3>2, Literals, ReturnStep
      <3> QED
        BY <2>3, <3>1, <3>2
    <2>5. Held' => Held
      BY <1>0, <2>2, <2>4, HeldWritten
    <2> QED
      BY <2>1, <2>4, <2>5, RequestsSame DEF AccountInv, ResourceType
  <1> QED
    BY <1>1, <1>2, <1>3, <1>4, <1>5, <1>6, <1>7, <1>8, <1>9 DEF Operator

-----------------------------------------------------------------------------
(***************************************************************************)
(* The requests and the environment                                        *)
(***************************************************************************)

\* A step that stores nothing and leaves the reconciler alone.
LEMMA QuietStep ==
  ASSUME AccountInv, UNCHANGED <<log, operator, changes>>, faults' \in Nat,
         RequestType', Current' = Current => StrayInv'
  PROVE  AccountInv' /\ EditKept
  <1>1. /\ ResourceTypeOK(AccountPhases, Calls) /\ queued' \in BOOLEAN
        /\ UNCHANGED <<log, pc, copy, fresh, changes>> /\ Synced
    BY DEF AccountInv, ResourceType, ResourceTypeOK, operator
  <1>2. ResourceTypeOK(AccountPhases, Calls)' /\ Synced' /\ EditKept
    BY <1>1, StutterStep
  <1>3. Current' = Current
    BY <1>1, SameLog
  <1> QED
    BY <1>2, <1>3 DEF AccountInv, ResourceType

\* A step of the panel that stores a version of the account.
LEMMA PanelStep ==
  ASSUME AccountInv, NEW STATE v, v \in Resource(AccountPhases), Publish(v),
         UNCHANGED <<changes, faults>>, v.edit <= changes,
         Current.exists => v.edit >= Current.edit,
         RequestType', Current' = v => StrayInv'
  PROVE  AccountInv' /\ EditKept
  <1>1. /\ ResourceTypeOK(AccountPhases, Calls) /\ Synced
        /\ changes \in Nat /\ faults \in Nat
        /\ log \in Seq(Resource(AccountPhases)) /\ Len(log) > 0 /\ Store(v)
    BY DEF AccountInv, ResourceType, ResourceTypeOK, Publish
  <1>2. ResourceTypeOK(AccountPhases, Calls)' /\ Synced' /\ EditKept
    BY <1>1, PublishStep
  <1>3. Current' = v
    BY <1>1, StoreFacts
  <1> QED
    BY <1>2, <1>3 DEF AccountInv, ResourceType

\* The current account, and what the panel makes of it.
LEMMA CurrentFacts ==
  ASSUME AccountInv
  PROVE  /\ Current \in Resource(AccountPhases)
         /\ Current.edit \in Nat /\ Current.edit <= changes /\ changes \in Nat
         /\ Current.exists \in BOOLEAN /\ Current.label \in BOOLEAN
         /\ Created \in Resource(AccountPhases) /\ Created.edit = 0
         /\ LET v == [Created EXCEPT !.label = TRUE] IN
              v \in Resource(AccountPhases) /\ v.edit = 0
         /\ Edited \in Resource(AccountPhases) /\ Edited.edit = changes + 1
         /\ Edited.exists = Current.exists /\ Edited.del = Current.del
         /\ Deleted \in Resource(AccountPhases) /\ Deleted.edit = Current.edit
         /\ Deleted.exists => Current.exists /\ Deleted.del
  <1>1. log \in Seq(Resource(AccountPhases)) /\ Len(log) > 0 /\ changes \in Nat
    BY DEF AccountInv, ResourceType, ResourceTypeOK
  <1>2. Current \in Resource(AccountPhases) /\ Current \in Versions
    BY <1>1, Ends
  <1>3. Current.edit \in Nat /\ Current.exists \in BOOLEAN /\ Current.label \in BOOLEAN
    BY <1>2 DEF Resource
  <1>4. Current.edit <= changes
    BY <1>2 DEF AccountInv, Synced
  <1> QED
    BY <1>1, <1>2, <1>3, <1>4, Literals, PanelWrites

\* The edits of a user.
LEMMA EditStep ==
  ASSUME AccountInv, Change(Edited), UNCHANGED <<faults, domain, accepted, requests>>
  PROVE  AccountInv' /\ EditKept
  <1>1. /\ ResourceTypeOK(AccountPhases, Calls) /\ Synced
        /\ log \in Seq(Resource(AccountPhases)) /\ Len(log) > 0
        /\ Store(Edited)
    BY DEF AccountInv, ResourceType, ResourceTypeOK, Change, Publish
  <1>2. ResourceTypeOK(AccountPhases, Calls)' /\ Synced' /\ EditKept
    BY <1>1, CurrentFacts, ChangeStep
  <1>3. Current' = Edited
    BY <1>1, CurrentFacts, StoreFacts
  <1>4. Held' => Held
    BY <1>3, CurrentFacts DEF Held
  <1> QED
    BY <1>2, <1>4, RequestsSame DEF AccountInv, ResourceType

\* The deletion of an account, by DeleteEmail or with its domain.
LEMMA DeleteStep ==
  ASSUME AccountInv, Publish(Deleted), UNCHANGED <<changes, faults>>, RequestType'
  PROVE  AccountInv' /\ EditKept
  <1>1. Deleted.edit <= changes /\ (Current.exists => Deleted.edit >= Current.edit)
    BY CurrentFacts
  <1>2. Current' = Deleted => StrayInv'
    BY CurrentFacts DEF StrayInv, Held
  <1> QED
    BY <1>1, <1>2, CurrentFacts, PanelStep

\* A new account, by CreateEmail or an import: a stray, unless its domain is
\* to stay or the accounts are yet to be listed.
LEMMA StoreStep ==
  ASSUME AccountInv, NEW STATE v, v \in Resource(AccountPhases), v.edit = 0,
         StoreAccount(v), UNCHANGED <<changes, faults, domain, deleting, listed>>,
         stray' \in BOOLEAN => RequestType'
  PROVE  AccountInv' /\ EditKept
  <1>1. /\ Publish(v) /\ ~Current.exists
        /\ stray' = (deleting \in {"accounts", "domain"} \/ dom.del \/ ~dom.exists)
    BY DEF StoreAccount
  <1>2. dom.exists \in BOOLEAN /\ dom.del \in BOOLEAN
    BY DEF AccountInv, RequestType
  <1>3. StrayInv'
    BY <1>1, <1>2 DEF StrayInv, domain
  <1>4. v.edit <= changes
    BY CurrentFacts
  <1> QED
    BY <1>1, <1>2, <1>3, <1>4, PanelStep

-----------------------------------------------------------------------------
LEMMA EnvironmentStep ==
  ASSUME AccountInv, WatchEvent \/ DomainEvent \/ Restart \/ DomainStep
  PROVE  AccountInv' /\ EditKept
  <1>0. /\ ResourceTypeOK(AccountPhases, Calls) /\ Synced /\ RequestType /\ StrayInv
        /\ faults \in Nat
    BY DEF AccountInv, ResourceType, ResourceTypeOK
  <1>a. Acceptable \in BOOLEAN
    BY <1>0 DEF Acceptable, RequestType
  <1>1. CASE WatchEvent
    <2>1. Deliver /\ UNCHANGED <<changes, faults, domain, accepted, requests>>
      BY <1>1 DEF WatchEvent
    <2>2. /\ ResourceTypeOK(AccountPhases, Calls)' /\ Synced' /\ EditKept
          /\ Current' = Current
      BY <1>0, <2>1, DeliverStep
    <2>3. Held' => Held
      BY <2>2, HeldSame
    <2> QED
      BY <2>1, <2>2, <2>3, RequestsSame DEF AccountInv, ResourceType
  <1>2. CASE DomainEvent
    <2>1. /\ UNCHANGED <<log, operator, changes, faults, domain, requests>>
          /\ accepted' = Acceptable
      BY <1>2 DEF DomainEvent
    <2>2. RequestType'
      BY <1>0, <1>a, <2>1 DEF RequestType, domain, requests
    <2>3. Current' = Current => StrayInv'
      BY <1>0, <2>1 DEF StrayInv, Held, domain, requests
    <2> QED
      BY <1>0, <2>1, <2>2, <2>3, QuietStep
  <1>3. CASE Restart
    <2>1. /\ Reboot /\ UNCHANGED <<changes, domain, requests>>
          /\ accepted' \in {accepted, Acceptable}
      BY <1>3 DEF Restart
    <2>2. /\ ResourceTypeOK(AccountPhases, Calls)' /\ Synced' /\ EditKept
          /\ Current' = Current
      BY <1>0, <2>1, Literals, RebootStep
    <2>3. RequestType'
      BY <1>0, <1>a, <2>1 DEF RequestType, domain, requests
    <2>4. StrayInv'
      BY <1>0, <2>1, <2>2 DEF StrayInv, Held, domain, requests
    <2> QED
      BY <2>2, <2>3, <2>4 DEF AccountInv, ResourceType
  <1>4. CASE DomainStep
    <2>1. UNCHANGED <<log, operator, changes, faults, accepted, requests>>
      BY <1>4 DEF DomainStep
    <2>2. domainChanges' \in Nat
      <3>1. domainChanges \in Nat
        BY <1>0 DEF RequestType
      <3>2. domainChanges' = domainChanges \/ domainChanges' = domainChanges + 1
        BY <1>4 DEF DomainStep, DomainChange
      <3> QED
        BY <3>1, <3>2
    <2>3. dom' \in [exists: BOOLEAN, del: BOOLEAN, phase: Phases]
      <3>1. dom \in [exists: BOOLEAN, del: BOOLEAN, phase: Phases]
        BY <1>0 DEF RequestType
      <3>2. NoDomain \in [exists: BOOLEAN, del: BOOLEAN, phase: Phases]
        BY DEF NoDomain, Phases
      <3>3. CASE Appear
        BY <3>3 DEF Appear, Phases
      <3>4. CASE Report
        BY <3>1, <3>4 DEF Report, Phases
      <3>5. CASE Terminate
        BY <3>1, <3>2, <3>5 DEF Terminate, Phases
      <3> QED
        BY <1>4, <3>3, <3>4, <3>5 DEF DomainStep
    <2>4. RequestType'
      BY <1>0, <2>1, <2>2, <2>3 DEF RequestType, requests
    <2>5. Current' = Current => StrayInv'
      <3>1. ASSUME Held, ~stray PROVE dom'.exists /\ ~dom'.del
        <4>1. dom.exists /\ ~dom.del /\ Report
          BY <1>0, <1>4, <3>1 DEF StrayInv, DomainStep, Appear, Terminate
        <4>2. PICK p : dom' = [dom EXCEPT !.phase = p]
          BY <4>1 DEF Report
        <4> QED
          BY <1>0, <4>1, <4>2 DEF RequestType
      <3> QED
        BY <1>0, <2>1, <3>1 DEF StrayInv, Held, requests
    <2> QED
      BY <1>0, <2>1, <2>4, <2>5, QuietStep
  <1> QED
    BY <1>1, <1>2, <1>3, <1>4

LEMMA CreateStep ==
  ASSUME AccountInv, CreateEmail \/ ImportAccount
  PROVE  AccountInv' /\ EditKept
  <1>0. RequestType /\ StrayInv /\ faults \in Nat
    BY DEF AccountInv, ResourceType, ResourceTypeOK
  <1>1. CASE CreateLogin
    <2>1. /\ UNCHANGED <<log, operator, changes, faults, domain, accepted, imported, deleting,
                         listed, stray>>
          /\ creating' = "check"
      BY <1>1 DEF CreateLogin
    <2>2. RequestType' /\ (Current' = Current => StrayInv')
      BY <1>0, <2>1 DEF RequestType, StrayInv, Held, domain
    <2> QED
      BY <1>0, <2>1, <2>2, QuietStep
  <1>2. CASE CheckDomain
    <2>1. /\ UNCHANGED <<log, operator, changes, faults, domain, accepted, imported,
                         deleting, listed, stray>>
          /\ creating' \in {"no", "create"}
      BY <1>2 DEF CheckDomain
    <2>2. RequestType' /\ (Current' = Current => StrayInv')
      BY <1>0, <2>1 DEF RequestType, StrayInv, Held, domain
    <2> QED
      BY <1>0, <2>1, <2>2, QuietStep
  <1>3. CASE CreateAccount
    <2> DEFINE v == [Created EXCEPT !.label = TRUE]
    <2>1. /\ UNCHANGED <<changes, domain, accepted, imported, deleting, listed>>
          /\ creating' = "no"
      BY <1>3 DEF CreateAccount
    <2>2. stray' \in BOOLEAN => RequestType'
      BY <1>0, <2>1 DEF RequestType, domain
    <2>v. v \in Resource(AccountPhases) /\ v.edit = 0
      BY CurrentFacts
    <2>3. CASE StoreAccount(v) /\ UNCHANGED faults
      <3> HIDE DEF v
      <3> QED
        BY <2>1, <2>2, <2>v, <2>3, StoreStep
    <2>4. CASE UNCHANGED <<log, operator, stray>> /\ (UNCHANGED faults \/ Fault)
      <3>1. faults' \in Nat
        BY <1>0, <2>4, FaultFacts
      <3>2. RequestType' /\ (Current' = Current => StrayInv')
        BY <1>0, <2>1, <2>2, <2>4 DEF RequestType, StrayInv, Held, domain
      <3> QED
        BY <2>1, <2>4, <3>1, <3>2, QuietStep
    <2> QED
      BY <1>3, <2>3, <2>4 DEF CreateAccount
  <1>4. CASE ImportAccount
    <2>1. /\ UNCHANGED <<changes, faults, domain, accepted, imported, creating,
                         deleting, listed>>
          /\ StoreAccount(Created)
      BY <1>4 DEF ImportAccount
    <2>2. stray' \in BOOLEAN => RequestType'
      BY <1>0, <2>1 DEF RequestType, domain
    <2> QED
      BY <2>1, <2>2, CurrentFacts, StoreStep
  <1> QED
    BY <1>1, <1>2, <1>3, <1>4 DEF CreateEmail

LEMMA DeleteDomainStep ==
  ASSUME AccountInv, DeleteEmailDomain
  PROVE  AccountInv' /\ EditKept
  <1>0. RequestType /\ StrayInv /\ faults \in Nat
    BY DEF AccountInv, ResourceType, ResourceTypeOK
  <1>e. Current.exists \in BOOLEAN /\ Current.label \in BOOLEAN
    BY CurrentFacts
  <1>1. CASE GetDomain
    <2>1. /\ UNCHANGED <<log, operator, changes, faults, dom, accepted, imported,
                         creating, listed, stray>>
          /\ deleting' = "list" /\ domainChanges' = domainChanges + 1
      BY <1>1 DEF GetDomain, DomainChange
    <2>2. domainChanges' \in Nat
      <3>1. domainChanges \in Nat
        BY <1>0 DEF RequestType
      <3> QED
        BY <2>1, <3>1
    <2>3. RequestType' /\ (Current' = Current => StrayInv')
      BY <1>0, <2>1, <2>2 DEF RequestType, StrayInv, Held
    <2> QED
      BY <1>0, <2>1, <2>3, QuietStep
  <1>2. CASE ListAccounts
    <2>1. /\ UNCHANGED <<log, operator, changes, domain, accepted, imported, creating>>
          /\ deleting' = "accounts" /\ listed' \in BOOLEAN /\ stray' \in BOOLEAN
          /\ stray' = (stray \/ (Current.exists /\ ~listed'))
      BY <1>0, <1>e, <1>2 DEF ListAccounts, RequestType
    <2>2. faults' \in Nat
      BY <1>0, <1>2, FaultFacts DEF ListAccounts
    <2>3. RequestType'
      BY <1>0, <2>1 DEF RequestType, domain
    <2>4. Current' = Current => StrayInv'
      BY <1>0, <2>1 DEF StrayInv, Held, domain
    <2> QED
      BY <2>1, <2>2, <2>3, <2>4, QuietStep
  <1>3. CASE DeleteListed
    <2>1. /\ UNCHANGED <<changes, domain, accepted, imported, creating>>
          /\ deleting = "accounts" /\ deleting' = "domain" /\ listed' = FALSE /\ stray' \in BOOLEAN
      BY <1>0, <1>3 DEF DeleteListed, RequestType
    <2>2. RequestType'
      BY <1>0, <2>1 DEF RequestType, domain
    <2>3. CASE Publish(Deleted) /\ UNCHANGED faults
      BY <2>1, <2>2, <2>3, DeleteStep
    <2>4. CASE /\ UNCHANGED <<log, operator>> /\ (Fault \/ UNCHANGED faults)
               /\ stray' \/ (UNCHANGED stray /\ ~(listed /\ Held))
      <3>1. faults' \in Nat
        BY <1>0, <2>4, FaultFacts
      <3>2. Current' = Current => StrayInv'
        BY <1>0, <2>1, <2>4 DEF StrayInv, Held, domain
      <3> QED
        BY <2>1, <2>2, <2>4, <3>1, <3>2, QuietStep
    <2> QED
      BY <1>3, <2>3, <2>4 DEF DeleteListed
  <1>4. CASE DeleteDomain
    <2>1. /\ UNCHANGED <<log, operator, changes, domainChanges, accepted, imported,
                         creating, listed, stray>>
          /\ deleting = "domain" /\ deleting' = "no"
      BY <1>4 DEF DeleteDomain
    <2>2. faults' \in Nat
      BY <1>0, <1>4, FaultFacts DEF DeleteDomain
    <2>3. dom' \in [exists: BOOLEAN, del: BOOLEAN, phase: Phases]
      <3>1. dom \in [exists: BOOLEAN, del: BOOLEAN, phase: Phases]
        BY <1>0 DEF RequestType
      <3>2. NoDomain \in [exists: BOOLEAN, del: BOOLEAN, phase: Phases]
        BY DEF NoDomain, Phases
      <3>3. [dom EXCEPT !.del = TRUE] \in [exists: BOOLEAN, del: BOOLEAN, phase: Phases]
        BY <3>1
      <3> QED
        BY <1>4, <3>1, <3>2, <3>3 DEF DeleteDomain, Condemn
    <2>4. RequestType'
      BY <1>0, <2>1, <2>3 DEF RequestType
    <2>5. Current' = Current => StrayInv'
      BY <1>0, <2>1 DEF StrayInv, Held
    <2> QED
      BY <2>1, <2>2, <2>4, <2>5, QuietStep
  <1> QED
    BY <1>1, <1>2, <1>3, <1>4 DEF DeleteEmailDomain

\* Every step preserves the invariant and keeps the edits.
LEMMA InvStep ==
  ASSUME AccountInv, [Next]_vars
  PROVE  AccountInv' /\ EditKept
  <1>1. CASE Operator
    BY <1>1, OperatorStep
  <1>2. CASE WatchEvent \/ DomainEvent \/ Restart \/ DomainStep
    BY <1>2, EnvironmentStep
  <1>3. CASE CreateEmail \/ ImportAccount
    BY <1>3, CreateStep
  <1>4. CASE UpdateForwarding \/ DeleteForwarding \/ UpdateQuota
    BY <1>4, EditStep DEF UpdateForwarding, DeleteForwarding, UpdateQuota
  <1>5. CASE DeleteEmail
    <2>1. Publish(Deleted) /\ UNCHANGED <<changes, faults, domain, accepted, requests>>
      BY <1>5 DEF DeleteEmail
    <2>2. RequestType'
      BY <2>1 DEF AccountInv, RequestType, domain, requests
    <2> QED
      BY <2>1, <2>2, DeleteStep
  <1>6. CASE DeleteEmailDomain
    BY <1>6, DeleteDomainStep
  <1>7. CASE UNCHANGED vars
    <2>1. UNCHANGED <<log, operator, changes, faults, domain, accepted, requests>>
      BY <1>7 DEF vars
    <2>2. RequestType' /\ faults' \in Nat
      BY <2>1 DEF AccountInv, RequestType, ResourceType, ResourceTypeOK, domain, requests
    <2>3. Current' = Current => StrayInv'
      BY <2>1 DEF AccountInv, StrayInv, Held, domain, requests
    <2> QED
      BY <2>1, <2>2, <2>3, QuietStep
  <1> QED
    BY <1>1, <1>2, <1>3, <1>4, <1>5, <1>6, <1>7 DEF Next, Panel

-----------------------------------------------------------------------------
(***************************************************************************)
(* The theorems                                                            *)
(***************************************************************************)

\* The inductive invariant of EmailAccount: types, Synced and StrayInv.
THEOREM AccountInvariant == Spec => []AccountInv
  <1>1. AccountInv /\ [Next]_vars => AccountInv'
    BY InvStep
  <1> QED
    BY <1>1, InitInv, PTL DEF Spec

\* Every variable of EmailAccount keeps its type, whatever the bounds are.
THEOREM AccountTypeCorrect == Spec => []TypeOK
  <1>1. AccountInv => TypeOK
    BY TypeParts DEF AccountInv
  <1> QED
    BY <1>1, AccountInvariant, PTL

\* Accounts go with their domain: whatever is created, edited or reconciled
\* between the four calls of DeleteEmailDomain, an account that is held when
\* its domain is gone is a stray, one the list could not have or a call that
\* was lost left behind.
THEOREM AccountsLeaveWithDomain == Spec => []AccountsGoWithDomain
  <1>1. AccountInv => AccountsGoWithDomain
    BY DEF AccountInv, StrayInv, AccountsGoWithDomain
  <1> QED
    BY <1>1, AccountInvariant, PTL

\* The finalizer and the status are written from a copy that may be old, yet
\* no edit of an account is ever taken back.
THEOREM AccountEditsStay == Spec => EditsStay
  <1>1. AccountInv /\ [Next]_vars
        => [Current.exists /\ Current'.exists => Current'.edit >= Current.edit]_log
    BY InvStep DEF EditKept
  <1> QED
    BY <1>1, AccountInvariant, PTL DEF Spec, EditsStay
=============================================================================
