----------------------------- MODULE EmailDomain -----------------------------
(***************************************************************************)
(* The life of one EmailDomain custom resource: the handlers of panel-core *)
(* that create, edit and delete it and rotate its key, the operator's      *)
(* reconciler, and the Secret with the DKIM key the reconciler keeps.      *)
(*                                                                         *)
(* The reconciler ignores the outcome of its status writes.  accountCount, *)
(* a field of the status that nothing reads, is left out.                  *)
(***************************************************************************)
EXTENDS MailResource

VARIABLES
    secret,  \* uid of the domain that owns the DKIM Secret; 0: no Secret
    seen,    \* the same in the operator's cache
    lost     \* a write of the Active status got no answer since the resource
             \* was created

bounds == <<lost, changes, faults>>
vars   == <<log, operator, secret, seen, bounds>>

-----------------------------------------------------------------------------
Phases == {"", "Pending", "Active", "Error", "Terminating"}

Init ==
    /\ ResourceInit
    /\ secret = 0
    /\ seen = 0
    /\ lost = FALSE

-----------------------------------------------------------------------------
(***************************************************************************)
(* The reconciler                                                          *)
(***************************************************************************)
AfterFinalizer(v) == IF v.phase = "" THEN "pending" ELSE "dkim"

FirstCall(v) ==
    IF ~v.exists   THEN "idle"
    ELSE IF v.del  THEN "terminate"
    ELSE IF ~v.fin THEN "finalize"
    ELSE AfterFinalizer(v)

Reconcile == Begin(FirstCall) /\ UNCHANGED <<secret, seen, bounds>>

\* Mutant: the write is not refused when the copy is stale.
AddFinalizerUnversioned ==
    LET v == [copy EXCEPT !.fin = TRUE] IN
    /\ pc = "finalize"
    /\ Current.uid = v.uid /\ Current.exists
    /\ Store(v)
    /\ Continue(AfterFinalizer(v), v, TRUE)
    /\ UNCHANGED <<secret, seen, bounds>>

\* The same reconcile goes on with the answer.
AddFinalizer ==
    LET v == [copy EXCEPT !.fin = TRUE] IN
    /\ pc = "finalize"
    /\ Write(v, Continue(AfterFinalizer(v), v, TRUE))
    /\ UNCHANGED <<secret, seen, lost, changes>>

\* Mutant: calls the first phase Creating.
SetPendingCreating ==
    LET v == [copy EXCEPT !.phase = "Creating"]
        next(current) == Continue("dkim", v, current) IN
    /\ pc = "pending"
    /\ TryWrite(v, next)
    /\ UNCHANGED <<secret, seen, lost, changes>>

SetPending ==
    LET v == [copy EXCEPT !.phase = "Pending"]
        next(current) == Continue("dkim", v, current) IN
    /\ pc = "pending"
    /\ TryWrite(v, next)
    /\ UNCHANGED <<secret, seen, lost, changes>>

\* A Secret in the cache is taken for the key of the domain, whoever owns
\* it.  Without one a key is generated and stored, which fails if there is a
\* Secret the cache does not know of, or if the call is lost.
ReconcileDKIM ==
    LET v    == [copy EXCEPT !.ref = TRUE]
        fail == Continue("fail", copy, fresh) IN
    /\ pc = "dkim"
    /\ \/ /\ seen # 0
          /\ Continue("active", v, fresh)
          /\ UNCHANGED <<secret, faults>>
       \/ /\ seen = 0
          /\ secret = 0
          /\ secret' = v.uid
          /\ (Continue("active", v, fresh) /\ UNCHANGED faults) \/ (fail /\ Fault)
       \/ /\ seen = 0
          /\ fail
          /\ IF secret = 0 THEN Fault ELSE UNCHANGED faults
          /\ UNCHANGED secret
    /\ UNCHANGED <<log, seen, lost, changes>>

\* Mutant: the status is written around the version check.
UpdateActiveForced ==
    LET v == [copy EXCEPT !.phase = "Active"] IN
    /\ pc = "active"
    /\ Current.exists /\ Current.uid = v.uid
    /\ Store([Current EXCEPT !.phase = "Active", !.ref = v.ref])
    /\ Return(FALSE)
    /\ UNCHANGED <<secret, seen, bounds>>

\* The reconcile ends without an error even if the write fails.
UpdateActive ==
    LET next(current) == Return(FALSE) IN
    /\ pc = "active"
    /\ TryWrite([copy EXCEPT !.phase = "Active"], next)
    /\ lost' = (lost \/ faults' # faults)
    /\ UNCHANGED <<secret, seen, changes>>

\* setError: the write may fail, the reconcile is repeated.
SetError ==
    LET next(current) == Return(TRUE) IN
    /\ pc = "fail"
    /\ TryWrite([copy EXCEPT !.phase = "Error"], next)
    /\ UNCHANGED <<secret, seen, lost, changes>>

\* reconcileDelete: the write of the phase may fail, the removal of the
\* finalizer may not.
SetTerminating ==
    LET v == [copy EXCEPT !.phase = "Terminating"]
        next(current) == Continue("unfinalize", v, current) IN
    /\ pc = "terminate"
    /\ TryWrite(v, next)
    /\ UNCHANGED <<secret, seen, lost, changes>>

\* Mutant: a failed removal of the finalizer is not tried again.
RemoveFinalizerOnce ==
    LET next(current) == Return(FALSE) IN
    /\ pc = "unfinalize"
    /\ TryWrite([copy EXCEPT !.fin = FALSE, !.exists = FALSE], next)
    /\ UNCHANGED <<secret, seen, lost, changes>>

RemoveFinalizer ==
    /\ pc = "unfinalize"
    /\ Write([copy EXCEPT !.fin = FALSE, !.exists = FALSE], Return(FALSE))
    /\ UNCHANGED <<secret, seen, lost, changes>>

-----------------------------------------------------------------------------
(***************************************************************************)
(* Watches, garbage collection, restarts                                   *)
(***************************************************************************)
WatchEvent == Deliver /\ UNCHANGED <<secret, seen, bounds>>

\* Mutant: the Secret is not watched.
SecretEventUnowned ==
    /\ seen # secret
    /\ seen' = secret
    /\ UNCHANGED <<log, operator, secret, bounds>>

\* The domain owns its Secret: a change of the Secret queues the domain.
SecretEvent ==
    /\ seen # secret
    /\ seen' = secret
    /\ queued' = TRUE
    /\ UNCHANGED <<log, pc, copy, fresh, secret, bounds>>

CollectSecret ==
    /\ secret # 0
    /\ ~(Current.exists /\ Current.uid = secret)
    /\ secret' = 0
    /\ UNCHANGED <<log, operator, seen, bounds>>

Restart == Reboot /\ seen' \in {seen, secret} /\ UNCHANGED <<secret, lost, changes>>

-----------------------------------------------------------------------------
(***************************************************************************)
(* The handlers of the panel                                               *)
(***************************************************************************)
CreateEmailDomain ==
    /\ ~Current.exists
    /\ Current.uid < MaxIncarnations
    /\ Publish(Created)
    /\ lost' = FALSE
    /\ UNCHANGED <<secret, seen, changes, faults>>

UpdateSpamConfig == Change(Edited) /\ UNCHANGED <<secret, seen, lost, faults>>
UpdateCatchAll   == Change(Edited) /\ UNCHANGED <<secret, seen, lost, faults>>

\* The reconciler is to make a new key; it finds the Secret and keeps it.
RotateDKIM ==
    /\ Change([Current EXCEPT !.ref = FALSE])
    /\ UNCHANGED <<secret, seen, lost, faults>>

\* The last call of DeleteEmailDomain; the accounts are in EmailAccount.
DeleteEmailDomain ==
    /\ Current.exists
    /\ ~Current.del
    /\ Publish(Deleted)
    /\ UNCHANGED <<secret, seen, bounds>>

-----------------------------------------------------------------------------
Operator == \/ Reconcile \/ AddFinalizer \/ SetPending \/ ReconcileDKIM \/ UpdateActive
            \/ SetError \/ SetTerminating \/ RemoveFinalizer

Panel == \/ CreateEmailDomain \/ UpdateSpamConfig \/ UpdateCatchAll \/ RotateDKIM
         \/ DeleteEmailDomain

Next == Operator \/ WatchEvent \/ SecretEvent \/ CollectSecret \/ Restart \/ Panel

\* The operator runs its worker and its watches, Kubernetes its garbage
\* collector; nobody has to call the panel.
Fairness == WF_vars(Operator) /\ WF_vars(WatchEvent) /\ WF_vars(SecretEvent)
            /\ WF_vars(CollectSecret)

Spec == Init /\ [][Next]_vars /\ Fairness

-----------------------------------------------------------------------------
(***************************************************************************)
(* What EmailDomain is checked for                                         *)
(***************************************************************************)

\* Every variable has its type; the cache always has a version to serve.
TypeOK ==
    /\ ResourceTypeOK(Phases, {"idle", "finalize", "pending", "dkim", "active", "fail",
                               "terminate", "unfinalize"})
    /\ secret \in Nat
    /\ seen \in Nat
    /\ lost \in BOOLEAN

\* Domains converge: once the panel is done with it, a domain that is not
\* being deleted is Active for good, has a key of its own, although it may
\* start with the key of its predecessor and lose it, and names it in its
\* status, although RotateDKIM clears the name.  Only if a write
\* of the Active status was lost, which nobody repeats, may it stay behind.
DomainConverges ==
    <>[](Held /\ ~lost =>
           Current.phase = "Active" /\ Current.ref /\ secret = Current.uid)

\* The domain behaves as EmailAccount assumes: whatever copy the reconciler
\* writes from, the phases come in the order DomainPhases allows, and a
\* domain that is being deleted never looks Active again.
Abstract == INSTANCE DomainPhases
    WITH dom <- IF Current.exists
                THEN [exists |-> TRUE, del |-> Current.del, phase |-> Current.phase]
                ELSE [exists |-> FALSE, del |-> FALSE, phase |-> ""]

ImplementsDomainPhases == Abstract!DomSpec
==============================================================================
