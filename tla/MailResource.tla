---------------------------- MODULE MailResource ----------------------------
(***************************************************************************)
(* What the reconcilers of EmailDomain and EmailAccount have in common:    *)
(* one custom resource in the API server, the operator's lagging cache of  *)
(* it, and a reconcile in progress, which writes its copy back under       *)
(* optimistic concurrency.  Of a spec only the number of its last edit is  *)
(* kept.                                                                   *)
(***************************************************************************)
EXTENDS Naturals, Sequences

CONSTANTS
    MaxIncarnations,  \* bound: how often the resource is created
    MaxChanges,       \* bound: how often the panel changes it (or its login)
    MaxFaults         \* bound: lost calls and operator restarts

ASSUME MailConstants ==
    /\ MaxIncarnations \in Nat
    /\ MaxChanges \in Nat
    /\ MaxFaults \in Nat

VARIABLES
    log,     \* versions of the resource, from the cached to the current one
    queued,  \* work queue: the resource waits for a reconcile
    pc,      \* reconciler: the next call
    copy,    \* reconciler: its local copy of the resource
    fresh,   \* reconciler: its resourceVersion is the current one
    changes, faults  \* how many there have been

operator == <<queued, pc, copy, fresh>>

-----------------------------------------------------------------------------
\* label: an account has the label of its domain; ref: the status names the
\* DKIM Secret of the domain, or the maildir of the account.
Resource(phases) ==
    [uid: Nat, exists: BOOLEAN, fin: BOOLEAN, del: BOOLEAN, label: BOOLEAN, edit: Nat,
     phase: phases, ref: BOOLEAN]

NoResource == [uid |-> 0, exists |-> FALSE, fin |-> FALSE, del |-> FALSE, label |-> FALSE,
               edit |-> 0, phase |-> "", ref |-> FALSE]

Cached  == log[1]
Current == log[Len(log)]
Held    == Current.exists /\ ~Current.del

ResourceInit ==
    /\ log = <<NoResource>>
    /\ queued = FALSE
    /\ pc = "idle"
    /\ copy = NoResource
    /\ fresh = FALSE
    /\ changes = 0
    /\ faults = 0

ResourceTypeOK(phases, calls) ==
    /\ log \in Seq(Resource(phases))
    /\ Len(log) > 0
    /\ queued \in BOOLEAN
    /\ pc \in calls
    /\ copy \in Resource(phases)
    /\ fresh \in BOOLEAN
    /\ changes \in Nat
    /\ faults \in Nat

Fault == faults < MaxFaults /\ faults' = faults + 1

\* A write that changes nothing yields no new version.
Store(v) == log' = IF v = Current THEN log ELSE Append(log, v)

\* A write of the panel: the reconciler's copy is current no more.
Publish(v) ==
    /\ Store(v)
    /\ fresh' = (fresh /\ v = Current)
    /\ UNCHANGED <<queued, pc, copy>>

\* What Create, a versioned Update and Delete of the panel store.
Created == [NoResource EXCEPT !.uid = Current.uid + 1, !.exists = TRUE]
Edited  == [Current EXCEPT !.edit = changes + 1]
Deleted == IF Current.fin THEN [Current EXCEPT !.del = TRUE]
                          ELSE [Current EXCEPT !.exists = FALSE]

\* The panel reads the resource and writes it back: this takes effect only
\* if the version it read is still current.
Change(v) ==
    /\ Current.exists
    /\ changes < MaxChanges
    /\ changes' = changes + 1
    /\ Publish(v)

-----------------------------------------------------------------------------
(***************************************************************************)
(* A reconcile in progress                                                 *)
(***************************************************************************)
Return(requeue) ==
    /\ pc' = "idle"
    /\ copy' = NoResource
    /\ fresh' = FALSE
    /\ queued' = (queued \/ requeue)

\* Goes on with the copy v; current: v carries the current resourceVersion.
Continue(call, v, current) ==
    /\ pc' = call
    /\ copy' = v
    /\ fresh' = current
    /\ UNCHANGED queued

\* A worker takes the resource and reads it from the cache.
Begin(firstCall(_)) ==
    /\ pc = "idle"
    /\ queued
    /\ queued' = FALSE
    /\ pc' = firstCall(Cached)
    /\ IF pc' = "idle" THEN UNCHANGED <<copy, fresh>>
                       ELSE copy' = Cached /\ fresh' = (Len(log) = 1)
    /\ UNCHANGED log

\* Writes v and goes on with the answer; an error ends the reconcile and
\* queues it again.  A call without an answer may have been applied.
Write(v, next) ==
    \/ fresh /\ Store(v) /\ next /\ UNCHANGED faults
    \/ ~fresh /\ Return(TRUE) /\ UNCHANGED <<log, faults>>
    \/ Fault /\ Return(TRUE) /\ (UNCHANGED log \/ (fresh /\ Store(v)))

\* Writes v and goes on whatever the outcome is, with or without the current
\* resourceVersion.
TryWrite(v, next(_)) ==
    \/ fresh /\ Store(v) /\ next(TRUE) /\ UNCHANGED faults
    \/ ~fresh /\ next(FALSE) /\ UNCHANGED <<log, faults>>
    \/ Fault /\ fresh /\ Store(v) /\ next(FALSE)
    \/ Fault /\ UNCHANGED log /\ next(fresh)

\* The watch delivers the next version and queues the resource.
Deliver ==
    /\ Len(log) > 1
    /\ log' = Tail(log)
    /\ queued' = TRUE
    /\ UNCHANGED <<pc, copy, fresh>>

\* The operator stops; its successor lists what exists, from an API server
\* that may lag as well but is at least as recent as the cache was.
Reboot ==
    /\ Fault
    /\ \E i \in 1 .. Len(log) :
          log' = SubSeq(log, i, Len(log)) /\ queued' = log[i].exists
    /\ pc' = "idle"
    /\ copy' = NoResource
    /\ fresh' = FALSE

-----------------------------------------------------------------------------
\* No edit is lost: a reconciler writes the whole object back to add its
\* finalizer, from a copy that may be older than the last edit, yet what
\* the user has saved stays until the resource is gone.
EditsStay == [][Current.exists /\ Current'.exists => Current'.edit >= Current.edit]_log

\* Deletions complete: a resource that is being deleted goes, whatever
\* status writes of reconcileDelete are refused or lost on the way.
DeletionCompletes == <>[](Current.exists => ~Current.del)
=============================================================================
