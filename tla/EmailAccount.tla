---------------------------- MODULE EmailAccount ----------------------------
(***************************************************************************)
(* The life of one EmailAccount: the handlers of panel-core that create,   *)
(* edit and delete it, the import of a backup, which may create it too,    *)
(* the operator's reconciler, and the deletion of its domain, which is to  *)
(* take it along.                                                          *)
(*                                                                         *)
(* The domain is that of DomainPhases, which EmailDomain implements; of    *)
(* its cached version the reconciler only tells apart whether it accepts   *)
(* it.  Left out: the passwd file of Dovecot, which the operator keeps     *)
(* empty, and the user in Keycloak by which the account is logged in to:   *)
(* CreateEmail makes it first, the import makes none, DeleteUser may       *)
(* delete it, and nothing here depends on it.                              *)
(***************************************************************************)
EXTENDS MailResource, DomainPhases

CONSTANT
    MaxDomainChanges  \* bound: how often the domain changes by itself or a
                      \* request to delete it arrives

ASSUME AccountConstants == MaxDomainChanges \in Nat

VARIABLES
    accepted,       \* the cached domain is one validateEmailDomain accepts
    domainChanges,  \* how many there have been
    imported,       \* the name is one the import gives, not CreateEmail
    creating,       \* CreateEmail: the next call
    deleting,       \* DeleteEmailDomain: the next call
    listed,         \* DeleteEmailDomain: the account is on its list
    stray           \* the account was created too late for the list of a
                    \* deletion, had no label when it listed, or the
                    \* deletion lost a call for it

domain   == <<dom, domainChanges>>
requests == <<imported, creating, deleting, listed, stray>>
vars     == <<log, operator, changes, faults, domain, accepted, requests>>

-----------------------------------------------------------------------------
AccountPhases == {"", "Pending", "Creating", "Active", "Error", "Terminating"}

Acceptable == dom.exists /\ dom.phase \in {"Active", ""}

Init ==
    /\ ResourceInit
    /\ DomInit
    /\ accepted = FALSE
    /\ domainChanges = 0
    /\ imported \in BOOLEAN
    /\ creating = "no"
    /\ deleting = "no"
    /\ listed = FALSE
    /\ stray = FALSE

-----------------------------------------------------------------------------
(***************************************************************************)
(* The reconciler                                                          *)
(***************************************************************************)
FirstCall(v) ==
    IF ~v.exists   THEN "idle"
    ELSE IF v.del  THEN "terminate"
    ELSE IF ~v.fin THEN "finalize"
    ELSE IF ~v.label THEN "label"
    ELSE "validate"

Reconcile ==
    Begin(FirstCall) /\ UNCHANGED <<changes, faults, domain, accepted, requests>>

\* Mutant: the write is not refused when the copy is stale.
AddFinalizerUnversioned ==
    /\ pc = "finalize"
    /\ Current.uid = copy.uid /\ Current.exists
    /\ Store([copy EXCEPT !.fin = TRUE])
    /\ Continue("validate", NoResource, FALSE)
    /\ UNCHANGED <<changes, faults, domain, accepted, requests>>

\* The same reconcile goes on with the answer, which ensureLabels looks at.
AddFinalizer ==
    LET v == [copy EXCEPT !.fin = TRUE] IN
    /\ pc = "finalize"
    /\ Write(v, Continue(IF v.label THEN "validate" ELSE "label", v, TRUE))
    /\ UNCHANGED <<changes, domain, accepted, requests>>

\* CreateEmail sets the label; an import does not.
EnsureLabels ==
    LET v == [copy EXCEPT !.label = TRUE] IN
    /\ pc = "label"
    /\ Write(v, Continue("validate", v, TRUE))
    /\ UNCHANGED <<changes, domain, accepted, requests>>

\* The account is read again, from the same cache, which may be behind what
\* was just written; then the cached domain is looked at.
Validate ==
    LET v == Cached
        call == IF ~accepted THEN "fail"
                ELSE IF v.phase \in {"", "Pending"} THEN "creating" ELSE "active" IN
    /\ pc = "validate"
    /\ IF v.exists THEN Continue(call, v, Len(log) = 1) ELSE Return(TRUE)
    /\ UNCHANGED <<log, changes, faults, domain, accepted, requests>>

SetCreating ==
    LET v == [copy EXCEPT !.phase = "Creating"] IN
    /\ pc = "creating"
    /\ Write(v, Continue("active", v, TRUE))
    /\ UNCHANGED <<changes, domain, accepted, requests>>

\* Mutant: a failed write of the status is not repeated.
UpdateActiveStatusOnce ==
    LET next(current) == Return(FALSE) IN
    /\ pc = "active"
    /\ TryWrite([copy EXCEPT !.phase = "Active", !.ref = TRUE], next)
    /\ UNCHANGED <<changes, domain, accepted, requests>>

\* With the path of the maildir from reconcileMaildir.
UpdateActiveStatus ==
    /\ pc = "active"
    /\ Write([copy EXCEPT !.phase = "Active", !.ref = TRUE], Return(FALSE))
    /\ UNCHANGED <<changes, domain, accepted, requests>>

\* Mutant: reports the reason instead of the phase.
SetErrorStatusReason ==
    LET next(current) == Return(TRUE) IN
    /\ pc = "fail"
    /\ TryWrite([copy EXCEPT !.phase = "DomainNotFound"], next)
    /\ UNCHANGED <<changes, domain, accepted, requests>>

\* The write may fail, the reconcile is repeated.
SetErrorStatus ==
    LET next(current) == Return(TRUE) IN
    /\ pc = "fail"
    /\ TryWrite([copy EXCEPT !.phase = "Error"], next)
    /\ UNCHANGED <<changes, domain, accepted, requests>>

SetTerminating ==
    LET v == [copy EXCEPT !.phase = "Terminating"]
        next(current) == Continue("unfinalize", v, current) IN
    /\ pc = "terminate"
    /\ TryWrite(v, next)
    /\ UNCHANGED <<changes, domain, accepted, requests>>

\* Mutant: a failed removal of the finalizer is not tried again.
RemoveFinalizerOnce ==
    LET next(current) == Return(FALSE) IN
    /\ pc = "unfinalize"
    /\ TryWrite([copy EXCEPT !.fin = FALSE, !.exists = FALSE], next)
    /\ UNCHANGED <<changes, domain, accepted, requests>>

RemoveFinalizer ==
    /\ pc = "unfinalize"
    /\ Write([copy EXCEPT !.fin = FALSE, !.exists = FALSE], Return(FALSE))
    /\ UNCHANGED <<changes, domain, accepted, requests>>

\* Only the account is watched: a change of the domain queues nothing.
WatchEvent == Deliver /\ UNCHANGED <<changes, faults, domain, accepted, requests>>

DomainEvent ==
    /\ accepted # Acceptable
    /\ accepted' = Acceptable
    /\ UNCHANGED <<log, operator, changes, faults, domain, requests>>

Restart ==
    /\ Reboot
    /\ accepted' \in {accepted, Acceptable}
    /\ UNCHANGED <<changes, domain, requests>>

-----------------------------------------------------------------------------
(***************************************************************************)
(* CreateEmail: login, check of the domain, resource.  Nothing is undone   *)
(* when a later call fails.                                                *)
(***************************************************************************)

\* A user in Keycloak that exists already is taken; the request ends if
\* there is none in the end.  An imported account goes by another name, and
\* what CreateEmail does for its address is another account.
CreateLogin ==
    /\ ~imported
    /\ creating = "no"
    /\ Current.uid < MaxIncarnations
    /\ creating' = "check"
    /\ UNCHANGED <<log, operator, changes, faults, domain, accepted, imported, deleting, listed,
                   stray>>

\* A domain that is being deleted passes, whatever its phase; one of another
\* user, or a plan that allows no more accounts, ends the request.
CheckDomain ==
    /\ creating = "check"
    /\ creating' \in (IF dom.exists THEN {"create", "no"} ELSE {"no"})
    /\ UNCHANGED <<log, operator, changes, faults, domain, accepted, imported, deleting,
                   listed, stray>>

StoreAccount(v) ==
    /\ ~Current.exists
    /\ Publish(v)
    /\ stray' = (deleting \in {"accounts", "domain"} \/ dom.del \/ ~dom.exists)

\* An account of this address that is still there is a conflict.
CreateAccount ==
    /\ creating = "create"
    /\ creating' = "no"
    /\ \/ StoreAccount([Created EXCEPT !.label = TRUE]) /\ UNCHANGED faults
       \/ /\ UNCHANGED <<log, operator, stray>>
          /\ IF Current.exists THEN UNCHANGED faults ELSE Fault
    /\ UNCHANGED <<changes, domain, accepted, imported, deleting, listed>>

\* The import of a backup stores the account without a look at the domain,
\* without the label of the domain and without a login.
ImportAccount ==
    /\ imported
    /\ Current.uid < MaxIncarnations
    /\ StoreAccount(Created)
    /\ UNCHANGED <<changes, faults, domain, accepted, imported, creating, deleting,
                   listed>>

-----------------------------------------------------------------------------
(***************************************************************************)
(* The handlers that edit or delete the account                            *)
(***************************************************************************)
UpdateForwarding == Change(Edited) /\ UNCHANGED <<faults, domain, accepted, requests>>
DeleteForwarding == Change(Edited) /\ UNCHANGED <<faults, domain, accepted, requests>>
UpdateQuota      == Change(Edited) /\ UNCHANGED <<faults, domain, accepted, requests>>

\* The last call of DeleteEmail, which deletes by name.
DeleteEmail ==
    /\ Held
    /\ Publish(Deleted)
    /\ UNCHANGED <<changes, faults, domain, accepted, requests>>

-----------------------------------------------------------------------------
(***************************************************************************)
(* DeleteEmailDomain: reads the domain, lists the accounts by its label,   *)
(* deletes them and then the domain by name, and ignores what fails before.*)
(***************************************************************************)
DomainChange == domainChanges < MaxDomainChanges /\ domainChanges' = domainChanges + 1

GetDomain ==
    /\ deleting = "no"
    /\ dom.exists
    /\ DomainChange
    /\ deleting' = "list"
    /\ UNCHANGED <<log, operator, changes, faults, dom, accepted, imported, creating,
                   listed, stray>>

ListAccounts ==
    /\ deleting = "list"
    /\ deleting' = "accounts"
    /\ \/ listed' = (Current.exists /\ Current.label) /\ UNCHANGED faults
       \/ listed' = FALSE /\ Fault
    /\ stray' = (stray \/ (Current.exists /\ ~listed'))
    /\ UNCHANGED <<log, operator, changes, domain, accepted, imported, creating>>

\* Mutant: only accounts that are Active are deleted.
DeleteListedActive ==
    /\ deleting = "accounts"
    /\ deleting' = "domain"
    /\ listed' = FALSE
    /\ IF listed /\ Held /\ Current.phase = "Active" THEN Publish(Deleted)
                                                     ELSE UNCHANGED <<log, operator>>
    /\ UNCHANGED <<changes, faults, domain, accepted, imported, creating, stray>>

DeleteListed ==
    /\ deleting = "accounts"
    /\ deleting' = "domain"
    /\ listed' = FALSE
    /\ \/ /\ IF listed /\ Held THEN Publish(Deleted) ELSE UNCHANGED <<log, operator>>
          /\ UNCHANGED <<faults, stray>>
       \/ listed /\ Held /\ Fault /\ stray' = TRUE /\ UNCHANGED <<log, operator>>
    /\ UNCHANGED <<changes, domain, accepted, imported, creating>>

\* The domain may be gone by now, or be another one.
DeleteDomain ==
    /\ deleting = "domain"
    /\ deleting' = "no"
    /\ \/ Condemn /\ UNCHANGED faults
       \/ UNCHANGED dom /\ IF dom.exists /\ ~dom.del THEN Fault ELSE UNCHANGED faults
    /\ UNCHANGED <<log, operator, changes, domainChanges, accepted, imported, creating,
                   listed, stray>>

\* What EmailDomain's reconciler and handlers do otherwise.
DomainStep ==
    /\ \/ (Appear \/ Report) /\ DomainChange
       \/ Terminate /\ UNCHANGED domainChanges
    /\ dom' # dom
    /\ UNCHANGED <<log, operator, changes, faults, accepted, requests>>

-----------------------------------------------------------------------------
Operator == \/ Reconcile \/ AddFinalizer \/ EnsureLabels \/ Validate \/ SetCreating
            \/ UpdateActiveStatus \/ SetErrorStatus \/ SetTerminating \/ RemoveFinalizer

CreateEmail       == CreateLogin \/ CheckDomain \/ CreateAccount
DeleteEmailDomain == GetDomain \/ ListAccounts \/ DeleteListed \/ DeleteDomain

Panel == \/ CreateEmail \/ UpdateForwarding \/ DeleteForwarding \/ UpdateQuota \/ DeleteEmail
         \/ DeleteEmailDomain \/ ImportAccount

Next == Operator \/ WatchEvent \/ DomainEvent \/ Restart \/ Panel \/ DomainStep

\* The operator runs its worker and its watches; nobody has to call the
\* panel, and its requests may hang.
Fairness == WF_vars(Operator) /\ WF_vars(WatchEvent) /\ WF_vars(DomainEvent)

Spec == Init /\ [][Next]_vars /\ Fairness

-----------------------------------------------------------------------------
(***************************************************************************)
(* What EmailAccount is checked for                                        *)
(***************************************************************************)

\* Every variable has its type; the cache always has a version to serve.
TypeOK ==
    /\ ResourceTypeOK(AccountPhases, {"idle", "finalize", "label", "validate", "creating",
                                      "active", "fail", "terminate", "unfinalize"})
    /\ dom \in [exists: BOOLEAN, del: BOOLEAN, phase: Phases]
    /\ accepted \in BOOLEAN
    /\ domainChanges \in Nat
    /\ imported \in BOOLEAN
    /\ creating \in {"no", "check", "create"}
    /\ deleting \in {"no", "list", "accounts", "domain"}
    /\ listed \in BOOLEAN
    /\ stray \in BOOLEAN

\* Accounts go with their domain: one that is held when its domain is gone
\* was created after the deletion had listed the accounts, was imported and
\* had no label yet when it listed, or a call of the deletion was lost.
AccountsGoWithDomain == Held /\ ~dom.exists => stray

\* Accounts converge: an account whose domain ends up Active becomes and
\* stays Active with its maildir, its finalizer and the label its domain
\* finds it by, although the reconciler does not watch domains and reads the
\* account again from a cache that may be behind, or be of an earlier account.
AccountConverges ==
    <>[](Held /\ dom.exists /\ ~dom.del /\ dom.phase = "Active"
           => Current.phase = "Active" /\ Current.ref /\ Current.fin /\ Current.label)
=============================================================================
