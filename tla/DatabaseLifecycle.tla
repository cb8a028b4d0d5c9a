------------------------- MODULE DatabaseLifecycle --------------------------
(***************************************************************************)
(* What the hosting panel promises the owner of a database, without        *)
(* caches, retries or resource versions: a database resource is requested, *)
(* retired and forgotten, its data appear in MariaDB for the incarnation   *)
(* that was requested, and                                                 *)
(*   - data of the present incarnation are dropped only once the owner has *)
(*     asked for its deletion;                                             *)
(*   - an incarnation whose data stand in MariaDB is not forgotten before  *)
(*     the owner has asked for its deletion, so that cleaning up is tried. *)
(* This is the contract DatabaseController is shown to implement.          *)
(***************************************************************************)
EXTENDS Naturals

CONSTANTS Names, MaxIncarnations

VARIABLES
    inc,       \* the latest incarnation
    live,      \* it exists
    retiring,  \* its deletion has been asked for
    data       \* incarnation whose data stand under a name, 0 if none

vars == <<inc, live, retiring, data>>

Init ==
    /\ inc = 0
    /\ live = FALSE
    /\ retiring = FALSE
    /\ data = [n \in Names |-> 0]

Request ==
    /\ ~live
    /\ inc < MaxIncarnations
    /\ inc' = inc + 1
    /\ live' = TRUE
    /\ retiring' = FALSE
    /\ UNCHANGED data

Retire ==
    /\ live
    /\ ~retiring
    /\ retiring' = TRUE
    /\ UNCHANGED <<inc, live, data>>

\* Data are created for an incarnation that exists, retiring or not: a
\* provisioning in progress is not stopped by a deletion request.
Provide(n) ==
    /\ live
    /\ data[n] = 0
    /\ data' = [data EXCEPT ![n] = inc]
    /\ UNCHANGED <<inc, live, retiring>>

\* Never data of a live incarnation that nobody asked to delete.
Drop(n) ==
    /\ ~(live /\ ~retiring /\ data[n] = inc)
    /\ data' = [data EXCEPT ![n] = 0]
    /\ UNCHANGED <<inc, live, retiring>>

Forget ==
    /\ live
    /\ retiring \/ \A n \in Names : data[n] # inc
    /\ live' = FALSE
    /\ retiring' = FALSE
    /\ UNCHANGED <<inc, data>>

Next ==
    \/ Request
    \/ Retire
    \/ Forget
    \/ \E n \in Names : Provide(n) \/ Drop(n)

Spec == Init /\ [][Next]_vars
=============================================================================
