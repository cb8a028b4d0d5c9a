---------------------------- MODULE DomainPhases ----------------------------
(***************************************************************************)
(* What an EmailDomain shows to the rest of the system: whether it exists, *)
(* whether it is being deleted, and its phase.  EmailDomain implements     *)
(* this specification; EmailAccount takes it for its environment.          *)
(***************************************************************************)
VARIABLE dom

Phases == {"", "Pending", "Active", "Error", "Terminating"}

NoDomain == [exists |-> FALSE, del |-> FALSE, phase |-> ""]

DomInit == dom = NoDomain

Appear == ~dom.exists /\ dom' = [exists |-> TRUE, del |-> FALSE, phase |-> ""]

\* A domain that is not being deleted becomes Pending once, and from then
\* on goes back and forth between Active and Error.
Report ==
    /\ dom.exists
    /\ ~dom.del
    /\ \E p \in {"Pending", "Active", "Error"} :
          /\ p = "Pending" => dom.phase = ""
          /\ dom' = [dom EXCEPT !.phase = p]

\* A domain without a finalizer disappears at once.
Condemn ==
    /\ dom.exists
    /\ ~dom.del
    /\ dom' \in {[dom EXCEPT !.del = TRUE], NoDomain}

Terminate ==
    /\ dom.exists
    /\ dom.del
    /\ dom' \in {[dom EXCEPT !.phase = "Terminating"], NoDomain}

DomNext == Appear \/ Report \/ Condemn \/ Terminate

DomSpec == DomInit /\ [][DomNext]_dom
=============================================================================
