------------------------------ MODULE MCTenants ------------------------------
(***************************************************************************)
(* Tenants for TLC: a plan allows one website and limits resources, or     *)
(* neither.                                                                *)
(***************************************************************************)
EXTENDS TenantsProperties, TLC

Small == [websites |-> 1, storage |-> TRUE, compute |-> TRUE]

MCPlanLimits == {Small, NoLimits}

\* Requests, users and domains are interchangeable.
TenantSymmetry == Permutations(Requests) \union Permutations(Users)
                  \union Permutations(Domains)
==============================================================================
