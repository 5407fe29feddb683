---------------------------- MODULE HostRegistry ----------------------------
(***************************************************************************)
(* The hosts that may execute one project's attempts                       *)
(* (packages/core/src/lifecycle/host-registry.ts): what each declared in   *)
(* its own execution context and what the project's owner granted it.      *)
(* Names, harnesses, capability lists and paths are left out; capable says *)
(* whether the declared capabilities include the required ones.            *)
(***************************************************************************)
CONSTANTS Hosts,        \* host identities
          Changing      \* bound: the hosts whose registration changes

ASSUME ChangingAssumption == Changing \subseteq Hosts

VARIABLE registry       \* execution_hosts joined with host_workspaces

\* Every host starts ready to execute except the changing ones, not yet known.
InitRegistry ==
    registry = [h \in Hosts |->
        [registered |-> h \notin Changing, enabled   |-> h \notin Changing,
         capable    |-> h \notin Changing, granted   |-> h \notin Changing,
         available  |-> h \notin Changing]]

\* registerHost: a first registration or a new declaration of the same host.
RegisterHost(h, capable, enabled) ==
    registry' = [registry EXCEPT ![h].registered = TRUE,
                                 ![h].capable = capable, ![h].enabled = enabled]

\* grantHostWorkspace: a grant or a revocation voids the host's declaration.
GrantHostWorkspace(h, revoke) ==
    /\ registry[h].registered
    /\ registry' = [registry EXCEPT ![h].granted = ~revoke, ![h].available = FALSE]

DeclareHostWorkspace(h, available) ==
    /\ registry[h].registered
    /\ registry[h].granted
    /\ registry' = [registry EXCEPT ![h].available = available]

\* hostPreflight: nothing blocks a new execution on h.
Eligible(h) ==
    /\ registry[h].registered
    /\ registry[h].granted
    /\ registry[h].enabled
    /\ registry[h].available
    /\ registry[h].capable

RegistryStep ==
    \E h \in Changing :
        \/ \E capable, enabled \in BOOLEAN : RegisterHost(h, capable, enabled)
        \/ \E revoke \in BOOLEAN : GrantHostWorkspace(h, revoke)
        \/ \E available \in BOOLEAN : DeclareHostWorkspace(h, available)

RegistryType ==
    registry \in [Hosts -> [registered : BOOLEAN, enabled : BOOLEAN, capable : BOOLEAN,
                            granted : BOOLEAN, available : BOOLEAN]]

=============================================================================
