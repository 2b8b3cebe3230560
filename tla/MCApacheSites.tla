----------------------------- MODULE MCApacheSites -----------------------------
(* Model checking of the two domains that change Apache's configuration.  A          *)
(* behaviour is one of a single domain, drawn at the beginning: the other rests, and  *)
(* AdminAccess has the reloads that commands on sites cause as ServerReloads.         *)
(* Connections, sites and contents of ApacheSites are interchangeable; a behaviour    *)
(* has MaxCommands commands on sites at most.                                         *)
EXTENDS ApacheSites, AdminAccess, TLC

CONSTANTS MaxCommands, d1

VARIABLES
    focus,  \* the domain that moves
    left    \* commands on sites still to come

\* Every address, and one of them disabled.
MCOffered ==
    {[enabled |-> TRUE, address |-> a] : a \in Addresses} \cup {[enabled |-> FALSE, address |-> d1]}

Perms == Permutations(Slots) \cup Permutations(Sites) \cup Permutations(Good)

MCInit ==
    /\ focus \in {"sites", "access"}
    /\ Init /\ AdminInit
    /\ left = MaxCommands
    \* one initial state of the domain that rests
    /\ focus = "sites" => mode = "direct" /\ profile = AnySettings
    /\ focus = "access" => ~direct /\ content = [s \in Sites |-> None] /\ stale = {}

MCNext ==
    /\ UNCHANGED focus
    /\ \/ /\ focus = "sites"
          /\ \/ /\ left > 0
                /\ \E w \in Slots : Arrive(w)
                /\ left' = left - 1
             \/ /\ RestartFires \/ DaemonStop \/ \E w \in Slots : Work(w)
                /\ UNCHANGED left
          /\ UNCHANGED accessVars
       \/ focus = "access" /\ AdminNext /\ UNCHANGED <<vars, left>>

\* The state of both domains is well formed, and a connection that rests holds nothing.
ConfigurationTypeOK == TypeOK /\ AdminTypeOK

MCSpec == MCInit /\ [][MCNext]_<<vars, accessVars, focus, left>>

=============================================================================
