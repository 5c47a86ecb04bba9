---------------------------- MODULE NodeRegistry ----------------------------
(***************************************************************************)
(* NodeFactoryRegistry, from graph_runtime/src/framework/node/             *)
(* node_registry.cc: a global map from type names to factories, and the    *)
(* tokens whose destruction takes a factory out again.  A registration id  *)
(* is a position in registrations; the factory of registration id is       *)
(* written id too.  Each call holds the mutex and is one step.             *)
(***************************************************************************)
EXTENDS Naturals, Sequences

CONSTANTS
    TypeNames,         \* the type names that libraries register
    MaxRegistrations   \* bound on the calls of Register

ASSUME RegistryAssumption == MaxRegistrations \in Nat

VARIABLES
    registrations,     \* the type names registered so far; next_id is one more than its length
    tokens,            \* the ids in id_to_name
    factories          \* type name -> the factory registered for it

registryVars == <<registrations, tokens, factories>>

NoFactory == 0         \* nullptr

\* The registry after the static initialisers have registered these types.
RegistryInit(types) ==
    /\ registrations = types
    /\ tokens = DOMAIN types
    /\ factories = [t \in {types[i] : i \in DOMAIN types} |->
                       CHOOSE i \in DOMAIN types :
                           /\ types[i] = t
                           /\ \A j \in DOMAIN types : types[j] = t => j <= i]

\* A factory that was registered under the same name before is destroyed.
Register(t) ==
    /\ Len(registrations) < MaxRegistrations
    /\ LET id == Len(registrations) + 1
       IN  /\ registrations' = Append(registrations, t)
           /\ tokens' = tokens \cup {id}
           /\ factories' = [u \in DOMAIN factories \cup {t} |->
                               IF u = t THEN id ELSE factories[u]]

\* The id is forgotten, the factory stays.
MutUnregisterKeepsFactory(id) ==
    /\ id \in tokens
    /\ tokens' = tokens \ {id}
    /\ UNCHANGED <<registrations, factories>>

\* The factory under the name of the registration is destroyed, also if a
\* later registration put it there.
Unregister(id) ==
    /\ id \in tokens
    /\ tokens' = tokens \ {id}
    /\ factories' = [u \in DOMAIN factories \ {registrations[id]} |-> factories[u]]
    /\ UNCHANGED registrations

GetFactory(t) == IF t \in DOMAIN factories THEN factories[t] ELSE NoFactory

Alive(f) == \E t \in DOMAIN factories : factories[t] = f

RegistryTypeOK ==
    /\ registrations \in Seq(TypeNames)
    /\ Len(registrations) <= MaxRegistrations
    /\ tokens \subseteq DOMAIN registrations
    /\ \A t \in DOMAIN factories : t \in TypeNames /\ factories[t] \in DOMAIN registrations

\* A factory never outlives the token of the library that holds its code, and
\* a lookup finds the latest registration of the name, whatever the order in
\* which tokens of one name are made and destroyed.
RegistryFollowsTokens ==
    \A t \in DOMAIN factories :
        /\ factories[t] \in tokens
        /\ \A id \in DOMAIN registrations : registrations[id] = t => id <= factories[t]

\* What every call of the registry preserves: a name leads to a factory of
\* that name, too.
RegistryInv ==
    /\ RegistryTypeOK
    /\ RegistryFollowsTokens
    /\ \A t \in DOMAIN factories : registrations[factories[t]] = t

=============================================================================
