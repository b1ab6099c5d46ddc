--------------------------- MODULE ProviderConfig ----------------------------
(***************************************************************************)
(* The provider configurations a sentinel keeps, fed by the bond and mod   *)
(* events of the chain.  Each of the two queries has its own subscription  *)
(* and goroutine: events keep their order within a query, not between the  *)
(* two.  The sentinel turns the name in an event into a service with the   *)
(* static list, to the letter, and files what it does not find there under *)
(* the service zero.                                                       *)
(***************************************************************************)
EXTENDS ServiceRegistry, Sequences

CONSTANTS
    MaxEvents,      \* bound: events of the provider
    MaxRestarts     \* bound: restarts of the sentinel

VARIABLES
    bondEvents,     \* events on their way, by query
    modEvents,
    configs,        \* the configuration stored for a service
    emitted,        \* number of events so far
    restarts,
    disturbed       \* history: services with an event lost, overtaken or misfiled

configVars == <<bondEvents, modEvents, configs, emitted, restarts, disturbed>>

configSpecVars == <<registryVars, serviceVars, configVars>>

StaticIds == {ServiceLookup[n] : n \in DOMAIN ServiceLookup}

\* A service without configuration.
NoConfig == [NewProvider EXCEPT !.status = "NONE"]

\* ServiceLookup of the name as the message spells it: the static list has one
\* spelling of a name, the registry takes all.
Lookup(n, spelled) ==
    IF spelled /\ n \in DOMAIN ServiceLookup THEN ServiceLookup[n] ELSE NoId

\* ServiceLookup of Service.String: an id that is not static is written with
\* its number, which is no name of the static list.
LookupString(id) == IF id \in StaticIds THEN id ELSE NoId

\* An event of the service with this id, filed under a service.  Of the events
\* of one type in a transaction only the first is read.
Event(id, filed, record) ==
    [number |-> emitted + 1, id |-> id, filed |-> filed, record |-> record]

Misfiled(e) == IF e.filed = e.id THEN {} ELSE {e.filed, e.id}

Emit(queue, e, first) ==
    /\ emitted < MaxEvents
    /\ emitted' = emitted + 1
    /\ queue' = IF first THEN Append(queue, e) ELSE queue
    /\ disturbed' = disturbed \cup Misfiled(e) \cup (IF first THEN {} ELSE {e.id})
    /\ UNCHANGED <<configs, restarts>>

ChainBondProvider(n, bond, spelled, first) ==
    /\ BondService(n, bond)
    /\ Emit(bondEvents, Event(services[n], Lookup(n, spelled), providers'[services[n]]),
            first)
    /\ UNCHANGED modEvents

ChainModProvider(n, o, first) ==
    /\ ModService(n, o)
    /\ Emit(modEvents, Event(services[n], LookupString(services[n]),
                             providers'[services[n]]), first)
    /\ UNCHANGED bondEvents

ChainChangesServices ==
    /\ ServiceChange
    /\ UNCHANGED configVars

-----------------------------------------------------------------------------
\* An event is read while an earlier one of the same service waits.
Overtakes(e, others) ==
    IF \E i \in DOMAIN others :
         others[i].filed = e.filed /\ others[i].number < e.number
    THEN {e.filed} ELSE {}

\* Mutant: every bond event starts a new configuration.
Initialised_Always(s) == NewProvider

\* The stored configuration, or the new one a bond event starts.
Initialised(s) == IF configs[s] = NoConfig THEN NewProvider ELSE configs[s]

HandleBondProviderEvent ==
    /\ bondEvents # <<>>
    /\ LET e == Head(bondEvents)
       IN  /\ configs' = [configs EXCEPT
                ![e.filed] = [Initialised(e.filed) EXCEPT !.bond = e.record.bond]]
           /\ disturbed' = disturbed \cup Overtakes(e, modEvents)
    /\ bondEvents' = Tail(bondEvents)
    /\ UNCHANGED <<registryVars, serviceVars, modEvents, emitted, restarts>>

\* Nothing is stored for a service without configuration.
HandleModProviderEvent ==
    /\ modEvents # <<>>
    /\ LET e == Head(modEvents)
       IN  /\ configs' = IF configs[e.filed] = NoConfig THEN configs
                         ELSE [configs EXCEPT ![e.filed] =
                                 [e.record EXCEPT !.updated = FALSE]]
           /\ disturbed' = disturbed \cup Overtakes(e, bondEvents)
    /\ modEvents' = Tail(modEvents)
    /\ UNCHANGED <<registryVars, serviceVars, bondEvents, emitted, restarts>>

\* The configurations are on disk, the events on their way are gone.
Restart ==
    /\ restarts < MaxRestarts
    /\ restarts' = restarts + 1
    /\ bondEvents' = <<>>
    /\ modEvents' = <<>>
    /\ disturbed' = disturbed \cup {e.filed : e \in Range(bondEvents \o modEvents)}
    /\ UNCHANGED <<registryVars, serviceVars, configs, emitted>>

ConfigInit ==
    /\ ServiceInit
    /\ bondEvents = <<>>
    /\ modEvents = <<>>
    /\ configs = [s \in Providers \cup {NoId} |-> NoConfig]
    /\ emitted = 0
    /\ restarts = 0
    /\ disturbed = {}

ConfigNext ==
    \/ \E n \in Names, bond \in Bonds, spelled, first \in BOOLEAN :
         ChainBondProvider(n, bond, spelled, first)
    \/ \E n \in Names, o \in Offers, first \in BOOLEAN : ChainModProvider(n, o, first)
    \/ ChainChangesServices
    \/ HandleBondProviderEvent
    \/ HandleModProviderEvent
    \/ Restart

ConfigSpec == ConfigInit /\ [][ConfigNext]_configSpecVars

-----------------------------------------------------------------------------
\* Once the events of a static service are handled, its configuration has the
\* bond on the chain, and the published terms too if the provider published
\* any since it last bonded: after it unbonded the old terms stay.  That holds
\* for a service none of whose events was lost, overtaken by one of the other
\* query or filed under another service.
ConfigFollows ==
    \A s \in StaticIds \ disturbed :
        (\A e \in Range(bondEvents \o modEvents) : e.filed # s) =>
            /\ configs[s].bond = providers[s].bond
            /\ providers[s].minContractDuration > 0 =>
                 configs[s] = [providers[s] EXCEPT !.updated = FALSE]
=============================================================================
