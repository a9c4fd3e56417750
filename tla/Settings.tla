------------------------------ MODULE Settings ------------------------------
(***************************************************************************)
(* Online settings: internal/shared/settings/manager.go and the part of    *)
(* the Dispatcher that follows it (OnSettingsUpdate, updateRoutingTables,  *)
(* the StickyManager's life cycle, updateLoadBalancer).                    *)
(*                                                                         *)
(* SettingsManager.Update runs under mu and hands its subscribers over to  *)
(* a goroutine of its own; AppServer.ReloadStrategy starts another one     *)
(* whenever it publishes a B zone.  deepCopy copies the struct of the      *)
(* gateway module only: the array of its sticky rules, and the whole       *)
(* routing module, stay one object for the life of the process.            *)
(* json.Unmarshal decodes into both in place, whether or not the update is *)
(* accepted, and the dispatcher's routing table points at those same rule  *)
(* objects.                                                                *)
(*                                                                         *)
(* A slot is an Update request, or a publication, together with the        *)
(* goroutine it spawns.                                                    *)
(***************************************************************************)
EXTENDS Naturals

CONSTANTS
    Slots,          \* concurrent updates and publications
    Managers,       \* addresses of StickyManager objects
    Rules,          \* contents of a routing rule (what it matches, its target)
    NRules,         \* bound: length of the rule list
    Sites,          \* contents of the list of sticky rules
    Gateways,       \* the other gateway settings ...
    Enabled,        \* ... those that switch sticky sessions on,
    Balancer,       \* ... and the balancer each one asks for
    FilesFail,      \* may settings.json be unwritable, may a field be mistyped
    MaxOps,         \* bound: updates and publications in a behaviour
    Torn,           \* what a write that was cut short leaves in settings.json
    Nobody, NoRule, NoGateway, NoManager

Index == 1..NRules
RuleLists == [Index -> Rules]
Stored == [gateway : Gateways, sites : Sites, rules : RuleLists]
Kinds == {"least_connections", "round_robin"}

ASSUME SettingsAssumption ==
    /\ NRules \in Nat /\ MaxOps \in Nat
    /\ Managers # {} /\ Enabled \subseteq Gateways /\ Balancer \in [Gateways -> Kinds]
    /\ FilesFail \in BOOLEAN /\ Torn \notin Stored
    /\ Nobody \notin Slots /\ NoRule \notin Rules
    /\ NoGateway \notin Gateways /\ NoManager \notin Managers

VARIABLES
    gateway,      \* settings.Load().Gateway, but for its list of sticky rules
    sites,        \* settings.Load().Gateway.StickyRules: the array in use
    rules,        \* settings.Load().Routing.Rules: the live rule objects
    disk,         \* settings.json
    mu,           \* holder of SettingsManager.mu
    zone,         \* rules whose target the published B zone can serve
    table,        \* sortedRules: per rule object, the rule its route was resolved for
    sticky,       \* the StickyManager in the dispatcher's atomic.Value
    made,         \* StickyManagers created; the settings each was built from
    stopped,      \* those whose cleanupStop channel is closed
    cleaning,     \* those whose cleanup goroutine runs
    balancer,     \* concrete type in the loadBalancer atomic.Value
    panicked,     \* a goroutine panicked: the process is gone
    refused,      \* history: the modules whose last update was refused
    pc, newGateway, newRules, next, failed, old,   \* locals of the slots
    ops

managerVars == <<made, stopped, cleaning>>
dispVars == <<zone, table, sticky, managerVars, balancer>>
setVars == <<gateway, sites, rules, disk>>
localVars == <<pc, newGateway, newRules, next, failed, old>>
vars == <<setVars, mu, dispVars, panicked, refused, localVars, ops>>

-----------------------------------------------------------------------------
\* updateRoutingTables: a rule whose target is missing or not up is left out.
Resolve(rs, z) == [k \in Index |-> IF rs[k] \in z THEN rs[k] ELSE NoRule]

Goto(p, l) == pc' = [pc EXCEPT ![p] = l]

Begin(p) == /\ pc[p] = "idle" /\ ~panicked
            /\ ops < MaxOps /\ ops' = ops + 1

\* Start runs a cleanup goroutine only if sticky sessions are on.
Cleaners(m, g) == IF g \in Enabled THEN {m} ELSE {}

FreshManager(m) == /\ m # sticky /\ m \notin cleaning
                   /\ \A p \in Slots : old[p] # m

Init ==
    /\ gateway \in Gateways /\ sites \in Sites /\ rules \in RuleLists
    /\ disk = [gateway |-> gateway, sites |-> sites, rules |-> rules]
    /\ mu = Nobody
    /\ zone \in SUBSET Rules
    /\ table = Resolve(rules, zone)
    /\ sticky = CHOOSE m \in Managers : TRUE      \* whichever address it has
    /\ made = [m \in Managers |-> IF m = sticky THEN gateway ELSE NoGateway]
    /\ stopped = {} /\ cleaning = Cleaners(sticky, gateway)
    /\ balancer = Balancer[gateway]
    /\ panicked = FALSE /\ refused = {}
    /\ pc = [p \in Slots |-> "idle"]
    /\ newGateway = [p \in Slots |-> NoGateway]
    /\ newRules = [p \in Slots |-> rules]
    /\ next = [p \in Slots |-> 1]
    /\ failed = [p \in Slots |-> FALSE]
    /\ old = [p \in Slots |-> NoManager]
    /\ ops = 0

-----------------------------------------------------------------------------
(* SettingsManager.Update.                                                  *)

\* Update("gateway", ...): the new value will be decoded into a copy that shares sites.
UpdateGateway(p, g) ==
    /\ Begin(p)
    /\ newGateway' = [newGateway EXCEPT ![p] = g]
    /\ Goto(p, "lock")
    /\ UNCHANGED <<setVars, mu, dispVars, panicked, refused, newRules, next, failed, old>>

\* Update("routing", ...): decoding will start on the live rules.
UpdateRouting(p, rs) ==
    /\ Begin(p)
    /\ newRules' = [newRules EXCEPT ![p] = rs]
    /\ newGateway' = [newGateway EXCEPT ![p] = NoGateway]
    /\ next' = [next EXCEPT ![p] = 1]
    /\ failed' = [failed EXCEPT ![p] = FALSE]
    /\ Goto(p, "lock")
    /\ UNCHANGED <<setVars, mu, dispVars, panicked, refused, old>>

Lock(p) ==
    /\ pc[p] = "lock" /\ mu = Nobody
    /\ mu' = p
    /\ Goto(p, IF newGateway[p] = NoGateway THEN "unmarshal" ELSE "decode")
    /\ UNCHANGED <<setVars, dispVars, panicked, refused, newGateway, newRules, next, failed, old,
                   ops>>

\* The module an update is for.
Key(p) == IF newGateway[p] = NoGateway THEN "routing" ELSE "gateway"

\* An error is returned to the client, and mu released; or kept.
Refuse_Locked(p) == Goto(p, "idle") /\ UNCHANGED <<mu, refused>>
Refuse(p) == /\ Goto(p, "idle")
             /\ mu' = Nobody
             /\ refused' = refused \cup {Key(p)}

\* The sticky rules of the update, if it has any, are written over the ones in use, all
\* or, before a field of the wrong type makes Unmarshal fail, some of them.
DecodeGateway(p) ==
    /\ pc[p] = "decode"
    /\ sites' \in Sites
    /\ \/ Goto(p, "persist") /\ UNCHANGED <<mu, refused>>
       \/ FilesFail /\ Refuse(p)
    /\ UNCHANGED <<gateway, rules, disk, dispVars, panicked, newGateway, newRules, next, failed,
                   old, ops>>

\* One rule is decoded into the object at its index; a field of the wrong type
\* leaves that object as it is and makes Unmarshal fail in the end.
Unmarshal(p) ==
    /\ pc[p] = "unmarshal" /\ next[p] \in Index
    /\ \/ /\ rules' = [rules EXCEPT ![next[p]] = newRules[p][next[p]]]
          /\ UNCHANGED failed
       \/ /\ FilesFail
          /\ failed' = [failed EXCEPT ![p] = TRUE]
          /\ UNCHANGED rules
    /\ next' = [next EXCEPT ![p] = @ + 1]
    /\ UNCHANGED <<gateway, sites, disk, mu, dispVars, panicked, refused, pc, newGateway, newRules, old,
                   ops>>

UnmarshalDone(p) ==
    /\ pc[p] = "unmarshal" /\ next[p] \notin Index
    /\ IF failed[p] THEN Refuse(p) ELSE Goto(p, "persist") /\ UNCHANGED <<mu, refused>>
    /\ UNCHANGED <<setVars, dispVars, panicked, newGateway, newRules, next, failed, old, ops>>

\* The gateway settings after the update of p.
GatewayAfter(p) == IF newGateway[p] = NoGateway THEN gateway ELSE newGateway[p]

\* What persist writes: the new settings; the ones still in force.
Persisted_Old(p) == [gateway |-> gateway, sites |-> sites, rules |-> rules]
Persisted(p) == [gateway |-> GatewayAfter(p), sites |-> sites, rules |-> rules]

\* persist: os.WriteFile opens the file and truncates it ...
Persist(p) ==
    /\ pc[p] = "persist"
    /\ \/ disk' = Torn /\ Goto(p, "write") /\ UNCHANGED <<mu, refused>>
       \/ FilesFail /\ Refuse(p) /\ UNCHANGED disk
    /\ UNCHANGED <<gateway, sites, rules, dispVars, panicked, newGateway, newRules, next, failed,
                   old, ops>>

\* ... and writes it, all of it or not.
PersistWrite(p) ==
    /\ pc[p] = "write"
    /\ \/ disk' = Persisted(p) /\ Goto(p, "store") /\ UNCHANGED <<mu, refused>>
       \/ FilesFail /\ Refuse(p) /\ UNCHANGED disk
    /\ UNCHANGED <<gateway, sites, rules, dispVars, panicked, newGateway, newRules, next, failed,
                   old, ops>>

\* What the subscriber does, by moduleKey; without the switch.
Notified_Gateway(p) == "stopcheck"
Notified(p) == IF newGateway[p] = NoGateway THEN "rebuild" ELSE "stopcheck"

\* The pointer is replaced and "go sm.notify" started.
Store(p) ==
    /\ pc[p] = "store"
    /\ gateway' = GatewayAfter(p)
    /\ refused' = refused \ {Key(p)}
    /\ mu' = Nobody
    /\ Goto(p, Notified(p))
    /\ UNCHANGED <<sites, rules, disk, dispVars, panicked, newGateway, newRules, next, failed, old,
                   ops>>

-----------------------------------------------------------------------------
(* Dispatcher.OnSettingsUpdate, in the goroutine of the slot.               *)

\* updateRoutingTables, under strategyMutex: zone and rules as they are now.
Rebuild(p) ==
    /\ pc[p] = "rebuild"
    /\ table' = Resolve(rules, zone)
    /\ Goto(p, "idle")
    /\ UNCHANGED <<setVars, mu, zone, sticky, managerVars, balancer, panicked, refused,
                   newGateway, newRules, next, failed, old, ops>>

\* AppServer publishes a B zone and starts a rebuild in the background; or does not.
AfterPublish_Nothing == "idle"
AfterPublish == "rebuild"

Publish(p, z) ==
    /\ Begin(p)
    /\ zone' = z
    /\ Goto(p, AfterPublish)
    /\ UNCHANGED <<setVars, mu, table, sticky, managerVars, balancer, panicked, refused,
                   newGateway, newRules, next, failed, old>>

\* StickyManager.Stop, if its sessions are on, looks whether the channel is closed ...
StopCheck(p) ==
    /\ pc[p] = "stopcheck"
    /\ old' = [old EXCEPT ![p] = sticky]
    /\ Goto(p, IF made[sticky] \notin Enabled \/ sticky \in stopped THEN "start" ELSE "stopclose")
    /\ UNCHANGED <<setVars, mu, dispVars, panicked, refused, newGateway, newRules, next, failed,
                   ops>>

\* ... and closes it; closing a closed channel panics.
StopClose(p) ==
    /\ pc[p] = "stopclose"
    /\ IF old[p] \in stopped
       THEN panicked' = TRUE /\ UNCHANGED <<stopped, cleaning>>
       ELSE /\ stopped' = stopped \cup {old[p]}
            /\ cleaning' = cleaning \ {old[p]}
            /\ UNCHANGED panicked
    /\ Goto(p, "start")
    /\ UNCHANGED <<setVars, mu, zone, table, sticky, made, balancer, refused, newGateway,
                   newRules, next, failed, old, ops>>

\* NewStickyManager and Start, then the swap of the atomic.Value.
StartManager(p) ==
    /\ pc[p] = "start"
    /\ \E m \in Managers :
         /\ FreshManager(m)
         /\ made' = [made EXCEPT ![m] = newGateway[p]]
         /\ stopped' = stopped \ {m}
         /\ cleaning' = cleaning \cup Cleaners(m, newGateway[p])
         /\ old' = [old EXCEPT ![p] = m]
    /\ Goto(p, "swap")
    /\ UNCHANGED <<setVars, mu, zone, table, sticky, balancer, panicked, refused, newGateway,
                   newRules, next, failed, ops>>

SwapManager(p) ==
    /\ pc[p] = "swap"
    /\ sticky' = old[p]
    /\ old' = [old EXCEPT ![p] = NoManager]
    /\ Goto(p, "balancer")
    /\ UNCHANGED <<setVars, mu, zone, table, managerVars, balancer, panicked, refused, newGateway,
                   newRules, next, failed, ops>>

\* updateLoadBalancer: atomic.Value.Store panics on a value of another concrete type.
UpdateLoadBalancer(p) ==
    /\ pc[p] = "balancer"
    /\ panicked' = (balancer # Balancer[newGateway[p]])
    /\ Goto(p, "idle")
    /\ UNCHANGED <<setVars, mu, dispVars, refused, newGateway, newRules, next, failed, old, ops>>

\* A new process: New, bootstrap and Run up to the first routing table.  It does not
\* come up on a settings.json that cannot be parsed.
Restart ==
    /\ panicked /\ disk # Torn
    /\ panicked' = FALSE /\ refused' = {}
    /\ gateway' = disk.gateway /\ sites' = disk.sites /\ rules' = disk.rules
    /\ UNCHANGED disk
    /\ mu' = Nobody
    /\ UNCHANGED zone /\ table' = Resolve(disk.rules, zone)
    /\ \E m \in Managers :
         /\ sticky' = m
         /\ made' = [n \in Managers |-> IF n = m THEN disk.gateway ELSE NoGateway]
         /\ stopped' = {} /\ cleaning' = Cleaners(m, disk.gateway)
    /\ balancer' = Balancer[disk.gateway]
    /\ pc' = [p \in Slots |-> "idle"]
    /\ newGateway' = [p \in Slots |-> NoGateway]
    /\ newRules' = [p \in Slots |-> disk.rules]
    /\ next' = [p \in Slots |-> 1]
    /\ failed' = [p \in Slots |-> FALSE]
    /\ old' = [p \in Slots |-> NoManager]
    /\ UNCHANGED ops

-----------------------------------------------------------------------------
Step(p) == /\ ~panicked
           /\ \/ Lock(p) \/ DecodeGateway(p) \/ Unmarshal(p) \/ UnmarshalDone(p)
              \/ Persist(p) \/ PersistWrite(p) \/ Store(p) \/ Rebuild(p) \/ StopCheck(p)
              \/ StopClose(p) \/ StartManager(p) \/ SwapManager(p) \/ UpdateLoadBalancer(p)

Request(p) == \/ \E g \in Gateways : UpdateGateway(p, g)
              \/ \E rs \in RuleLists : UpdateRouting(p, rs)
              \/ \E z \in SUBSET Rules : Publish(p, z)

Next == (\E p \in Slots : Step(p) \/ Request(p)) \/ Restart

\* Goroutines that can run do run; a supervisor restarts a dead process.
Spec == Init /\ [][Next]_vars /\ WF_vars(Restart) /\ \A p \in Slots : WF_vars(Step(p))

-----------------------------------------------------------------------------
(* Properties.                                                              *)

\* The variables keep their types; the StickyManager in use is always one that
\* was built from gateway settings (OnSettingsUpdate's switch on moduleKey).
TypeOK ==
    /\ gateway \in Gateways /\ sites \in Sites /\ rules \in RuleLists
    /\ disk \in Stored \cup {Torn}
    /\ mu \in Slots \cup {Nobody}
    /\ zone \in SUBSET Rules
    /\ table \in [Index -> Rules \cup {NoRule}]
    /\ sticky \in Managers
    /\ made \in [Managers -> Gateways \cup {NoGateway}]
    /\ made[sticky] \in Gateways
    /\ stopped \in SUBSET Managers /\ cleaning \in SUBSET Managers
    /\ balancer \in Kinds
    /\ panicked \in BOOLEAN /\ refused \in SUBSET {"gateway", "routing"}
    /\ pc \in [Slots -> {"idle", "lock", "decode", "unmarshal", "persist", "write", "store", "rebuild",
                         "stopcheck", "stopclose", "start", "swap", "balancer"}]
    /\ newGateway \in [Slots -> Gateways \cup {NoGateway}]
    /\ newRules \in [Slots -> RuleLists]
    /\ next \in [Slots -> 1..(NRules + 1)]
    /\ failed \in [Slots -> BOOLEAN]
    /\ old \in [Slots -> Managers \cup {NoManager}]
    /\ ops \in Nat

Quiescent == ~panicked /\ \A p \in Slots : pc[p] = "idle"

\* When updates and publications have settled, the routing table is the one of
\* the current rules and the current B zone, in whatever order the background
\* rebuilds ran (updateRoutingTables reads both under strategyMutex).  A refused
\* routing update leaves live rules without a rebuild, until the next one succeeds.
RoutingApplied == Quiescent /\ "routing" \notin refused => table = Resolve(rules, zone)

\* When updates have settled, settings.json holds the settings in force, also after a
\* panic and a restart (SettingsManager.Update persists before it stores).  A refused
\* update changes no setting of another module and none of the gateway's scalars; but it
\* may have been decoded over the sticky rules or the routing rules in use, and a failed
\* write may leave a torn file, both until an update of the same module is accepted.
DiskMatches ==
    Quiescent =>
        /\ refused = {} => disk # Torn
        /\ disk # Torn => /\ disk.gateway = gateway
                          /\ "gateway" \notin refused => disk.sites = sites
                          /\ "routing" \notin refused => disk.rules = rules

\* No settings update brings the process down.
NoPanic == ~panicked

\* The process is gone and cannot start again: it died with the file truncated, or after
\* a failed write.
Dead == panicked /\ disk = Torn

\* An accepted or refused update ends, and its background work with it, unless a panic
\* meets a settings.json from which no new process starts (NewSettingsManager).
UpdatesEnd == \A p \in Slots : pc[p] # "idle" ~> pc[p] = "idle" \/ Dead

=============================================================================
