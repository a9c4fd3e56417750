----------------------------- MODULE Dispatcher -----------------------------
(***************************************************************************)
(* Routing decisions: internal/core/dispatcher.  Dispatch takes a copy of  *)
(* the B zone, walks the routing table, asks the sticky cache and at last  *)
(* the load balancer.  Each of these is a step of its own; publications,   *)
(* table rebuilds, expiry, cleanup and other connections run in between.   *)
(* A copy of the zone is not frozen: its Profile pointers are shared, so   *)
(* Profile.Active is what it is at the moment it is read.                  *)
(*                                                                         *)
(* A connection is identified by its sticky key (client IP, target host).  *)
(* Which rules match a key, and which keys have sticky sessions, are       *)
(* constants.  An address stands for the listener of one instance.         *)
(***************************************************************************)
EXTENDS Naturals, FiniteSets, Sequences

CONSTANTS
    Servers,        \* server ids ...
    Order,          \* ... and the place of each in sort.Strings order
    Profiles,       \* addresses of ServerProfile objects
    Addrs,          \* listener addresses of instances
    Published,      \* the zones that ReloadStrategy may publish
    Callers,        \* connections being dispatched
    Keys,           \* (client IP, target host)
    StickyKeys,     \* keys whose host the sticky mode and rules select
    Rules,          \* rules of the routing settings ...
    Hits,           \* ... the keys each one matches,
    Priority,       \* ... its priority (the lower the earlier),
    Named,          \* ... and its target: servers with that remark, or a virtual one
    Direct, Reject, \* the virtual targets
    Strategy,       \* "least_connections" or "round_robin"
    Loads,          \* values of Metrics.ActiveConnections
    CounterMod,     \* the round robin counter wraps here (2^32 in the code)
    TTL,            \* lifetime of a sticky record; 0 switches the sessions off
    MaxTime,        \* bound: the clock stops here
    MaxDispatches, MaxPublications, MaxFlips,   \* bounds on a behaviour ...
    MaxChanges,     \* ... and on publications and flips together
    RecordIds,      \* addresses of StickyRecord objects
    NoAddr, NoRecord, NoServer

Virtual == {Direct, Reject}

ASSUME DispatcherAssumption ==
    /\ IsFiniteSet(Servers) /\ IsFiniteSet(Rules)
    /\ Order \in [Servers -> Nat] /\ \A s, t \in Servers : Order[s] = Order[t] => s = t
    /\ StickyKeys \subseteq Keys
    /\ Hits \in [Rules -> SUBSET Keys] /\ Priority \in [Rules -> Nat]
    /\ Named \in [Rules -> SUBSET Servers \cup {{Direct}, {Reject}}]
    /\ Strategy \in {"least_connections", "round_robin"}
    /\ Loads \subseteq Nat
    /\ CounterMod \in Nat \ {0} /\ TTL \in Nat /\ MaxTime \in Nat
    /\ MaxDispatches \in Nat /\ MaxPublications \in Nat /\ MaxFlips \in Nat /\ MaxChanges \in Nat
    /\ NoAddr \notin Addrs /\ NoRecord \notin RecordIds
    /\ ({NoServer} \cup Virtual) \cap Servers = {}

ServerState == [profile : Profiles, up : BOOLEAN, addr : Addrs \cup {NoAddr}, load : Loads]

\* Two servers never have the same Profile object.
Zones == {z \in UNION {[S -> ServerState] : S \in SUBSET Servers} :
            \A s, t \in DOMAIN z : z[s].profile = z[t].profile => s = t}

ASSUME PublishedAssumption == Published \subseteq Zones

VARIABLES
    work,        \* the published B zone
    active,      \* Profile.Active
    stale,       \* a publication's table rebuild has not run yet
    table,       \* sortedRules
    cache,       \* the sticky cache: a record object per key
    heap,        \* the StickyRecord objects, renewed in place
    counter,     \* RoundRobinBalancer.next
    now,         \* the clock
    sweep,       \* keys the running cleanup has found expired and will delete
    pc, key, snap, rules, pos, record, result,   \* locals of a dispatch
    seen, steady,   \* history: profiles active at some time, all the time, of a dispatch
    had,            \* history: the addresses servers have had in a published zone
    fresh,          \* history: table and zone were in step all through a dispatch
    dispatches, publications, flips              \* work done so far, for the bounds

localVars == <<pc, key, snap, rules, pos, record, result>>
boundVars == <<dispatches, publications, flips>>
history == <<seen, steady, had, fresh>>
vars == <<work, active, stale, table, cache, heap, counter, now, sweep, localVars, history,
          boundVars>>

-----------------------------------------------------------------------------
(* The decision, as operators on a copy z of the B zone.                    *)

Usable(z, s) == s \in DOMAIN z /\ active[z[s].profile] /\ z[s].up
UsableSet(z) == {s \in DOMAIN z : Usable(z, s)}

\* updateRoutingTables finds a server that has the remark, if there is one, and
\* keeps the rule only if that server is usable and running.
Entries(z, r) ==
    IF Named[r] \subseteq Virtual
    THEN {[rule |-> r, server |-> v, addr |-> NoAddr] : v \in Named[r]}
    ELSE {[rule |-> r, server |-> s, addr |-> z[s].addr] :
            s \in {t \in Named[r] \cap UsableSet(z) : z[t].addr # NoAddr}}

\* It may be left out: there is none, or a namesake that is not usable came first.
MayDrop(z, r) == \/ Named[r] \cap (DOMAIN z \cup Virtual) = {}
                 \/ \E s \in Named[r] \cap DOMAIN z : ~Usable(z, s) \/ z[s].addr = NoAddr

\* The order sort.Slice may produce: by priority, ties in any order; unsorted.
Sorted_Unordered(q) == TRUE
Sorted(q) == \A i, j \in DOMAIN q : i < j => Priority[q[i].rule] <= Priority[q[j].rule]

\* The tables a rebuild may produce, from the rules of the settings.
Tables(z) ==
    UNION {{q \in [1..Cardinality(R) -> UNION {Entries(z, r) : r \in R}] :
              /\ \A i, j \in DOMAIN q : q[i].rule = q[j].rule => i = j
              /\ Sorted(q)} :
           R \in {R \in SUBSET Rules : /\ \A r \in Rules \ R : MayDrop(z, r)
                                       /\ \A r \in R : Entries(z, r) # {}}}

\* A matched rule is taken if it is virtual or its server is usable; or always.
Takes_AnyServer(z, e) == TRUE
Takes(z, e) == e.server \in Virtual \/ Usable(z, e.server)

\* LeastConnectionsBalancer.Select, for any iteration order of the map: it
\* passes over a server without an instance, or not.
Running_Any(z) == UsableSet(z)
Running(z) == {s \in UsableSet(z) : z[s].addr # NoAddr}
LeastLoaded(z) == {s \in Running(z) : \A t \in Running(z) : z[s].load <= z[t].load}

\* RoundRobinBalancer.Select: the n-th usable id in sorted order.
RoundRobin(z, n) ==
    LET ok == UsableSet(z)
        rank(s) == Cardinality({t \in ok : Order[t] < Order[s]})
    IN {s \in ok : rank(s) = n % Cardinality(ok)}

Sticky(k) == TTL > 0 /\ k \in StickyKeys          \* ShouldApply

-----------------------------------------------------------------------------
Goto(p, l) == pc' = [pc EXCEPT ![p] = l]

Finish(p, s, a, how) ==
    /\ result' = [result EXCEPT ![p] = [server |-> s, addr |-> a, how |-> how]]
    /\ Goto(p, "done")

NoResult == [server |-> NoServer, addr |-> NoAddr, how |-> "none"]

Busy(p) == pc[p] \notin {"idle", "done"}

Init ==
    /\ work = [s \in {} |-> NoResult]
    /\ active \in [Profiles -> BOOLEAN]
    /\ stale = FALSE
    /\ table \in Tables(work)
    /\ cache = [k \in Keys |-> NoRecord]
    /\ heap = [o \in RecordIds |-> NoRecord]
    /\ counter = 0 /\ now = 0 /\ sweep = {}
    /\ pc = [p \in Callers |-> "idle"]
    /\ key \in [Callers -> Keys]
    /\ snap = [p \in Callers |-> work]
    /\ rules = [p \in Callers |-> << >>]
    /\ pos = [p \in Callers |-> 1]
    /\ record = [p \in Callers |-> NoRecord]
    /\ result = [p \in Callers |-> NoResult]
    /\ seen = [p \in Callers |-> {}] /\ steady = [p \in Callers |-> {}]
    /\ had = {} /\ fresh = [p \in Callers |-> FALSE]
    /\ dispatches = 0 /\ publications = 0 /\ flips = 0

\* GetServerStates hands out a copy of the B zone.
DispatchStart(p, k) ==
    /\ ~Busy(p)
    /\ dispatches < MaxDispatches /\ dispatches' = dispatches + 1
    /\ key' = [key EXCEPT ![p] = k]
    /\ snap' = [snap EXCEPT ![p] = work]
    /\ result' = [result EXCEPT ![p] = NoResult]
    /\ LET on == {q \in Profiles : active[q]} IN
         seen' = [seen EXCEPT ![p] = on] /\ steady' = [steady EXCEPT ![p] = on]
    /\ fresh' = [fresh EXCEPT ![p] = ~stale]
    /\ Goto(p, "rules")
    /\ UNCHANGED <<work, active, stale, table, cache, heap, counter, now, sweep, rules, pos,
                   record, had, publications, flips>>

\* The rule list is read under strategyMutex ...
DispatchRules(p) ==
    /\ pc[p] = "rules"
    /\ rules' = [rules EXCEPT ![p] = table]
    /\ pos' = [pos EXCEPT ![p] = 1]
    /\ Goto(p, "walk")
    /\ UNCHANGED <<work, active, stale, table, cache, heap, counter, now, sweep, key, snap,
                   record, result, history, boundVars>>

\* ... and walked in order; matching a rule may take a DNS lookup.
DispatchWalk(p) ==
    /\ pc[p] = "walk"
    /\ IF pos[p] > Len(rules[p])
       THEN Goto(p, "sticky") /\ UNCHANGED <<pos, result>>
       ELSE LET e == rules[p][pos[p]] IN
              IF key[p] \in Hits[e.rule] /\ Takes(snap[p], e)
              THEN Finish(p, e.server, e.addr, "rule") /\ UNCHANGED pos
              ELSE pos' = [pos EXCEPT ![p] = @ + 1] /\ UNCHANGED <<pc, result>>
    /\ UNCHANGED <<work, active, stale, table, cache, heap, counter, now, sweep, key, snap,
                   rules, record, history, boundVars>>

\* StickyManager.Get: the record is loaded ...
StickyLoad(p) ==
    /\ pc[p] = "sticky"
    /\ IF Sticky(key[p]) /\ cache[key[p]] # NoRecord
       THEN record' = [record EXCEPT ![p] = cache[key[p]]] /\ Goto(p, "check")
       ELSE UNCHANGED record /\ Goto(p, "balance")
    /\ UNCHANGED <<work, active, stale, table, cache, heap, counter, now, sweep, key, snap,
                   rules, pos, result, history, boundVars>>

\* A record still good for the copy of the zone; good whatever the zone says.
Valid_AnyHealth(p) == now <= heap[record[p]].expiry
Valid(p) == now <= heap[record[p]].expiry /\ Usable(snap[p], heap[record[p]].server)

\* The expiry of a record made or renewed now; one that outlives its TTL.
Expiry_Double == now + 2 * TTL
Expiry == now + TTL

\* ... and judged: expired or unusable, the key is deleted, whatever record it
\* has by now; else the record, cached still or not, is renewed and used, unless
\* its server has no instance.
StickyCheck(p) ==
    /\ pc[p] = "check"
    /\ LET s == heap[record[p]].server IN
         IF Valid(p)
         THEN /\ heap' = [heap EXCEPT ![record[p]].expiry = Expiry]
              /\ IF s \in DOMAIN snap[p] /\ snap[p][s].addr # NoAddr
                 THEN Finish(p, s, snap[p][s].addr, "sticky")
                 ELSE Goto(p, "balance") /\ UNCHANGED result
              /\ UNCHANGED cache
         ELSE /\ cache' = [cache EXCEPT ![key[p]] = NoRecord]
              /\ Goto(p, "balance") /\ UNCHANGED <<result, heap>>
    /\ record' = [record EXCEPT ![p] = NoRecord]
    /\ UNCHANGED <<work, active, stale, table, counter, now, sweep, key, snap, rules, pos,
                   history, boundVars>>

\* GetBackendForLoadBalancing.  The round robin advances only when it has a choice.
Candidates(p) ==
    IF Strategy = "round_robin" THEN RoundRobin(snap[p], counter) ELSE LeastLoaded(snap[p])

Balance(p) ==
    /\ pc[p] = "balance"
    /\ counter' = IF Strategy = "round_robin" /\ UsableSet(snap[p]) # {}
                  THEN (counter + 1) % CounterMod ELSE counter
    /\ \/ /\ Candidates(p) = {}
          /\ Finish(p, NoServer, NoAddr, "error")
       \/ \E s \in Candidates(p) :
            IF snap[p][s].addr = NoAddr
            THEN Finish(p, NoServer, NoAddr, "error")
            ELSE /\ result' = [result EXCEPT ![p] = [server |-> s, addr |-> snap[p][s].addr,
                                                     how |-> "balance"]]
                 /\ Goto(p, IF Sticky(key[p]) THEN "remember" ELSE "done")
    /\ UNCHANGED <<work, active, stale, table, cache, heap, now, sweep, key, snap, rules, pos,
                   record, history, boundVars>>

StickySet(p) ==
    /\ pc[p] = "remember"
    /\ \E o \in RecordIds :
         /\ \A k \in Keys : cache[k] # o
         /\ \A q \in Callers : record[q] # o
         /\ cache' = [cache EXCEPT ![key[p]] = o]
         /\ heap' = [heap EXCEPT ![o] = [server |-> result[p].server, expiry |-> Expiry]]
    /\ Goto(p, "done")
    /\ UNCHANGED <<work, active, stale, table, counter, now, sweep, key, snap, rules, pos,
                   record, result, history, boundVars>>

-----------------------------------------------------------------------------
(* The environment of a dispatch.                                           *)

\* The servers of z that run, each with its address.
Addresses(z) == {<<s, z[s].addr>> : s \in {t \in DOMAIN z : z[t].addr # NoAddr}}

\* ReloadStrategy publishes a zone; a goroutine will rebuild the table.
Publish(z) ==
    /\ publications < MaxPublications /\ publications + flips < MaxChanges
    /\ publications' = publications + 1
    /\ work' = z
    /\ stale' = TRUE
    /\ had' = had \cup Addresses(z)
    /\ fresh' = [p \in Callers |-> FALSE]
    /\ UNCHANGED <<active, table, cache, heap, counter, now, sweep, localVars, seen, steady,
                   dispatches, flips>>

\* UpdateServerActiveState sets the flag that every copy of the zone shares.
Flip(q) ==
    /\ flips < MaxFlips /\ publications + flips < MaxChanges
    /\ flips' = flips + 1
    /\ active' = [active EXCEPT ![q] = ~@]
    /\ seen' = [p \in Callers |-> IF Busy(p) /\ active'[q] THEN seen[p] \cup {q} ELSE seen[p]]
    /\ steady' = [p \in Callers |-> IF Busy(p) THEN steady[p] \ {q} ELSE steady[p]]
    /\ UNCHANGED <<work, stale, table, cache, heap, counter, now, sweep, localVars, had, fresh,
                   dispatches, publications>>

Rebuild ==
    /\ stale
    /\ table' \in Tables(work)
    /\ stale' = FALSE
    /\ UNCHANGED <<work, active, cache, heap, counter, now, sweep, localVars, history,
                   boundVars>>

Tick ==
    /\ now < MaxTime
    /\ now' = now + 1
    /\ UNCHANGED <<work, active, stale, table, cache, heap, counter, sweep, localVars, history,
                   boundVars>>

\* The cleanup goroutine: Range finds an expired record and deletes its key.
CleanupFind(k) ==
    /\ k \notin sweep /\ cache[k] # NoRecord /\ now > heap[cache[k]].expiry
    /\ sweep' = sweep \cup {k}
    /\ UNCHANGED <<work, active, stale, table, cache, heap, counter, now, localVars, history,
                   boundVars>>

CleanupDelete(k) ==
    /\ k \in sweep
    /\ sweep' = sweep \ {k}
    /\ cache' = [cache EXCEPT ![k] = NoRecord]
    /\ UNCHANGED <<work, active, stale, table, heap, counter, now, localVars, history,
                   boundVars>>

Dispatch(p) == \/ DispatchRules(p) \/ DispatchWalk(p) \/ StickyLoad(p) \/ StickyCheck(p)
               \/ Balance(p) \/ StickySet(p)

Next ==
    \/ \E p \in Callers : Dispatch(p) \/ \E k \in Keys : DispatchStart(p, k)
    \/ \E z \in Published : Publish(z)
    \/ \E q \in Profiles : Flip(q)
    \/ Rebuild \/ Tick
    \/ \E k \in Keys : CleanupFind(k) \/ CleanupDelete(k)

Spec == Init /\ [][Next]_vars

-----------------------------------------------------------------------------
(* Properties.                                                              *)

\* The variables keep their types; a sticky record never outlives its TTL
\* (Set and Get compute the expiry from the clock).
TypeOK ==
    /\ work \in Zones /\ active \in [Profiles -> BOOLEAN] /\ stale \in BOOLEAN
    /\ \A i \in DOMAIN table : table[i].rule \in Rules
    /\ cache \in [Keys -> RecordIds \cup {NoRecord}]
    /\ \A o \in RecordIds : heap[o] # NoRecord =>
         heap[o].server \in Servers /\ heap[o].expiry \in 0..(now + TTL)
    /\ counter \in 0..(CounterMod - 1) /\ now \in 0..MaxTime /\ sweep \in SUBSET Keys
    /\ pc \in [Callers -> {"idle", "rules", "walk", "sticky", "check", "balance", "remember",
                           "done"}]
    /\ key \in [Callers -> Keys] /\ snap \in [Callers -> Zones]
    /\ pos \in [Callers -> Nat] /\ record \in [Callers -> RecordIds \cup {NoRecord}]
    /\ seen \in [Callers -> SUBSET Profiles] /\ steady \in [Callers -> SUBSET Profiles]
    /\ had \in SUBSET (Servers \X Addrs) /\ fresh \in [Callers -> BOOLEAN]

Done(p, how) == pc[p] = "done" /\ result[p].how = how

\* Server s was up in the copy of the zone and active some time, or all the
\* time, while p was dispatched.
Sometimes(p, s) == s \in DOMAIN snap[p] /\ snap[p][s].up /\ snap[p][s].profile \in seen[p]
Throughout(p, s) == s \in DOMAIN snap[p] /\ snap[p][s].up /\ snap[p][s].profile \in steady[p]

\* Dispatch sends a connection only to a server that was up, in the copy of the zone it
\* took, and active at some time since, whichever way it was chosen and however old the
\* routing table and the sticky record were; and to the address that server has in the
\* copy.  Only a rule may send it to another one, while a publication waits for the
\* rebuild of the table: to an address the same server had in an earlier zone.
RouteUsable ==
    \A p \in Callers : pc[p] = "done" /\ result[p].server \in Servers =>
        LET s == result[p].server IN
          /\ Sometimes(p, s)
          /\ <<s, result[p].addr>> \in had
          /\ (result[p].how # "rule" \/ fresh[p]) => result[p].addr = snap[p][s].addr

\* Dispatch puts the rules first, in priority order: a connection never leaves
\* by a rule, or past all of them, if a rule of lower priority value matched and
\* its target was virtual or usable all the time.
RulesFirst ==
    \A p \in Callers :
        LET good == {i \in DOMAIN rules[p] :
                       /\ key[p] \in Hits[rules[p][i].rule]
                       /\ \/ rules[p][i].server \in Virtual
                          \/ Throughout(p, rules[p][i].server)}
            used == rules[p][pos[p]].rule
        IN /\ Done(p, "rule") =>
                /\ key[p] \in Hits[used]
                /\ \A j \in good : Priority[used] <= Priority[rules[p][j].rule]
           /\ (Done(p, "sticky") \/ Done(p, "balance") \/ Done(p, "error")) => good = {}

\* Dispatch refuses a connection for want of a backend only when no server of
\* its copy of the zone is up and running and was active all the time.
ErrorOnlyWithoutBackend ==
    \A p \in Callers : Done(p, "error")
        => ~\E s \in DOMAIN snap[p] : Throughout(p, s) /\ snap[p][s].addr # NoAddr

=============================================================================
