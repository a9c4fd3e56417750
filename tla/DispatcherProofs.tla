-------------------------- MODULE DispatcherProofs --------------------------
(***************************************************************************)
(* Proofs about Dispatcher, for any number of connections, servers, rules, *)
(* keys and sticky records.  IInv is inductive; what it says of a          *)
(* connection is CallerInv, which the steps of the others keep (Frame).    *)
(***************************************************************************)
EXTENDS Dispatcher, FiniteSetTheorems, WellFoundedInduction, TLAPS

Routes == [rule : Rules, server : Servers \cup Virtual, addr : Addrs \cup {NoAddr}]
Records == [server : Servers, expiry : Nat]
Results == [server : Servers \cup Virtual \cup {NoServer}, addr : Addrs \cup {NoAddr},
            how : {"none", "rule", "sticky", "balance", "error"}]

\* A routing table: in priority order, with an address for every real server.
Routable(q) ==
    /\ q \in Seq(Routes)
    /\ Sorted(q)
    /\ \A i \in DOMAIN q : q[i].server \in Servers => q[i].addr # NoAddr

\* Shared state: the cache points at records, the table is a routing table.
DataInv ==
    /\ heap \in [RecordIds -> Records \cup {NoRecord}]
    /\ \A k \in Keys : cache[k] \in RecordIds => heap[cache[k]] \in Records
    /\ Routable(table)
    /\ rules \in [Callers -> Seq(Routes)]
    /\ result \in [Callers -> Results]

\* The history of a running dispatch brackets the flags of the moment.
FlagInv(p) ==
    Busy(p) => \A q \in Profiles : /\ active[q] => q \in seen[p]
                                   /\ q \in steady[p] => active[q]

\* A rule that matched and whose target was virtual or usable throughout.
Good(p, i) ==
    /\ key[p] \in Hits[rules[p][i].rule]
    /\ rules[p][i].server \in Virtual \/ Throughout(p, rules[p][i].server)

\* The walk passes over no such rule.
WalkInv(p) ==
    /\ Routable(rules[p])
    /\ pc[p] = "walk" =>
         pos[p] # 0 /\ \A i \in DOMAIN rules[p] : i < pos[p] => ~ Good(p, i)
    /\ Done(p, "rule") =>
         /\ pos[p] \in DOMAIN rules[p]
         /\ key[p] \in Hits[rules[p][pos[p]].rule]
         /\ \A i \in DOMAIN rules[p] : i < pos[p] => ~ Good(p, i)
    /\ \/ pc[p] \in {"sticky", "check", "balance", "remember"}
       \/ pc[p] = "done" /\ result[p].how # "rule"
       => \A i \in DOMAIN rules[p] : ~ Good(p, i)

\* A loaded record is an object that was made.
RecordInv(p) == pc[p] = "check" => record[p] \in RecordIds /\ heap[record[p]] \in Records

\* What has been decided; a decision of the balancer may still be remembered.
ResultInv(p) ==
    /\ pc[p] = "remember" => result[p].server \in Servers /\ result[p].how = "balance"
    /\ pc[p] \in {"remember", "done"} /\ result[p].server \in Servers =>
         Sometimes(p, result[p].server) /\ result[p].addr # NoAddr
    /\ Strategy = "least_connections" /\ Done(p, "error") =>
         ~\E s \in DOMAIN snap[p] : Throughout(p, s) /\ snap[p][s].addr # NoAddr

CallerInv(p) == FlagInv(p) /\ WalkInv(p) /\ RecordInv(p) /\ ResultInv(p)

IInv == TypeOK /\ DataInv /\ \A p \in Callers : CallerInv(p)

-----------------------------------------------------------------------------
(* Facts about the operators.                                               *)

\* What a zone is.
LEMMA ZoneType ==
    ASSUME NEW z \in Zones
    PROVE  DOMAIN z \subseteq Servers /\ \A s \in DOMAIN z : z[s] \in ServerState
BY DEF Zones

\* The B zone is empty before the first publication.
LEMMA EmptyZone == [s \in {} |-> NoResult] \in Zones
<1>1. [s \in {} |-> NoResult] \in [{} -> ServerState]
  OBVIOUS
<1>2. [s \in {} |-> NoResult] \in UNION {[S -> ServerState] : S \in SUBSET Servers}
  BY <1>1
<1> QED
  BY <1>2 DEF Zones

\* Every entry updateRoutingTables makes is a route with an address, or a virtual one.
LEMMA EntryType ==
    ASSUME NEW z \in Zones, NEW r \in Rules, NEW e \in Entries(z, r)
    PROVE  e \in Routes /\ (e.server \in Servers => e.addr # NoAddr)
<1> USE DispatcherAssumption
<1>1. CASE Named[r] \subseteq Virtual
  <2>1. PICK v \in Named[r] : e = [rule |-> r, server |-> v, addr |-> NoAddr]
    BY <1>1 DEF Entries
  <2> QED
    BY <1>1, <2>1 DEF Routes
<1>2. CASE ~ (Named[r] \subseteq Virtual)
  <2>1. PICK s \in Named[r] \cap UsableSet(z) :
           z[s].addr # NoAddr /\ e = [rule |-> r, server |-> s, addr |-> z[s].addr]
    BY <1>2 DEF Entries
  <2>2. s \in DOMAIN z /\ s \in Servers /\ z[s] \in ServerState
    BY <2>1, ZoneType DEF UsableSet
  <2>3. z[s].addr \in Addrs \cup {NoAddr}
    BY <2>2 DEF ServerState
  <2> QED
    BY <2>1, <2>2, <2>3 DEF Routes
<1> QED
  BY <1>1, <1>2

\* Whatever zone it is built from, the table is in priority order and has an address for
\* every server (updateRoutingTables' sort.Slice, and its test of the instance).
LEMMA TableType ==
    ASSUME NEW z \in Zones, NEW q \in Tables(z)
    PROVE  Routable(q)
<1>1. PICK R \in SUBSET Rules :
         q \in [1..Cardinality(R) -> UNION {Entries(z, r) : r \in R}] /\ Sorted(q)
  BY DEF Tables
<1>2. Cardinality(R) \in Nat
  BY DispatcherAssumption, FS_Subset, FS_CardinalityType
<1>3. \A i \in DOMAIN q : q[i] \in Routes /\ (q[i].server \in Servers => q[i].addr # NoAddr)
  <2> SUFFICES ASSUME NEW i \in DOMAIN q
               PROVE  q[i] \in Routes /\ (q[i].server \in Servers => q[i].addr # NoAddr)
    OBVIOUS
  <2>1. q[i] \in UNION {Entries(z, r) : r \in R}
    BY <1>1
  <2>2. PICK r \in R : q[i] \in Entries(z, r)
    BY <2>1
  <2> QED
    BY <2>2, EntryType
<1>4. q \in [1..Cardinality(R) -> Routes]
  BY <1>1, <1>3
<1>5. q \in Seq(Routes)
  BY <1>2, <1>4
<1> QED
  BY <1>1, <1>3, <1>5 DEF Routable

\* The entries of a table are routes.
LEMMA RouteType ==
    ASSUME NEW q, Routable(q), NEW i \in DOMAIN q
    PROVE  q[i] \in Routes /\ q[i].rule \in Rules
<1>1. q[i] \in Routes
  BY DEF Routable
<1> QED
  BY <1>1 DEF Routes

\* A set of natural numbers that is not empty has a least element.
LEMMA LeastNatural ==
    ASSUME NEW L \in SUBSET Nat, L # {}
    PROVE  \E x \in L : \A y \in L : x <= y
<1>1. PICK x \in L : \A y \in L : ~ (<<y, x>> \in OpToRel(<, Nat))
  BY NatLessThanWellFounded, WFMin
<1>2. \A y \in L : ~ (y < x)
  BY <1>1 DEF OpToRel
<1> QED
  BY <1>2

\* LeastConnectionsBalancer.Select finds a server whenever one is usable and running.
LEMMA SelectFinds ==
    ASSUME NEW z \in Zones, Running(z) # {}
    PROVE  LeastLoaded(z) # {}
<1>1. \A s \in Running(z) : z[s].load \in Nat
  BY ZoneType, DispatcherAssumption DEF Running, UsableSet, ServerState
<1> DEFINE L == {z[s].load : s \in Running(z)}
<1>2. PICK x \in L : \A y \in L : x <= y
  BY <1>1, LeastNatural
<1>3. PICK s \in Running(z) : z[s].load = x
  OBVIOUS
<1>4. \A t \in Running(z) : z[s].load <= z[t].load
  BY <1>2, <1>3
<1> QED
  BY <1>3, <1>4 DEF LeastLoaded

\* Whatever the balancer selects is usable in the copy of the zone.
LEMMA CandidatesUsable ==
    ASSUME NEW p \in Callers, NEW s \in Candidates(p)
    PROVE  Usable(snap[p], s)
BY DEF Candidates, RoundRobin, LeastLoaded, Running, UsableSet

\* While a dispatch runs, what is usable now was usable some time ...
LEMMA UsableSometimes ==
    ASSUME IInv, NEW p \in Callers, Busy(p), NEW s, Usable(snap[p], s)
    PROVE  s \in Servers /\ Sometimes(p, s)
<1>1. snap[p] \in Zones
  BY DEF IInv, TypeOK
<1>2. s \in DOMAIN snap[p] /\ snap[p][s].up /\ active[snap[p][s].profile]
  BY DEF Usable
<1>3. snap[p][s].profile \in Profiles /\ s \in Servers
  BY <1>1, <1>2, ZoneType DEF ServerState
<1> QED
  BY <1>2, <1>3 DEF IInv, CallerInv, FlagInv, Sometimes

\* ... and what was usable throughout is usable now.
LEMMA ThroughoutUsable ==
    ASSUME IInv, NEW p \in Callers, Busy(p), NEW s, Throughout(p, s)
    PROVE  Usable(snap[p], s)
<1>1. steady[p] \subseteq Profiles
  BY DEF IInv, TypeOK
<1> QED
  BY <1>1 DEF IInv, CallerInv, FlagInv, Throughout, Usable

-----------------------------------------------------------------------------
(* What the steps of others leave of a dispatch.                            *)

\* A step that leaves the locals of p alone.
SameLocals(p) ==
    /\ pc'[p] = pc[p] /\ key'[p] = key[p] /\ snap'[p] = snap[p] /\ rules'[p] = rules[p]
    /\ pos'[p] = pos[p] /\ record'[p] = record[p] /\ result'[p] = result[p]

\* An object that holds a record holds one for good.
RecordsStay == \A o \in RecordIds : heap[o] \in Records => heap'[o] \in Records

\* Flags may change under a dispatch as long as its history follows them.
LEMMA Frame ==
    ASSUME NEW p \in Callers, CallerInv(p), SameLocals(p), RecordsStay,
           seen[p] \subseteq seen'[p], steady'[p] \subseteq steady[p], FlagInv(p)'
    PROVE  CallerInv(p)'
<1> USE DEF SameLocals
<1>1. \A i : Good(p, i)' => Good(p, i)
  BY DEF Good, Throughout
<1>2. \A s : Sometimes(p, s) => Sometimes(p, s)'
  BY DEF Sometimes
<1>3. \A s : Throughout(p, s)' => Throughout(p, s)
  BY DEF Throughout
<1>4. WalkInv(p)'
  BY <1>1 DEF CallerInv, WalkInv, Routable, Sorted, Done
<1>5. RecordInv(p)'
  BY DEF CallerInv, RecordInv, RecordsStay
<1>6. ResultInv(p)'
  BY <1>2, <1>3 DEF CallerInv, ResultInv, Done
<1> QED
  BY <1>4, <1>5, <1>6 DEF CallerInv

\* In particular when nothing it sees changes.
LEMMA SameCaller ==
    ASSUME NEW p \in Callers, CallerInv(p), SameLocals(p), RecordsStay,
           seen'[p] = seen[p], steady'[p] = steady[p], active' = active
    PROVE  CallerInv(p)'
<1>1. FlagInv(p)'
  BY DEF CallerInv, FlagInv, Busy, SameLocals
<1> QED
  BY <1>1, Frame

\* A running dispatch keeps its history while the flags stay.
LEMMA SameFlags ==
    ASSUME IInv, NEW p \in Callers, Busy(p), seen'[p] = seen[p], steady'[p] = steady[p],
           active' = active
    PROVE  FlagInv(p)'
BY DEF IInv, CallerInv, FlagInv, Busy

-----------------------------------------------------------------------------
(* One lemma per action.                                                    *)

\* The process starts with an empty zone and no dispatch.
LEMMA Initially == Init => IInv
<1> SUFFICES ASSUME Init PROVE IInv
  OBVIOUS
<1> USE DispatcherAssumption DEF Init
<1>1. work \in Zones
  BY EmptyZone
<1>2. Routable(table)
  BY <1>1, TableType
<1>3. TypeOK
  <2>1. \A i \in DOMAIN table : table[i].rule \in Rules
    BY <1>2, RouteType
  <2>2. counter \in 0..(CounterMod - 1) /\ now \in 0..MaxTime
    OBVIOUS
  <2>3. pc \in [Callers -> {"idle"}] /\ pos \in [Callers -> Nat]
    OBVIOUS
  <2>4. snap \in [Callers -> Zones]
    BY <1>1
  <2> QED
    BY <1>1, <2>1, <2>2, <2>3, <2>4 DEF TypeOK
<1>4. DataInv
  <2>1. NoResult \in Results
    BY DEF NoResult, Results
  <2>2. result \in [Callers -> Results] /\ rules \in [Callers -> Seq(Routes)]
    BY <2>1
  <2> QED
    BY <1>2, <2>2 DEF DataInv
<1>5. ASSUME NEW p \in Callers PROVE CallerInv(p)
  <2>1. pc[p] = "idle" /\ rules[p] = << >>
    OBVIOUS
  <2>2. Routable(<< >>)
    BY DEF Routable, Sorted
  <2> QED
    BY <2>1, <2>2 DEF CallerInv, FlagInv, Busy, WalkInv, RecordInv, ResultInv, Done
<1> QED
  BY <1>3, <1>4, <1>5 DEF IInv

\* A dispatch starts with a copy of the zone and the flags of the moment.
LEMMA DispatchStartStep ==
    ASSUME IInv, NEW p \in Callers, NEW k \in Keys, DispatchStart(p, k) PROVE IInv'
<1> DEFINE on == {q \in Profiles : active[q]}
<1>1. /\ key' = [key EXCEPT ![p] = k]
      /\ snap' = [snap EXCEPT ![p] = work]
      /\ result' = [result EXCEPT ![p] = NoResult]
      /\ seen' = [seen EXCEPT ![p] = on] /\ steady' = [steady EXCEPT ![p] = on]
      /\ fresh' = [fresh EXCEPT ![p] = ~ stale]
      /\ pc' = [pc EXCEPT ![p] = "rules"]
      /\ UNCHANGED <<work, active, stale, table, cache, heap, counter, now, sweep, rules, pos,
                     record, had>>
  BY DEF DispatchStart, Goto
<1>2. TypeOK'
  BY <1>1 DEF IInv, TypeOK
<1>3. DataInv'
  <2>1. NoResult \in Results
    BY DEF NoResult, Results
  <2>2. result' \in [Callers -> Results]
    BY <1>1, <2>1 DEF IInv, DataInv
  <2> QED
    BY <1>1, <2>2 DEF IInv, DataInv, Routable, Sorted
<1>4. ASSUME NEW q \in Callers \ {p} PROVE CallerInv(q)'
  <2>1. SameLocals(q) /\ seen'[q] = seen[q] /\ steady'[q] = steady[q]
    BY <1>1 DEF SameLocals, IInv, TypeOK, DataInv
  <2> QED
    BY <1>1, <2>1, SameCaller DEF IInv, RecordsStay
<1>5. CallerInv(p)'
  <2>1. pc'[p] = "rules" /\ seen'[p] = on /\ steady'[p] = on /\ rules'[p] = rules[p]
    BY <1>1 DEF IInv, TypeOK
  <2>2. FlagInv(p)'
    BY <1>1, <2>1 DEF FlagInv
  <2>3. WalkInv(p)' /\ RecordInv(p)' /\ ResultInv(p)'
    BY <2>1 DEF IInv, CallerInv, WalkInv, RecordInv, ResultInv, Done, Routable, Sorted
  <2> QED
    BY <2>2, <2>3 DEF CallerInv
<1> QED
  BY <1>2, <1>3, <1>4, <1>5 DEF IInv

\* The walk begins at the head of the table of the moment.
LEMMA DispatchRulesStep == ASSUME IInv, NEW p \in Callers, DispatchRules(p) PROVE IInv'
<1>1. /\ pc[p] = "rules"
      /\ rules' = [rules EXCEPT ![p] = table]
      /\ pos' = [pos EXCEPT ![p] = 1]
      /\ pc' = [pc EXCEPT ![p] = "walk"]
      /\ UNCHANGED <<work, active, stale, table, cache, heap, counter, now, sweep, key, snap,
                     record, result, seen, steady, had, fresh>>
  BY DEF DispatchRules, Goto, history
<1>2. TypeOK'
  BY <1>1 DEF IInv, TypeOK
<1>3. DataInv'
  <2>1. rules' \in [Callers -> Seq(Routes)]
    BY <1>1 DEF IInv, DataInv, Routable
  <2> QED
    BY <1>1, <2>1 DEF IInv, DataInv, Routable, Sorted
<1>4. ASSUME NEW q \in Callers \ {p} PROVE CallerInv(q)'
  <2>1. SameLocals(q)
    BY <1>1 DEF SameLocals, IInv, TypeOK, DataInv
  <2> QED
    BY <1>1, <2>1, SameCaller DEF IInv, RecordsStay
<1>5. CallerInv(p)'
  <2>1. pc'[p] = "walk" /\ pos'[p] = 1 /\ rules'[p] = table
    BY <1>1 DEF IInv, TypeOK, DataInv
  <2>2. FlagInv(p)'
    BY <1>1, SameFlags DEF Busy
  <2>3. Routable(rules'[p])
    BY <2>1 DEF IInv, DataInv
  <2>4. \A i \in DOMAIN rules'[p] : ~ (i < 1)
    BY <2>3 DEF Routable
  <2>5. WalkInv(p)'
    BY <2>1, <2>3, <2>4 DEF WalkInv, Done, Routable, Sorted
  <2>6. RecordInv(p)' /\ ResultInv(p)'
    BY <2>1 DEF RecordInv, ResultInv, Done
  <2> QED
    BY <2>2, <2>5, <2>6 DEF CallerInv
<1> QED
  BY <1>2, <1>3, <1>4, <1>5 DEF IInv

\* A usable target throughout is a target the walk takes.
LEMMA GoodTaken ==
    ASSUME IInv, NEW p \in Callers, Busy(p), NEW i, Good(p, i)
    PROVE  key[p] \in Hits[rules[p][i].rule] /\ Takes(snap[p], rules[p][i])
BY ThroughoutUsable DEF Good, Takes

\* The walk ends at the end of the list or at a matching rule it can take.
LEMMA DispatchWalkStep == ASSUME IInv, NEW p \in Callers, DispatchWalk(p) PROVE IInv'
<1> USE DispatcherAssumption
<1>1. /\ pc[p] = "walk"
      /\ UNCHANGED <<work, active, stale, table, cache, heap, counter, now, sweep, key, snap,
                     rules, record, seen, steady, had, fresh>>
  BY DEF DispatchWalk, history
<1> DEFINE e == rules[p][pos[p]]
<1>2. Busy(p) /\ Routable(rules[p]) /\ rules[p] \in Seq(Routes) /\ pos[p] \in Nat \ {0}
      /\ key[p] \in Keys
  BY <1>1 DEF Busy, IInv, CallerInv, WalkInv, Routable, TypeOK
<1>3. \A i \in DOMAIN rules[p] : i < pos[p] => ~ Good(p, i)
  BY <1>1 DEF IInv, CallerInv, WalkInv
<1>4. FlagInv(p)'
  BY <1>1, <1>2, SameFlags
<1>5. \A i : Good(p, i)' <=> Good(p, i)
  BY <1>1 DEF Good, Throughout
<1>6. ASSUME pc' \in [Callers -> {"idle", "rules", "walk", "sticky", "check", "balance",
                                  "remember", "done"}],
             pos' \in [Callers -> Nat], result' \in [Callers -> Results],
             \A q \in Callers \ {p} : /\ pc'[q] = pc[q] /\ pos'[q] = pos[q]
                                      /\ result'[q] = result[q],
             WalkInv(p)' /\ RecordInv(p)' /\ ResultInv(p)'
      PROVE  IInv'
  <2>1. TypeOK'
    BY <1>1, <1>6 DEF IInv, TypeOK
  <2>2. DataInv'
    BY <1>1, <1>6 DEF IInv, DataInv, Routable, Sorted
  <2>3. ASSUME NEW q \in Callers \ {p} PROVE CallerInv(q)'
    <3>1. SameLocals(q)
      BY <1>1, <1>6 DEF SameLocals
    <3> QED
      BY <1>1, <3>1, SameCaller DEF IInv, RecordsStay
  <2>4. CallerInv(p)'
    BY <1>4, <1>6 DEF CallerInv
  <2> QED
    BY <2>1, <2>2, <2>3, <2>4 DEF IInv
<1>7. CASE pos[p] > Len(rules[p])
  <2>1. pc' = [pc EXCEPT ![p] = "sticky"] /\ pos' = pos /\ result' = result
    BY <1>7 DEF DispatchWalk, Goto
  <2>2. pc'[p] = "sticky"
    BY <2>1 DEF IInv, TypeOK
  <2>3. \A i \in DOMAIN rules[p] : i < pos[p]
    BY <1>2, <1>7
  <2>4. \A i \in DOMAIN rules[p] : ~ Good(p, i)
    BY <1>3, <2>3
  <2>5. WalkInv(p)'
    BY <1>1, <1>2, <1>5, <2>2, <2>4 DEF WalkInv, Done, Routable, Sorted
  <2>6. RecordInv(p)' /\ ResultInv(p)'
    BY <2>2 DEF RecordInv, ResultInv, Done
  <2> QED
    BY <1>6, <2>1, <2>5, <2>6 DEF IInv, TypeOK, DataInv
<1>8. CASE ~ (pos[p] > Len(rules[p]))
  <2>1. pos[p] \in DOMAIN rules[p]
    BY <1>2, <1>8
  <2>2. e \in Routes /\ e.rule \in Rules
    BY <1>2, <2>1, RouteType
  <2>3. CASE key[p] \in Hits[e.rule] /\ Takes(snap[p], e)
    <3>1. /\ result' = [result EXCEPT ![p] = [server |-> e.server, addr |-> e.addr,
                                              how |-> "rule"]]
          /\ pc' = [pc EXCEPT ![p] = "done"]
          /\ pos' = pos
      BY <1>8, <2>3 DEF DispatchWalk, Finish, Goto
    <3>2. [server |-> e.server, addr |-> e.addr, how |-> "rule"] \in Results
      BY <2>2 DEF Routes, Results
    <3>3. /\ result'[p] = [server |-> e.server, addr |-> e.addr, how |-> "rule"]
          /\ pc'[p] = "done"
          /\ result' \in [Callers -> Results]
      BY <3>1, <3>2 DEF IInv, TypeOK, DataInv
    <3>4. result'[p].server = e.server /\ result'[p].addr = e.addr /\ result'[p].how = "rule"
      BY <3>3
    <3>5. WalkInv(p)'
      BY <1>1, <1>2, <1>3, <1>5, <2>1, <2>3, <3>1, <3>3, <3>4 DEF WalkInv, Done, Routable, Sorted
    <3>6. RecordInv(p)'
      BY <3>3 DEF RecordInv
    <3>7. ResultInv(p)'
      <4>1. ASSUME e.server \in Servers
            PROVE  Sometimes(p, e.server) /\ e.addr # NoAddr
        <5>1. e.server \notin Virtual
          BY <4>1
        <5>2. Usable(snap[p], e.server)
          BY <2>3, <5>1 DEF Takes
        <5>3. e.addr # NoAddr
          BY <1>2, <2>1, <4>1 DEF Routable
        <5> QED
          BY <1>2, <5>2, <5>3, UsableSometimes
      <4>2. \A s : Sometimes(p, s)' <=> Sometimes(p, s)
        BY <1>1 DEF Sometimes
      <4> QED
        BY <3>3, <3>4, <4>1, <4>2 DEF ResultInv, Done
    <3> QED
      BY <1>6, <3>1, <3>3, <3>5, <3>6, <3>7 DEF IInv, TypeOK, DataInv
  <2>4. CASE ~ (key[p] \in Hits[e.rule] /\ Takes(snap[p], e))
    <3>1. pos' = [pos EXCEPT ![p] = pos[p] + 1] /\ pc' = pc /\ result' = result
      BY <1>8, <2>4 DEF DispatchWalk
    <3>2. ~ Good(p, pos[p])
      BY <1>2, <2>4, GoodTaken
    <3>3. pos'[p] = pos[p] + 1 /\ pos' \in [Callers -> Nat]
      BY <1>2, <3>1 DEF IInv, TypeOK
    <3>4. \A i \in DOMAIN rules[p] : i < pos[p] + 1 => ~ Good(p, i)
      <4>1. \A i \in DOMAIN rules[p] : i \in Nat
        BY <1>2
      <4>2. \A i \in DOMAIN rules[p] : i < pos[p] + 1 => i < pos[p] \/ i = pos[p]
        BY <1>2, <4>1
      <4> QED
        BY <1>3, <3>2, <4>2
    <3>5. WalkInv(p)'
      BY <1>1, <1>2, <1>5, <3>1, <3>3, <3>4 DEF WalkInv, Done, Routable, Sorted
    <3>6. RecordInv(p)' /\ ResultInv(p)'
      BY <1>1, <3>1 DEF RecordInv, ResultInv, Done
    <3> QED
      BY <1>6, <3>1, <3>3, <3>5, <3>6 DEF IInv, TypeOK, DataInv
  <2> QED
    BY <2>3, <2>4
<1> QED
  BY <1>7, <1>8

\* After the walk a dispatch keeps its list, its copy of the zone and its history; no rule
\* that was passed over becomes good, and the other dispatches are not concerned.
LEMMA AfterWalk ==
    ASSUME IInv, NEW p \in Callers,
           pc[p] \in {"sticky", "check", "balance", "remember"},
           pc'[p] \in {"sticky", "check", "balance", "remember", "done"},
           pc'[p] = "done" => result'[p].how # "rule",
           UNCHANGED <<active, key, snap, rules, pos, seen, steady, had, fresh>>,
           RecordsStay,
           \A q \in Callers \ {p} : /\ pc'[q] = pc[q] /\ record'[q] = record[q]
                                    /\ result'[q] = result[q],
           TypeOK', DataInv', RecordInv(p)', ResultInv(p)'
    PROVE  IInv'
<1>1. FlagInv(p)'
  BY SameFlags DEF Busy
<1>2. WalkInv(p)'
  <2>1. \A i : Good(p, i)' <=> Good(p, i)
    BY DEF Good, Throughout
  <2>2. Routable(rules[p]) /\ \A i \in DOMAIN rules[p] : ~ Good(p, i)
    BY DEF IInv, CallerInv, WalkInv
  <2> QED
    BY <2>1, <2>2 DEF WalkInv, Done, Routable, Sorted
<1>3. ASSUME NEW q \in Callers \ {p} PROVE CallerInv(q)'
  <2>1. SameLocals(q)
    BY DEF SameLocals
  <2> QED
    BY <2>1, SameCaller DEF IInv
<1> QED
  BY <1>1, <1>2, <1>3 DEF IInv, CallerInv

\* A dispatch loads the record its key has.
LEMMA StickyLoadStep == ASSUME IInv, NEW p \in Callers, StickyLoad(p) PROVE IInv'
<1> USE DispatcherAssumption
<1>1. /\ pc[p] = "sticky"
      /\ UNCHANGED <<work, active, stale, table, cache, heap, counter, now, sweep, key, snap,
                     rules, pos, result, seen, steady, had, fresh>>
  BY DEF StickyLoad, history
<1>2. RecordsStay
  BY <1>1 DEF RecordsStay
<1>3. CASE Sticky(key[p]) /\ cache[key[p]] # NoRecord
  <2>1. record' = [record EXCEPT ![p] = cache[key[p]]] /\ pc' = [pc EXCEPT ![p] = "check"]
    BY <1>3 DEF StickyLoad, Goto
  <2>2. cache[key[p]] \in RecordIds /\ heap[cache[key[p]]] \in Records
    <3>1. key[p] \in Keys
      BY DEF IInv, TypeOK
    <3>2. cache[key[p]] \in RecordIds
      BY <1>3, <3>1 DEF IInv, TypeOK
    <3> QED
      BY <3>1, <3>2 DEF IInv, DataInv
  <2>3. /\ pc'[p] = "check" /\ record'[p] = cache[key[p]]
        /\ \A q \in Callers \ {p} : pc'[q] = pc[q] /\ record'[q] = record[q]
    BY <2>1 DEF IInv, TypeOK
  <2>4. TypeOK'
    BY <1>1, <2>1, <2>2 DEF IInv, TypeOK
  <2>5. DataInv'
    BY <1>1 DEF IInv, DataInv, Routable, Sorted
  <2>6. RecordInv(p)' /\ ResultInv(p)'
    BY <1>1, <2>2, <2>3 DEF RecordInv, ResultInv, Done
  <2> QED
    BY <1>1, <1>2, <2>3, <2>4, <2>5, <2>6, AfterWalk
<1>4. CASE ~ (Sticky(key[p]) /\ cache[key[p]] # NoRecord)
  <2>1. record' = record /\ pc' = [pc EXCEPT ![p] = "balance"]
    BY <1>4 DEF StickyLoad, Goto
  <2>2. pc'[p] = "balance" /\ \A q \in Callers \ {p} : pc'[q] = pc[q]
    BY <2>1 DEF IInv, TypeOK
  <2>3. TypeOK'
    BY <1>1, <2>1 DEF IInv, TypeOK
  <2>4. DataInv'
    BY <1>1 DEF IInv, DataInv, Routable, Sorted
  <2>5. RecordInv(p)' /\ ResultInv(p)'
    BY <2>2 DEF RecordInv, ResultInv, Done
  <2> QED
    BY <1>1, <1>2, <2>1, <2>2, <2>3, <2>4, <2>5, AfterWalk
<1> QED
  BY <1>3, <1>4

\* The loaded record is renewed and used, or the key is deleted and the balancer asked.
LEMMA StickyCheckStep == ASSUME IInv, NEW p \in Callers, StickyCheck(p) PROVE IInv'
<1> USE DispatcherAssumption
<1>1. /\ pc[p] = "check"
      /\ record' = [record EXCEPT ![p] = NoRecord]
      /\ UNCHANGED <<work, active, stale, table, counter, now, sweep, key, snap, rules, pos,
                     seen, steady, had, fresh>>
  BY DEF StickyCheck, history
<1> DEFINE o == record[p]
           s == heap[o].server
<1>2. o \in RecordIds /\ heap[o] \in Records /\ s \in Servers
  BY <1>1 DEF IInv, CallerInv, RecordInv, Records
<1>3. now \in Nat /\ TTL \in Nat /\ Expiry \in Nat /\ Expiry \in 0..(now + TTL)
  BY DEF IInv, TypeOK, Expiry
<1>4. record' \in [Callers -> RecordIds \cup {NoRecord}]
      /\ \A q \in Callers \ {p} : record'[q] = record[q]
  BY <1>1 DEF IInv, TypeOK
<1>5. \A t : Sometimes(p, t)' <=> Sometimes(p, t)
  BY <1>1 DEF Sometimes
<1>6. CASE Valid(p)
  <2>1. heap' = [heap EXCEPT ![o].expiry = Expiry] /\ cache' = cache
    BY <1>6 DEF StickyCheck
  <2>2. heap' = [heap EXCEPT ![o] = [heap[o] EXCEPT !.expiry = Expiry]]
    BY <2>1
  <2>3. /\ [heap[o] EXCEPT !.expiry = Expiry] \in Records
        /\ [heap[o] EXCEPT !.expiry = Expiry].expiry = Expiry
        /\ [heap[o] EXCEPT !.expiry = Expiry].server = s
    BY <1>2, <1>3 DEF Records
  <2>4. /\ heap' \in [RecordIds -> Records \cup {NoRecord}]
        /\ heap'[o] \in Records /\ heap'[o].server \in Servers /\ heap'[o].expiry = Expiry
        /\ \A i \in RecordIds \ {o} : heap'[i] = heap[i]
    BY <1>2, <2>2, <2>3 DEF IInv, DataInv
  <2>5. RecordsStay
    BY <2>4 DEF RecordsStay
  <2>6. \A i \in RecordIds : heap'[i] # NoRecord =>
           heap'[i].server \in Servers /\ heap'[i].expiry \in 0..(now + TTL)
    BY <1>3, <2>4 DEF IInv, TypeOK
  <2>7. ASSUME pc' \in [Callers -> {"idle", "rules", "walk", "sticky", "check", "balance",
                                    "remember", "done"}],
               result' \in [Callers -> Results]
        PROVE  TypeOK' /\ DataInv'
    <3>1. TypeOK'
      BY <1>1, <1>4, <2>1, <2>6, <2>7 DEF IInv, TypeOK
    <3>2. DataInv'
      BY <1>1, <2>1, <2>4, <2>5, <2>7 DEF IInv, DataInv, Routable, Sorted, RecordsStay
    <3> QED
      BY <3>1, <3>2
  <2>8. CASE s \in DOMAIN snap[p] /\ snap[p][s].addr # NoAddr
    <3> DEFINE res == [server |-> s, addr |-> snap[p][s].addr, how |-> "sticky"]
    <3>1. result' = [result EXCEPT ![p] = res] /\ pc' = [pc EXCEPT ![p] = "done"]
      BY <1>6, <2>8 DEF StickyCheck, Finish, Goto
    <3>2. snap[p][s].addr \in Addrs \cup {NoAddr}
      BY <2>8, ZoneType DEF IInv, TypeOK, ServerState
    <3>3. res \in Results
      BY <1>2, <3>2 DEF Results
    <3>4. /\ result' \in [Callers -> Results] /\ result'[p] = res
          /\ pc'[p] = "done"
          /\ \A q \in Callers \ {p} : pc'[q] = pc[q] /\ result'[q] = result[q]
      BY <3>1, <3>3 DEF IInv, TypeOK, DataInv
    <3>5. TypeOK' /\ DataInv'
      BY <2>7, <3>1, <3>4 DEF IInv, TypeOK
    <3>6. Sometimes(p, s)
      BY <1>1, <1>6, UsableSometimes DEF Valid, Busy
    <3>7. RecordInv(p)' /\ ResultInv(p)'
      BY <1>5, <2>8, <3>4, <3>6 DEF RecordInv, ResultInv, Done
    <3>8. result'[p].how # "rule"
      BY <3>4
    <3> QED
      BY <1>1, <1>4, <2>5, <3>4, <3>5, <3>7, <3>8, AfterWalk
  <2>9. CASE ~ (s \in DOMAIN snap[p] /\ snap[p][s].addr # NoAddr)
    <3>1. result' = result /\ pc' = [pc EXCEPT ![p] = "balance"]
      BY <1>6, <2>9 DEF StickyCheck, Goto
    <3>2. pc'[p] = "balance" /\ \A q \in Callers \ {p} : pc'[q] = pc[q]
      BY <3>1 DEF IInv, TypeOK
    <3>3. TypeOK' /\ DataInv'
      BY <2>7, <3>1 DEF IInv, TypeOK, DataInv
    <3>4. RecordInv(p)' /\ ResultInv(p)'
      BY <3>2 DEF RecordInv, ResultInv, Done
    <3> QED
      BY <1>1, <1>4, <2>5, <3>1, <3>2, <3>3, <3>4, AfterWalk
  <2> QED
    BY <2>8, <2>9
<1>7. CASE ~ Valid(p)
  <2>1. /\ cache' = [cache EXCEPT ![key[p]] = NoRecord]
        /\ pc' = [pc EXCEPT ![p] = "balance"]
        /\ result' = result /\ heap' = heap
    BY <1>7 DEF StickyCheck, Goto
  <2>2. pc'[p] = "balance" /\ \A q \in Callers \ {p} : pc'[q] = pc[q]
    BY <2>1 DEF IInv, TypeOK
  <2>3. TypeOK'
    BY <1>1, <1>4, <2>1 DEF IInv, TypeOK
  <2>4. DataInv'
    <3>1. \A k \in Keys : cache'[k] \in RecordIds => cache[k] = cache'[k]
      BY <2>1 DEF IInv, TypeOK
    <3> QED
      BY <1>1, <2>1, <3>1 DEF IInv, DataInv, Routable, Sorted
  <2>5. RecordInv(p)' /\ ResultInv(p)'
    BY <2>2 DEF RecordInv, ResultInv, Done
  <2>6. RecordsStay
    BY <2>1 DEF RecordsStay
  <2> QED
    BY <1>1, <1>4, <2>1, <2>2, <2>3, <2>4, <2>5, <2>6, AfterWalk
<1> QED
  BY <1>6, <1>7

\* The balancer selects a usable server; it refuses only when it finds none that runs.
LEMMA BalanceStep == ASSUME IInv, NEW p \in Callers, Balance(p) PROVE IInv'
<1> USE DispatcherAssumption
<1>1. /\ pc[p] = "balance"
      /\ counter' = IF Strategy = "round_robin" /\ UsableSet(snap[p]) # {}
                    THEN (counter + 1) % CounterMod ELSE counter
      /\ UNCHANGED <<work, active, stale, table, cache, heap, now, sweep, key, snap, rules, pos,
                     record, seen, steady, had, fresh>>
  BY DEF Balance, history
<1>2. RecordsStay
  BY <1>1 DEF RecordsStay
<1>3. counter' \in 0..(CounterMod - 1)
  <2>1. counter \in 0..(CounterMod - 1) /\ CounterMod \in Nat \ {0}
    BY DEF IInv, TypeOK
  <2>2. (counter + 1) % CounterMod \in 0..(CounterMod - 1)
    BY <2>1
  <2> QED
    BY <1>1, <2>1, <2>2
<1>4. snap[p] \in Zones /\ Busy(p)
  BY <1>1 DEF IInv, TypeOK, Busy
<1>5. ASSUME NEW l \in {"remember", "done"}, pc' = [pc EXCEPT ![p] = l],
             NEW res \in Results, result' = [result EXCEPT ![p] = res], res.how # "rule",
             l = "remember" => res.server \in Servers /\ res.how = "balance",
             res.server \in Servers => Sometimes(p, res.server) /\ res.addr # NoAddr,
             Strategy = "least_connections" /\ res.how = "error" =>
               ~\E s \in DOMAIN snap[p] : Throughout(p, s) /\ snap[p][s].addr # NoAddr
      PROVE  IInv'
  <2>1. /\ pc'[p] = l /\ result'[p] = res
        /\ \A q \in Callers \ {p} : pc'[q] = pc[q] /\ result'[q] = result[q]
    BY <1>5 DEF IInv, TypeOK, DataInv
  <2>2. TypeOK'
    <3>1. pc' \in [Callers -> {"idle", "rules", "walk", "sticky", "check", "balance", "remember",
                               "done"}]
      BY <1>5 DEF IInv, TypeOK
    <3> QED
      BY <1>1, <1>3, <3>1 DEF IInv, TypeOK
  <2>3. DataInv'
    <3>1. result' \in [Callers -> Results]
      BY <1>5 DEF IInv, DataInv
    <3> QED
      BY <1>1, <3>1 DEF IInv, DataInv, Routable, Sorted
  <2>4. \A s : /\ Sometimes(p, s)' <=> Sometimes(p, s)
               /\ Throughout(p, s)' <=> Throughout(p, s)
    BY <1>1 DEF Sometimes, Throughout
  <2>5. RecordInv(p)' /\ ResultInv(p)'
    BY <1>1, <1>5, <2>1, <2>4 DEF RecordInv, ResultInv, Done
  <2> QED
    BY <1>1, <1>2, <1>5, <2>1, <2>2, <2>3, <2>5, AfterWalk
<1> DEFINE refusal == [server |-> NoServer, addr |-> NoAddr, how |-> "error"]
<1>6. ASSUME Finish(p, NoServer, NoAddr, "error"),
             Strategy = "least_connections" =>
               ~\E s \in DOMAIN snap[p] : Throughout(p, s) /\ snap[p][s].addr # NoAddr
      PROVE  IInv'
  <2>1. refusal \in Results /\ refusal.how = "error" /\ refusal.server \notin Servers
    BY DEF Results
  <2>2. pc' = [pc EXCEPT ![p] = "done"] /\ result' = [result EXCEPT ![p] = refusal]
    BY <1>6 DEF Finish, Goto
  <2> QED
    BY <1>5, <1>6, <2>1, <2>2
<1>7. CASE Candidates(p) = {} /\ Finish(p, NoServer, NoAddr, "error")
  <2>1. ASSUME Strategy = "least_connections",
               NEW s \in DOMAIN snap[p], Throughout(p, s), snap[p][s].addr # NoAddr
        PROVE  FALSE
    <3>1. s \in Running(snap[p])
      BY <1>4, <2>1, ThroughoutUsable DEF Running, UsableSet
    <3>2. LeastLoaded(snap[p]) # {}
      BY <1>4, <3>1, SelectFinds
    <3> QED
      BY <1>7, <2>1, <3>2 DEF Candidates
  <2> QED
    BY <1>6, <1>7, <2>1
<1>8. ASSUME NEW s \in Candidates(p), snap[p][s].addr = NoAddr,
             Finish(p, NoServer, NoAddr, "error")
      PROVE  IInv'
  <2>1. Strategy # "least_connections"
    BY <1>8 DEF Candidates, LeastLoaded, Running
  <2> QED
    BY <1>6, <1>8, <2>1
<1>9. ASSUME NEW s \in Candidates(p), snap[p][s].addr # NoAddr,
             result' = [result EXCEPT ![p] = [server |-> s, addr |-> snap[p][s].addr,
                                              how |-> "balance"]],
             Goto(p, IF Sticky(key[p]) THEN "remember" ELSE "done")
      PROVE  IInv'
  <2> DEFINE res == [server |-> s, addr |-> snap[p][s].addr, how |-> "balance"]
  <2>1. Usable(snap[p], s)
    BY <1>9, CandidatesUsable
  <2>2. s \in Servers /\ Sometimes(p, s)
    BY <1>4, <2>1, UsableSometimes
  <2>3. snap[p][s].addr \in Addrs \cup {NoAddr}
    BY <1>4, <2>1, ZoneType DEF Usable, ServerState
  <2>4. res \in Results /\ res.how = "balance" /\ res.server = s /\ res.addr = snap[p][s].addr
    BY <2>2, <2>3 DEF Results
  <2>5. PICK l \in {"remember", "done"} : pc' = [pc EXCEPT ![p] = l]
    BY <1>9 DEF Goto
  <2> QED
    BY <1>5, <1>9, <2>2, <2>4, <2>5
<1>10. \/ Candidates(p) = {} /\ Finish(p, NoServer, NoAddr, "error")
       \/ \E s \in Candidates(p) :
            IF snap[p][s].addr = NoAddr
            THEN Finish(p, NoServer, NoAddr, "error")
            ELSE /\ result' = [result EXCEPT ![p] = [server |-> s, addr |-> snap[p][s].addr,
                                                     how |-> "balance"]]
                 /\ Goto(p, IF Sticky(key[p]) THEN "remember" ELSE "done")
  BY DEF Balance
<1> QED
  BY <1>7, <1>8, <1>9, <1>10

\* A decision of the balancer is remembered in a record nobody refers to.
LEMMA StickySetStep == ASSUME IInv, NEW p \in Callers, StickySet(p) PROVE IInv'
<1> USE DispatcherAssumption
<1>1. PICK o \in RecordIds :
         /\ cache' = [cache EXCEPT ![key[p]] = o]
         /\ heap' = [heap EXCEPT ![o] = [server |-> result[p].server, expiry |-> Expiry]]
  BY DEF StickySet
<1>2. /\ pc[p] = "remember"
      /\ pc' = [pc EXCEPT ![p] = "done"]
      /\ UNCHANGED <<work, active, stale, table, counter, now, sweep, key, snap, rules, pos,
                     record, result, seen, steady, had, fresh>>
  BY DEF StickySet, Goto, history
<1> DEFINE rec == [server |-> result[p].server, expiry |-> Expiry]
<1>3. result[p].server \in Servers /\ result[p].how = "balance"
  BY <1>2 DEF IInv, CallerInv, ResultInv
<1>4. Expiry \in Nat /\ Expiry \in 0..(now + TTL)
  BY DEF IInv, TypeOK, Expiry
<1>5. rec \in Records /\ rec.server \in Servers /\ rec.expiry \in 0..(now + TTL)
  BY <1>3, <1>4 DEF Records
<1>6. /\ heap' \in [RecordIds -> Records \cup {NoRecord}]
      /\ heap'[o] = rec
      /\ \A i \in RecordIds \ {o} : heap'[i] = heap[i]
  BY <1>1, <1>5 DEF IInv, DataInv
<1>7. RecordsStay
  BY <1>5, <1>6 DEF RecordsStay
<1>8. pc'[p] = "done" /\ \A q \in Callers \ {p} : pc'[q] = pc[q]
  BY <1>2 DEF IInv, TypeOK
<1>9. TypeOK'
  <2>1. \A i \in RecordIds : heap'[i] # NoRecord =>
           heap'[i].server \in Servers /\ heap'[i].expiry \in 0..(now + TTL)
    BY <1>5, <1>6 DEF IInv, TypeOK
  <2>2. cache' \in [Keys -> RecordIds \cup {NoRecord}]
    BY <1>1 DEF IInv, TypeOK
  <2> QED
    BY <1>2, <2>1, <2>2 DEF IInv, TypeOK
<1>10. DataInv'
  <2>1. \A k \in Keys : cache'[k] = o \/ cache'[k] = cache[k]
    BY <1>1 DEF IInv, TypeOK
  <2>2. \A k \in Keys : cache'[k] \in RecordIds => heap'[cache'[k]] \in Records
    BY <1>5, <1>6, <1>7, <2>1 DEF IInv, DataInv, RecordsStay
  <2> QED
    BY <1>2, <1>6, <2>2 DEF IInv, DataInv, Routable, Sorted
<1>11. RecordInv(p)' /\ ResultInv(p)'
  <2>1. \A s : Sometimes(p, s)' <=> Sometimes(p, s)
    BY <1>2 DEF Sometimes
  <2> QED
    BY <1>2, <1>3, <1>8, <2>1 DEF RecordInv, ResultInv, Done, IInv, CallerInv
<1> QED
  BY <1>2, <1>3, <1>7, <1>8, <1>9, <1>10, <1>11, AfterWalk

-----------------------------------------------------------------------------
(* The environment.                                                         *)

\* A step that leaves every dispatch and the flags alone.
LEMMA QuietStep ==
    ASSUME IInv, UNCHANGED <<active, localVars, seen, steady>>, RecordsStay, TypeOK', DataInv'
    PROVE  IInv'
<1>1. ASSUME NEW q \in Callers PROVE CallerInv(q)'
  <2>1. SameLocals(q)
    BY DEF SameLocals, localVars
  <2> QED
    BY <2>1, SameCaller DEF IInv
<1> QED
  BY <1>1 DEF IInv

\* A publication, a tick of the clock and the cleanup leave the dispatches alone.
LEMMA QuietSteps ==
    ASSUME IInv,
           \/ \E z \in Published : Publish(z)
           \/ Rebuild \/ Tick
           \/ \E k \in Keys : CleanupFind(k) \/ CleanupDelete(k)
           \/ UNCHANGED vars
    PROVE  IInv'
<1> USE DispatcherAssumption
<1>1. /\ UNCHANGED <<active, heap, counter, localVars, seen, steady>>
      /\ work' \in Zones /\ stale' \in BOOLEAN
      /\ now' \in {now, now + 1} /\ (now' # now => now < MaxTime)
      /\ sweep' \in SUBSET Keys
      /\ \A k \in Keys : cache'[k] \in {cache[k], NoRecord}
      /\ cache' \in [Keys -> RecordIds \cup {NoRecord}]
  BY PublishedAssumption
     DEF Publish, Rebuild, Tick, CleanupFind, CleanupDelete, vars, history, IInv, TypeOK
<1>2. Routable(table')
  <2>1. CASE Rebuild
    BY <2>1, TableType DEF Rebuild, IInv, TypeOK
  <2>2. CASE ~ Rebuild
    <3>1. table' = table
      BY <2>2 DEF Publish, Tick, CleanupFind, CleanupDelete, vars
    <3> QED
      BY <3>1 DEF IInv, DataInv
  <2> QED
    BY <2>1, <2>2
<1>3. TypeOK'
  <2>1. \A i \in DOMAIN table' : table'[i].rule \in Rules
    BY <1>2, RouteType
  <2>2. now' \in 0..MaxTime /\ \A e \in 0..(now + TTL) : e \in 0..(now' + TTL)
    BY <1>1 DEF IInv, TypeOK
  <2>3. had' \in SUBSET (Servers \X Addrs) /\ fresh' \in [Callers -> BOOLEAN]
    <3>1. CASE \E z \in Published : Publish(z)
      <4>1. PICK z \in Zones : /\ had' = had \cup Addresses(z)
                              /\ fresh' = [p \in Callers |-> FALSE]
        BY <3>1, PublishedAssumption DEF Publish
      <4>2. Addresses(z) \subseteq Servers \X Addrs
        BY ZoneType DEF Addresses, ServerState
      <4> QED
        BY <4>1, <4>2 DEF IInv, TypeOK
    <3>2. CASE ~ \E z \in Published : Publish(z)
      <4>1. had' = had /\ fresh' = fresh
        BY <3>2 DEF Rebuild, Tick, CleanupFind, CleanupDelete, vars, history
      <4> QED
        BY <4>1 DEF IInv, TypeOK
    <3> QED
      BY <3>1, <3>2
  <2> QED
    BY <1>1, <2>1, <2>2, <2>3 DEF IInv, TypeOK, localVars
<1>4. DataInv'
  BY <1>1, <1>2 DEF IInv, DataInv, localVars, Routable, Sorted
<1>5. RecordsStay
  BY <1>1 DEF RecordsStay
<1> QED
  BY <1>1, <1>3, <1>4, <1>5, QuietStep

\* A flag that changes is recorded in the history of every running dispatch.
LEMMA FlipStep == ASSUME IInv, NEW q \in Profiles, Flip(q) PROVE IInv'
<1>1. /\ active' = [active EXCEPT ![q] = ~@]
      /\ seen' = [p \in Callers |-> IF Busy(p) /\ active'[q] THEN seen[p] \cup {q} ELSE seen[p]]
      /\ steady' = [p \in Callers |-> IF Busy(p) THEN steady[p] \ {q} ELSE steady[p]]
      /\ UNCHANGED <<work, stale, table, cache, heap, counter, now, sweep, pc, key, snap, rules,
                     pos, record, result, had, fresh>>
  BY DEF Flip, localVars
<1>2. active' \in [Profiles -> BOOLEAN] /\ \A r \in Profiles \ {q} : active'[r] = active[r]
  BY <1>1 DEF IInv, TypeOK
<1>3. TypeOK'
  <2>1. seen' \in [Callers -> SUBSET Profiles] /\ steady' \in [Callers -> SUBSET Profiles]
    BY <1>1 DEF IInv, TypeOK
  <2> QED
    BY <1>1, <1>2, <2>1 DEF IInv, TypeOK
<1>4. DataInv'
  BY <1>1 DEF IInv, DataInv, Routable, Sorted
<1>5. ASSUME NEW p \in Callers PROVE CallerInv(p)'
  <2>1. seen[p] \subseteq seen'[p] /\ steady'[p] \subseteq steady[p]
    BY <1>1
  <2>2. FlagInv(p)'
    <3> SUFFICES ASSUME Busy(p), NEW r \in Profiles
                 PROVE  (active'[r] => r \in seen'[p]) /\ (r \in steady'[p] => active'[r])
      BY <1>1 DEF FlagInv, Busy
    <3>1. CASE r = q
      BY <1>1, <3>1
    <3>2. CASE r # q
      BY <1>1, <1>2, <2>1, <3>2 DEF IInv, CallerInv, FlagInv
    <3> QED
      BY <3>1, <3>2
  <2>3. SameLocals(p) /\ RecordsStay
    BY <1>1 DEF SameLocals, RecordsStay
  <2> QED
    BY <2>1, <2>2, <2>3, Frame DEF IInv
<1> QED
  BY <1>3, <1>4, <1>5 DEF IInv

-----------------------------------------------------------------------------
\* The invariant is inductive.
THEOREM Invariance == Spec => []IInv
<1>1. IInv /\ [Next]_vars => IInv'
  <2> SUFFICES ASSUME IInv, [Next]_vars PROVE IInv'
    OBVIOUS
  <2>1. ASSUME NEW p \in Callers, Dispatch(p) PROVE IInv'
    BY <2>1, DispatchRulesStep, DispatchWalkStep, StickyLoadStep, StickyCheckStep, BalanceStep,
       StickySetStep DEF Dispatch
  <2>2. ASSUME NEW p \in Callers, NEW k \in Keys, DispatchStart(p, k) PROVE IInv'
    BY <2>2, DispatchStartStep
  <2> QED
    BY <2>1, <2>2, QuietSteps, FlipStep DEF Next
<1> QED
  BY Initially, <1>1, PTL DEF Spec

\* TypeOK: in particular a sticky record never outlives its TTL, however often and by
\* whichever dispatch it is renewed (StickyManager.Set, Get).
THEOREM TypeCorrect == Spec => []TypeOK
<1>1. IInv => TypeOK
  BY DEF IInv
<1> QED
  BY Invariance, <1>1, PTL

-----------------------------------------------------------------------------
(* The addresses.                                                           *)

\* The addresses of a zone, and of a routing table, are such that servers had; those of
\* a table and a zone that are in step agree.
ZoneKnown(z) == \A s \in DOMAIN z : z[s].addr # NoAddr => <<s, z[s].addr>> \in had
TableKnown(q) == \A i \in DOMAIN q : q[i].server \in Servers => <<q[i].server, q[i].addr>> \in had
InStep(q, z) == \A i \in DOMAIN q : q[i].server \in Servers =>
                    q[i].server \in DOMAIN z /\ q[i].addr = z[q[i].server].addr

\* A fresh dispatch walks a table that is in step with its copy of the zone.
RouteInv(p) ==
    /\ ZoneKnown(snap[p]) /\ TableKnown(rules[p])
    /\ fresh[p] /\ pc[p] = "rules" => ~stale /\ snap[p] = work
    /\ fresh[p] /\ pc[p] = "walk" => InStep(rules[p], snap[p])
    /\ pc[p] \in {"remember", "done"} /\ result[p].server \in Servers =>
         /\ <<result[p].server, result[p].addr>> \in had
         /\ (result[p].how # "rule" \/ fresh[p])
              => result[p].addr = snap[p][result[p].server].addr

AddrInv ==
    /\ ZoneKnown(work) /\ TableKnown(table)
    /\ ~stale => InStep(table, work)
    /\ \A p \in Callers : RouteInv(p)

\* A table is in step with the zone it was built from, and knows no other addresses.
LEMMA TableInStep ==
    ASSUME NEW z \in Zones, NEW q \in Tables(z)
    PROVE  InStep(q, z) /\ (ZoneKnown(z) => TableKnown(q))
<1>1. PICK R \in SUBSET Rules : q \in [1..Cardinality(R) -> UNION {Entries(z, r) : r \in R}]
  BY DEF Tables
<1>2. ASSUME NEW i \in DOMAIN q, q[i].server \in Servers
      PROVE  q[i].server \in DOMAIN z /\ q[i].addr = z[q[i].server].addr
  <2>1. PICK r \in R : q[i] \in Entries(z, r)
    BY <1>1
  <2>2. CASE Named[r] \subseteq Virtual
    <3>1. PICK v \in Named[r] : q[i] = [rule |-> r, server |-> v, addr |-> NoAddr]
      BY <2>1, <2>2 DEF Entries
    <3> QED
      BY <1>2, <2>2, <3>1, DispatcherAssumption
  <2>3. CASE ~ (Named[r] \subseteq Virtual)
    <3>1. PICK s \in Named[r] \cap UsableSet(z) :
             q[i] = [rule |-> r, server |-> s, addr |-> z[s].addr]
      BY <2>1, <2>3 DEF Entries
    <3> QED
      BY <3>1 DEF UsableSet
  <2> QED
    BY <2>2, <2>3
<1>3. InStep(q, z)
  BY <1>2 DEF InStep
<1>4. ASSUME ZoneKnown(z), NEW i \in DOMAIN q, q[i].server \in Servers
      PROVE  <<q[i].server, q[i].addr>> \in had
  <2>1. q[i].addr # NoAddr
    BY <1>4, TableType DEF Routable
  <2> QED
    BY <1>2, <1>4, <2>1 DEF ZoneKnown
<1> QED
  BY <1>3, <1>4 DEF TableKnown

\* What the steps of others leave of it.
LEMMA RouteFrame ==
    ASSUME NEW p \in Callers, RouteInv(p), SameLocals(p), had \subseteq had',
           fresh'[p] => fresh[p] /\ stale' = stale /\ work' = work
    PROVE  RouteInv(p)'
<1> USE DEF SameLocals
<1>1. ZoneKnown(snap[p])' /\ TableKnown(rules[p])'
  BY DEF RouteInv, ZoneKnown, TableKnown
<1>2. (fresh[p] /\ pc[p] = "rules" => ~stale /\ snap[p] = work)'
  BY DEF RouteInv
<1>3. (fresh[p] /\ pc[p] = "walk" => InStep(rules[p], snap[p]))'
  BY DEF RouteInv, InStep
<1>4. (pc[p] \in {"remember", "done"} /\ result[p].server \in Servers =>
         /\ <<result[p].server, result[p].addr>> \in had
         /\ (result[p].how # "rule" \/ fresh[p])
              => result[p].addr = snap[p][result[p].server].addr)'
  BY DEF RouteInv
<1> QED
  BY <1>1, <1>2, <1>3, <1>4 DEF RouteInv

\* A step of dispatch p that leaves zone, table and history alone; what p decides is an
\* address of its copy of the zone, or, fresh or not, of its list of rules.
LEMMA DispatchFrame ==
    ASSUME IInv, AddrInv, NEW p \in Callers, UNCHANGED <<work, stale, table, had, fresh>>,
           \A q \in Callers \ {p} : SameLocals(q),
           snap'[p] = snap[p], rules'[p] = rules[p], pc'[p] # "rules",
           pc'[p] = "walk" => pc[p] = "walk",
           pc'[p] \in {"remember", "done"} /\ result'[p].server \in Servers =>
             /\ <<result'[p].server, result'[p].addr>> \in had
             /\ (result'[p].how # "rule" \/ fresh[p])
                  => result'[p].addr = snap[p][result'[p].server].addr
    PROVE  AddrInv'
<1>1. ZoneKnown(work)' /\ TableKnown(table)' /\ (~stale => InStep(table, work))'
  BY DEF AddrInv, ZoneKnown, TableKnown, InStep
<1>2. ASSUME NEW q \in Callers \ {p} PROVE RouteInv(q)'
  BY RouteFrame DEF AddrInv
<1>3. RouteInv(p)'
  <2>1. ZoneKnown(snap[p])' /\ TableKnown(rules[p])'
    BY DEF AddrInv, RouteInv, ZoneKnown, TableKnown
  <2>2. (fresh[p] /\ pc[p] = "walk" => InStep(rules[p], snap[p]))'
    <3>1. fresh[p] /\ pc'[p] = "walk" => InStep(rules[p], snap[p])
      BY DEF AddrInv, RouteInv
    <3>2. InStep(rules[p], snap[p]) => InStep(rules[p], snap[p])'
      BY DEF InStep
    <3> QED
      BY <3>1, <3>2
  <2> QED
    BY <2>1, <2>2 DEF RouteInv
<1> QED
  BY <1>1, <1>2, <1>3 DEF AddrInv

\* The zone is empty at first, and so is every list of rules.
LEMMA AddrInitially == Init => AddrInv
<1> SUFFICES ASSUME Init PROVE AddrInv
  OBVIOUS
<1>1. work = [s \in {} |-> NoResult] /\ work \in Zones /\ table \in Tables(work)
  BY EmptyZone DEF Init
<1>2. ZoneKnown(work)
  BY <1>1 DEF ZoneKnown
<1>3. TableKnown(table) /\ InStep(table, work)
  BY <1>1, <1>2, TableInStep
<1>4. ASSUME NEW p \in Callers PROVE RouteInv(p)
  <2>1. snap[p] = work /\ rules[p] = << >> /\ pc[p] = "idle"
    BY DEF Init
  <2> QED
    BY <1>2, <2>1 DEF RouteInv, ZoneKnown, TableKnown
<1> QED
  BY <1>2, <1>3, <1>4 DEF AddrInv

\* The steps of a dispatch.
LEMMA AddrDispatch ==
    ASSUME IInv, AddrInv, NEW p \in Callers, Dispatch(p)
    PROVE  AddrInv'
<1> USE DispatcherAssumption
<1>1. CASE DispatchRules(p)
  <2>1. /\ pc[p] = "rules"
        /\ pc'[p] = "walk" /\ rules'[p] = table /\ snap'[p] = snap[p]
        /\ \A q \in Callers \ {p} : SameLocals(q)
        /\ UNCHANGED <<work, stale, table, had, fresh>>
    BY <1>1 DEF DispatchRules, Goto, history, SameLocals, IInv, TypeOK, DataInv
  <2>2. ZoneKnown(work)' /\ TableKnown(table)' /\ (~stale => InStep(table, work))'
    BY <2>1 DEF AddrInv, ZoneKnown, TableKnown, InStep
  <2>3. ASSUME NEW q \in Callers \ {p} PROVE RouteInv(q)'
    BY <2>1, RouteFrame DEF AddrInv
  <2>4. RouteInv(p)'
    <3>1. ZoneKnown(snap[p])' /\ TableKnown(rules[p])'
      BY <2>1, <2>2 DEF AddrInv, RouteInv, ZoneKnown, TableKnown
    <3>2. (fresh[p] => InStep(rules[p], snap[p]))'
      <4>1. fresh[p] => ~stale /\ snap[p] = work
        BY <2>1 DEF AddrInv, RouteInv
      <4>2. fresh[p] => InStep(table, snap[p])
        BY <4>1 DEF AddrInv
      <4>3. InStep(table, snap[p]) => InStep(rules[p], snap[p])'
        BY <2>1 DEF InStep
      <4> QED
        BY <2>1, <4>2, <4>3
    <3> QED
      BY <2>1, <3>1, <3>2 DEF RouteInv
  <2> QED
    BY <2>2, <2>3, <2>4 DEF AddrInv
<1>2. CASE DispatchWalk(p)
  <2> DEFINE e == rules[p][pos[p]]
  <2>1. /\ pc[p] = "walk"
        /\ UNCHANGED <<work, stale, table, had, fresh, snap, rules, key, record>>
    BY <1>2 DEF DispatchWalk, history
  <2>2. pos[p] \in Nat \ {0} /\ rules[p] \in Seq(Routes)
    BY <2>1 DEF IInv, CallerInv, WalkInv, Routable, TypeOK
  <2>3. CASE ~ (pos[p] > Len(rules[p])) /\ Finish(p, e.server, e.addr, "rule") /\ UNCHANGED pos
    <3>1. pos[p] \in DOMAIN rules[p]
      BY <2>2, <2>3
    <3>2. /\ result'[p] = [server |-> e.server, addr |-> e.addr, how |-> "rule"]
          /\ pc'[p] = "done"
          /\ \A q \in Callers \ {p} : SameLocals(q)
      BY <2>1, <2>3 DEF Finish, Goto, SameLocals, IInv, TypeOK, DataInv
    <3>3. /\ e.server \in Servers => <<e.server, e.addr>> \in had
          /\ e.server \in Servers /\ fresh[p] => e.addr = snap[p][e.server].addr
      <4>1. TableKnown(rules[p]) /\ (fresh[p] => InStep(rules[p], snap[p]))
        BY <2>1 DEF AddrInv, RouteInv
      <4>2. e.server \in Servers => <<e.server, e.addr>> \in had
        BY <3>1, <4>1 DEF TableKnown
      <4>3. InStep(rules[p], snap[p]) => (e.server \in Servers => e.addr = snap[p][e.server].addr)
        BY <3>1 DEF InStep
      <4> QED
        BY <4>1, <4>2, <4>3
    <3>4. result'[p].server = e.server /\ result'[p].addr = e.addr /\ result'[p].how = "rule"
      BY <3>2
    <3> HIDE DEF e
    <3> QED
      BY <2>1, <3>2, <3>3, <3>4, DispatchFrame
  <2>4. CASE UNCHANGED result /\ pc'[p] \in {"walk", "sticky"}
             /\ \A q \in Callers \ {p} : SameLocals(q)
    BY <2>1, <2>4, DispatchFrame
  <2>5. \/ ~ (pos[p] > Len(rules[p])) /\ Finish(p, e.server, e.addr, "rule") /\ UNCHANGED pos
        \/ /\ UNCHANGED result /\ pc'[p] \in {"walk", "sticky"}
           /\ \A q \in Callers \ {p} : SameLocals(q)
    BY <1>2, <2>1 DEF DispatchWalk, Goto, SameLocals, IInv, TypeOK
  <2> QED
    BY <2>3, <2>4, <2>5
<1>3. CASE StickyLoad(p)
  <2>1. /\ UNCHANGED <<work, stale, table, had, fresh, snap, rules, key, pos, result>>
        /\ pc'[p] \in {"check", "balance"}
        /\ \A q \in Callers \ {p} : SameLocals(q)
    BY <1>3 DEF StickyLoad, Goto, history, SameLocals, IInv, TypeOK
  <2> QED
    BY <2>1, DispatchFrame
<1>4. CASE StickyCheck(p)
  <2>1. /\ UNCHANGED <<work, stale, table, had, fresh, snap, rules, key, pos>>
        /\ record' = [record EXCEPT ![p] = NoRecord]
    BY <1>4 DEF StickyCheck, history
  <2>2. CASE Goto(p, "balance") /\ UNCHANGED result
    <3>1. pc'[p] = "balance" /\ \A q \in Callers \ {p} : SameLocals(q)
      BY <2>1, <2>2 DEF Goto, SameLocals, IInv, TypeOK
    <3> QED
      BY <2>1, <3>1, DispatchFrame
  <2>3. ASSUME NEW s \in DOMAIN snap[p], snap[p][s].addr # NoAddr,
               Finish(p, s, snap[p][s].addr, "sticky")
        PROVE  AddrInv'
    <3>1. /\ result'[p] = [server |-> s, addr |-> snap[p][s].addr, how |-> "sticky"]
          /\ pc'[p] = "done"
          /\ \A q \in Callers \ {p} : SameLocals(q)
      BY <2>1, <2>3 DEF Finish, Goto, SameLocals, IInv, TypeOK, DataInv
    <3>2. <<s, snap[p][s].addr>> \in had
      BY <2>3 DEF AddrInv, RouteInv, ZoneKnown
    <3> QED
      BY <2>1, <3>1, <3>2, DispatchFrame
  <2>4. \/ Goto(p, "balance") /\ UNCHANGED result
        \/ \E s \in DOMAIN snap[p] :
             snap[p][s].addr # NoAddr /\ Finish(p, s, snap[p][s].addr, "sticky")
    BY <1>4 DEF StickyCheck
  <2> QED
    BY <2>2, <2>3, <2>4
<1>5. CASE Balance(p)
  <2>1. UNCHANGED <<work, stale, table, had, fresh, snap, rules, key, pos, record>>
    BY <1>5 DEF Balance, history
  <2>2. CASE Finish(p, NoServer, NoAddr, "error")
    <3>1. /\ result'[p].server \notin Servers
          /\ pc'[p] = "done"
          /\ \A q \in Callers \ {p} : SameLocals(q)
      BY <2>1, <2>2 DEF Finish, Goto, SameLocals, IInv, TypeOK, DataInv
    <3> QED
      BY <2>1, <3>1, DispatchFrame
  <2>3. ASSUME NEW s \in Candidates(p), snap[p][s].addr # NoAddr,
               result' = [result EXCEPT ![p] = [server |-> s, addr |-> snap[p][s].addr,
                                                how |-> "balance"]],
               Goto(p, IF Sticky(key[p]) THEN "remember" ELSE "done")
        PROVE  AddrInv'
    <3>1. /\ result'[p] = [server |-> s, addr |-> snap[p][s].addr, how |-> "balance"]
          /\ pc'[p] \in {"remember", "done"}
          /\ \A q \in Callers \ {p} : SameLocals(q)
      BY <2>1, <2>3 DEF Goto, SameLocals, IInv, TypeOK, DataInv
    <3>2. s \in DOMAIN snap[p]
      BY <2>3, CandidatesUsable DEF Usable
    <3>3. <<s, snap[p][s].addr>> \in had
      BY <2>3, <3>2 DEF AddrInv, RouteInv, ZoneKnown
    <3> QED
      BY <2>1, <3>1, <3>3, DispatchFrame
  <2> QED
    BY <1>5, <2>2, <2>3 DEF Balance
<1>6. CASE StickySet(p)
  <2>1. /\ UNCHANGED <<work, stale, table, had, fresh, snap, rules, key, pos, record, result>>
        /\ pc[p] = "remember" /\ pc'[p] = "done"
        /\ \A q \in Callers \ {p} : SameLocals(q)
    BY <1>6 DEF StickySet, Goto, history, SameLocals, IInv, TypeOK
  <2>2. result'[p].server \in Servers =>
             /\ <<result'[p].server, result'[p].addr>> \in had
             /\ (result'[p].how # "rule" \/ fresh[p])
                  => result'[p].addr = snap[p][result'[p].server].addr
    BY <2>1 DEF AddrInv, RouteInv
  <2> QED
    BY <2>1, <2>2, DispatchFrame
<1> QED
  BY <1>1, <1>2, <1>3, <1>4, <1>5, <1>6 DEF Dispatch

\* A dispatch that starts while no rebuild is due has the zone of the table.
LEMMA AddrStart ==
    ASSUME IInv, AddrInv, NEW p \in Callers, NEW k \in Keys, DispatchStart(p, k)
    PROVE  AddrInv'
<1>1. /\ pc'[p] = "rules" /\ snap'[p] = work /\ rules' = rules
      /\ fresh'[p] => ~stale
      /\ \A q \in Callers \ {p} : SameLocals(q) /\ fresh'[q] = fresh[q]
      /\ UNCHANGED <<work, stale, table, had>>
  BY DEF DispatchStart, Goto, SameLocals, IInv, TypeOK, DataInv
<1>2. ZoneKnown(work)' /\ TableKnown(table)' /\ (~stale => InStep(table, work))'
  BY <1>1 DEF AddrInv, ZoneKnown, TableKnown, InStep
<1>3. ASSUME NEW q \in Callers \ {p} PROVE RouteInv(q)'
  BY <1>1, RouteFrame DEF AddrInv
<1>4. RouteInv(p)'
  <2>1. ZoneKnown(snap[p])' /\ TableKnown(rules[p])'
    BY <1>1 DEF AddrInv, RouteInv, ZoneKnown, TableKnown
  <2> QED
    BY <1>1, <2>1 DEF RouteInv
<1> QED
  BY <1>2, <1>3, <1>4 DEF AddrInv

\* A publication makes its addresses known, and no dispatch is fresh any more.
LEMMA AddrPublish ==
    ASSUME AddrInv, NEW z \in Zones, Publish(z)
    PROVE  AddrInv'
<1>1. /\ work' = z /\ stale' = TRUE /\ had' = had \cup Addresses(z) /\ table' = table
      /\ \A p \in Callers : ~ fresh'[p] /\ SameLocals(p)
  BY DEF Publish, localVars, SameLocals
<1>2. ZoneKnown(work)'
  BY <1>1 DEF ZoneKnown, Addresses
<1>3. TableKnown(table)'
  BY <1>1 DEF AddrInv, TableKnown
<1>4. ASSUME NEW p \in Callers PROVE RouteInv(p)'
  BY <1>1, RouteFrame DEF AddrInv
<1> QED
  BY <1>1, <1>2, <1>3, <1>4 DEF AddrInv

\* The environment's other steps; only the rebuild touches the table.
LEMMA AddrOthers ==
    ASSUME IInv, AddrInv,
           \/ Rebuild \/ Tick \/ \E q \in Profiles : Flip(q)
           \/ \E k \in Keys : CleanupFind(k) \/ CleanupDelete(k)
           \/ UNCHANGED vars
    PROVE  AddrInv'
<1>1. /\ UNCHANGED <<work, had, fresh>>
      /\ \A p \in Callers : SameLocals(p)
  BY DEF Rebuild, Tick, Flip, CleanupFind, CleanupDelete, vars, localVars, history, SameLocals
<1>2. ZoneKnown(work)'
  BY <1>1 DEF AddrInv, ZoneKnown
<1>3. CASE Rebuild
  <2>1. stale /\ table' \in Tables(work) /\ work \in Zones
    BY <1>3 DEF Rebuild, IInv, TypeOK
  <2>2. InStep(table', work) /\ TableKnown(table')
    BY <2>1, TableInStep DEF AddrInv
  <2>3. TableKnown(table)' /\ InStep(table, work)'
    BY <1>1, <2>2 DEF TableKnown, InStep
  <2>4. ASSUME NEW p \in Callers PROVE RouteInv(p)'
    <3>1. ZoneKnown(snap[p])' /\ TableKnown(rules[p])'
      BY <1>1 DEF AddrInv, RouteInv, ZoneKnown, TableKnown, SameLocals
    <3>2. ~ (fresh[p] /\ pc[p] = "rules")
      BY <2>1 DEF AddrInv, RouteInv
    <3>3. (fresh[p] /\ pc[p] = "walk" => InStep(rules[p], snap[p]))'
      <4>1. fresh[p] /\ pc[p] = "walk" => InStep(rules[p], snap[p])
        BY DEF AddrInv, RouteInv
      <4>2. InStep(rules[p], snap[p]) => InStep(rules[p], snap[p])'
        BY <1>1 DEF InStep, SameLocals
      <4> QED
        BY <1>1, <4>1, <4>2 DEF SameLocals
    <3>4. (pc[p] \in {"remember", "done"} /\ result[p].server \in Servers =>
             /\ <<result[p].server, result[p].addr>> \in had
             /\ (result[p].how # "rule" \/ fresh[p])
                  => result[p].addr = snap[p][result[p].server].addr)'
      BY <1>1 DEF AddrInv, RouteInv, SameLocals
    <3>5. ~ (fresh[p] /\ pc[p] = "rules")'
      BY <1>1, <3>2 DEF SameLocals
    <3> QED
      BY <3>1, <3>3, <3>4, <3>5 DEF RouteInv
  <2> QED
    BY <1>2, <2>3, <2>4 DEF AddrInv
<1>4. CASE ~ Rebuild
  <2>1. stale' = stale /\ table' = table
    BY <1>4 DEF Tick, Flip, CleanupFind, CleanupDelete, vars
  <2>2. TableKnown(table)' /\ (~stale => InStep(table, work))'
    BY <1>1, <2>1 DEF AddrInv, TableKnown, InStep
  <2>3. ASSUME NEW p \in Callers PROVE RouteInv(p)'
    BY <1>1, <2>1, RouteFrame DEF AddrInv
  <2> QED
    BY <1>2, <2>2, <2>3 DEF AddrInv
<1> QED
  BY <1>3, <1>4

\* The addresses are the servers' own, in every reachable state.
THEOREM AddressInvariance == Spec => []AddrInv
<1>1. IInv /\ AddrInv /\ [Next]_vars => AddrInv'
  <2> SUFFICES ASSUME IInv, AddrInv, [Next]_vars PROVE AddrInv'
    OBVIOUS
  <2>1. ASSUME NEW z \in Published, Publish(z) PROVE AddrInv'
    BY <2>1, AddrPublish, PublishedAssumption
  <2> QED
    BY <2>1, AddrDispatch, AddrStart, AddrOthers DEF Next
<1> QED
  BY Invariance, AddrInitially, <1>1, PTL DEF Spec

\* RouteUsable: a connection is sent only to a server that was up in the copy of the zone
\* and active some time during the dispatch, at the address the server has in that copy,
\* or, by a rule of a table that is about to be rebuilt, at one it had before (Dispatch,
\* all three ways).
THEOREM RoutesAreUsable == Spec => []RouteUsable
<1>1. IInv /\ AddrInv => RouteUsable
  BY DEF IInv, CallerInv, ResultInv, AddrInv, RouteInv, RouteUsable
<1> QED
  BY Invariance, AddressInvariance, <1>1, PTL

\* RulesFirst: no rule that could have been taken throughout is passed over for a later
\* one, a sticky record, the balancer or a refusal (Dispatch, updateRoutingTables).
THEOREM RulesComeFirst == Spec => []RulesFirst
<1>1. IInv => RulesFirst
  <2> SUFFICES ASSUME IInv, NEW p \in Callers
               PROVE  LET good == {i \in DOMAIN rules[p] :
                                     /\ key[p] \in Hits[rules[p][i].rule]
                                     /\ \/ rules[p][i].server \in Virtual
                                        \/ Throughout(p, rules[p][i].server)}
                          used == rules[p][pos[p]].rule
                      IN /\ Done(p, "rule") =>
                              /\ key[p] \in Hits[used]
                              /\ \A j \in good : Priority[used] <= Priority[rules[p][j].rule]
                         /\ (Done(p, "sticky") \/ Done(p, "balance") \/ Done(p, "error"))
                              => good = {}
    BY DEF RulesFirst
  <2> DEFINE good == {i \in DOMAIN rules[p] : Good(p, i)}
             used == rules[p][pos[p]].rule
  <2>1. WalkInv(p)
    BY DEF IInv, CallerInv
  <2>2. ASSUME Done(p, "rule")
        PROVE  key[p] \in Hits[used] /\ \A j \in good : Priority[used] <= Priority[rules[p][j].rule]
    <3>1. /\ pos[p] \in DOMAIN rules[p] /\ key[p] \in Hits[used]
          /\ \A i \in DOMAIN rules[p] : i < pos[p] => ~ Good(p, i)
      BY <2>1, <2>2 DEF WalkInv
    <3>2. rules[p] \in Seq(Routes) /\ Sorted(rules[p])
      BY <2>1 DEF WalkInv, Routable
    <3>3. ASSUME NEW j \in good PROVE Priority[used] <= Priority[rules[p][j].rule]
      <4>1. j \in DOMAIN rules[p] /\ ~ (j < pos[p])
        BY <3>1, <3>3
      <4>2. j = pos[p] \/ pos[p] < j
        BY <3>1, <3>2, <4>1
      <4>3. Priority[used] \in Nat
        BY <2>1, <3>1, RouteType, DispatcherAssumption DEF WalkInv
      <4>4. CASE j = pos[p]
        BY <4>3, <4>4
      <4>5. CASE pos[p] < j
        BY <3>1, <3>2, <4>1, <4>5 DEF Sorted
      <4> QED
        BY <4>2, <4>4, <4>5
    <3> QED
      BY <3>1, <3>3
  <2>3. ASSUME Done(p, "sticky") \/ Done(p, "balance") \/ Done(p, "error")
        PROVE  good = {}
    BY <2>1, <2>3 DEF WalkInv, Done
  <2> QED
    BY <2>2, <2>3 DEF Good
<1> QED
  BY Invariance, <1>1, PTL

\* ErrorOnlyWithoutBackend, of the least-connections balancer: a connection is refused
\* only if no server of the copy of the zone was up, running and active throughout.  (The
\* round robin may select a server without an instance and refuse the connection.)
THEOREM LeastConnectionsServes ==
    ASSUME Strategy = "least_connections"
    PROVE  Spec => []ErrorOnlyWithoutBackend
<1>1. IInv => ErrorOnlyWithoutBackend
  BY DEF IInv, CallerInv, ResultInv, ErrorOnlyWithoutBackend
<1> QED
  BY Invariance, <1>1, PTL

=============================================================================
