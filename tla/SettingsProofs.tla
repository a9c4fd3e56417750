--------------------------- MODULE SettingsProofs ---------------------------
(***************************************************************************)
(* Proofs about Settings, for any number of concurrent updates and         *)
(* publications, rules, gateway settings and StickyManagers.  IInv is      *)
(* inductive: one lemma per action shows that the action preserves it.     *)
(***************************************************************************)
EXTENDS Settings, TLAPS

\* The write section of SettingsManager.Update.
Updating(p) == pc[p] \in {"decode", "unmarshal", "persist", "write", "store"}

\* An update of the routing rules, from the first decoded rule to the end of the section;
\* and one of the gateway settings.
Routing(p) == Updating(p) /\ newGateway[p] = NoGateway
Gating(p) == Updating(p) /\ newGateway[p] # NoGateway

\* Whoever is in the write section has mu; each kind of update is decoded in its place.
LockInv ==
    /\ \A p \in Slots : mu = p <=> Updating(p)
    /\ \A p \in Slots : pc[p] = "unmarshal" => newGateway[p] = NoGateway
    /\ \A p \in Slots : pc[p] = "decode" => newGateway[p] # NoGateway

\* A notified gateway update has its settings, and its StickyManager once it is made.
ManagerInv ==
    \A p \in Slots :
        /\ pc[p] \in {"stopcheck", "stopclose", "start", "swap", "balancer"}
               => newGateway[p] \in Gateways
        /\ pc[p] \in {"stopclose", "swap"} => old[p] \in Managers
        /\ pc[p] = "swap" => made[old[p]] \in Gateways

\* A table that does not fit the rules and the zone has a rebuild ahead of it, or an
\* update that will end with one or be refused.
TableInv ==
    \/ "routing" \in refused
    \/ table = Resolve(rules, zone)
    \/ \E p \in Slots : pc[p] = "rebuild" \/ Routing(p)

\* The file is ahead of the settings only between persist and store, torn only while it
\* is written or after a write failed, and behind the sticky rules or the routing rules
\* only while these are decoded or after they were refused.
Behind(p) == pc[p] # "store"

DiskInv ==
    /\ \A p \in Slots : /\ pc[p] = "write" => disk = Torn
                        /\ pc[p] = "store" => disk = Persisted(p)
    /\ (\A p \in Slots : pc[p] \notin {"write", "store"})
           => IF disk = Torn THEN refused # {} ELSE disk.gateway = gateway
    /\ \/ disk = Torn \/ "gateway" \in refused \/ disk.sites = sites
       \/ \E p \in Slots : Gating(p) /\ Behind(p)
    /\ \/ disk = Torn \/ "routing" \in refused \/ disk.rules = rules
       \/ \E p \in Slots : Routing(p) /\ Behind(p)

IInv == TypeOK /\ LockInv /\ ManagerInv /\ TableInv /\ DiskInv

\* The process starts with the settings, and the table, of its file.
LEMMA Initially == Init => IInv
<1> SUFFICES ASSUME Init PROVE IInv
  OBVIOUS
<1> USE SettingsAssumption DEF Init
<1>1. sticky \in Managers
  OBVIOUS
<1>2. TypeOK
  <2>1. disk \in Stored
    BY DEF Stored
  <2>2. table \in [Index -> Rules \cup {NoRule}]
    BY DEF Resolve, RuleLists
  <2>3. made \in [Managers -> Gateways \cup {NoGateway}] /\ made[sticky] \in Gateways
    BY <1>1
  <2>4. stopped \in SUBSET Managers /\ cleaning \in SUBSET Managers
    BY <1>1 DEF Cleaners
  <2>5. balancer \in Kinds
    OBVIOUS
  <2>6. next \in [Slots -> 1..(NRules + 1)]
    OBVIOUS
  <2>7. /\ pc \in [Slots -> {"idle"}]
        /\ newGateway \in [Slots -> Gateways \cup {NoGateway}]
        /\ newRules \in [Slots -> RuleLists]
        /\ failed \in [Slots -> BOOLEAN]
        /\ old \in [Slots -> Managers \cup {NoManager}]
    OBVIOUS
  <2> QED
    BY <1>1, <2>1, <2>2, <2>3, <2>4, <2>5, <2>6, <2>7 DEF TypeOK
<1>3. LockInv /\ ManagerInv /\ TableInv /\ DiskInv
  <2>1. disk # Torn
    BY DEF Stored
  <2> QED
    BY <2>1 DEF LockInv, ManagerInv, TableInv, DiskInv, Updating
<1> QED
  BY <1>2, <1>3 DEF IInv

\* What is said of the file holds on when the file and the settings do not change, and
\* whoever is in the write section stays where it is.
LEMMA SameDisk ==
    ASSUME DiskInv, NEW p \in Slots, UNCHANGED <<gateway, sites, rules, disk, refused>>,
           \A q \in Slots \ {p} : pc'[q] = pc[q] /\ newGateway'[q] = newGateway[q],
           ~ Updating(p), ~ Updating(p)'
    PROVE  DiskInv'
<1>1. \A q \in Slots : Updating(q) \/ Updating(q)' => q # p
  OBVIOUS
<1>2. \A q \in Slots : /\ pc'[q] = "write" => disk' = Torn
                       /\ pc'[q] = "store" => disk' = Persisted(q)'
  BY <1>1 DEF DiskInv, Persisted, GatewayAfter, Updating
<1>3. (\A q \in Slots : pc'[q] \notin {"write", "store"})
          => IF disk' = Torn THEN refused' # {} ELSE disk'.gateway = gateway'
  BY <1>1 DEF DiskInv, Updating
<1>4. ASSUME NEW q \in Slots, Updating(q), Behind(q)
      PROVE  Updating(q)' /\ Behind(q)' /\ newGateway'[q] = newGateway[q]
  BY <1>1, <1>4 DEF Updating, Behind
<1>5. (\E q \in Slots : Routing(q) /\ Behind(q)) => (\E q \in Slots : Routing(q) /\ Behind(q))'
  BY <1>4 DEF Routing
<1>6. (\E q \in Slots : Gating(q) /\ Behind(q)) => (\E q \in Slots : Gating(q) /\ Behind(q))'
  BY <1>4 DEF Gating
<1> QED
  BY <1>2, <1>3, <1>5, <1>6 DEF DiskInv

\* What a step that leaves the settings, the file, the table and mu alone must keep: the
\* process stays in its place, or moves between places outside the write section.
LEMMA QuietStep ==
    ASSUME IInv, NEW p \in Slots,
           UNCHANGED <<gateway, sites, rules, disk, mu, zone, table, refused>>,
           \A q \in Slots \ {p} : pc'[q] = pc[q] /\ newGateway'[q] = newGateway[q],
           ~ Updating(p), ~ Updating(p)', pc[p] # "rebuild"
    PROVE  LockInv' /\ TableInv' /\ DiskInv'
<1>1. LockInv'
  BY DEF IInv, LockInv, Updating
<1>2. TableInv'
  <2>1. ASSUME NEW q \in Slots, pc[q] = "rebuild" \/ Routing(q)
        PROVE  (pc[q] = "rebuild" \/ Routing(q))'
    BY <2>1 DEF Routing, Updating
  <2> QED
    BY <2>1 DEF IInv, TableInv, Resolve
<1>3. DiskInv'
  BY SameDisk DEF IInv
<1> QED
  BY <1>1, <1>2, <1>3

-----------------------------------------------------------------------------
(* One lemma per action.                                                    *)

\* A request takes its goroutine to "lock"; nothing is decoded yet.
LEMMA RequestStep ==
    ASSUME IInv, NEW p \in Slots,
           (\E g \in Gateways : UpdateGateway(p, g)) \/ (\E rs \in RuleLists : UpdateRouting(p, rs))
    PROVE  IInv'
<1> USE SettingsAssumption DEF IInv
<1>1. /\ pc[p] = "idle"
      /\ pc' = [pc EXCEPT ![p] = "lock"]
      /\ ops' = ops + 1
      /\ \E g \in Gateways \cup {NoGateway} : newGateway' = [newGateway EXCEPT ![p] = g]
      /\ UNCHANGED <<setVars, mu, dispVars, panicked, refused, old>>
  BY DEF UpdateGateway, UpdateRouting, Begin, Goto
<1>2. /\ newRules' \in [Slots -> RuleLists]
      /\ next' \in [Slots -> 1..(NRules + 1)]
      /\ failed' \in [Slots -> BOOLEAN]
  <2>1. 1 \in 1..(NRules + 1)
    OBVIOUS
  <2>2. CASE \E g \in Gateways : UpdateGateway(p, g)
    BY <2>2 DEF UpdateGateway, TypeOK
  <2>3. CASE \E rs \in RuleLists : UpdateRouting(p, rs)
    BY <2>1, <2>3 DEF UpdateRouting, TypeOK
  <2> QED
    BY <2>2, <2>3
<1>3. TypeOK'
  <2>1. newGateway' \in [Slots -> Gateways \cup {NoGateway}]
    BY <1>1 DEF TypeOK
  <2> QED
    BY <1>1, <1>2, <2>1 DEF TypeOK, setVars, dispVars, managerVars
<1>4. ManagerInv'
  BY <1>1 DEF ManagerInv, TypeOK, setVars, dispVars, managerVars
<1>5. LockInv' /\ TableInv' /\ DiskInv'
  <2>1. UNCHANGED <<gateway, sites, rules, disk, mu, zone, table, refused>>
    BY <1>1 DEF setVars, dispVars
  <2>2. \A q \in Slots \ {p} : pc'[q] = pc[q] /\ newGateway'[q] = newGateway[q]
    BY <1>1 DEF TypeOK
  <2>3. pc'[p] = "lock"
    BY <1>1 DEF TypeOK
  <2> QED
    BY <1>1, <2>1, <2>2, <2>3, QuietStep DEF Updating
<1> QED
  BY <1>3, <1>4, <1>5

\* A publication changes the zone and leaves a rebuild behind.
LEMMA PublishStep ==
    ASSUME IInv, NEW p \in Slots, NEW z \in SUBSET Rules, Publish(p, z)
    PROVE  IInv'
<1> USE SettingsAssumption DEF IInv
<1>1. /\ pc[p] = "idle"
      /\ pc' = [pc EXCEPT ![p] = "rebuild"]
      /\ ops' = ops + 1
      /\ zone' = z
      /\ UNCHANGED <<gateway, sites, rules, disk, mu, table, sticky, made, stopped, cleaning, balancer,
                     panicked, refused, newGateway, newRules, next, failed, old>>
  BY DEF Publish, Begin, Goto, AfterPublish, setVars, managerVars
<1>2. TypeOK'
  BY <1>1 DEF TypeOK
<1>3. ManagerInv'
  BY <1>1 DEF ManagerInv, TypeOK
<1>4. LockInv'
  BY <1>1 DEF LockInv, Updating, TypeOK
<1>5. TableInv'
  <2>1. pc'[p] = "rebuild"
    BY <1>1 DEF TypeOK
  <2> QED
    BY <2>1 DEF TableInv
<1>6. DiskInv'
  BY <1>1, SameDisk DEF TypeOK, Updating
<1> QED
  BY <1>2, <1>3, <1>4, <1>5, <1>6

\* Whoever takes mu finds nobody in the write section.
LEMMA LockStep == ASSUME IInv, NEW p \in Slots, Lock(p) PROVE IInv'
<1> USE SettingsAssumption DEF IInv
<1>1. /\ pc[p] = "lock" /\ mu = Nobody /\ mu' = p
      /\ pc' = [pc EXCEPT ![p] = IF newGateway[p] = NoGateway THEN "unmarshal" ELSE "decode"]
      /\ UNCHANGED <<gateway, sites, rules, disk, zone, table, sticky, made, stopped, cleaning,
                     balancer, panicked, refused, newGateway, newRules, next, failed, old, ops>>
  BY DEF Lock, Goto, setVars, dispVars, managerVars
<1>2. TypeOK'
  BY <1>1 DEF TypeOK
<1>3. ManagerInv'
  BY <1>1 DEF ManagerInv, TypeOK
<1>4. \A q \in Slots : ~ Updating(q)
  BY <1>1 DEF LockInv
<1>5. LockInv'
  BY <1>1, <1>4 DEF LockInv, Updating, TypeOK
<1>6. TableInv'
  <2>1. ASSUME NEW q \in Slots, pc[q] = "rebuild" PROVE pc'[q] = "rebuild"
    BY <1>1, <2>1 DEF TypeOK
  <2> QED
    BY <1>1, <1>4, <2>1 DEF TableInv, Routing, Resolve
<1>7. DiskInv'
  <2>1. \A q \in Slots : pc'[q] \notin {"write", "store"} /\ pc[q] \notin {"write", "store"}
    BY <1>1, <1>4 DEF TypeOK, Updating
  <2> QED
    BY <1>1, <1>4, <2>1 DEF DiskInv, Routing, Gating
<1> QED
  BY <1>2, <1>3, <1>5, <1>6, <1>7

\* mu: the write section has one goroutine at a time.
LEMMA OneWriter ==
    ASSUME IInv, NEW p \in Slots, Updating(p)
    PROVE  mu = p /\ \A q \in Slots \ {p} : ~ Updating(q)
BY DEF IInv, LockInv

\* What is refused is remembered: a refused update may have changed the rules of its
\* module, or have left a torn file, and nothing else.
LEMMA RefuseStep ==
    ASSUME IInv, NEW p \in Slots, Updating(p), pc[p] # "store", Refuse(p),
           UNCHANGED <<gateway, rules, disk, zone, table, newGateway>>,
           sites' = sites \/ Gating(p)
    PROVE  LockInv' /\ TableInv' /\ DiskInv'
<1> USE SettingsAssumption DEF IInv
<1>1. \A q \in Slots \ {p} : ~ Updating(q)
  BY OneWriter
<1>2. /\ mu' = Nobody
      /\ refused' = refused \cup {Key(p)}
      /\ pc'[p] = "idle"
      /\ \A q \in Slots \ {p} : pc'[q] = pc[q]
  BY DEF Refuse, Goto, TypeOK
<1>3. \A q \in Slots : ~ Updating(q)'
  BY <1>1, <1>2 DEF Updating
<1>4. LockInv'
  BY <1>2, <1>3 DEF LockInv, Updating
<1>5. TableInv'
  <2>1. CASE newGateway[p] = NoGateway
    BY <1>2, <2>1 DEF TableInv, Key
  <2>2. CASE newGateway[p] # NoGateway
    <3>1. \A q \in Slots : ~ Routing(q)
      BY <1>1, <2>2 DEF Routing
    <3>2. ASSUME NEW q \in Slots, pc[q] = "rebuild" PROVE pc'[q] = "rebuild"
      BY <1>2, <3>2 DEF Updating
    <3> QED
      BY <1>2, <3>1, <3>2 DEF TableInv, Resolve
  <2> QED
    BY <2>1, <2>2
<1>6. DiskInv'
  <2>1. \A q \in Slots : pc'[q] \notin {"write", "store"}
    BY <1>3 DEF Updating
  <2>2. refused \subseteq refused' /\ refused' # {}
    BY <1>2
  <2>3. disk = Torn \/ disk.gateway = gateway
    <3>1. CASE pc[p] = "write"
      BY <3>1 DEF DiskInv
    <3>2. CASE pc[p] # "write"
      BY <1>1, <3>2 DEF DiskInv, Updating
    <3> QED
      BY <3>1, <3>2
  <2>4. disk = Torn \/ "gateway" \in refused' \/ disk.sites = sites'
    <3>1. CASE Gating(p)
      BY <1>2, <3>1 DEF Gating, Key
    <3>2. CASE ~ Gating(p)
      BY <1>1, <2>2, <3>2 DEF DiskInv, Gating
    <3> QED
      BY <3>1, <3>2
  <2>5. disk = Torn \/ "routing" \in refused' \/ disk.rules = rules
    <3>1. CASE Routing(p)
      BY <1>2, <3>1 DEF Routing, Key
    <3>2. CASE ~ Routing(p)
      BY <1>1, <2>2, <3>2 DEF DiskInv, Routing
    <3> QED
      BY <3>1, <3>2
  <2> QED
    BY <2>1, <2>2, <2>3, <2>4, <2>5 DEF DiskInv
<1> QED
  BY <1>4, <1>5, <1>6

\* While the file is not written, what is said of it needs only the settings it may lag
\* behind: a decoding update of the module, or a file and settings that agree as before.
LEMMA DecodedDisk ==
    ASSUME DiskInv, NEW p \in Slots, \A q \in Slots \ {p} : ~ Updating(q),
           pc[p] \in {"decode", "unmarshal"}, pc'[p] \in {"decode", "unmarshal", "persist"},
           \A q \in Slots \ {p} : pc'[q] = pc[q],
           UNCHANGED <<gateway, disk, refused, newGateway>>,
           sites' = sites \/ Gating(p), rules' = rules \/ Routing(p)
    PROVE  DiskInv'
<1>1. \A q \in Slots : pc[q] \notin {"write", "store"} /\ pc'[q] \notin {"write", "store"}
  BY DEF Updating
<1>2. Updating(p) /\ Updating(p)' /\ Behind(p)'
  BY DEF Updating, Behind
<1>3. disk = Torn \/ "gateway" \in refused \/ disk.sites = sites' \/ (Gating(p) /\ Behind(p))'
  <2>1. CASE Gating(p)
    BY <1>2, <2>1 DEF Gating
  <2>2. CASE ~ Gating(p)
    BY <2>2 DEF DiskInv, Gating
  <2> QED
    BY <2>1, <2>2
<1>4. disk = Torn \/ "routing" \in refused \/ disk.rules = rules' \/ (Routing(p) /\ Behind(p))'
  <2>1. CASE Routing(p)
    BY <1>2, <2>1 DEF Routing
  <2>2. CASE ~ Routing(p)
    BY <2>2 DEF DiskInv, Routing
  <2> QED
    BY <2>1, <2>2
<1> QED
  BY <1>1, <1>3, <1>4 DEF DiskInv

\* Decoding gateway settings may change the sticky rules in use.
LEMMA DecodeGatewayStep == ASSUME IInv, NEW p \in Slots, DecodeGateway(p) PROVE IInv'
<1> USE SettingsAssumption DEF IInv
<1>1. /\ pc[p] = "decode" /\ sites' \in Sites
      /\ UNCHANGED <<gateway, rules, disk, zone, table, sticky, made, stopped, cleaning, balancer,
                     panicked, newGateway, newRules, next, failed, old, ops>>
  BY DEF DecodeGateway, dispVars, managerVars
<1>2. Gating(p) /\ Updating(p)
  BY <1>1 DEF LockInv, Gating, Updating
<1>3. CASE Refuse(p)
  <2>1. /\ mu' = Nobody /\ refused' \in SUBSET {"gateway", "routing"}
        /\ pc' = [pc EXCEPT ![p] = "idle"]
    BY <1>3 DEF Refuse, Goto, TypeOK, Key
  <2>2. TypeOK'
    BY <1>1, <2>1 DEF TypeOK
  <2>3. ManagerInv'
    BY <1>1, <2>1 DEF ManagerInv, TypeOK
  <2>4. LockInv' /\ TableInv' /\ DiskInv'
    BY <1>1, <1>2, <1>3, RefuseStep
  <2> QED
    BY <2>2, <2>3, <2>4
<1>4. CASE Goto(p, "persist") /\ UNCHANGED <<mu, refused>>
  <2>1. pc' = [pc EXCEPT ![p] = "persist"] /\ mu' = mu /\ refused' = refused
    BY <1>4 DEF Goto
  <2>2. pc'[p] = "persist" /\ \A q \in Slots \ {p} : pc'[q] = pc[q]
    BY <2>1 DEF TypeOK
  <2>3. TypeOK'
    BY <1>1, <2>1 DEF TypeOK
  <2>4. ManagerInv'
    BY <1>1, <2>2 DEF ManagerInv
  <2>5. LockInv'
    BY <1>1, <2>1, <2>2 DEF LockInv, Updating
  <2>6. TableInv'
    <3>1. ASSUME NEW q \in Slots, pc[q] = "rebuild" \/ Routing(q)
          PROVE  (pc[q] = "rebuild" \/ Routing(q))'
      BY <1>1, <2>2, <3>1 DEF Routing, Updating
    <3> QED
      BY <1>1, <2>1, <3>1 DEF TableInv, Resolve
  <2>7. DiskInv'
    <3>1. \A q \in Slots \ {p} : ~ Updating(q)
      BY <1>2, OneWriter
    <3> QED
      BY <1>1, <1>2, <2>1, <2>2, <3>1, DecodedDisk
  <2> QED
    BY <2>3, <2>4, <2>5, <2>6, <2>7
<1> QED
  BY <1>3, <1>4 DEF DecodeGateway

\* Decoding a rule changes the live rules, under mu, in a routing update.
LEMMA UnmarshalStep == ASSUME IInv, NEW p \in Slots, Unmarshal(p) PROVE IInv'
<1> USE SettingsAssumption DEF IInv
<1>1. /\ pc[p] = "unmarshal" /\ next[p] \in Index
      /\ next' = [next EXCEPT ![p] = @ + 1]
      /\ UNCHANGED <<gateway, sites, disk, mu, zone, table, sticky, made, stopped, cleaning,
                     balancer, panicked, refused, pc, newGateway, newRules, old, ops>>
  BY DEF Unmarshal, dispVars, managerVars
<1>2. \A q \in Slots \ {p} : ~ Updating(q)
  BY <1>1, OneWriter DEF Updating
<1>3. TypeOK'
  <2>1. newRules[p][next[p]] \in Rules
    BY <1>1 DEF TypeOK, RuleLists
  <2>2. rules' \in RuleLists
    BY <2>1 DEF TypeOK, RuleLists, Unmarshal
  <2>3. next' \in [Slots -> 1..(NRules + 1)]
    BY <1>1 DEF TypeOK, Index
  <2>4. failed' \in [Slots -> BOOLEAN]
    BY DEF TypeOK, Unmarshal
  <2> QED
    BY <1>1, <2>2, <2>3, <2>4 DEF TypeOK
<1>4. ManagerInv'
  BY <1>1 DEF ManagerInv
<1>5. LockInv'
  BY <1>1 DEF LockInv, Updating
<1>6. Routing(p) /\ Routing(p)'
  BY <1>1 DEF LockInv, Routing, Updating
<1>7. TableInv'
  BY <1>6 DEF TableInv
<1>8. DiskInv'
  BY <1>1, <1>2, <1>6, DecodedDisk
<1> QED
  BY <1>3, <1>4, <1>5, <1>7, <1>8

\* The end of the decoding: on to persist, or refused.
LEMMA UnmarshalDoneStep == ASSUME IInv, NEW p \in Slots, UnmarshalDone(p) PROVE IInv'
<1> USE SettingsAssumption DEF IInv
<1>1. /\ pc[p] = "unmarshal"
      /\ UNCHANGED <<gateway, sites, rules, disk, zone, table, sticky, made, stopped, cleaning,
                     balancer, panicked, newGateway, newRules, next, failed, old, ops>>
  BY DEF UnmarshalDone, setVars, dispVars, managerVars
<1>2. CASE Refuse(p)
  <2>1. /\ mu' = Nobody /\ refused' \in SUBSET {"gateway", "routing"}
        /\ pc' = [pc EXCEPT ![p] = "idle"]
    BY <1>2 DEF Refuse, Goto, TypeOK, Key
  <2>2. TypeOK'
    BY <1>1, <2>1 DEF TypeOK
  <2>3. ManagerInv'
    BY <1>1, <2>1 DEF ManagerInv, TypeOK
  <2>4. LockInv' /\ TableInv' /\ DiskInv'
    BY <1>1, <1>2, RefuseStep DEF Updating
  <2> QED
    BY <2>2, <2>3, <2>4
<1>3. CASE Goto(p, "persist") /\ UNCHANGED <<mu, refused>>
  <2>1. pc' = [pc EXCEPT ![p] = "persist"] /\ mu' = mu /\ refused' = refused
    BY <1>3 DEF Goto
  <2>2. pc'[p] = "persist" /\ \A q \in Slots \ {p} : pc'[q] = pc[q]
    BY <2>1 DEF TypeOK
  <2>3. TypeOK'
    BY <1>1, <2>1 DEF TypeOK
  <2>4. ManagerInv'
    BY <1>1, <2>2 DEF ManagerInv
  <2>5. LockInv'
    BY <1>1, <2>1, <2>2 DEF LockInv, Updating
  <2>6. Routing(p)'
    BY <1>1, <2>2 DEF LockInv, Routing, Updating
  <2>7. TableInv'
    BY <2>6 DEF TableInv
  <2>8. DiskInv'
    <3>1. \A q \in Slots \ {p} : ~ Updating(q)
      BY <1>1, OneWriter DEF Updating
    <3> QED
      BY <1>1, <2>1, <2>2, <3>1, DecodedDisk
  <2> QED
    BY <2>3, <2>4, <2>5, <2>7, <2>8
<1> QED
  BY <1>2, <1>3 DEF UnmarshalDone

\* The file is truncated before the settings are written, or the update is refused.
LEMMA PersistStep == ASSUME IInv, NEW p \in Slots, Persist(p) PROVE IInv'
<1> USE SettingsAssumption DEF IInv
<1>1. /\ pc[p] = "persist"
      /\ UNCHANGED <<gateway, sites, rules, zone, table, sticky, made, stopped, cleaning, balancer,
                     panicked, newGateway, newRules, next, failed, old, ops>>
  BY DEF Persist, dispVars, managerVars
<1>2. CASE Refuse(p) /\ UNCHANGED disk
  <2>1. /\ mu' = Nobody /\ refused' \in SUBSET {"gateway", "routing"}
        /\ pc' = [pc EXCEPT ![p] = "idle"] /\ disk' = disk
    BY <1>2 DEF Refuse, Goto, TypeOK, Key
  <2>2. TypeOK'
    BY <1>1, <2>1 DEF TypeOK
  <2>3. ManagerInv'
    BY <1>1, <2>1 DEF ManagerInv, TypeOK
  <2>4. LockInv' /\ TableInv' /\ DiskInv'
    BY <1>1, <1>2, RefuseStep DEF Updating
  <2> QED
    BY <2>2, <2>3, <2>4
<1>3. CASE disk' = Torn /\ Goto(p, "write") /\ UNCHANGED <<mu, refused>>
  <2>1. pc' = [pc EXCEPT ![p] = "write"] /\ mu' = mu /\ refused' = refused /\ disk' = Torn
    BY <1>3 DEF Goto
  <2>2. pc'[p] = "write" /\ \A q \in Slots \ {p} : pc'[q] = pc[q]
    BY <2>1 DEF TypeOK
  <2>3. TypeOK'
    BY <1>1, <2>1 DEF TypeOK
  <2>4. ManagerInv'
    BY <1>1, <2>2 DEF ManagerInv
  <2>5. LockInv'
    BY <1>1, <2>1, <2>2 DEF LockInv, Updating
  <2>6. TableInv'
    <3>1. ASSUME NEW q \in Slots, pc[q] = "rebuild" \/ Routing(q)
          PROVE  (pc[q] = "rebuild" \/ Routing(q))'
      BY <1>1, <2>2, <3>1 DEF Routing, Updating
    <3> QED
      BY <1>1, <2>1, <3>1 DEF TableInv, Resolve
  <2>7. DiskInv'
    <3>1. \A q \in Slots \ {p} : ~ Updating(q)
      BY <1>1, OneWriter DEF Updating
    <3>2. \A q \in Slots : pc'[q] # "store"
      BY <2>2, <3>1 DEF Updating
    <3> QED
      BY <2>1, <2>2, <3>2 DEF DiskInv
  <2> QED
    BY <2>3, <2>4, <2>5, <2>6, <2>7
<1> QED
  BY <1>2, <1>3 DEF Persist

\* The new settings reach the file before they are stored, or the file stays torn and
\* the update is refused.
LEMMA PersistWriteStep == ASSUME IInv, NEW p \in Slots, PersistWrite(p) PROVE IInv'
<1> USE SettingsAssumption DEF IInv
<1>1. /\ pc[p] = "write"
      /\ UNCHANGED <<gateway, sites, rules, zone, table, sticky, made, stopped, cleaning, balancer,
                     panicked, newGateway, newRules, next, failed, old, ops>>
  BY DEF PersistWrite, dispVars, managerVars
<1>2. CASE Refuse(p) /\ UNCHANGED disk
  <2>1. /\ mu' = Nobody /\ refused' \in SUBSET {"gateway", "routing"}
        /\ pc' = [pc EXCEPT ![p] = "idle"] /\ disk' = disk
    BY <1>2 DEF Refuse, Goto, TypeOK, Key
  <2>2. TypeOK'
    BY <1>1, <2>1 DEF TypeOK
  <2>3. ManagerInv'
    BY <1>1, <2>1 DEF ManagerInv, TypeOK
  <2>4. LockInv' /\ TableInv' /\ DiskInv'
    BY <1>1, <1>2, RefuseStep DEF Updating
  <2> QED
    BY <2>2, <2>3, <2>4
<1>3. CASE disk' = Persisted(p) /\ Goto(p, "store") /\ UNCHANGED <<mu, refused>>
  <2>1. pc' = [pc EXCEPT ![p] = "store"] /\ mu' = mu /\ refused' = refused
    BY <1>3 DEF Goto
  <2>2. disk' = [gateway |-> GatewayAfter(p), sites |-> sites, rules |-> rules]
    BY <1>3 DEF Persisted
  <2>3. pc'[p] = "store" /\ \A q \in Slots \ {p} : pc'[q] = pc[q]
    BY <2>1 DEF TypeOK
  <2>4. TypeOK'
    <3>1. GatewayAfter(p) \in Gateways
      BY DEF GatewayAfter, TypeOK
    <3>2. disk' \in Stored
      BY <2>2, <3>1 DEF TypeOK, Stored
    <3> QED
      BY <1>1, <2>1, <3>2 DEF TypeOK
  <2>5. ManagerInv'
    BY <1>1, <2>3 DEF ManagerInv
  <2>6. LockInv'
    BY <1>1, <2>1, <2>3 DEF LockInv, Updating
  <2>7. TableInv'
    <3>1. ASSUME NEW q \in Slots, pc[q] = "rebuild" \/ Routing(q)
          PROVE  (pc[q] = "rebuild" \/ Routing(q))'
      BY <1>1, <2>3, <3>1 DEF Routing, Updating
    <3> QED
      BY <1>1, <2>1, <3>1 DEF TableInv, Resolve
  <2>8. DiskInv'
    <3>1. \A q \in Slots \ {p} : ~ Updating(q)
      BY <1>1, OneWriter DEF Updating
    <3>2. \A q \in Slots \ {p} : pc'[q] \notin {"write", "store"}
      BY <2>3, <3>1 DEF Updating
    <3>3. disk' = Persisted(p)'
      BY <1>1, <1>3 DEF Persisted, GatewayAfter
    <3>4. disk'.rules = rules' /\ disk'.sites = sites'
      BY <1>1, <2>2
    <3> QED
      BY <2>3, <3>2, <3>3, <3>4 DEF DiskInv
  <2> QED
    BY <2>4, <2>5, <2>6, <2>7, <2>8
<1> QED
  BY <1>2, <1>3 DEF PersistWrite

\* The stored settings are the persisted ones; a routing update leaves a rebuild behind.
LEMMA StoreStep == ASSUME IInv, NEW p \in Slots, Store(p) PROVE IInv'
<1> USE SettingsAssumption DEF IInv
<1>1. /\ pc[p] = "store"
      /\ gateway' = GatewayAfter(p)
      /\ refused' = refused \ {Key(p)}
      /\ mu' = Nobody
      /\ pc' = [pc EXCEPT ![p] = IF newGateway[p] = NoGateway THEN "rebuild" ELSE "stopcheck"]
      /\ UNCHANGED <<sites, rules, disk, zone, table, sticky, made, stopped, cleaning, balancer,
                     panicked, newGateway, newRules, next, failed, old, ops>>
  BY DEF Store, Goto, Notified, dispVars, managerVars
<1>2. \A q \in Slots \ {p} : ~ Updating(q)
  BY <1>1, OneWriter DEF Updating
<1>3. /\ pc'[p] = IF newGateway[p] = NoGateway THEN "rebuild" ELSE "stopcheck"
      /\ \A q \in Slots \ {p} : pc'[q] = pc[q]
  BY <1>1 DEF TypeOK
<1>4. \A q \in Slots : ~ Updating(q)'
  BY <1>2, <1>3 DEF Updating
<1>5. TypeOK'
  <2>1. GatewayAfter(p) \in Gateways
    BY DEF GatewayAfter, TypeOK
  <2> QED
    BY <1>1, <2>1 DEF TypeOK
<1>6. ManagerInv'
  BY <1>1, <1>3 DEF ManagerInv, TypeOK
<1>7. LockInv'
  BY <1>1, <1>4 DEF LockInv, Updating
<1>8. TableInv'
  <2>1. CASE newGateway[p] = NoGateway
    BY <1>3, <2>1 DEF TableInv
  <2>2. CASE newGateway[p] # NoGateway
    <3>1. \A q \in Slots : ~ Routing(q)
      BY <1>2, <2>2 DEF Routing
    <3>2. ASSUME NEW q \in Slots, pc[q] = "rebuild" PROVE pc'[q] = "rebuild"
      BY <1>1, <1>3, <3>2
    <3>3. "routing" \in refused => "routing" \in refused'
      BY <1>1, <2>2 DEF Key
    <3> QED
      BY <1>1, <3>1, <3>2, <3>3 DEF TableInv, Resolve
  <2> QED
    BY <2>1, <2>2
<1>9. DiskInv'
  <2>1. disk = [gateway |-> GatewayAfter(p), sites |-> sites, rules |-> rules]
    BY <1>1 DEF DiskInv, Persisted
  <2>2. disk'.gateway = gateway' /\ disk'.sites = sites' /\ disk'.rules = rules'
    BY <1>1, <2>1
  <2>3. disk' # Torn
    <3>1. GatewayAfter(p) \in Gateways /\ sites \in Sites /\ rules \in RuleLists
      BY DEF GatewayAfter, TypeOK
    <3> QED
      BY <1>1, <2>1, <3>1 DEF Stored
  <2> QED
    BY <1>4, <2>2, <2>3 DEF DiskInv, Updating
<1> QED
  BY <1>5, <1>6, <1>7, <1>8, <1>9

\* A rebuild makes the table fit the rules and the zone of this moment.
LEMMA RebuildStep == ASSUME IInv, NEW p \in Slots, Rebuild(p) PROVE IInv'
<1> USE SettingsAssumption DEF IInv
<1>1. /\ pc[p] = "rebuild"
      /\ table' = Resolve(rules, zone)
      /\ pc' = [pc EXCEPT ![p] = "idle"]
      /\ UNCHANGED <<gateway, sites, rules, disk, mu, zone, sticky, made, stopped, cleaning,
                     balancer, panicked, refused, newGateway, newRules, next, failed, old, ops>>
  BY DEF Rebuild, Goto, setVars, managerVars
<1>2. TypeOK'
  <2>1. table' \in [Index -> Rules \cup {NoRule}]
    BY <1>1 DEF TypeOK, Resolve, RuleLists
  <2> QED
    BY <1>1, <2>1 DEF TypeOK
<1>3. ManagerInv'
  BY <1>1 DEF ManagerInv, TypeOK
<1>4. LockInv'
  BY <1>1 DEF LockInv, Updating, TypeOK
<1>5. TableInv'
  <2>1. table' = Resolve(rules, zone)'
    BY <1>1 DEF Resolve
  <2> QED
    BY <2>1 DEF TableInv
<1>6. DiskInv'
  BY <1>1, SameDisk DEF TypeOK, Updating
<1> QED
  BY <1>2, <1>3, <1>4, <1>5, <1>6

\* Replacing the StickyManager and the balancer concerns nothing else; the manager in
\* use and those about to be used were made from gateway settings.
LEMMA ManagerStep ==
    ASSUME IInv, NEW p \in Slots,
           \/ StopCheck(p) \/ StopClose(p) \/ StartManager(p) \/ SwapManager(p)
           \/ UpdateLoadBalancer(p)
    PROVE  IInv'
<1> USE SettingsAssumption DEF IInv
<1>1. /\ pc[p] \in {"stopcheck", "stopclose", "start", "swap", "balancer"}
      /\ \E l \in {"stopclose", "start", "swap", "balancer", "idle"} : pc' = [pc EXCEPT ![p] = l]
      /\ UNCHANGED <<gateway, sites, rules, disk, mu, zone, table, balancer, refused, newGateway,
                     newRules, next, failed, ops>>
  BY DEF StopCheck, StopClose, StartManager, SwapManager, UpdateLoadBalancer, Goto, setVars,
         dispVars
<1>2. LockInv' /\ TableInv' /\ DiskInv'
  <2>1. \A q \in Slots \ {p} : pc'[q] = pc[q]
    BY <1>1 DEF TypeOK
  <2>2. ~ Updating(p) /\ ~ Updating(p)'
    BY <1>1 DEF TypeOK, Updating
  <2> QED
    BY <1>1, <2>1, <2>2, QuietStep
<1>3. pc' \in [Slots -> {"idle", "lock", "decode", "unmarshal", "persist", "write", "store",
                         "rebuild", "stopcheck", "stopclose", "start", "swap", "balancer"}]
  BY <1>1 DEF TypeOK
<1>4. newGateway[p] \in Gateways
  BY <1>1 DEF ManagerInv
<1>5. CASE StopCheck(p)
  <2>1. /\ old' = [old EXCEPT ![p] = sticky]
        /\ pc'[p] \in {"start", "stopclose"}
        /\ \A q \in Slots \ {p} : pc'[q] = pc[q]
        /\ UNCHANGED <<sticky, made, stopped, cleaning, panicked>>
    BY <1>5 DEF StopCheck, Goto, dispVars, managerVars, TypeOK
  <2>2. TypeOK'
    BY <1>1, <1>3, <2>1 DEF TypeOK
  <2>3. ManagerInv'
    BY <1>1, <1>4, <2>1 DEF ManagerInv, TypeOK
  <2> QED
    BY <1>2, <2>2, <2>3
<1>6. CASE StopClose(p)
  <2>1. /\ pc'[p] = "start"
        /\ \A q \in Slots \ {p} : pc'[q] = pc[q]
        /\ stopped' \in {stopped, stopped \cup {old[p]}} /\ cleaning' \subseteq cleaning
        /\ panicked' \in BOOLEAN
        /\ UNCHANGED <<sticky, made, old>>
    BY <1>6 DEF StopClose, Goto, TypeOK
  <2>2. old[p] \in Managers
    BY <1>6 DEF StopClose, ManagerInv
  <2>3. TypeOK'
    BY <1>1, <1>3, <2>1, <2>2 DEF TypeOK
  <2>4. ManagerInv'
    BY <1>1, <1>4, <2>1 DEF ManagerInv, TypeOK
  <2> QED
    BY <1>2, <2>3, <2>4
<1>7. CASE StartManager(p)
  <2>1. PICK m \in Managers :
           /\ FreshManager(m)
           /\ made' = [made EXCEPT ![m] = newGateway[p]]
           /\ stopped' = stopped \ {m}
           /\ cleaning' = cleaning \cup Cleaners(m, newGateway[p])
           /\ old' = [old EXCEPT ![p] = m]
    BY <1>7 DEF StartManager
  <2>2. /\ pc'[p] = "swap"
        /\ \A q \in Slots \ {p} : pc'[q] = pc[q]
        /\ UNCHANGED <<sticky, panicked>>
    BY <1>7 DEF StartManager, Goto, TypeOK
  <2>3. m # sticky /\ \A q \in Slots : old[q] # m
    BY <2>1 DEF FreshManager
  <2>4. TypeOK'
    <3>1. made' \in [Managers -> Gateways \cup {NoGateway}] /\ made'[sticky'] \in Gateways
      BY <1>4, <2>1, <2>2, <2>3 DEF TypeOK
    <3>2. stopped' \in SUBSET Managers /\ cleaning' \in SUBSET Managers
      BY <2>1 DEF TypeOK, Cleaners
    <3>3. old' \in [Slots -> Managers \cup {NoManager}]
      BY <2>1 DEF TypeOK
    <3> QED
      BY <1>1, <1>3, <2>2, <3>1, <3>2, <3>3 DEF TypeOK
  <2>5. ManagerInv'
    <3> SUFFICES ASSUME NEW q \in Slots
                 PROVE  /\ pc'[q] \in {"stopcheck", "stopclose", "start", "swap", "balancer"}
                               => newGateway'[q] \in Gateways
                        /\ pc'[q] \in {"stopclose", "swap"} => old'[q] \in Managers
                        /\ pc'[q] = "swap" => made'[old'[q]] \in Gateways
      BY DEF ManagerInv
    <3>1. CASE q = p
      BY <1>1, <1>4, <2>1, <2>2, <3>1 DEF TypeOK
    <3>2. CASE q # p
      <4>1. old'[q] = old[q] /\ pc'[q] = pc[q] /\ newGateway'[q] = newGateway[q]
        BY <1>1, <2>1, <2>2, <3>2 DEF TypeOK
      <4>2. old[q] \in Managers => made'[old[q]] = made[old[q]]
        BY <2>1, <2>3 DEF TypeOK
      <4> QED
        BY <4>1, <4>2 DEF ManagerInv
    <3> QED
      BY <3>1, <3>2
  <2> QED
    BY <1>2, <2>4, <2>5
<1>8. CASE SwapManager(p)
  <2>1. /\ pc[p] = "swap" /\ pc'[p] = "balancer"
        /\ \A q \in Slots \ {p} : pc'[q] = pc[q]
        /\ sticky' = old[p] /\ old' = [old EXCEPT ![p] = NoManager]
        /\ UNCHANGED <<made, stopped, cleaning, panicked>>
    BY <1>8 DEF SwapManager, Goto, managerVars, TypeOK
  <2>2. old[p] \in Managers /\ made[old[p]] \in Gateways
    BY <2>1 DEF ManagerInv
  <2>3. TypeOK'
    BY <1>1, <1>3, <2>1, <2>2 DEF TypeOK
  <2>4. ManagerInv'
    BY <1>1, <1>4, <2>1 DEF ManagerInv, TypeOK
  <2> QED
    BY <1>2, <2>3, <2>4
<1>9. CASE UpdateLoadBalancer(p)
  <2>1. /\ pc'[p] = "idle"
        /\ \A q \in Slots \ {p} : pc'[q] = pc[q]
        /\ panicked' \in BOOLEAN
        /\ UNCHANGED <<sticky, made, stopped, cleaning, old>>
    BY <1>9 DEF UpdateLoadBalancer, Goto, dispVars, managerVars, TypeOK
  <2>2. TypeOK'
    BY <1>1, <1>3, <2>1 DEF TypeOK
  <2>3. ManagerInv'
    BY <1>1, <2>1 DEF ManagerInv, TypeOK
  <2> QED
    BY <1>2, <2>2, <2>3
<1> QED
  BY <1>5, <1>6, <1>7, <1>8, <1>9

\* A new process takes its settings from the file and builds its table from them.
LEMMA RestartStep == ASSUME IInv, Restart PROVE IInv'
<1> USE SettingsAssumption DEF IInv
<1>1. disk.gateway \in Gateways /\ disk.sites \in Sites /\ disk.rules \in RuleLists
  BY DEF Restart, TypeOK, Stored
<1>2. /\ disk # Torn
      /\ gateway' = disk.gateway /\ sites' = disk.sites /\ rules' = disk.rules /\ disk' = disk
      /\ panicked' = FALSE /\ refused' = {} /\ mu' = Nobody
      /\ zone' = zone /\ table' = Resolve(disk.rules, zone)
      /\ balancer' = Balancer[disk.gateway]
      /\ ops' = ops
      /\ pc' = [p \in Slots |-> "idle"]
      /\ newGateway' = [p \in Slots |-> NoGateway]
  BY DEF Restart
<1>3. PICK m \in Managers :
         /\ sticky' = m
         /\ made' = [n \in Managers |-> IF n = m THEN disk.gateway ELSE NoGateway]
         /\ stopped' = {} /\ cleaning' = Cleaners(m, disk.gateway)
  BY DEF Restart
<1>4. TypeOK'
  <2>1. table' \in [Index -> Rules \cup {NoRule}]
    BY <1>1, <1>2 DEF Resolve, RuleLists
  <2>2. made' \in [Managers -> Gateways \cup {NoGateway}] /\ made'[sticky'] \in Gateways
    BY <1>1, <1>3
  <2>3. stopped' \in SUBSET Managers /\ cleaning' \in SUBSET Managers
    BY <1>3 DEF Cleaners
  <2>4. balancer' \in Kinds
    BY <1>1, <1>2
  <2>5. /\ newRules' \in [Slots -> RuleLists]
        /\ next' \in [Slots -> 1..(NRules + 1)]
        /\ failed' \in [Slots -> BOOLEAN]
        /\ old' \in [Slots -> Managers \cup {NoManager}]
    BY <1>1 DEF Restart
  <2> QED
    BY <1>1, <1>2, <1>3, <2>1, <2>2, <2>3, <2>4, <2>5 DEF TypeOK
<1>5. LockInv' /\ ManagerInv'
  BY <1>2 DEF LockInv, ManagerInv, Updating
<1>6. TableInv' /\ DiskInv'
  BY <1>2 DEF TableInv, DiskInv, Resolve
<1> QED
  BY <1>4, <1>5, <1>6

-----------------------------------------------------------------------------
\* A step that changes nothing.
LEMMA StutterStep == ASSUME IInv, UNCHANGED vars PROVE IInv'
<1> USE DEF IInv, vars, setVars, dispVars, managerVars, localVars
<1>1. TypeOK' /\ LockInv' /\ ManagerInv'
  BY DEF TypeOK, LockInv, ManagerInv, Updating
<1>2. TableInv'
  BY DEF TableInv, Routing, Updating, Resolve
<1>3. DiskInv'
  BY DEF DiskInv, Routing, Gating, Behind, Updating, Persisted, GatewayAfter
<1> QED
  BY <1>1, <1>2, <1>3

\* The invariant is inductive.
THEOREM Invariance == Spec => []IInv
<1>1. IInv /\ [Next]_vars => IInv'
  <2> SUFFICES ASSUME IInv, [Next]_vars PROVE IInv'
    OBVIOUS
  <2>1. ASSUME NEW p \in Slots, Step(p) PROVE IInv'
    BY <2>1, LockStep, DecodeGatewayStep, UnmarshalStep, UnmarshalDoneStep, PersistStep,
       PersistWriteStep, StoreStep, RebuildStep, ManagerStep DEF Step
  <2>2. ASSUME NEW p \in Slots, Request(p) PROVE IInv'
    BY <2>2, RequestStep, PublishStep DEF Request
  <2> QED
    BY <2>1, <2>2, RestartStep, StutterStep DEF Next
<1> QED
  BY Initially, <1>1, PTL DEF Spec

\* TypeOK: in particular the dispatcher never uses a StickyManager that was built from
\* no gateway settings (OnSettingsUpdate, under any interleaving of updates).
THEOREM TypeCorrect == Spec => []TypeOK
<1>1. IInv => TypeOK
  BY DEF IInv
<1> QED
  BY Invariance, <1>1, PTL

\* RoutingApplied: once all updates and publications are done, the table in use is the one
\* of the live rules and of the last zone (updateRoutingTables, ReloadStrategy).
THEOREM RoutingSettles == Spec => []RoutingApplied
<1>1. IInv => RoutingApplied
  BY DEF IInv, TableInv, RoutingApplied, Quiescent, Routing, Updating
<1> QED
  BY Invariance, <1>1, PTL

\* DiskMatches: once all updates are done, settings.json holds the settings in force, also
\* after panics and restarts; after refused updates and failed writes, all but the rules
\* of the refused modules, or it is torn (SettingsManager.Update, persist).
THEOREM DiskFollows == Spec => []DiskMatches
<1>1. IInv => DiskMatches
  BY DEF IInv, DiskInv, DiskMatches, Quiescent, Routing, Gating, Updating
<1> QED
  BY Invariance, <1>1, PTL

=============================================================================
