-------------------------- MODULE AppServerProofs --------------------------
(***************************************************************************)
(* Proofs about AppServer.  IInv is inductive: one lemma per action shows  *)
(* that the action preserves it.  QuietStep and QuietLocals serve the      *)
(* actions that leave the A zone alone, EditLocals those that edit it.     *)
(***************************************************************************)
EXTENDS AppServer, TLAPS

\* The empty map is a zone, and a zone maps some ids to ServerState values.
LEMMA ZoneFacts ==
    /\ EmptyZone \in Zones /\ DOMAIN EmptyZone = {}
    /\ \A z \in Zones : /\ DOMAIN z \in SUBSET Servers
                        /\ \A s \in DOMAIN z : z[s] \in ServerState
  BY DEF EmptyZone, Zones

\* deepCopyAppState, over any set of ids, yields a zone.
LEMMA SnapshotZone ==
    ASSUME TypeOK, NEW S \in SUBSET Servers
    PROVE  [s \in S |-> obj[s]] \in Zones
  BY DEF TypeOK, Zones

\* What SaveServers writes for a zone is a well-formed file on the same ids.
LEMMA SavedFile ==
    ASSUME TypeOK, NEW z \in Zones, OwnProfiles(z)
    PROVE  /\ Saved(z) \in Files
           /\ DOMAIN Saved(z) = DOMAIN z
           /\ OwnProfiles(Saved(z))
  <1>1. DOMAIN z \in SUBSET Servers
    BY ZoneFacts
  <1>2. \A s \in DOMAIN z : Saved(z)[s] \in [profile : Profiles, active : BOOLEAN]
    BY DEF Saved, TypeOK, OwnProfiles
  <1>3. Saved(z) \in [DOMAIN z -> [profile : Profiles, active : BOOLEAN]]
    BY <1>2 DEF Saved
  <1>4. Saved(z) \in Files
    BY <1>1, <1>3 DEF Files
  <1>5. OwnProfiles(Saved(z))
    BY DEF Saved, OwnProfiles
  <1> QED
    BY <1>4, <1>5 DEF Saved

\* os.WriteFile leaves a well-formed file, the old one or a torn one.
LEMMA WrittenFile ==
    ASSUME IInv, NEW z \in Zones, OwnProfiles(z), WriteFile(Saved(z))
    PROVE  /\ file' \in Files \cup {Torn} /\ saveFailed' \in BOOLEAN
           /\ file' # Torn => OwnProfiles(file')
  <1>1. TypeOK /\ (file # Torn => OwnProfiles(file))
    BY DEF IInv
  <1>2. Saved(z) \in Files /\ OwnProfiles(Saved(z))
    BY <1>1, SavedFile
  <1> QED
    BY <1>1, <1>2 DEF WriteFile, TypeOK

\* Whoever may edit the A zone, and does not restart an instance, finds it consistent.
LEMMA NotRestarting ==
    ASSUME IInv, NEW p \in Procs, configLock \in {Nobody, p}, pc[p] # "restart"
    PROVE  Consistent(obj) /\ \A r \in Procs : pc[r] # "restart"
  <1>1. \A r \in Procs : pc[r] # "restart"
    BY ConstantsAssumption DEF IInv, LockInv, LockedLabels
  <1> QED
    BY <1>1 DEF IInv, ObjectInv

\* A copy of part of the A zone keeps its own profiles and its consistency.
LEMMA SubSnapshot ==
    ASSUME IInv, Consistent(obj), NEW S \in SUBSET members
    PROVE  /\ [s \in S |-> obj[s]] \in Zones
           /\ OwnProfiles([s \in S |-> obj[s]])
           /\ Consistent([s \in S |-> obj[s]])
  <1>1. S \in SUBSET Servers
    BY DEF IInv, TypeOK
  <1>2. [s \in S |-> obj[s]] \in Zones
    BY <1>1, SnapshotZone DEF IInv
  <1>3. OwnProfiles([s \in S |-> obj[s]])
    BY <1>1, ConstantsAssumption DEF OwnProfiles, IInv, ObjectInv
  <1>4. Consistent([s \in S |-> obj[s]])
    <2>1. DOMAIN obj = Servers
      BY DEF IInv, TypeOK
    <2> QED BY <1>1, <2>1 DEF Consistent
  <1> QED
    BY <1>2, <1>3, <1>4

\* A step of p that touches neither the A zone nor configLock.
LEMMA QuietStep ==
    ASSUME IInv, NEW p \in Procs, NEW l \in Labels,
           UNCHANGED <<members, obj, active, built, open, configLock>>,
           pc' = [pc EXCEPT ![p] = l],
           {pc[p], l} \cap ({"load"} \cup LockedLabels) = {},
           p # Main => l \notin {"probe", "check"},
           pc[p] # "idle" \/ phase = "up",
           phase' \in {phase, "up"}, pc[Main] = "load" => phase' = phase
    PROVE  InstancesOwned' /\ LockInv' /\ ObjectInv' /\ LoadInv' /\ Settled'
  <1>1. InstancesOwned'
    BY DEF IInv, InstancesOwned
  <1>2. LockInv'
    BY ConstantsAssumption DEF IInv, LockInv, LockedLabels, TypeOK, Procs
  <1>3. ObjectInv'
    <2>1. pc[p] # "restart" /\ l # "restart"
      BY DEF LockedLabels
    <2>2. \A r \in Procs : pc'[r] = "restart" <=> pc[r] = "restart"
      BY <2>1 DEF IInv, TypeOK
    <2> QED
      BY <2>2 DEF IInv, ObjectInv, Consistent
  <1>4. LoadInv'
    BY ConstantsAssumption DEF IInv, LoadInv, TypeOK, Procs
  <1>5. Settled'
    BY ConstantsAssumption DEF IInv, Settled, TypeOK, Procs, LockInv, LockedLabels
  <1> QED
    BY <1>1, <1>2, <1>3, <1>4, <1>5

\* The other processes keep their knowledge when the A zone is unchanged.
LEMMA QuietLocals ==
    ASSUME IInv, NEW p \in Procs, LocalOK(p)',
           UNCHANGED <<members, obj, built>>,
           \A r \in Procs \ {p} : pc'[r] = pc[r] /\ sid'[r] = sid[r] /\ buf'[r] = buf[r]
    PROVE  LocalInv'
  <1> SUFFICES ASSUME NEW r \in Procs, r # p
               PROVE  LocalOK(r)'
    BY DEF LocalInv
  <1> QED
    BY DEF IInv, LocalInv, LocalOK, ServerConsistent, OwnProfiles, Consistent

\* The same when p edits the A zone: profiles stay profiles, nobody else holds the
\* lock, and no copied instance is rebuilt.
LEMMA EditLocals ==
    ASSUME IInv, NEW p \in Procs, LocalOK(p)',
           \A s \in Servers : obj[s].profile \in Profiles => obj'[s].profile \in Profiles,
           configLock \in {Nobody, p},
           \A r \in Procs : \A s \in DOMAIN buf[r] :
               buf[r][s].instance # NoInstance
                   => built'[buf[r][s].instance] = built[buf[r][s].instance],
           \A r \in Procs \ {p} : pc'[r] = pc[r] /\ sid'[r] = sid[r] /\ buf'[r] = buf[r]
    PROVE  LocalInv'
  <1> SUFFICES ASSUME NEW r \in Procs, r # p
               PROVE  LocalOK(r)'
    BY DEF LocalInv
  <1>1. LocalOK(r)
    BY DEF IInv, LocalInv
  <1>2. pc[r] \notin {"triggercheck", "restart", "delete"}
    BY ConstantsAssumption DEF IInv, LockInv, LockedLabels
  <1>3. OwnProfiles(buf[r])' /\ Consistent(buf[r])'
    BY <1>1 DEF LocalOK, OwnProfiles, Consistent
  <1> QED
    BY <1>1, <1>2, <1>3 DEF LocalOK

\* ReloadStrategy, first section: the copy it takes is consistent.
LEMMA ReloadCopyStep ==
    ASSUME IInv, NEW p \in Procs, ReloadCopy(p)
    PROVE  IInv'
  <1> USE DEF ReloadCopy, Goto, zoneVars, lockVars, boundVars, fileVars
  <1>1. Snapshot \in Zones /\ OwnProfiles(Snapshot) /\ Consistent(Snapshot)
    BY SubSnapshot, NotRestarting DEF Snapshot, ConfigFree
  <1>2. TypeOK'
    BY <1>1 DEF IInv, TypeOK, Labels
  <1>3. InstancesOwned' /\ LockInv' /\ ObjectInv' /\ LoadInv' /\ Settled'
    BY QuietStep DEF Labels, LockedLabels
  <1>4. LocalOK(p)'
    BY <1>1 DEF IInv, TypeOK, LocalOK, OwnProfiles, Consistent
  <1>5. LocalInv'
    BY <1>4, QuietLocals DEF IInv, TypeOK
  <1> QED
    BY <1>2, <1>3, <1>5 DEF IInv, ConsistentPublication, OwnProfiles

\* ReloadStrategy, second section: a copy that was consistent when it was taken
\* is still consistent when it is published.
LEMMA ReloadSwapStep ==
    ASSUME IInv, NEW p \in Procs, ReloadSwap(p)
    PROVE  IInv'
  <1> USE DEF ReloadSwap, Goto, zoneVars, lockVars, boundVars, fileVars
  <1>1. after[p] \in {"idle", "copy", "savelock"} /\ pc[p] = "swap"
    BY DEF IInv, TypeOK
  <1>2. TypeOK'
    BY <1>1, ZoneFacts DEF IInv, TypeOK, Labels
  <1>3. InstancesOwned' /\ LockInv' /\ ObjectInv' /\ LoadInv' /\ Settled'
    <2>1. pc[Main] = "load" => phase' = phase
      BY <1>1, ConstantsAssumption DEF IInv, LoadInv, Procs
    <2> QED
      BY <1>1, <2>1, QuietStep DEF Labels, LockedLabels
  <1>4. LocalOK(p)'
    BY <1>1, ZoneFacts DEF IInv, TypeOK, LocalOK, OwnProfiles, Consistent
  <1>5. LocalInv'
    BY <1>4, QuietLocals DEF IInv, TypeOK
  <1>6. ConsistentPublication'
    BY DEF IInv, LocalInv, LocalOK, Consistent, ConsistentPublication
  <1> QED
    BY <1>2, <1>3, <1>5, <1>6 DEF IInv, OwnProfiles

\* SaveConfigToFile, whatever ran between its sections, leaves a well-formed file.
LEMMA SaveStep ==
    ASSUME IInv, NEW p \in Procs, Save(p)
    PROVE  IInv'
  <1> USE DEF Goto, zoneVars, lockVars, boundVars, fileVars
  <1>1. ASSUME SaveLock(p) PROVE IInv'
    <2> USE <1>1 DEF SaveLock
    <2>1. TypeOK'
      BY DEF IInv, TypeOK, Labels
    <2>2. InstancesOwned' /\ LockInv' /\ ObjectInv' /\ LoadInv' /\ Settled'
      BY QuietStep DEF Labels, LockedLabels
    <2>3. LocalOK(p)'
      BY DEF IInv, TypeOK, LocalInv, LocalOK, OwnProfiles, Consistent
    <2>4. LocalInv'
      BY <2>3, QuietLocals DEF IInv, TypeOK
    <2> QED
      BY <2>1, <2>2, <2>4 DEF IInv, ConsistentPublication, OwnProfiles
  <1>2. ASSUME SaveRead(p) PROVE IInv'
    <2> USE <1>2 DEF SaveRead
    <2>1. Snapshot \in Zones /\ OwnProfiles(Snapshot) /\ Consistent(Snapshot)
      BY SubSnapshot, NotRestarting DEF Snapshot, ConfigFree
    <2>2. TypeOK'
      BY <2>1 DEF IInv, TypeOK, Labels
    <2>3. InstancesOwned' /\ LockInv' /\ ObjectInv' /\ LoadInv' /\ Settled'
      BY QuietStep DEF Labels, LockedLabels
    <2>4. LocalOK(p)'
      BY <2>1 DEF IInv, TypeOK, LocalOK, OwnProfiles, Consistent
    <2>5. LocalInv'
      BY <2>4, QuietLocals DEF IInv, TypeOK
    <2> QED
      BY <2>2, <2>3, <2>5 DEF IInv, ConsistentPublication, OwnProfiles
  <1>3. ASSUME SaveWrite(p) PROVE IInv'
    <2> USE <1>3 DEF SaveWrite
    <2>1. /\ file' \in Files \cup {Torn} /\ saveFailed' \in BOOLEAN
          /\ file' # Torn => OwnProfiles(file')
      BY WrittenFile DEF IInv, TypeOK, LocalInv, LocalOK
    <2> HIDE DEF WriteFile
    <2>2. TypeOK'
      BY <2>1, ZoneFacts DEF IInv, TypeOK, Labels
    <2>3. InstancesOwned' /\ LockInv' /\ ObjectInv' /\ LoadInv' /\ Settled'
      BY QuietStep DEF Labels, LockedLabels
    <2>4. LocalOK(p)'
      BY ZoneFacts DEF IInv, TypeOK, LocalOK, OwnProfiles, Consistent
    <2>5. LocalInv'
      BY <2>4, QuietLocals DEF IInv, TypeOK
    <2> QED
      BY <2>1, <2>2, <2>3, <2>5 DEF IInv, ConsistentPublication, OwnProfiles
  <1> QED
    BY <1>1, <1>2, <1>3 DEF Save

\* runHealthChecks, read section: only instances of the A zone are collected.
LEMMA HealthSnapshotStep ==
    ASSUME IInv, HealthSnapshot
    PROVE  IInv'
  <1> USE DEF HealthSnapshot, Goto, zoneVars, lockVars, boundVars, fileVars
  <1> DEFINE z == [s \in ToCheck |-> obj[s]]
             l == IF ToCheck = {} THEN Returns ELSE "check"
  <1>1. Main \in Procs /\ l \in {"copy", "idle", "check"}
    BY DEF Procs, Returns
  <1>2. z \in Zones /\ OwnProfiles(z) /\ Consistent(z)
    BY <1>1, SubSnapshot, NotRestarting DEF ToCheck, ConfigFree
  <1>3. buf' = [buf EXCEPT ![Main] = z] /\ pc' = [pc EXCEPT ![Main] = l]
    OBVIOUS
  <1> HIDE DEF z, l
  <1>4. TypeOK'
    BY <1>1, <1>2, <1>3 DEF IInv, TypeOK, Labels
  <1>5. InstancesOwned' /\ LockInv' /\ ObjectInv' /\ LoadInv' /\ Settled'
    <2>1. {pc[Main], l} \cap ({"load"} \cup LockedLabels) = {}
      BY <1>1 DEF LockedLabels
    <2>2. l \in Labels
      BY <1>1 DEF Labels
    <2> QED
      BY <1>1, <1>3, <2>1, <2>2, QuietStep
  <1>6. LocalOK(Main)'
    BY <1>1, <1>2, <1>3 DEF IInv, TypeOK, LocalOK, OwnProfiles, Consistent
  <1>7. LocalInv'
    BY <1>1, <1>6, QuietLocals DEF IInv, TypeOK
  <1> QED
    BY <1>4, <1>5, <1>7 DEF IInv, ConsistentPublication, OwnProfiles

\* The ticker starts a cycle and touches nothing else.
LEMMA TickStep ==
    ASSUME IInv, Tick
    PROVE  IInv'
  <1> USE DEF Tick, Begin, Goto, zoneVars, lockVars, boundVars, fileVars
  <1>1. Main \in Procs
    BY DEF Procs
  <1>2. TypeOK'
    BY <1>1 DEF IInv, TypeOK, Labels
  <1>3. InstancesOwned' /\ LockInv' /\ ObjectInv' /\ LoadInv' /\ Settled'
    BY <1>1, QuietStep DEF Labels, LockedLabels
  <1>4. LocalOK(Main)'
    BY <1>1 DEF IInv, TypeOK, LocalInv, LocalOK, OwnProfiles, Consistent
  <1>5. LocalInv'
    BY <1>1, <1>4, QuietLocals DEF IInv, TypeOK
  <1> QED
    BY <1>2, <1>3, <1>5 DEF IInv, ConsistentPublication, OwnProfiles

\* ReportFailure keeps the counter below the threshold.
LEMMA ReportFailureStep ==
    ASSUME IInv, NEW p \in Requests, NEW s \in Servers, ReportFailure(p, s)
    PROVE  IInv'
  <1> USE DEF ReportFailure, Begin, Goto, zoneVars, lockVars, boundVars, fileVars
  <1>1. p \in Procs /\ p # Main
    BY ConstantsAssumption DEF Procs
  <1>2. TypeOK'
    BY <1>1, ConstantsAssumption DEF IInv, TypeOK, Labels, ThresholdReached
  <1>3. InstancesOwned' /\ LockInv' /\ ObjectInv' /\ LoadInv' /\ Settled'
    <2>1. CASE ThresholdReached(s)
      BY <1>1, <2>1, QuietStep DEF Labels, LockedLabels
    <2>2. CASE ~ThresholdReached(s)
      <3>1. pc' = [pc EXCEPT ![p] = "idle"]
        BY <1>1, <2>2 DEF IInv, TypeOK
      <3> QED
        BY <1>1, <3>1, QuietStep, ZenonT(40) DEF Labels, LockedLabels
    <2> QED
      BY <2>1, <2>2
  <1>4. LocalOK(p)'
    BY <1>1 DEF IInv, TypeOK, LocalInv, LocalOK, OwnProfiles, Consistent
  <1>5. LocalInv'
    BY <1>1, <1>4, QuietLocals DEF IInv, TypeOK
  <1> QED
    BY <1>2, <1>3, <1>5 DEF IInv, ConsistentPublication, OwnProfiles

\* ReportSuccess resets the counter and nothing else.
LEMMA ReportSuccessStep ==
    ASSUME IInv, NEW s \in Servers, ReportSuccess(s)
    PROVE  IInv'
  <1> USE DEF ReportSuccess, zoneVars, lockVars, localVars, boundVars, fileVars
  <1>1. TypeOK'
    BY ConstantsAssumption DEF IInv, TypeOK
  <1>2. InstancesOwned' /\ LockInv' /\ ObjectInv' /\ LoadInv' /\ Settled'
    BY DEF IInv, InstancesOwned, LockInv, LockedLabels, ObjectInv, LoadInv, Settled, Consistent
  <1>3. LocalInv'
    BY DEF IInv, LocalInv, LocalOK, ServerConsistent, OwnProfiles, Consistent
  <1> QED
    BY <1>1, <1>2, <1>3 DEF IInv, ConsistentPublication, OwnProfiles

\* UpdateServerActiveState, read section: the state it looked up has a profile.
LEMMA SetActiveLookupStep ==
    ASSUME IInv, NEW p \in Requests, NEW s \in Servers, NEW b \in BOOLEAN,
           SetActiveLookup(p, s, b)
    PROVE  IInv'
  <1> USE DEF SetActiveLookup, Begin, Goto, zoneVars, lockVars, boundVars, fileVars
  <1>1. p \in Procs /\ p # Main
    BY ConstantsAssumption DEF Procs
  <1>2. TypeOK'
    BY <1>1 DEF IInv, TypeOK, Labels
  <1>3. InstancesOwned' /\ LockInv' /\ ObjectInv' /\ LoadInv' /\ Settled'
    BY <1>1, QuietStep DEF Labels, LockedLabels
  <1>4. LocalOK(p)'
    BY <1>1 DEF IInv, TypeOK, LocalInv, LocalOK, OwnProfiles, Consistent, ObjectInv
  <1>5. LocalInv'
    BY <1>1, <1>4, QuietLocals DEF IInv, TypeOK
  <1> QED
    BY <1>2, <1>3, <1>5 DEF IInv, ConsistentPublication, OwnProfiles

\* loadConfigFromFile writes the loaded servers back.
LEMMA LoadSaveStep ==
    ASSUME IInv, LoadSave
    PROVE  IInv'
  <1> USE DEF LoadSave, Goto, zoneVars, lockVars, boundVars, fileVars
  <1>1. Main \in Procs
    BY DEF Procs
  <1>2. Snapshot \in Zones /\ OwnProfiles(Snapshot) /\ Consistent(obj)
    BY <1>1, SubSnapshot, NotRestarting DEF Snapshot, IInv, LockInv, LockedLabels
  <1>3. /\ file' \in Files \cup {Torn} /\ saveFailed' \in BOOLEAN
        /\ file' # Torn => OwnProfiles(file')
    BY <1>2, WrittenFile
  <1>4. TypeOK'
    BY <1>1, <1>3 DEF IInv, TypeOK, Labels
  <1>5. LockInv' /\ LoadInv' /\ Settled'
    BY <1>1, ConstantsAssumption DEF IInv, LockInv, LockedLabels, LoadInv, Settled, TypeOK, Procs
  <1>6. InstancesOwned' /\ ObjectInv'
    BY DEF IInv, InstancesOwned, ObjectInv, Consistent
  <1>7. LocalOK(Main)'
    BY <1>1 DEF IInv, TypeOK, LocalInv, LocalOK, OwnProfiles, Consistent
  <1>8. LocalInv'
    BY <1>1, <1>7, QuietLocals DEF IInv, TypeOK
  <1> QED
    BY <1>3, <1>4, <1>5, <1>6, <1>8 DEF IInv, ConsistentPublication, OwnProfiles

\* manageInstances closes the listener of exactly the server that loses it.
LEMMA ManageCloseStep ==
    ASSUME IInv, NEW p \in Procs, NEW s \in Servers, ManageClose(p, s)
    PROVE  IInv'
  <1> USE DEF ManageClose, ToClose, ListenersWithout, lockVars, localVars, boundVars, fileVars
  <1>1. /\ s \in members /\ obj[s].instance # NoInstance
        /\ configLock = p /\ pc[p] = "manage"
    BY DEF IInv, LockInv, LockedLabels
  <1>2. /\ obj \in [Servers -> ServerState]
        /\ obj' \in [Servers -> ServerState]
        /\ obj'[s].instance = NoInstance /\ obj'[s].profile = obj[s].profile
        /\ \A t \in Servers \ {s} : obj'[t] = obj[t]
    BY DEF IInv, TypeOK, ServerState
  <1>3. TypeOK'
    BY <1>2 DEF IInv, TypeOK
  <1>4. InstancesOwned'
    BY <1>1, <1>2 DEF IInv, InstancesOwned, TypeOK
  <1>5. LockInv' /\ LoadInv' /\ Settled'
    BY <1>1, ConstantsAssumption DEF IInv, LockInv, LockedLabels, LoadInv, Settled, TypeOK, Procs
  <1>6. ObjectInv'
    BY <1>1, <1>2 DEF IInv, ObjectInv, Consistent
  <1>7. LocalOK(p)'
    BY <1>1 DEF IInv, LocalInv, LocalOK, OwnProfiles, Consistent
  <1>8. LocalInv'
    BY <1>1, <1>2, <1>7, EditLocals
  <1> QED
    BY <1>3, <1>4, <1>5, <1>6, <1>8 DEF IInv, ConsistentPublication, OwnProfiles

\* manageInstances starts an instance that no other server or copy refers to.
LEMMA ManageCreateStep ==
    ASSUME IInv, NEW p \in Procs, NEW s \in Servers, ManageCreate(p, s)
    PROVE  IInv'
  <1> USE DEF lockVars, localVars, boundVars, fileVars
  <1>1. PICK i \in Instances :
          /\ FreshInstance(i)
          /\ open' = open \cup {i}
          /\ built' = [built EXCEPT ![i] = obj[s].profile]
          /\ obj' = [obj EXCEPT ![s].instance = i, ![s].health = "Up"]
    BY DEF ManageCreate
  <1>2. /\ s \in members /\ obj[s].instance = NoInstance /\ i # NoInstance
        /\ configLock = p /\ pc[p] = "manage"
        /\ UNCHANGED <<phase, members, active, work, failures, lockVars, fileVars, localVars,
                       boundVars>>
    BY ConstantsAssumption DEF ManageCreate, ToCreate, IInv, LockInv, LockedLabels
  <1>3. /\ obj \in [Servers -> ServerState]
        /\ obj' \in [Servers -> ServerState]
        /\ obj'[s].instance = i /\ obj'[s].profile = obj[s].profile
        /\ \A t \in Servers \ {s} : obj'[t] = obj[t]
    <2>1. obj \in [Servers -> ServerState]
      BY DEF IInv, TypeOK
    <2>2. obj[s] \in ServerState
      BY <2>1
    <2>3. obj'[s] = [obj[s] EXCEPT !.instance = i, !.health = "Up"]
      BY <1>1, <2>1
    <2>4. obj'[s] = [profile |-> obj[s].profile, instance |-> i, health |-> "Up",
                     metrics |-> obj[s].metrics]
      BY <2>2, <2>3 DEF ServerState
    <2>5. obj'[s] \in ServerState
      BY <2>2, <2>4 DEF ServerState, Health
    <2>6. \A t \in Servers \ {s} : obj'[t] = obj[t]
      BY <1>1, <2>1
    <2>7. DOMAIN obj' = Servers /\ obj' = [t \in Servers |-> obj'[t]]
      BY <1>1, <2>1
    <2> QED
      BY <2>1, <2>4, <2>5, <2>6, <2>7
  <1>4. obj[s].profile \in Profiles
    BY <1>2 DEF IInv, ObjectInv
  <1>5. /\ i \notin open
        /\ \A z \in ZonesInUse : \A t \in DOMAIN z : z[t].instance # i
    BY <1>1 DEF FreshInstance
  <1>6. /\ \A t \in Servers : obj[t].instance # i
        /\ \A t \in DOMAIN work : work[t].instance # i
        /\ \A r \in Procs : \A t \in DOMAIN buf[r] : buf[r][t].instance # i
    BY <1>5, <1>3 DEF ZonesInUse
  <1>7. built'[i] = obj[s].profile /\ \A j \in Instances \ {i} : built'[j] = built[j]
    BY <1>1 DEF IInv, TypeOK
  <1>8. TypeOK'
    BY <1>1, <1>2, <1>3, <1>4 DEF IInv, TypeOK
  <1>9. InstancesOwned'
    BY <1>1, <1>2, <1>3, <1>6 DEF IInv, InstancesOwned, TypeOK
  <1>10. LockInv' /\ LoadInv' /\ Settled'
    BY <1>2, ConstantsAssumption DEF IInv, LockInv, LockedLabels, LoadInv, Settled, TypeOK, Procs
  <1>11. ObjectInv'
    <2>1. \A t \in Servers : obj[t].instance \in Instances \cup {NoInstance}
      BY <1>3 DEF ServerState
    <2>2. Consistent(obj)'
      BY <1>2, <1>3, <1>6, <1>7, <2>1, NotRestarting DEF Consistent
    <2>3. \A t \in Servers : obj'[t].profile = obj[t].profile
      BY <1>3
    <2>4. \A t \in Servers \ members : obj'[t].instance = NoInstance
      BY <1>2, <1>3 DEF IInv, ObjectInv
    <2> QED
      BY <1>2, <2>2, <2>3, <2>4 DEF IInv, ObjectInv, TypeOK
  <1>12. \A r \in Procs : \A t \in DOMAIN buf[r] :
            buf[r][t].instance # NoInstance
                => built'[buf[r][t].instance] = built[buf[r][t].instance]
    <2> SUFFICES ASSUME NEW r \in Procs, NEW t \in DOMAIN buf[r],
                        buf[r][t].instance # NoInstance
                 PROVE  built'[buf[r][t].instance] = built[buf[r][t].instance]
      OBVIOUS
    <2>1. buf[r][t] \in ServerState
      BY ZoneFacts DEF IInv, TypeOK
    <2> QED
      BY <1>6, <1>7, <2>1 DEF ServerState
  <1>13. LocalInv'
    <2>1. LocalOK(p)'
      BY <1>2, <1>12 DEF IInv, LocalInv, LocalOK, OwnProfiles, Consistent
    <2> QED
      BY <1>2, <1>3, <1>12, <2>1, EditLocals
  <1>14. ConsistentPublication'
    <2> SUFFICES ASSUME NEW t \in DOMAIN work, work[t].instance # NoInstance
                 PROVE  built'[work[t].instance] = work[t].profile
      BY <1>2 DEF ConsistentPublication
    <2>1. work[t] \in ServerState
      BY ZoneFacts DEF IInv, TypeOK
    <2> QED
      BY <1>6, <1>7, <2>1 DEF ServerState, IInv, ConsistentPublication
  <1> QED
    BY <1>2, <1>8, <1>9, <1>10, <1>11, <1>13, <1>14 DEF IInv, OwnProfiles

\* A failed start only deactivates the server.
LEMMA ManageFailStep ==
    ASSUME IInv, NEW p \in Procs, NEW s \in Servers, ManageFail(p, s)
    PROVE  IInv'
  <1> USE DEF ManageFail, lockVars, localVars, boundVars, fileVars
  <1>1. configLock = p /\ pc[p] = "manage"
    BY DEF IInv, LockInv, LockedLabels
  <1>2. TypeOK'
    BY DEF IInv, TypeOK
  <1>3. LockInv' /\ LoadInv' /\ Settled'
    BY <1>1, ConstantsAssumption DEF IInv, LockInv, LockedLabels, LoadInv, Settled, TypeOK, Procs
  <1>4. InstancesOwned' /\ ObjectInv' /\ LocalInv'
    BY DEF IInv, InstancesOwned, ObjectInv, LocalInv, LocalOK, ServerConsistent, OwnProfiles,
           Consistent
  <1> QED
    BY <1>2, <1>3, <1>4 DEF IInv, ConsistentPublication, OwnProfiles

\* When manageInstances returns, active servers are those with an instance.
LEMMA ManageDoneStep ==
    ASSUME IInv, NEW p \in Procs, ManageDone(p)
    PROVE  IInv'
  <1> USE DEF ManageDone, Goto, zoneVars, lockVars, boundVars, fileVars
  <1> DEFINE l == IF phase = "boot" THEN "probe" ELSE "copy"
  <1>1. configLock = p /\ pc[p] = "manage" /\ pc' = [pc EXCEPT ![p] = l]
    BY DEF IInv, LockInv, LockedLabels
  <1>2. l \in {"probe", "copy"} /\ (p # Main => l = "copy")
    BY <1>1 DEF IInv, LoadInv, Procs
  <1> HIDE DEF l
  <1>3. TypeOK'
    BY <1>1, <1>2 DEF IInv, TypeOK, Labels
  <1>4. LockInv' /\ LoadInv'
    BY <1>1, <1>2, ConstantsAssumption DEF IInv, LockInv, LockedLabels, LoadInv, TypeOK, Procs
  <1>5. Settled'
    BY DEF IInv, Settled, ToClose, ToCreate, TypeOK
  <1>6. InstancesOwned' /\ ObjectInv'
    BY DEF IInv, InstancesOwned, ObjectInv, Consistent
  <1>7. LocalOK(p)'
    BY <1>1, <1>2 DEF IInv, TypeOK, LocalInv, LocalOK, OwnProfiles, Consistent
  <1>8. LocalInv'
    BY <1>1, <1>7, QuietLocals DEF IInv, TypeOK
  <1> QED
    BY <1>3, <1>4, <1>5, <1>6, <1>8 DEF IInv, ConsistentPublication, OwnProfiles

\* UpdateServerActiveState, write section, also for a server deleted meanwhile.
LEMMA SetActiveApplyStep ==
    ASSUME IInv, NEW p \in Procs, SetActiveApply(p)
    PROVE  IInv'
  <1> USE DEF SetActiveApply, NoChange, ConfigFree, Goto, zoneVars, lockVars, boundVars, fileVars
  <1> DEFINE q == obj[sid[p]].profile
             same == active[q] = want[p]
  <1>1. /\ q \in Profiles /\ pc[p] = "setactive" /\ configLock = Nobody
        /\ sid' = [sid EXCEPT ![p] = NoServer]
        /\ same => pc' = [pc EXCEPT ![p] = "idle"] /\ UNCHANGED <<active, configLock, after>>
        /\ ~same => /\ active' = [active EXCEPT ![q] = want[p]]
                    /\ configLock' = p /\ pc' = [pc EXCEPT ![p] = "manage"]
                    /\ after' = [after EXCEPT ![p] = "savelock"]
        /\ UNCHANGED <<phase, members, obj, built, open, work, failures, fileLock, fileVars, want,
                       buf, ops, crashes>>
    BY DEF IInv, LocalInv, LocalOK
  <1> HIDE DEF same, q, SetActiveApply
  <1>2. TypeOK'
    BY <1>1 DEF IInv, TypeOK, Labels
  <1>3. LockInv' /\ LoadInv' /\ Settled'
    <2>1. CASE same
      BY <1>1, <2>1, ConstantsAssumption
      DEF IInv, LockInv, LockedLabels, LoadInv, Settled, TypeOK, Procs
    <2>2. CASE ~same
      BY <1>1, <2>2, ConstantsAssumption
      DEF IInv, LockInv, LockedLabels, LoadInv, Settled, TypeOK, Procs
    <2> QED
      BY <2>1, <2>2
  <1>4. InstancesOwned' /\ ObjectInv'
    BY <1>1, NotRestarting DEF IInv, InstancesOwned, ObjectInv, Consistent
  <1>5. LocalOK(p)'
    BY <1>1 DEF IInv, TypeOK, LocalInv, LocalOK, OwnProfiles, Consistent
  <1>6. LocalInv'
    BY <1>1, <1>5, QuietLocals DEF IInv, TypeOK
  <1> QED
    BY <1>1, <1>2, <1>3, <1>4, <1>6 DEF IInv, ConsistentPublication, OwnProfiles

\* AddServerProfile: the new server has a profile of its own and no instance.
LEMMA AddStep ==
    ASSUME IInv, NEW p \in Requests, NEW s \in Servers, AddServerProfile(p, s)
    PROVE  IInv'
  <1> USE DEF Begin, ConfigFree, Goto, lockVars, fileVars
  <1>1. PICK q \in Profiles :
          /\ FreshProfile(q)
          /\ active' = [active EXCEPT ![q] = FALSE]
          /\ obj' = [obj EXCEPT ![s] = NewState(q)]
    BY DEF AddServerProfile
  <1>2. /\ p \in Procs /\ p # Main /\ pc[p] = "idle" /\ phase = "up" /\ configLock = Nobody
        /\ s \notin members /\ members' = members \cup {s} /\ ops' = ops + 1
        /\ pc' = [pc EXCEPT ![p] = "copy"] /\ after' = [after EXCEPT ![p] = "savelock"]
        /\ UNCHANGED <<phase, built, open, work, failures, configLock, fileLock, fileVars, sid,
                       want, buf, crashes>>
    BY ConstantsAssumption DEF AddServerProfile, FreshServer, Procs
  <1>3. /\ obj \in [Servers -> ServerState]
        /\ obj' \in [Servers -> ServerState]
        /\ obj'[s].instance = NoInstance /\ obj'[s].profile = q
        /\ \A t \in Servers \ {s} : obj'[t] = obj[t]
    BY <1>1 DEF IInv, TypeOK, ServerState, NewState, Health
  <1>4. \A t \in Servers : obj[t].profile # q
    BY <1>1, <1>3 DEF FreshProfile, ZonesInUse
  <1>5. TypeOK'
    BY <1>1, <1>2, <1>3 DEF IInv, TypeOK, Labels
  <1>6. InstancesOwned'
    BY <1>2, <1>3 DEF IInv, InstancesOwned, TypeOK
  <1>7. LockInv' /\ LoadInv'
    BY <1>2, ConstantsAssumption DEF IInv, LockInv, LockedLabels, LoadInv, TypeOK, Procs
  <1>8. Settled'
    BY <1>1, <1>2, <1>3, <1>4, ConstantsAssumption DEF IInv, Settled, TypeOK, ObjectInv, Procs
  <1>9. ObjectInv'
    <2>1. Consistent(obj)'
      BY <1>2, <1>3, NotRestarting DEF Consistent
    <2>2. \A t \in Servers \ members' : obj'[t].instance = NoInstance
      BY <1>2, <1>3 DEF IInv, ObjectInv
    <2>3. \A t \in members' : obj'[t].profile \in Profiles
      BY <1>2, <1>3 DEF IInv, ObjectInv, TypeOK
    <2>4. \A t, u \in Servers : obj'[t].profile = obj'[u].profile /\ t # u
                                  => obj'[t].profile = NoProfile
      BY <1>3, <1>4 DEF IInv, ObjectInv
    <2> QED
      BY <2>1, <2>2, <2>3, <2>4 DEF ObjectInv
  <1>10. LocalInv'
    <2>1. LocalOK(p)'
      BY <1>2 DEF IInv, TypeOK, LocalInv, LocalOK, OwnProfiles, Consistent
    <2> QED
      BY <1>2, <1>3, <2>1, EditLocals DEF IInv, TypeOK
  <1> QED
    BY <1>2, <1>5, <1>6, <1>7, <1>8, <1>9, <1>10
    DEF IInv, ConsistentPublication, OwnProfiles

\* DeleteServerProfile removes a server without an instance, or starts to close it.
LEMMA DeleteStep ==
    ASSUME IInv, NEW p \in Requests, NEW s \in Servers, DeleteServerProfile(p, s)
    PROVE  IInv'
  <1> USE DEF Begin, ConfigFree, CloseOf, Goto, lockVars, fileVars
  <1>1. /\ p \in Procs /\ p # Main /\ pc[p] = "idle" /\ phase = "up" /\ configLock = Nobody
        /\ s \in members /\ ops' = ops + 1 /\ after' = [after EXCEPT ![p] = "savelock"]
        /\ UNCHANGED <<phase, obj, active, built, open, work, failures, fileLock, fileVars, want,
                       buf, crashes>>
    BY ConstantsAssumption DEF DeleteServerProfile, Procs
  <1>2. CASE obj[s].instance = NoInstance
    <2>1. /\ members' = members \ {s} /\ pc' = [pc EXCEPT ![p] = "copy"]
          /\ UNCHANGED <<configLock, sid>>
      BY <1>2 DEF DeleteServerProfile
    <2>2. TypeOK'
      BY <1>1, <2>1 DEF IInv, TypeOK, Labels
    <2>3. InstancesOwned'
      BY <1>1, <1>2, <2>1 DEF IInv, InstancesOwned, TypeOK
    <2>4. LockInv' /\ LoadInv'
      BY <1>1, <2>1, ConstantsAssumption DEF IInv, LockInv, LockedLabels, LoadInv, TypeOK, Procs
    <2>5. Settled'
      BY <1>1, <2>1, ConstantsAssumption DEF IInv, Settled, TypeOK, Procs
    <2>6. ObjectInv'
      BY <1>1, <1>2, <2>1, NotRestarting DEF IInv, ObjectInv, Consistent
    <2>7. LocalOK(p)'
      BY <1>1, <2>1 DEF IInv, TypeOK, LocalInv, LocalOK, OwnProfiles, Consistent
    <2>8. LocalInv'
      BY <1>1, <2>1, <2>7, EditLocals DEF IInv, TypeOK
    <2> QED
      BY <1>1, <2>2, <2>3, <2>4, <2>5, <2>6, <2>8 DEF IInv, ConsistentPublication, OwnProfiles
  <1>3. CASE obj[s].instance # NoInstance
    <2>1. /\ configLock' = p /\ pc' = [pc EXCEPT ![p] = "delete"] /\ members' = members
          /\ sid' = [sid EXCEPT ![p] = s]
      BY <1>3 DEF DeleteServerProfile
    <2>2. TypeOK'
      BY <1>1, <2>1 DEF IInv, TypeOK, Labels
    <2>3. InstancesOwned'
      BY <1>1, <2>1 DEF IInv, InstancesOwned, TypeOK
    <2>4. LockInv' /\ LoadInv'
      BY <1>1, <2>1, ConstantsAssumption DEF IInv, LockInv, LockedLabels, LoadInv, TypeOK, Procs
    <2>5. Settled'
      BY <1>1, <2>1, ConstantsAssumption DEF IInv, Settled, TypeOK, Procs
    <2>6. ObjectInv'
      BY <1>1, <2>1, NotRestarting DEF IInv, ObjectInv, Consistent
    <2>7. LocalOK(p)'
      BY <1>1, <2>1 DEF IInv, TypeOK, LocalInv, LocalOK, OwnProfiles, Consistent
    <2>8. LocalInv'
      BY <1>1, <2>1, <2>7, EditLocals DEF IInv, TypeOK
    <2> QED
      BY <1>1, <2>1, <2>2, <2>3, <2>4, <2>5, <2>6, <2>8
      DEF IInv, ConsistentPublication, OwnProfiles
  <1> QED
    BY <1>2, <1>3

\* The server whose instance was closed goes.
LEMMA DeleteClosedStep ==
    ASSUME IInv, NEW p \in Procs, DeleteClosed(p)
    PROVE  IInv'
  <1> DEFINE s == sid[p]
  <1>1. /\ pc[p] = "delete" /\ configLock = p /\ configLock' = Nobody
        /\ s \in members /\ s \in Servers /\ members' = members \ {s}
        /\ open' = open \ {obj[s].instance} /\ obj' = [obj EXCEPT ![s].instance = NoInstance]
        /\ sid' = [sid EXCEPT ![p] = NoServer] /\ pc' = [pc EXCEPT ![p] = "copy"]
        /\ UNCHANGED <<phase, active, built, work, failures, fileLock, fileVars, want, after, buf,
                       ops, crashes>>
    BY DEF DeleteClosed, ListenersWithout, Goto, boundVars, IInv, TypeOK, LockInv, LockedLabels,
           LocalInv, LocalOK
  <1> HIDE DEF s
  <1> USE DEF fileVars
  <1>2. /\ obj \in [Servers -> ServerState]
        /\ obj' \in [Servers -> ServerState]
        /\ obj'[s].instance = NoInstance /\ obj'[s].profile = obj[s].profile
        /\ \A t \in Servers \ {s} : obj'[t] = obj[t]
    BY <1>1 DEF IInv, TypeOK, ServerState
  <1>3. TypeOK'
    BY <1>1, <1>2 DEF IInv, TypeOK, Labels
  <1>4. InstancesOwned'
    BY <1>1, <1>2 DEF IInv, InstancesOwned, TypeOK
  <1>5. LockInv' /\ LoadInv'
    BY <1>1, ConstantsAssumption DEF IInv, LockInv, LockedLabels, LoadInv, TypeOK, Procs
  <1>6. Settled'
    BY <1>1, <1>2, ConstantsAssumption DEF IInv, Settled, TypeOK, Procs
  <1>7. ObjectInv'
    <2>1. Consistent(obj)
      BY <1>1, NotRestarting
    <2> QED
      BY <1>1, <1>2, <2>1 DEF IInv, ObjectInv, Consistent
  <1>8. LocalOK(p)'
    BY <1>1 DEF IInv, TypeOK, LocalInv, LocalOK, OwnProfiles, Consistent
  <1>9. LocalInv'
    BY <1>1, <1>2, <1>8, EditLocals DEF IInv, TypeOK
  <1> QED
    BY <1>1, <1>3, <1>4, <1>5, <1>6, <1>7, <1>9 DEF IInv, ConsistentPublication, OwnProfiles

\* The instance of the old profile goes before manageInstances builds another.
LEMMA RestartClosedStep ==
    ASSUME IInv, NEW p \in Procs, RestartClosed(p)
    PROVE  IInv'
  <1> DEFINE s == sid[p]
  <1>1. /\ pc[p] = "restart" /\ configLock = p
        /\ s \in members /\ s \in Servers /\ \A t \in Servers \ {s} : ServerConsistent(t)
        /\ open' = open \ {obj[s].instance} /\ obj' = [obj EXCEPT ![s].instance = NoInstance]
        /\ sid' = [sid EXCEPT ![p] = NoServer] /\ pc' = [pc EXCEPT ![p] = "manage"]
        /\ UNCHANGED <<phase, members, active, built, work, failures, configLock, fileLock,
                       fileVars, want, after, buf, ops, crashes>>
    BY DEF RestartClosed, ListenersWithout, Goto, lockVars, boundVars, IInv, TypeOK, LockInv,
           LockedLabels, LocalInv, LocalOK
  <1> HIDE DEF s
  <1> USE DEF fileVars
  <1>2. /\ obj \in [Servers -> ServerState]
        /\ obj' \in [Servers -> ServerState]
        /\ obj'[s].instance = NoInstance /\ obj'[s].profile = obj[s].profile
        /\ \A t \in Servers \ {s} : obj'[t] = obj[t]
    BY <1>1 DEF IInv, TypeOK, ServerState
  <1>3. TypeOK'
    BY <1>1, <1>2 DEF IInv, TypeOK, Labels
  <1>4. InstancesOwned'
    BY <1>1, <1>2 DEF IInv, InstancesOwned, TypeOK
  <1>5. LockInv' /\ LoadInv' /\ Settled'
    BY <1>1, ConstantsAssumption
    DEF IInv, LockInv, LockedLabels, LoadInv, Settled, TypeOK, Procs
  <1>6. ObjectInv'
    BY <1>1, <1>2 DEF IInv, ObjectInv, Consistent, ServerConsistent
  <1>7. LocalOK(p)'
    BY <1>1 DEF IInv, TypeOK, LocalInv, LocalOK, OwnProfiles, Consistent
  <1>8. LocalInv'
    BY <1>1, <1>2, <1>7, EditLocals DEF IInv, TypeOK
  <1> QED
    BY <1>1, <1>3, <1>4, <1>5, <1>6, <1>8 DEF IInv, ConsistentPublication, OwnProfiles

\* UpdateServerProfile: a running instance of the old profile is about to be closed.
LEMMA UpdateStep ==
    ASSUME IInv, NEW p \in Requests, NEW s \in Servers, UpdateServerProfile(p, s)
    PROVE  IInv'
  <1> USE DEF Begin, ConfigFree, CloseOf, Goto, lockVars, fileVars
  <1> DEFINE restart == NeedsRestart(s)
  <1>1. PICK q \in Profiles :
          /\ FreshProfile(q)
          /\ active' = [active EXCEPT ![q] = active[obj[s].profile]]
          /\ obj' = [obj EXCEPT ![s].profile = q]
    BY DEF UpdateServerProfile
  <1>2. /\ p \in Procs /\ p # Main /\ pc[p] = "idle" /\ phase = "up" /\ configLock = Nobody
        /\ s \in members /\ ops' = ops + 1 /\ after' = [after EXCEPT ![p] = "savelock"]
        /\ restart => /\ configLock' = p /\ pc' = [pc EXCEPT ![p] = "restart"]
                      /\ sid' = [sid EXCEPT ![p] = s]
        /\ ~restart => pc' = [pc EXCEPT ![p] = "copy"] /\ UNCHANGED <<configLock, sid>>
        /\ UNCHANGED <<phase, members, built, open, work, failures, fileLock, fileVars, want, buf,
                       crashes>>
    BY ConstantsAssumption DEF UpdateServerProfile, Procs
  <1>3. active[obj[s].profile] <=> obj[s].instance # NoInstance
    BY <1>2, ConstantsAssumption DEF IInv, Settled
  <1>4. (restart <=> active[obj[s].profile]) /\ (restart <=> obj[s].instance # NoInstance)
    BY <1>3 DEF NeedsRestart
  <1> HIDE DEF restart
  <1>5. obj \in [Servers -> ServerState] /\ obj[s] \in ServerState
    BY DEF IInv, TypeOK
  <1>6. /\ obj' \in [Servers -> ServerState]
        /\ obj'[s].instance = obj[s].instance /\ obj'[s].profile = q
        /\ \A t \in Servers \ {s} : obj'[t] = obj[t]
    BY <1>1, <1>5 DEF ServerState
  <1>7. \A t \in Servers : obj[t].profile # q
    BY <1>1, <1>5 DEF FreshProfile, ZonesInUse
  <1>8. TypeOK'
    BY <1>1, <1>2, <1>6 DEF IInv, TypeOK, Labels, ObjectInv
  <1>9. InstancesOwned'
    BY <1>2, <1>6 DEF IInv, InstancesOwned, TypeOK
  <1>10. LockInv' /\ LoadInv'
    BY <1>2, ConstantsAssumption DEF IInv, LockInv, LockedLabels, LoadInv, TypeOK, Procs
  <1>11. Settled'
    <2>1. CASE restart
      BY <1>2, <2>1, ConstantsAssumption DEF IInv, Settled, TypeOK, Procs
    <2>2. CASE ~restart
      <3> SUFFICES ASSUME NEW t \in members
                   PROVE  active'[obj'[t].profile] <=> obj'[t].instance # NoInstance
        BY <1>2 DEF Settled
      <3>1. t \in Servers /\ (active[obj[t].profile] <=> obj[t].instance # NoInstance)
        BY <1>2, ConstantsAssumption DEF IInv, Settled, TypeOK
      <3>2. CASE t = s
        BY <1>1, <1>4, <1>6, <2>2, <3>2 DEF IInv, TypeOK
      <3>3. CASE t # s
        BY <1>1, <1>6, <1>7, <3>1, <3>3 DEF IInv, TypeOK, ObjectInv
      <3> QED
        BY <3>2, <3>3
    <2> QED
      BY <2>1, <2>2
  <1>12. \A t \in Servers \ {s} : ServerConsistent(t)'
    <2>1. Consistent(obj)
      BY <1>2, NotRestarting
    <2> QED
      BY <1>2, <1>5, <1>6, <2>1 DEF Consistent, ServerConsistent
  <1>13. ObjectInv'
    <2>1. (\A r \in Procs : pc'[r] # "restart") => Consistent(obj)'
      <3>1. CASE restart
        BY <1>2, <3>1 DEF IInv, TypeOK
      <3>2. CASE ~restart
        BY <1>4, <1>6, <1>12, <3>2 DEF Consistent, ServerConsistent
      <3> QED
        BY <3>1, <3>2
    <2>2. \A t \in Servers \ members : obj'[t].instance = NoInstance
      BY <1>2, <1>6 DEF IInv, ObjectInv
    <2>3. \A t \in members : obj'[t].profile \in Profiles
      BY <1>6 DEF IInv, ObjectInv, TypeOK
    <2>4. \A t, u \in Servers : obj'[t].profile = obj'[u].profile /\ t # u
                                  => obj'[t].profile = NoProfile
      BY <1>6, <1>7 DEF IInv, ObjectInv
    <2> QED
      BY <1>2, <2>1, <2>2, <2>3, <2>4 DEF ObjectInv
  <1>14. LocalInv'
    <2>1. /\ \A r \in Procs \ {p} : pc'[r] = pc[r] /\ sid'[r] = sid[r]
          /\ restart => pc'[p] = "restart" /\ sid'[p] = s
          /\ ~restart => pc'[p] = "copy"
      BY <1>2 DEF IInv, TypeOK
    <2>2. OwnProfiles(buf[p])' /\ Consistent(buf[p])'
      BY <1>2 DEF IInv, LocalInv, LocalOK, OwnProfiles, Consistent
    <2>3. LocalOK(p)'
      BY <1>2, <1>12, <2>1, <2>2 DEF LocalOK
    <2> QED
      BY <1>2, <1>6, <2>1, <2>3, EditLocals
  <1> QED
    BY <1>2, <1>8, <1>9, <1>10, <1>11, <1>13, <1>14
    DEF IInv, ConsistentPublication, OwnProfiles

\* runHealthChecks, write section: late results change health and metrics only.
LEMMA HealthApplyStep ==
    ASSUME IInv, HealthApply
    PROVE  IInv'
  <1> USE DEF ConfigFree, Goto, lockVars, boundVars, fileVars
  <1>1. PICK l \in {"copy", "idle"}, m \in {"copy", "idle"} :
          /\ pc' = [pc EXCEPT ![Main] = l] /\ after' = [after EXCEPT ![Main] = m]
    BY DEF HealthApply, Returns
  <1>2. /\ Main \in Procs /\ pc[Main] = "check" /\ configLock = Nobody
        /\ buf' = [buf EXCEPT ![Main] = EmptyZone]
        /\ UNCHANGED <<phase, members, active, built, open, work, failures, configLock,
                       fileLock, fileVars, sid, want, ops, crashes>>
    BY DEF HealthApply, Procs
  <1>3. /\ obj' \in [Servers -> ServerState]
        /\ \A s \in Servers : /\ obj'[s].profile = obj[s].profile
                              /\ obj'[s].instance = obj[s].instance
    <2>1. PICK health \in [DOMAIN buf[Main] -> {"Up", "Down"}],
               metrics \in [DOMAIN buf[Main] -> MetricValues] :
            obj' = [s \in Servers |->
                      IF s \in DOMAIN buf[Main] \cap members
                      THEN [obj[s] EXCEPT !.health = health[s], !.metrics = metrics[s]]
                      ELSE obj[s]]
      BY DEF HealthApply
    <2>2. SUFFICES ASSUME NEW s \in Servers
                   PROVE  /\ obj'[s] \in ServerState
                          /\ obj'[s].profile = obj[s].profile
                          /\ obj'[s].instance = obj[s].instance
      BY <2>1
    <2>3. obj[s] \in ServerState
      BY DEF IInv, TypeOK
    <2>4. CASE s \in DOMAIN buf[Main] \cap members
      <3>1. obj'[s] = [profile |-> obj[s].profile, instance |-> obj[s].instance,
                       health |-> health[s], metrics |-> metrics[s]]
        BY <2>1, <2>3, <2>4 DEF ServerState
      <3>2. health[s] \in Health /\ metrics[s] \in MetricValues
        BY <2>1, <2>4 DEF Health
      <3> QED
        BY <2>3, <3>1, <3>2 DEF ServerState
    <2>5. CASE s \notin DOMAIN buf[Main] \cap members
      BY <2>1, <2>3, <2>5
    <2> QED
      BY <2>4, <2>5
  <1>4. TypeOK'
    BY <1>1, <1>2, <1>3, ZoneFacts DEF IInv, TypeOK, Labels
  <1>5. InstancesOwned'
    BY <1>2, <1>3 DEF IInv, InstancesOwned, TypeOK
  <1>6. LockInv' /\ LoadInv'
    BY <1>1, <1>2, ConstantsAssumption DEF IInv, LockInv, LockedLabels, LoadInv, TypeOK, Procs
  <1>7. Settled'
    BY <1>2, <1>3, ConstantsAssumption DEF IInv, Settled, TypeOK
  <1>8. ObjectInv'
    BY <1>2, <1>3, NotRestarting DEF IInv, ObjectInv, Consistent, TypeOK
  <1>9. LocalInv'
    <2>1. LocalOK(Main)'
      BY <1>1, <1>2, ZoneFacts DEF IInv, TypeOK, LocalOK, OwnProfiles, Consistent
    <2> QED
      BY <1>1, <1>2, <1>3, <2>1, EditLocals DEF IInv, TypeOK
  <1> QED
    BY <1>2, <1>4, <1>5, <1>6, <1>7, <1>8, <1>9 DEF IInv, ConsistentPublication, OwnProfiles

\* triggerSingleHealthCheck locks only for a server with an instance.
LEMMA TriggerLockStep ==
    ASSUME IInv, NEW p \in Procs, TriggerLock(p)
    PROVE  IInv'
  <1> USE DEF ConfigFree, Goto, zoneVars, lockVars, boundVars, fileVars
  <1> DEFINE found == sid[p] \in members /\ obj[sid[p]].instance # NoInstance
  <1>1. /\ pc[p] = "trigger" /\ configLock = Nobody
        /\ found => configLock' = p /\ pc' = [pc EXCEPT ![p] = "triggercheck"] /\ sid' = sid
        /\ ~found => /\ configLock' = Nobody /\ pc' = [pc EXCEPT ![p] = "idle"]
                     /\ sid' = [sid EXCEPT ![p] = NoServer]
        /\ UNCHANGED <<phase, members, obj, active, built, open, work, failures, fileLock, fileVars,
                       want, after, buf, ops, crashes>>
    BY DEF TriggerLock
  <1>2. TypeOK'
    BY <1>1 DEF IInv, TypeOK, Labels
  <1>3. InstancesOwned' /\ ObjectInv'
    BY <1>1, NotRestarting DEF IInv, InstancesOwned, ObjectInv, Consistent
  <1>4. LockInv' /\ LoadInv' /\ Settled'
    <2>1. CASE found
      BY <1>1, <2>1, ConstantsAssumption
      DEF IInv, LockInv, LockedLabels, LoadInv, Settled, TypeOK, Procs
    <2>2. CASE ~found
      BY <1>1, <2>2, ConstantsAssumption
      DEF IInv, LockInv, LockedLabels, LoadInv, Settled, TypeOK, Procs
    <2> QED
      BY <2>1, <2>2
  <1>5. LocalOK(p)'
    BY <1>1 DEF IInv, TypeOK, LocalInv, LocalOK, OwnProfiles, Consistent
  <1>6. LocalInv'
    BY <1>1, <1>5, QuietLocals DEF IInv, TypeOK
  <1> QED
    BY <1>1, <1>2, <1>3, <1>4, <1>6 DEF IInv, ConsistentPublication, OwnProfiles

\* triggerSingleHealthCheck changes the health of that server only.
LEMMA TriggerApplyStep ==
    ASSUME IInv, NEW p \in Procs, TriggerApply(p)
    PROVE  IInv'
  <1> USE DEF Goto, boundVars, fileVars
  <1>1. PICK h \in {"Up", "Down"}, l \in {"copy", "idle"} :
          obj' = [obj EXCEPT ![sid[p]].health = h] /\ pc' = [pc EXCEPT ![p] = l]
    BY DEF TriggerApply
  <1>2. /\ pc[p] = "triggercheck" /\ configLock = p /\ configLock' = Nobody
        /\ sid[p] \in members /\ sid[p] \in Servers
        /\ sid' = [sid EXCEPT ![p] = NoServer]
        /\ UNCHANGED <<phase, members, active, built, open, work, failures, fileLock, fileVars,
                       want, after, buf, ops, crashes>>
    BY DEF TriggerApply, IInv, LockInv, LockedLabels, LocalInv, LocalOK, TypeOK
  <1>3. /\ obj' \in [Servers -> ServerState]
        /\ \A s \in Servers : /\ obj'[s].profile = obj[s].profile
                              /\ obj'[s].instance = obj[s].instance
    BY <1>1, <1>2 DEF IInv, TypeOK, ServerState, Health
  <1>4. TypeOK'
    BY <1>1, <1>2, <1>3 DEF IInv, TypeOK, Labels
  <1>5. InstancesOwned'
    BY <1>2, <1>3 DEF IInv, InstancesOwned, TypeOK
  <1>6. LockInv' /\ LoadInv'
    BY <1>1, <1>2, ConstantsAssumption DEF IInv, LockInv, LockedLabels, LoadInv, TypeOK, Procs
  <1>7. Settled'
    BY <1>2, <1>3, ConstantsAssumption DEF IInv, Settled, TypeOK
  <1>8. ObjectInv'
    BY <1>2, <1>3, NotRestarting, SMTT(30) DEF IInv, ObjectInv, Consistent, TypeOK
  <1>9. LocalInv'
    <2>1. LocalOK(p)'
      BY <1>1, <1>2 DEF IInv, TypeOK, LocalInv, LocalOK, OwnProfiles, Consistent
    <2> QED
      BY <1>1, <1>2, <1>3, <2>1, EditLocals DEF IInv, TypeOK
  <1> QED
    BY <1>2, <1>4, <1>5, <1>6, <1>7, <1>8, <1>9 DEF IInv, ConsistentPublication, OwnProfiles

\* loadConfigFromFile: every loaded server starts without an instance.
LEMMA LoadStep ==
    ASSUME IInv, Load
    PROVE  IInv'
  <1> USE DEF Goto, boundVars, fileVars
  <1>1. /\ pc[Main] = "load" /\ Main \in Procs /\ phase = "boot"
        /\ members = {} /\ open = {}
        /\ obj = [s \in Servers |-> NewState(NoProfile)]
        /\ \A p \in Requests : pc[p] = "idle"
        /\ UNCHANGED <<built, open, work, failures, fileLock, fileVars, sid, want, after, buf, ops,
                       crashes>>
    BY DEF Load, IInv, LoadInv, Procs
  <1>2. CASE file = Torn
    <2>1. /\ phase' = "dead" /\ pc' = [pc EXCEPT ![Main] = "idle"]
          /\ UNCHANGED <<members, obj, active, configLock>>
      BY <1>2 DEF Load
    <2>2. TypeOK'
      BY <1>1, <2>1 DEF IInv, TypeOK, Labels
    <2>3. InstancesOwned' /\ ObjectInv'
      BY <1>1, <2>1 DEF IInv, InstancesOwned, ObjectInv, Consistent
    <2>4. LockInv' /\ LoadInv' /\ Settled'
      BY <1>1, <2>1, ConstantsAssumption
      DEF IInv, LockInv, LockedLabels, LoadInv, Settled, TypeOK, Procs
    <2>5. LocalOK(Main)'
      BY <1>1, <2>1 DEF IInv, TypeOK, LocalInv, LocalOK, OwnProfiles, Consistent
    <2>6. LocalInv'
      BY <1>1, <2>1, <2>5, QuietLocals DEF IInv, TypeOK
    <2> QED
      BY <1>1, <1>2, <2>2, <2>3, <2>4, <2>6 DEF IInv, ConsistentPublication, OwnProfiles
  <1>3. CASE file # Torn
    <2>1. /\ members' = DOMAIN file /\ configLock' = Main /\ phase' = phase
          /\ pc' = [pc EXCEPT ![Main] = "loadsave"]
          /\ obj' = [s \in Servers |->
                       IF s \in DOMAIN file THEN NewState(file[s].profile) ELSE obj[s]]
          /\ active' = [q \in Profiles |->
                          \E s \in DOMAIN file : file[s].profile = q /\ file[s].active]
      BY <1>3 DEF Load
    <2>2. file \in Files /\ OwnProfiles(file)
      BY <1>3 DEF IInv, TypeOK
    <2>3. DOMAIN file \in SUBSET Servers
      BY <2>2 DEF Files
    <2>4. \A s \in DOMAIN file : file[s].profile \in Profiles
      BY <2>2 DEF OwnProfiles
    <2>5. /\ \A s \in DOMAIN file : obj'[s] = NewState(file[s].profile)
          /\ \A s \in Servers \ DOMAIN file : obj'[s] = NewState(NoProfile)
          /\ obj' = [s \in Servers |-> obj'[s]]
      BY <1>1, <2>1, <2>3
    <2>6. \A q \in Profiles \cup {NoProfile} : NewState(q) \in ServerState
      BY DEF NewState, ServerState, Health
    <2>7. obj' \in [Servers -> ServerState]
      <3>1. \A s \in Servers : obj'[s] \in ServerState
        BY <2>4, <2>5, <2>6
      <3> QED
        BY <2>5, <3>1
    <2>a. \A q : NewState(q).instance = NoInstance /\ NewState(q).profile = q
      BY DEF NewState
    <2>8. \A s \in Servers : obj'[s].instance = NoInstance
      BY <2>5, <2>a
    <2>9. /\ \A s \in DOMAIN file : obj'[s].profile = file[s].profile
          /\ \A s \in Servers \ DOMAIN file : obj'[s].profile = NoProfile
      BY <2>5, <2>a
    <2>10. TypeOK'
      <3>1. active' \in [Profiles -> BOOLEAN]
        BY <2>1
      <3> QED
        BY <1>1, <2>1, <2>3, <2>7, <3>1 DEF IInv, TypeOK, Labels
    <2>11. InstancesOwned'
      BY <1>1, <2>1, <2>3, <2>8 DEF InstancesOwned
    <2>12. LockInv' /\ LoadInv' /\ Settled'
      BY <1>1, <2>1, ConstantsAssumption
      DEF IInv, LockInv, LockedLabels, LoadInv, Settled, TypeOK, Procs
    <2>13. ObjectInv'
      <3>1. Consistent(obj)'
        BY <2>7, <2>8 DEF Consistent
      <3>2. \A s, t \in Servers : obj'[s].profile = obj'[t].profile /\ s # t
                                    => obj'[s].profile = NoProfile
        BY <2>2, <2>9, ConstantsAssumption DEF OwnProfiles
      <3> QED
        BY <2>1, <2>3, <2>4, <2>8, <2>9, <3>1, <3>2 DEF ObjectInv
    <2>14. LocalInv'
      <3>1. LocalOK(Main)'
        BY <1>1, <2>1 DEF IInv, TypeOK, LocalInv, LocalOK, OwnProfiles, Consistent
      <3>2. \A s \in Servers : obj[s].profile \notin Profiles
        BY <1>1, ConstantsAssumption DEF NewState
      <3>3. configLock = Nobody
        BY <1>1, ConstantsAssumption DEF IInv, LockInv, LockedLabels, TypeOK, Procs
      <3> QED
        BY <1>1, <2>1, <3>1, <3>2, <3>3, EditLocals DEF IInv, TypeOK
    <2> QED
      BY <1>1, <2>2, <2>10, <2>11, <2>12, <2>13, <2>14
      DEF IInv, ConsistentPublication, OwnProfiles
  <1> QED
    BY <1>2, <1>3

\* A process that has just started satisfies the inductive invariant.
LEMMA InitIInv == Init => IInv
  <1> SUFFICES ASSUME Init
               PROVE  IInv
    OBVIOUS
  <1> USE DEF Init
  <1>1. obj \in [Servers -> ServerState] /\ \A s \in Servers : obj[s] = NewState(NoProfile)
    BY DEF NewState, ServerState, Health
  <1>2. failures \in [Servers -> 0..(FailureThreshold - 1)]
    BY ConstantsAssumption
  <1>3. TypeOK
    BY <1>1, <1>2, ZoneFacts DEF TypeOK, Labels
  <1>4. InstancesOwned /\ Settled
    BY DEF InstancesOwned, Settled
  <1>5. LockInv /\ LoadInv
    BY ConstantsAssumption DEF LockInv, LockedLabels, LoadInv, Procs
  <1>6. LocalInv
    BY ZoneFacts DEF LocalInv, LocalOK, OwnProfiles, Consistent
  <1>7. ObjectInv
    BY <1>1 DEF ObjectInv, Consistent, NewState
  <1>8. ConsistentPublication
    BY ZoneFacts DEF ConsistentPublication
  <1>9. OwnProfiles(file)
    BY DEF Files, DistinctProfiles, OwnProfiles
  <1> QED
    BY <1>3, <1>4, <1>5, <1>6, <1>7, <1>8, <1>9 DEF IInv

\* So does one that was restarted, whatever it left in servers.json.
LEMMA CrashStep ==
    ASSUME IInv, Crash
    PROVE  IInv'
  <1> USE DEF Crash, Begin
  <1>1. /\ obj' \in [Servers -> ServerState]
        /\ \A s \in Servers : obj'[s] = NewState(NoProfile)
    BY DEF NewState, ServerState, Health
  <1>2. failures' \in [Servers -> 0..(FailureThreshold - 1)]
    BY ConstantsAssumption
  <1>3. file' \in {file, Torn}
    OBVIOUS
  <1>4. TypeOK'
    <2>1. saveFailed' \in BOOLEAN /\ file' \in Files \cup {Torn}
      BY <1>3 DEF IInv, TypeOK
    <2> QED
      BY <1>1, <1>2, <2>1, ZoneFacts DEF IInv, TypeOK, Labels
  <1>5. InstancesOwned' /\ Settled'
    BY DEF InstancesOwned, Settled
  <1>6. LockInv' /\ LoadInv'
    BY ConstantsAssumption DEF LockInv, LockedLabels, LoadInv, Procs
  <1>7. LocalInv'
    BY ZoneFacts DEF LocalInv, LocalOK, OwnProfiles, Consistent
  <1>8. ObjectInv'
    BY <1>1 DEF ObjectInv, Consistent, NewState
  <1>9. ConsistentPublication'
    BY ZoneFacts DEF ConsistentPublication
  <1> QED
    BY <1>3, <1>4, <1>5, <1>6, <1>7, <1>8, <1>9 DEF IInv, OwnProfiles

-----------------------------------------------------------------------------
\* Every step of the control plane preserves the inductive invariant.
LEMMA NextIInv ==
    ASSUME IInv, [Next]_vars
    PROVE  IInv'
  <1>1. CASE UNCHANGED vars
    <2> USE <1>1 DEF vars, zoneVars, lockVars, localVars, boundVars, fileVars
    <2>1. TypeOK' /\ InstancesOwned' /\ LockInv' /\ LoadInv' /\ Settled'
      BY DEF IInv, TypeOK, InstancesOwned, LockInv, LockedLabels, LoadInv, Settled
    <2>2. LocalInv' /\ ObjectInv' /\ ConsistentPublication'
      BY DEF IInv, LocalInv, LocalOK, ServerConsistent, ObjectInv, ConsistentPublication,
             OwnProfiles, Consistent
    <2> QED
      BY <2>1, <2>2 DEF IInv, OwnProfiles
  <1>2. ASSUME NEW p \in Procs, Step(p) PROVE IInv'
    <2>1. CASE Manage(p)
      BY <2>1, ManageCreateStep, ManageFailStep, ManageDoneStep DEF Manage
    <2>2. CASE Reload(p)
      BY <2>2, ReloadCopyStep, ReloadSwapStep DEF Reload
    <2>3. CASE Save(p)
      BY <2>3, SaveStep
    <2>4. CASE SetActiveApply(p)
      BY <2>4, SetActiveApplyStep
    <2>5. CASE Trigger(p)
      BY <2>5, TriggerLockStep, TriggerApplyStep DEF Trigger
    <2>6. CASE Bootstrap
      BY <2>6, LoadStep, LoadSaveStep DEF Bootstrap
    <2>7. CASE HealthCycle
      BY <2>7, HealthSnapshotStep, HealthApplyStep DEF HealthCycle
    <2> QED
      BY <1>2, <2>1, <2>2, <2>3, <2>4, <2>5, <2>6, <2>7 DEF Step
  <1>7. ASSUME NEW p \in Procs, CloseReturns(p) PROVE IInv'
    BY <1>7, ManageCloseStep, RestartClosedStep, DeleteClosedStep DEF CloseReturns
  <1>3. ASSUME NEW p \in Requests, Request(p) PROVE IInv'
    BY <1>3, SetActiveLookupStep, AddStep, UpdateStep, DeleteStep, ReportFailureStep
    DEF Request
  <1>4. ASSUME NEW s \in Servers, ReportSuccess(s) PROVE IInv'
    BY <1>4, ReportSuccessStep
  <1>5. CASE Tick
    BY <1>5, TickStep
  <1>6. CASE Crash
    BY <1>6, CrashStep
  <1> QED
    BY <1>1, <1>2, <1>3, <1>4, <1>5, <1>6, <1>7 DEF Next

\* The inductive invariant holds in every reachable state.
THEOREM Invariance == Spec => []IInv
  BY InitIInv, NextIInv, PTL DEF Spec

\* Every variable keeps its type, for any number of servers, profiles,
\* instances and concurrent requests.
THEOREM TypeCorrect == Spec => []TypeOK
  <1>1. IInv => TypeOK
    BY DEF IInv
  <1> QED
    BY <1>1, Invariance, PTL

\* No listener leaks and none is shared: AppServer's running instances are
\* exactly those of the servers of the A zone.
THEOREM NoInstanceLeaks == Spec => []InstancesOwned
  <1>1. IInv => InstancesOwned
    BY DEF IInv
  <1> QED
    BY <1>1, Invariance, PTL

\* Outside the write sections of configLock, active servers are exactly those
\* with an instance.
THEOREM ActiveServersRun == Spec => []ActiveHasInstance
  <1>1. IInv => ActiveHasInstance
    BY ConstantsAssumption DEF IInv, Settled, ActiveHasInstance, ConfigFree
  <1> QED
    BY <1>1, Invariance, PTL

\* The B zone never pairs a profile with an instance built from another one.
THEOREM PublicationConsistent == Spec => []ConsistentPublication
  <1>1. IInv => ConsistentPublication
    BY DEF IInv
  <1> QED
    BY <1>1, Invariance, PTL

-----------------------------------------------------------------------------
(* servers.json: FileInv is inductive, given IInv.                          *)

FileIInv == SaveInv /\ FileInv

\* A step of p that keeps the servers, their profiles and the file, activates nothing and
\* is no part of a save beyond taking its lock.
LEMMA FileQuiet ==
    ASSUME IInv, FileInv, NEW p \in Procs,
           members' = members, file' = file, saveFailed' = saveFailed,
           phase = "dead" => phase' = "dead",
           \A s \in members : obj'[s].profile = obj[s].profile,
           \A q \in Profiles : active'[q] => active[q],
           \A r \in Procs \ {p} : pc'[r] = pc[r] /\ after'[r] = after[r] /\ buf'[r] = buf[r],
           WillSave(p) => WillSave(p)',
           pc[p] \notin {"savewrite", "load", "loadsave"}, pc'[p] # "savewrite"
    PROVE  FileInv'
<1> SUFFICES ASSUME phase' # "dead", pc'[Main] \notin {"load", "loadsave"}
             PROVE  \/ \E r \in Procs : WillSave(r)'
                    \/ /\ \A r \in Procs : pc'[r] = "savewrite" => Current(buf[r])'
                       /\ \/ saveFailed'
                          \/ file' # Torn /\ Recorded(file)'
                          \/ \E r \in Procs : pc'[r] = "savewrite"
  BY DEF FileInv
<1>1. ASSUME NEW r \in Procs, WillSave(r) PROVE WillSave(r)'
  BY <1>1 DEF WillSave
<1>2. ASSUME NEW r \in Procs, pc'[r] = "savewrite", Current(buf[r]) PROVE Current(buf[r])'
  BY <1>2 DEF Current
<1>3. Recorded(file) => Recorded(file)'
  <2>1. \A s \in members : obj[s].profile \in Profiles
    BY DEF IInv, ObjectInv
  <2> QED
    BY <2>1 DEF Recorded, Current
<1>4. \A r \in Procs : pc'[r] = "savewrite" <=> pc[r] = "savewrite"
  OBVIOUS
<1>5. pc[Main] \notin {"load", "loadsave"}
  BY DEF Procs
<1> QED
  BY <1>1, <1>2, <1>3, <1>4, <1>5 DEF FileInv

\* manageInstances changes no profile and activates nothing, nor does the close that
\* precedes it.
LEMMA ManageFile ==
    ASSUME IInv, FileIInv, NEW p \in Procs,
           Manage(p) \/ RestartClosed(p) \/ \E s \in Servers : ManageClose(p, s)
    PROVE  FileIInv'
<1> USE ConstantsAssumption DEF FileIInv
<1>1. /\ pc[p] \in {"manage", "restart"}
      /\ members' = members /\ file' = file /\ saveFailed' = saveFailed
      /\ fileLock' = fileLock /\ after' = after /\ buf' = buf /\ phase' = phase
  BY DEF Manage, ManageClose, ManageCreate, ManageFail, ManageDone, RestartClosed, zoneVars,
         lockVars, fileVars, localVars
<1>2. \A s \in members : obj'[s].profile = obj[s].profile
  <2>1. obj \in [Servers -> ServerState] /\ members \subseteq Servers
    BY DEF IInv, TypeOK
  <2>2. ASSUME NEW s \in Servers, ManageClose(p, s) 
        PROVE  \A t \in members : obj'[t].profile = obj[t].profile
    BY <2>1, <2>2 DEF ManageClose, ServerState
  <2>3. ASSUME NEW s \in Servers, ManageCreate(p, s) 
        PROVE  \A t \in members : obj'[t].profile = obj[t].profile
    <3>1. PICK i \in Instances : obj' = [obj EXCEPT ![s].instance = i, ![s].health = "Up"]
      BY <2>3 DEF ManageCreate
    <3>2. obj'[s] = [obj[s] EXCEPT !.instance = i, !.health = "Up"]
      BY <2>1, <3>1
    <3>3. obj'[s].profile = obj[s].profile
      BY <2>1, <3>2 DEF ServerState
    <3>4. \A t \in Servers \ {s} : obj'[t] = obj[t]
      BY <2>1, <3>1
    <3> QED
      BY <2>1, <3>3, <3>4
  <2>4. ASSUME NEW s \in Servers, ManageFail(p, s) 
        PROVE  \A t \in members : obj'[t].profile = obj[t].profile
    BY <2>4 DEF ManageFail
  <2>5. CASE ManageDone(p)
    BY <2>5 DEF ManageDone, zoneVars
  <2>6. CASE RestartClosed(p)
    <3>1. sid[p] \in Servers /\ obj' = [obj EXCEPT ![sid[p]].instance = NoInstance]
      BY <2>1, <2>6 DEF RestartClosed, IInv, LocalInv, LocalOK
    <3> QED
      BY <2>1, <3>1 DEF ServerState
  <2> QED
    BY <2>2, <2>3, <2>4, <2>5, <2>6 DEF Manage
<1>3. \A q \in Profiles : active'[q] => active[q]
  BY DEF Manage, ManageClose, ManageCreate, ManageFail, ManageDone, RestartClosed, zoneVars, IInv,
         TypeOK
<1>4. /\ pc'[p] \in {"manage", "probe", "copy"}
      /\ \A r \in Procs \ {p} : pc'[r] = pc[r]
      /\ pc'[p] = "probe" => p = Main
  <2>1. CASE ManageDone(p)
    <3>1. phase = "boot" => p = Main
      BY <2>1 DEF ManageDone, IInv, LoadInv, Procs
    <3> QED
      BY <2>1, <3>1 DEF ManageDone, Goto, IInv, TypeOK
  <2>2. CASE RestartClosed(p)
    BY <2>2 DEF RestartClosed, Goto, IInv, TypeOK
  <2>3. CASE ~ ManageDone(p) /\ ~ RestartClosed(p)
    BY <1>1, <2>3 DEF Manage, ManageClose, ManageCreate, ManageFail, localVars
  <2> QED
    BY <2>1, <2>2, <2>3
<1>5. WillSave(p) => WillSave(p)'
  BY <1>1, <1>4 DEF WillSave, SaveInv
<1>6. SaveInv'
  BY <1>1, <1>4 DEF SaveInv, Procs
<1>7. FileInv'
  BY <1>1, <1>2, <1>3, <1>4, <1>5, FileQuiet
<1> QED
  BY <1>6, <1>7

\* ReloadStrategy goes on to the save that was planned.
LEMMA ReloadFile ==
    ASSUME IInv, FileIInv, NEW p \in Procs, Reload(p)
    PROVE  FileIInv'
<1> USE ConstantsAssumption DEF FileIInv
<1>1. /\ pc[p] \in {"copy", "swap"}
      /\ members' = members /\ file' = file /\ saveFailed' = saveFailed
      /\ fileLock' = fileLock /\ obj' = obj /\ active' = active
      /\ phase = "dead" => phase' = "dead"
  BY DEF Reload, ReloadCopy, ReloadSwap, zoneVars, lockVars, fileVars
<1>2. \A r \in Procs \ {p} : pc'[r] = pc[r] /\ after'[r] = after[r] /\ buf'[r] = buf[r]
  BY DEF Reload, ReloadCopy, ReloadSwap, Goto, IInv, TypeOK
<1>3. \/ pc'[p] = "swap" /\ after'[p] = after[p]
      \/ pc'[p] = after[p] /\ after'[p] = "idle" /\ after[p] \in {"idle", "copy", "savelock"}
  BY DEF Reload, ReloadCopy, ReloadSwap, Goto, IInv, TypeOK
<1>4. WillSave(p) => WillSave(p)'
  BY <1>1, <1>3 DEF WillSave
<1>5. SaveInv'
  BY <1>1, <1>2, <1>3 DEF SaveInv, Procs
<1>6. FileInv'
  <2>1. pc[p] \notin {"savewrite", "load", "loadsave"} /\ pc'[p] # "savewrite"
    BY <1>1, <1>3
  <2> QED
    BY <1>1, <1>2, <1>4, <2>1, FileQuiet
<1> QED
  BY <1>5, <1>6

\* SaveConfigToFile: the copy is current when it is taken, and its successor is planned
\* before it stops being so; serversFileLock keeps the writes in order.
LEMMA SaveFile ==
    ASSUME IInv, FileIInv, NEW p \in Procs, Save(p)
    PROVE  FileIInv'
<1> USE ConstantsAssumption DEF FileIInv
<1>1. CASE SaveLock(p)
  <2>1. /\ pc[p] = "savelock" /\ pc' = [pc EXCEPT ![p] = "saveread"]
        /\ fileLock = Nobody /\ fileLock' = p
        /\ UNCHANGED <<phase, members, obj, active, file, saveFailed, after, buf>>
    BY <1>1 DEF SaveLock, FileFree, Goto, zoneVars, fileVars
  <2>2. pc'[p] = "saveread" /\ \A r \in Procs \ {p} : pc'[r] = pc[r]
    BY <2>1 DEF IInv, TypeOK
  <2>3. SaveInv'
    BY <2>1, <2>2 DEF SaveInv, Procs
  <2>4. FileInv'
    BY <2>1, <2>2, FileQuiet DEF WillSave
  <2> QED
    BY <2>3, <2>4
<1>2. CASE SaveRead(p)
  <2>1. /\ pc[p] = "saveread" /\ pc' = [pc EXCEPT ![p] = "savewrite"]
        /\ buf' = [buf EXCEPT ![p] = Snapshot]
        /\ UNCHANGED <<phase, members, obj, active, file, saveFailed, after, fileLock>>
    BY <1>2 DEF SaveRead, Goto, zoneVars, lockVars, fileVars
  <2>2. /\ pc'[p] = "savewrite" /\ buf'[p] = Snapshot
        /\ \A r \in Procs \ {p} : pc'[r] = pc[r]
    BY <2>1 DEF IInv, TypeOK
  <2>3. \A r \in Procs \ {p} : pc'[r] # "savewrite"
    BY <2>1, <2>2 DEF SaveInv
  <2>4. Current(buf[p])'
    BY <2>1, <2>2 DEF Current, Snapshot
  <2>5. SaveInv'
    BY <2>1, <2>2 DEF SaveInv, Procs
  <2>6. FileInv'
    BY <2>2, <2>3, <2>4 DEF FileInv
  <2> QED
    BY <2>5, <2>6
<1>3. CASE SaveWrite(p)
  <2>1. /\ pc[p] = "savewrite" /\ pc' = [pc EXCEPT ![p] = "idle"]
        /\ WriteFile(Saved(buf[p])) /\ fileLock' = Nobody
        /\ UNCHANGED <<phase, members, obj, active, after>>
    BY <1>3 DEF SaveWrite, Goto, zoneVars
  <2>2. pc'[p] = "idle" /\ \A r \in Procs \ {p} : pc'[r] = pc[r]
    BY <2>1 DEF IInv, TypeOK
  <2>3. \A r \in Procs \ {p} : pc[r] \notin {"saveread", "savewrite"}
    BY <2>1 DEF SaveInv
  <2>4. SaveInv'
    BY <2>1, <2>2, <2>3 DEF SaveInv, Procs
  <2>5. FileInv'
    <3>1. ASSUME NEW r \in Procs, WillSave(r) PROVE WillSave(r)'
      BY <2>1, <2>2, <3>1 DEF WillSave
    <3>2. Current(buf[p]) => saveFailed' \/ (file' # Torn /\ Recorded(file)')
      <4>1. Saved(buf[p]) # Torn
        BY SavedFile DEF IInv, TypeOK, LocalInv, LocalOK
      <4>2. saveFailed' \/ file' = Saved(buf[p])
        BY <2>1 DEF WriteFile
      <4>3. ASSUME file' = Saved(buf[p]), Current(buf[p]) PROVE Recorded(file)'
        BY <2>1, <4>3 DEF Current, Recorded, Saved
      <4>4. ASSUME file' = Saved(buf[p]) PROVE file' # Torn
        BY <4>1, <4>4
      <4> QED
        BY <4>2, <4>3, <4>4, Zenon
    <3>3. pc[Main] \notin {"load", "loadsave"} <=> pc'[Main] \notin {"load", "loadsave"}
      BY <2>1, <2>2 DEF SaveInv, Procs
    <3>4. \A r \in Procs : pc'[r] # "savewrite"
      BY <2>2, <2>3
    <3> QED
      BY <2>1, <3>1, <3>2, <3>3, <3>4 DEF FileInv
  <2> QED
    BY <2>4, <2>5
<1> QED
  BY <1>1, <1>2, <1>3 DEF Save

\* An edit of the A zone plans a save.
LEMMA EditFile ==
    ASSUME IInv, FileIInv, NEW p \in Procs, p # Main,
           NEW l \in {"manage", "restart", "delete", "copy"},
           pc[p] \in {"idle", "setactive"}, pc' = [pc EXCEPT ![p] = l],
           after' = [after EXCEPT ![p] = "savelock"], fileLock' = fileLock
    PROVE  FileIInv'
<1>1. /\ pc'[p] = l /\ after'[p] = "savelock"
      /\ \A r \in Procs \ {p} : pc'[r] = pc[r] /\ after'[r] = after[r]
  BY DEF IInv, TypeOK
<1>2. WillSave(p)'
  BY <1>1 DEF WillSave
<1>3. SaveInv'
  BY <1>1 DEF FileIInv, SaveInv, Procs
<1> QED
  BY <1>2, <1>3 DEF FileIInv, FileInv

\* UpdateServerActiveState plans a save, unless there is nothing to change.
LEMMA SetActiveFile ==
    ASSUME IInv, FileIInv, NEW p \in Procs, SetActiveApply(p)
    PROVE  FileIInv'
<1> USE ConstantsAssumption
<1>1. pc[p] = "setactive" /\ p # Main /\ fileLock' = fileLock
  BY DEF SetActiveApply, FileIInv, SaveInv
<1>2. CASE active[obj[sid[p]].profile] = want[p]
  <2>1. /\ pc' = [pc EXCEPT ![p] = "idle"]
        /\ UNCHANGED <<phase, members, obj, active, file, saveFailed, after, buf>>
    BY <1>2 DEF SetActiveApply, NoChange, Goto, fileVars
  <2>2. pc'[p] = "idle" /\ \A r \in Procs \ {p} : pc'[r] = pc[r]
    BY <2>1 DEF IInv, TypeOK
  <2>3. SaveInv'
    BY <1>1, <2>1, <2>2 DEF FileIInv, SaveInv, Procs
  <2>4. FileInv'
    BY <1>1, <2>1, <2>2, FileQuiet DEF FileIInv, WillSave
  <2> QED
    BY <2>3, <2>4 DEF FileIInv
<1>3. CASE active[obj[sid[p]].profile] # want[p]
  <2>1. pc' = [pc EXCEPT ![p] = "manage"] /\ after' = [after EXCEPT ![p] = "savelock"]
    BY <1>3 DEF SetActiveApply, Goto
  <2> QED
    BY <1>1, <2>1, EditFile
<1> QED
  BY <1>2, <1>3

\* The requests that edit the A zone plan a save; the others change nothing it holds.
LEMMA RequestFile ==
    ASSUME IInv, FileIInv, NEW p \in Requests, Request(p)
    PROVE  FileIInv'
<1> USE ConstantsAssumption
<1>1. p \in Procs /\ p # Main
  BY DEF Procs
<1>2. PICK s \in Servers : \/ \E b \in BOOLEAN : SetActiveLookup(p, s, b)
                           \/ AddServerProfile(p, s)
                           \/ UpdateServerProfile(p, s)
                           \/ DeleteServerProfile(p, s)
                           \/ ReportFailure(p, s)
  BY DEF Request
<1>3. CASE AddServerProfile(p, s)
  <2>1. /\ pc[p] = "idle" /\ pc' = [pc EXCEPT ![p] = "copy"]
        /\ after' = [after EXCEPT ![p] = "savelock"] /\ fileLock' = fileLock
    BY <1>3 DEF AddServerProfile, Goto, lockVars
  <2> QED
    BY <1>1, <2>1, EditFile
<1>4. CASE UpdateServerProfile(p, s) \/ DeleteServerProfile(p, s)
  <2>1. /\ pc[p] = "idle" /\ \E l \in {"restart", "delete", "copy"} : pc' = [pc EXCEPT ![p] = l]
        /\ after' = [after EXCEPT ![p] = "savelock"] /\ fileLock' = fileLock
    BY <1>4 DEF UpdateServerProfile, DeleteServerProfile, CloseOf, Goto
  <2> QED
    BY <1>1, <2>1, EditFile
<1>5. CASE ReportFailure(p, s) \/ \E b \in BOOLEAN : SetActiveLookup(p, s, b)
  <2>1. /\ pc[p] = "idle"
        /\ pc' = pc \/ \E l \in {"trigger", "setactive"} : pc' = [pc EXCEPT ![p] = l]
        /\ UNCHANGED <<phase, members, obj, active, file, saveFailed, fileLock, after, buf>>
    BY <1>5 DEF ReportFailure, SetActiveLookup, Goto, zoneVars, lockVars, fileVars
  <2>2. /\ pc'[p] \in {"idle", "trigger", "setactive"}
        /\ \A r \in Procs \ {p} : pc'[r] = pc[r]
    BY <1>1, <2>1 DEF IInv, TypeOK
  <2>3. SaveInv'
    BY <1>1, <2>1, <2>2 DEF FileIInv, SaveInv, Procs
  <2>4. FileInv'
    BY <1>1, <2>1, <2>2, FileQuiet DEF FileIInv, WillSave
  <2> QED
    BY <2>3, <2>4 DEF FileIInv
<1> QED
  BY <1>2, <1>3, <1>4, <1>5

\* A deletion that has closed the instance of its server goes on to its save.
LEMMA DeleteClosedFile ==
    ASSUME IInv, FileIInv, NEW p \in Procs, DeleteClosed(p)
    PROVE  FileIInv'
<1>1. /\ pc[p] = "delete" /\ pc' = [pc EXCEPT ![p] = "copy"] /\ pc \in [Procs -> Labels]
      /\ after' = after /\ fileLock' = fileLock
  BY DEF DeleteClosed, Goto, IInv, TypeOK
<1>2. after[p] = "savelock"
  BY <1>1 DEF FileIInv, SaveInv
<1>3. WillSave(p)'
  BY <1>1, <1>2 DEF WillSave
<1>4. SaveInv'
  BY <1>1 DEF FileIInv, SaveInv, Procs
<1> QED
  BY <1>3, <1>4 DEF FileIInv, FileInv

\* Health checks change health and metrics only.
LEMMA HealthFile ==
    ASSUME IInv, FileIInv, NEW p \in Procs, Trigger(p) \/ (p = Main /\ (HealthCycle \/ Tick))
    PROVE  FileIInv'
<1> USE ConstantsAssumption
<1>1. Main \in Procs
  BY DEF Procs
<1>2. /\ pc[p] \in {"trigger", "triggercheck", "probe", "check", "idle"}
      /\ UNCHANGED <<phase, members, active, file, saveFailed, fileLock>>
  BY DEF Trigger, TriggerLock, TriggerApply, HealthCycle, HealthSnapshot, HealthApply, Tick,
         zoneVars, lockVars, fileVars
<1>3. \E l \in {"triggercheck", "idle", "copy", "check", "probe"} : pc' = [pc EXCEPT ![p] = l]
  BY DEF Trigger, TriggerLock, TriggerApply, HealthCycle, HealthSnapshot, HealthApply, Tick,
         Goto, Returns
<1>4. /\ pc'[p] \in {"triggercheck", "idle", "copy", "check", "probe"}
      /\ \A r \in Procs \ {p} : pc'[r] = pc[r] /\ after'[r] = after[r] /\ buf'[r] = buf[r]
  <2>1. CASE Trigger(p)
    <3>1. after' = after /\ buf' = buf
      BY <2>1 DEF Trigger, TriggerLock, TriggerApply
    <3> QED
      BY <1>3, <3>1 DEF IInv, TypeOK
  <2>2. CASE p = Main /\ HealthApply
    <3>1. /\ buf' = [buf EXCEPT ![Main] = EmptyZone]
          /\ after' \in {[after EXCEPT ![Main] = "idle"], [after EXCEPT ![Main] = "copy"]}
      BY <2>2 DEF HealthApply, Returns
    <3> QED
      BY <1>3, <2>2, <3>1 DEF IInv, TypeOK
  <2>3. CASE p = Main /\ (HealthSnapshot \/ Tick)
    <3>1. /\ buf' = buf \/ buf' = [buf EXCEPT ![Main] = [s \in ToCheck |-> obj[s]]]
          /\ after' = after
      BY <2>3 DEF HealthSnapshot, Tick
    <3> QED
      BY <1>3, <2>3, <3>1 DEF IInv, TypeOK
  <2> QED
    BY <2>1, <2>2, <2>3 DEF HealthCycle
<1>5. \A s \in members : obj'[s].profile = obj[s].profile
  <2>1. obj \in [Servers -> ServerState] /\ members \subseteq Servers
    BY DEF IInv, TypeOK
  <2>2. CASE TriggerApply(p)
    <3>1. PICK h \in {"Up", "Down"} : obj' = [obj EXCEPT ![sid[p]].health = h]
      BY <2>2 DEF TriggerApply
    <3> QED
      BY <2>1, <3>1 DEF ServerState
  <2>3. CASE HealthApply
    <3>1. PICK health \in [DOMAIN buf[Main] -> {"Up", "Down"}],
               metrics \in [DOMAIN buf[Main] -> MetricValues] :
            obj' = [s \in Servers |->
                      IF s \in DOMAIN buf[Main] \cap members
                      THEN [obj[s] EXCEPT !.health = health[s], !.metrics = metrics[s]]
                      ELSE obj[s]]
      BY <2>3 DEF HealthApply
    <3>2. SUFFICES ASSUME NEW s \in members PROVE obj'[s].profile = obj[s].profile
      OBVIOUS
    <3>3. obj[s] \in ServerState /\ s \in Servers
      BY <2>1
    <3>4. CASE s \in DOMAIN buf[Main]
      <4>1. obj'[s] = [obj[s] EXCEPT !.health = health[s], !.metrics = metrics[s]]
        BY <3>1, <3>3, <3>4
      <4> QED
        BY <3>3, <4>1 DEF ServerState
    <3>5. CASE s \notin DOMAIN buf[Main]
      BY <3>1, <3>3, <3>5
    <3> QED
      BY <3>4, <3>5
  <2>4. CASE ~ TriggerApply(p) /\ ~ HealthApply
    BY <2>4 DEF Trigger, TriggerLock, HealthCycle, HealthSnapshot, Tick, zoneVars
  <2> QED
    BY <2>2, <2>3, <2>4
<1>6. p = Main => pc'[p] # "triggercheck" /\ after'[p] \in {"idle", "copy"}
  <2>1. after[Main] \in {"idle", "copy"} /\ pc[Main] \notin {"trigger", "triggercheck"}
    BY DEF FileIInv, SaveInv
  <2>2. CASE HealthApply /\ p = Main
    <3>1. /\ pc' \in {[pc EXCEPT ![Main] = "copy"], [pc EXCEPT ![Main] = "idle"]}
          /\ after' \in {[after EXCEPT ![Main] = "idle"], [after EXCEPT ![Main] = "copy"]}
      BY <2>2 DEF HealthApply, Returns, Goto
    <3> QED
      BY <1>1, <2>2, <3>1 DEF IInv, TypeOK
  <2>3. CASE p = Main /\ (HealthSnapshot \/ Tick)
    BY <1>1, <2>1, <2>3 DEF HealthSnapshot, Tick, Returns, Goto, IInv, TypeOK
  <2> QED
    BY <2>1, <2>2, <2>3 DEF Trigger, TriggerLock, TriggerApply, HealthCycle
<1>7. SaveInv'
  BY <1>1, <1>2, <1>4, <1>6 DEF FileIInv, SaveInv
<1>8. FileInv'
  <2>1. /\ ~ WillSave(p)
        /\ pc[p] \notin {"savewrite", "load", "loadsave"} /\ pc'[p] # "savewrite"
    BY <1>2, <1>4 DEF WillSave
  <2> QED
    BY <1>2, <1>4, <1>5, <2>1, FileQuiet DEF FileIInv
<1> QED
  BY <1>7, <1>8 DEF FileIInv

\* The bootstrap ends with a file that records what it loaded, or cannot read or write it.
LEMMA BootstrapFile ==
    ASSUME IInv, FileIInv, Bootstrap
    PROVE  FileIInv'
<1> USE ConstantsAssumption
<1>1. Main \in Procs
  BY DEF Procs
<1>2. CASE Load
  <2>1. /\ pc[Main] = "load" /\ UNCHANGED <<file, fileLock, after>>
        /\ \E l \in {"idle", "loadsave"} : pc' = [pc EXCEPT ![Main] = l]
    BY <1>2 DEF Load, Goto, fileVars
  <2>2. /\ pc'[Main] \in {"idle", "loadsave"} /\ \A r \in Procs \ {Main} : pc'[r] = pc[r]
        /\ pc'[Main] = "idle" => phase' = "dead"
    BY <1>1, <1>2, <2>1 DEF Load, Goto, IInv, TypeOK
  <2>3. SaveInv'
    BY <1>1, <2>1, <2>2 DEF FileIInv, SaveInv
  <2>4. \A r \in Procs : pc'[r] # "savewrite"
    BY <2>1, <2>2 DEF IInv, LoadInv, Procs
  <2>5. FileInv'
    BY <2>1, <2>2, <2>4 DEF FileInv
  <2> QED
    BY <2>3, <2>5 DEF FileIInv
<1>3. CASE LoadSave
  <2>1. /\ pc[Main] = "loadsave" /\ pc' = [pc EXCEPT ![Main] = "manage"]
        /\ fileLock = Nobody /\ WriteFile(Saved(Snapshot))
        /\ UNCHANGED <<members, obj, active, fileLock, after>>
    BY <1>3 DEF LoadSave, FileFree, Goto, zoneVars, lockVars
  <2>2. pc'[Main] = "manage" /\ \A r \in Procs \ {Main} : pc'[r] = pc[r]
    BY <1>1, <2>1 DEF IInv, TypeOK
  <2>3. SaveInv'
    BY <1>1, <2>1, <2>2 DEF FileIInv, SaveInv
  <2>4. \A r \in Procs : pc'[r] # "savewrite"
    BY <2>1, <2>2 DEF FileIInv, SaveInv
  <2>5. saveFailed' \/ (file' # Torn /\ Recorded(file)')
    <3>1. Snapshot \in Zones /\ OwnProfiles(Snapshot)
      BY <1>1, <2>1, SubSnapshot, NotRestarting DEF Snapshot, IInv, LockInv, LockedLabels
    <3>2. Saved(Snapshot) # Torn
      BY <3>1, SavedFile DEF IInv
    <3>3. saveFailed' \/ file' = Saved(Snapshot)
      BY <2>1 DEF WriteFile
    <3>4. ASSUME file' = Saved(Snapshot) PROVE Recorded(file)'
      BY <2>1, <3>4 DEF Recorded, Current, Saved, Snapshot
    <3>5. ASSUME file' = Saved(Snapshot) PROVE file' # Torn
      BY <3>2, <3>5
    <3> QED
      BY <3>3, <3>4, <3>5, Zenon
  <2>6. FileInv'
    BY <2>4, <2>5 DEF FileInv
  <2> QED
    BY <2>3, <2>6 DEF FileIInv
<1> QED
  BY <1>2, <1>3 DEF Bootstrap

\* Every step of the control plane keeps it.
LEMMA NextFile ==
    ASSUME IInv, FileIInv, [Next]_vars
    PROVE  FileIInv'
<1> USE ConstantsAssumption
<1>1. CASE UNCHANGED vars
  <2> USE <1>1 DEF vars, zoneVars, lockVars, localVars, fileVars
  <2>1. SaveInv'
    BY DEF FileIInv, SaveInv
  <2>2. FileInv'
    BY DEF FileIInv, FileInv, WillSave, Recorded, Current
  <2> QED
    BY <2>1, <2>2 DEF FileIInv
<1>2. CASE Crash
  <2>1. /\ pc' = [p \in Procs |-> IF p = Main THEN "load" ELSE "idle"]
        /\ fileLock' = Nobody /\ after' = [p \in Procs |-> "idle"]
    BY <1>2 DEF Crash
  <2>2. SaveInv'
    BY <2>1 DEF SaveInv, Procs
  <2> QED
    BY <2>1, <2>2 DEF FileIInv, FileInv, Procs
<1>3. ASSUME NEW s \in Servers, ReportSuccess(s) PROVE FileIInv'
  <2> USE <1>3 DEF ReportSuccess, zoneVars, lockVars, localVars, fileVars
  <2>1. SaveInv'
    BY DEF FileIInv, SaveInv
  <2>2. FileInv'
    BY DEF FileIInv, FileInv, WillSave, Recorded, Current
  <2> QED
    BY <2>1, <2>2 DEF FileIInv
<1>4. CASE Tick
  BY <1>4, HealthFile DEF Procs
<1>5. ASSUME NEW p \in Procs, Step(p) PROVE FileIInv'
  BY <1>5, ManageFile, ReloadFile, SaveFile, SetActiveFile, HealthFile, BootstrapFile DEF Step
<1>6. ASSUME NEW p \in Procs, CloseReturns(p) PROVE FileIInv'
  BY <1>6, ManageFile, DeleteClosedFile DEF CloseReturns
<1> QED
  BY <1>1, <1>2, <1>3, <1>4, <1>5, <1>6, RequestFile DEF Next

\* FileUpToDate: when all requests are done, servers.json has the servers of the A zone,
\* their newest profiles and every running server as active, whatever the order of the
\* saves (SaveConfigToFile), provided the save that wrote last could write.
THEOREM FileCatchesUp == Spec => []FileUpToDate
<1>1. Init => FileIInv
  BY ConstantsAssumption DEF Init, FileIInv, SaveInv, FileInv, Procs
<1>2. FileIInv => FileUpToDate
  <2> SUFFICES ASSUME FileIInv, Quiescent, ~saveFailed
               PROVE  file # Torn /\ Recorded(file)
    BY DEF FileUpToDate, Recorded, Current
  <2>1. \A p \in Procs : pc[p] = "idle" /\ ~ WillSave(p)
    BY DEF Quiescent, WillSave
  <2> QED
    BY <2>1 DEF FileIInv, FileInv, Quiescent, Procs
<1> QED
  BY <1>1, <1>2, NextFile, Invariance, PTL DEF Spec

=============================================================================
