----------------------------- MODULE AppServer -----------------------------
(***************************************************************************)
(* The control core of liuproxy_go: internal/app/appserver.go.             *)
(*                                                                         *)
(* AppServer keeps every backend server twice.  The "A zone" (configState) *)
(* is edited by the web handlers, by the health checks and by the          *)
(* bootstrap, under configLock.  The "B zone" (workState) is what live     *)
(* traffic is dispatched from; ReloadStrategy copies A to B in two         *)
(* separate critical sections.  A ServerState is copied by value, but its  *)
(* Profile and Instance are pointers that both zones share.                *)
(*                                                                         *)
(* A process is a web request together with the goroutine it spawns, a     *)
(* failure-triggered health check, or the main goroutine (bootstrap, then  *)
(* the health check loop).  A critical section that only touches memory is *)
(* one action; a write section that waits for something (instance start    *)
(* and stop, network check, file I/O) is several, with the lock held.      *)
(***************************************************************************)
EXTENDS Naturals, FiniteSets

CONSTANTS
    Servers,            \* server ids (uuids)
    Profiles,           \* addresses of ServerProfile objects; each stands for its content
    Instances,          \* addresses of TunnelStrategy objects
    Requests,           \* slots for concurrent requests and triggered checks
    Main,               \* the main goroutine
    MetricValues,       \* what Instance.GetMetrics() may report
    FailureThreshold,   \* appserver.go: "count >= 5"
    MaxOps,             \* bound: requests, ticks and crashes in a behaviour
    MaxCrashes,         \* bound: crashes among them
    NoInstance, NoProfile, NoServer, Nobody, Torn

Procs == Requests \cup {Main}
Health == {"Unknown", "Up", "Down"}
NoMetrics == 0                        \* Metrics{-1, -1}, before any check

ServerState == [profile  : Profiles \cup {NoProfile},
                instance : Instances \cup {NoInstance},
                health   : Health,
                metrics  : MetricValues \cup {NoMetrics}]

\* A map[string]*ServerState: a function on the ids that are present.
Zones == UNION {[S -> ServerState] : S \in SUBSET Servers}
\* The ServerState of a profile just loaded or added.
NewState(q) == [profile |-> q, instance |-> NoInstance,
                health |-> "Unknown", metrics |-> NoMetrics]

EmptyZone == [s \in {} |-> NewState(NoProfile)]

\* servers.json: the profile and its Active flag, per id.
Files == UNION {[S -> [profile : Profiles, active : BOOLEAN]] : S \in SUBSET Servers}

ASSUME ConstantsAssumption ==
    /\ Main \notin Requests
    /\ Nobody \notin Procs
    /\ NoInstance \notin Instances
    /\ NoProfile \notin Profiles
    /\ NoServer \notin Servers
    /\ Torn \notin Files
    /\ MetricValues \subseteq Nat
    /\ FailureThreshold \in Nat \ {0}
    /\ MaxOps \in Nat /\ MaxCrashes \in Nat

VARIABLES
    phase,       \* "boot", "up", or "dead" after a failed bootstrap
    members,     \* the keys of configState.Servers
    obj,         \* the ServerState objects of the A zone (a removed one may still be referenced)
    active,      \* Profile.Active, reached through the shared pointer
    built,       \* the profile an instance was created from
    open,        \* instances that run: CloseTunnel has not returned yet
    work,        \* workState, the B zone
    failures,    \* failureCounters
    configLock,  \* write holder of configLock; a read section is one action
    fileLock,    \* holder of serversFileLock
    file,        \* servers.json on disk
    saveFailed,  \* history, read by properties only: the last SaveServers failed to write
    pc, sid, want, after, buf,   \* locals of the processes
    ops, crashes                 \* work done so far, for the bounds

zoneVars == <<members, obj, active, built, open>>
lockVars == <<configLock, fileLock>>
fileVars == <<file, saveFailed>>
localVars == <<pc, sid, want, after, buf>>
boundVars == <<ops, crashes>>
vars == <<phase, zoneVars, work, failures, lockVars, fileVars, localVars, boundVars>>

-----------------------------------------------------------------------------
(* Addresses are fresh when nothing refers to them any more.               *)

Snapshot == [s \in members |-> obj[s]]      \* deepCopyAppState under a read lock

ZonesInUse == {obj, work} \cup {buf[p] : p \in Procs}

FreshServer(s) ==
    /\ s \notin members /\ s \notin DOMAIN work
    /\ \A p \in Procs : sid[p] # s /\ s \notin DOMAIN buf[p]
    /\ file # Torn => s \notin DOMAIN file
    /\ failures[s] = 0

FreshProfile(q) ==
    /\ \A z \in ZonesInUse : \A s \in DOMAIN z : z[s].profile # q
    /\ file # Torn => \A s \in DOMAIN file : file[s].profile # q

FreshInstance(i) ==
    /\ i \notin open
    /\ \A z \in ZonesInUse : \A s \in DOMAIN z : z[s].instance # i

\* Process p goes to label l.
Goto(p, l) == pc' = [pc EXCEPT ![p] = l]

\* The next request, tick or crash is within the bound.
Begin == ops < MaxOps /\ ops' = ops + 1

ConfigFree == configLock = Nobody

\* Without serversFileLock.
FileFree_NoLock == TRUE
FileFree == fileLock = Nobody

\* The listeners left when the instance of s is closed; without CloseTunnel.
ListenersWithout_NotClosed(s) == open
ListenersWithout(s) == open \ {obj[s].instance}

-----------------------------------------------------------------------------
(* Bootstrap: loadConfigAndBootstrap.                                       *)

DistinctProfiles(f) ==
    \A s, t \in DOMAIN f : f[s].profile = f[t].profile => s = t

\* A process image just started, with the servers.json of an earlier one.
Init ==
    /\ phase = "boot"
    /\ members = {}
    /\ obj = [s \in Servers |-> NewState(NoProfile)]
    /\ active = [q \in Profiles |-> FALSE]
    /\ built = [i \in Instances |-> NoProfile]
    /\ open = {}
    /\ work = EmptyZone
    /\ failures = [s \in Servers |-> 0]
    /\ configLock = Nobody
    /\ fileLock = Nobody
    /\ pc = [p \in Procs |-> IF p = Main THEN "load" ELSE "idle"]
    /\ sid = [p \in Procs |-> NoServer]
    /\ want = [p \in Procs |-> FALSE]
    /\ after = [p \in Procs |-> "idle"]
    /\ buf = [p \in Procs |-> EmptyZone]
    /\ file \in {f \in Files : DistinctProfiles(f)}
    /\ saveFailed = FALSE
    /\ ops = 0 /\ crashes = 0

\* loadConfigFromFile up to the save-back.  An unreadable file is fatal.
Load ==
    /\ pc[Main] = "load"
    /\ IF file = Torn
       THEN /\ phase' = "dead"
            /\ Goto(Main, "idle")
            /\ UNCHANGED <<members, obj, active, configLock>>
       ELSE /\ members' = DOMAIN file
            /\ obj' = [s \in Servers |->
                         IF s \in DOMAIN file
                         THEN NewState(file[s].profile)
                         ELSE obj[s]]
            /\ active' = [q \in Profiles |->
                            \E s \in DOMAIN file : file[s].profile = q /\ file[s].active]
            /\ configLock' = Main
            /\ Goto(Main, "loadsave")
            /\ UNCHANGED phase
    /\ UNCHANGED <<built, open, work, failures, fileLock, fileVars, sid, want, after, buf,
                   boundVars>>

\* What SaveServers writes for the profiles of zone z.
Saved(z) == [s \in DOMAIN z |-> [profile |-> z[s].profile, active |-> active[z[s].profile]]]

\* os.WriteFile of f, which truncates before it writes: all of f is written, or it
\* fails and leaves the old file or a torn one.  No caller of SaveServers tries again.
WriteFile(f) == /\ file' \in {f, file, Torn}
                /\ saveFailed' = (file' # f)

\* The save-back, under both locks (configLock first, serversFileLock second).
LoadSave ==
    /\ pc[Main] = "loadsave"
    /\ FileFree
    /\ WriteFile(Saved(Snapshot))
    /\ Goto(Main, "manage")
    /\ UNCHANGED <<phase, zoneVars, work, failures, lockVars, sid, want, after, buf, boundVars>>

-----------------------------------------------------------------------------
(* manageInstances: one step per server, configLock held throughout.        *)
(* CloseTunnel returns when the strategy lets it: Agent.Close waits for the  *)
(* clients of the instance, a gRPC stream for its server.  The steps that    *)
(* take its return, ManageClose, RestartClosed and DeleteClosed, need not    *)
(* ever happen.                                                              *)

\* Without the loop that stops deactivated servers.
ToClose_Dropped == {}
ToClose == {s \in members : ~active[obj[s].profile] /\ obj[s].instance # NoInstance}
ToCreate == {s \in members : active[obj[s].profile] /\ obj[s].instance = NoInstance}

ManageClose(p, s) ==
    /\ pc[p] = "manage"
    /\ s \in ToClose
    /\ open' = ListenersWithout(s)
    /\ obj' = [obj EXCEPT ![s].instance = NoInstance]
    /\ UNCHANGED <<phase, members, active, built, work, failures, lockVars, fileVars, localVars,
                   boundVars>>

\* NewStrategy and Initialize succeed.
ManageCreate(p, s) ==
    /\ pc[p] = "manage"
    /\ ToClose = {}
    /\ s \in ToCreate
    /\ \E i \in Instances :
         /\ FreshInstance(i)
         /\ open' = open \cup {i}
         /\ built' = [built EXCEPT ![i] = obj[s].profile]
         /\ obj' = [obj EXCEPT ![s].instance = i, ![s].health = "Up"]
    /\ UNCHANGED <<phase, members, active, work, failures, lockVars, fileVars, localVars,
                   boundVars>>

\* NewStrategy fails, or Initialize fails and the new instance is closed again.
ManageFail(p, s) ==
    /\ pc[p] = "manage"
    /\ ToClose = {}
    /\ s \in ToCreate
    /\ active' = [active EXCEPT ![obj[s].profile] = FALSE]
    /\ UNCHANGED <<phase, members, obj, built, open, work, failures, lockVars, fileVars, localVars,
                   boundVars>>

ManageDone(p) ==
    /\ pc[p] = "manage"
    /\ ToClose = {} /\ ToCreate = {}
    /\ configLock' = Nobody
    /\ Goto(p, IF phase = "boot" THEN "probe" ELSE "copy")
    /\ UNCHANGED <<phase, zoneVars, work, failures, fileLock, fileVars, sid, want, after, buf,
                   boundVars>>

-----------------------------------------------------------------------------
(* The web requests.                                                        *)

\* UpdateServerActiveState, read section: the state pointer is looked up ...
SetActiveLookup(p, s, b) ==
    /\ phase = "up" /\ pc[p] = "idle" /\ p # Main /\ ConfigFree
    /\ Begin
    /\ s \in members
    /\ Goto(p, "setactive")
    /\ sid' = [sid EXCEPT ![p] = s]
    /\ want' = [want EXCEPT ![p] = b]
    /\ UNCHANGED <<phase, zoneVars, work, failures, lockVars, fileVars, after, buf, crashes>>

\* "No change needed": return, releasing the lock; without the Unlock.
NoChange_Locked(p) == Goto(p, "idle") /\ configLock' = p /\ UNCHANGED <<active, after>>
NoChange(p) == Goto(p, "idle") /\ UNCHANGED <<active, configLock, after>>

\* ... and used in a later write section, whatever happened in between.
SetActiveApply(p) ==
    /\ pc[p] = "setactive" /\ ConfigFree
    /\ sid' = [sid EXCEPT ![p] = NoServer]
    /\ LET q == obj[sid[p]].profile IN
         IF active[q] = want[p]
         THEN NoChange(p)
         ELSE /\ active' = [active EXCEPT ![q] = want[p]]
              /\ configLock' = p
              /\ Goto(p, "manage")
              /\ after' = [after EXCEPT ![p] = "savelock"]
    /\ UNCHANGED <<phase, members, obj, built, open, work, failures, fileLock, fileVars, want, buf,
                   boundVars>>

\* AddServerProfile; the handler has given the profile a new id and Active = false.
AddServerProfile(p, s) ==
    /\ phase = "up" /\ pc[p] = "idle" /\ p # Main /\ ConfigFree
    /\ Begin
    /\ FreshServer(s)
    /\ \E q \in Profiles :
         /\ FreshProfile(q)
         /\ active' = [active EXCEPT ![q] = FALSE]
         /\ obj' = [obj EXCEPT ![s] = NewState(q)]
    /\ members' = members \cup {s}
    /\ Goto(p, "copy")
    /\ after' = [after EXCEPT ![p] = "savelock"]
    /\ UNCHANGED <<phase, built, open, work, failures, lockVars, fileVars, sid, want, buf, crashes>>

\* Process p takes configLock and calls CloseTunnel of the instance of s.
CloseOf(p, s, l) ==
    /\ configLock' = p
    /\ Goto(p, l)
    /\ sid' = [sid EXCEPT ![p] = s]

\* An update restarts a running instance; or only replaces the profile.
NeedsRestart_Never(s) == FALSE
NeedsRestart(s) == active[obj[s].profile] /\ obj[s].instance # NoInstance

\* UpdateServerProfile: the new profile inherits Active; a running instance is
\* closed, with configLock held ...
UpdateServerProfile(p, s) ==
    /\ phase = "up" /\ pc[p] = "idle" /\ p # Main /\ ConfigFree
    /\ Begin
    /\ s \in members
    /\ \E q \in Profiles :
         /\ FreshProfile(q)
         /\ active' = [active EXCEPT ![q] = active[obj[s].profile]]
         /\ obj' = [obj EXCEPT ![s].profile = q]
    /\ IF NeedsRestart(s)
       THEN CloseOf(p, s, "restart")
       ELSE Goto(p, "copy") /\ UNCHANGED <<configLock, sid>>
    /\ after' = [after EXCEPT ![p] = "savelock"]
    /\ UNCHANGED <<phase, members, built, open, work, failures, fileLock, fileVars, want, buf,
                   crashes>>

\* ... and manageInstances, in the same section, builds its successor.
RestartClosed(p) ==
    /\ pc[p] = "restart"
    /\ open' = ListenersWithout(sid[p])
    /\ obj' = [obj EXCEPT ![sid[p]].instance = NoInstance]
    /\ sid' = [sid EXCEPT ![p] = NoServer]
    /\ Goto(p, "manage")
    /\ UNCHANGED <<phase, members, active, built, work, failures, lockVars, fileVars, want, after,
                   buf, boundVars>>

\* DeleteServerProfile: a running instance is closed first ...
DeleteServerProfile(p, s) ==
    /\ phase = "up" /\ pc[p] = "idle" /\ p # Main /\ ConfigFree
    /\ Begin
    /\ s \in members
    /\ IF obj[s].instance = NoInstance
       THEN /\ members' = members \ {s}
            /\ Goto(p, "copy")
            /\ UNCHANGED <<configLock, sid>>
       ELSE CloseOf(p, s, "delete") /\ UNCHANGED members
    /\ after' = [after EXCEPT ![p] = "savelock"]
    /\ UNCHANGED <<phase, obj, active, built, open, work, failures, fileLock, fileVars, want, buf,
                   crashes>>

\* ... and the server goes when CloseTunnel has returned.
DeleteClosed(p) ==
    /\ pc[p] = "delete"
    /\ open' = ListenersWithout(sid[p])
    /\ obj' = [obj EXCEPT ![sid[p]].instance = NoInstance]
    /\ members' = members \ {sid[p]}
    /\ configLock' = Nobody
    /\ sid' = [sid EXCEPT ![p] = NoServer]
    /\ Goto(p, "copy")
    /\ UNCHANGED <<phase, active, built, work, failures, fileLock, fileVars, want, after, buf,
                   boundVars>>

-----------------------------------------------------------------------------
(* ReloadStrategy and SaveConfigToFile.                                     *)

ReloadCopy(p) ==
    /\ pc[p] = "copy" /\ ConfigFree
    /\ buf' = [buf EXCEPT ![p] = Snapshot]
    /\ Goto(p, "swap")
    /\ UNCHANGED <<phase, zoneVars, work, failures, lockVars, fileVars, sid, want, after,
                   boundVars>>

\* The swap is a second critical section: another reload may run in between.
\* The last publication of the bootstrap opens the server for traffic.
ReloadSwap(p) ==
    /\ pc[p] = "swap"
    /\ work' = buf[p]
    /\ buf' = [buf EXCEPT ![p] = EmptyZone]
    /\ Goto(p, after[p])
    /\ after' = [after EXCEPT ![p] = "idle"]
    /\ phase' = IF phase = "boot" /\ after[p] = "idle" THEN "up" ELSE phase
    /\ UNCHANGED <<zoneVars, failures, lockVars, fileVars, sid, want, boundVars>>

SaveLock(p) ==
    /\ pc[p] = "savelock"
    /\ FileFree
    /\ fileLock' = p
    /\ Goto(p, "saveread")
    /\ UNCHANGED <<phase, zoneVars, work, failures, configLock, fileVars, sid, want, after, buf,
                   boundVars>>

SaveRead(p) ==
    /\ pc[p] = "saveread" /\ ConfigFree
    /\ buf' = [buf EXCEPT ![p] = Snapshot]
    /\ Goto(p, "savewrite")
    /\ UNCHANGED <<phase, zoneVars, work, failures, lockVars, fileVars, sid, want, after,
                   boundVars>>

\* The profiles are marshalled after configLock is released, through the
\* shared pointers, and written with os.WriteFile.
SaveWrite(p) ==
    /\ pc[p] = "savewrite"
    /\ WriteFile(Saved(buf[p]))
    /\ buf' = [buf EXCEPT ![p] = EmptyZone]
    /\ fileLock' = Nobody
    /\ Goto(p, "idle")
    /\ UNCHANGED <<phase, zoneVars, work, failures, configLock, sid, want, after, boundVars>>

-----------------------------------------------------------------------------
(* Health checks.                                                           *)

\* A check result that has to be published.
HealthChanged(s, h) == obj[s].health # h

\* The ticker of healthCheckLoop fires and runHealthChecks starts.
Tick ==
    /\ phase = "up" /\ pc[Main] = "idle"
    /\ Begin
    /\ Goto(Main, "probe")
    /\ UNCHANGED <<phase, zoneVars, work, failures, lockVars, fileVars, sid, want, after, buf,
                   crashes>>

\* Where runHealthChecks returns to: the bootstrap goes on to publish.
Returns == IF phase = "boot" THEN "copy" ELSE "idle"

ToCheck == {s \in members : active[obj[s].profile] /\ obj[s].instance # NoInstance}

\* The read section of runHealthChecks: which instances to check.
HealthSnapshot ==
    /\ pc[Main] = "probe" /\ ConfigFree
    /\ buf' = [buf EXCEPT ![Main] = [s \in ToCheck |-> obj[s]]]
    /\ Goto(Main, IF ToCheck = {} THEN Returns ELSE "check")
    /\ UNCHANGED <<phase, zoneVars, work, failures, lockVars, fileVars, sid, want, after,
                   boundVars>>

\* The instances are checked without a lock (each answer is up to the network)
\* and the answers are applied by id in a write section, whatever instance the
\* server has by then.  Metrics are stored even when no health has changed.
HealthApply ==
    /\ pc[Main] = "check" /\ ConfigFree
    /\ \E health \in [DOMAIN buf[Main] -> {"Up", "Down"}],
          metrics \in [DOMAIN buf[Main] -> MetricValues] :
         LET present == DOMAIN buf[Main] \cap members
             changed == \E s \in present : HealthChanged(s, health[s]) IN
           /\ obj' = [s \in Servers |->
                        IF s \in present
                        THEN [obj[s] EXCEPT !.health = health[s], !.metrics = metrics[s]]
                        ELSE obj[s]]
           /\ Goto(Main, IF changed THEN "copy" ELSE Returns)
           /\ after' = [after EXCEPT ![Main] = IF changed THEN Returns ELSE "idle"]
    /\ buf' = [buf EXCEPT ![Main] = EmptyZone]
    /\ UNCHANGED <<phase, members, active, built, open, work, failures, lockVars, fileVars, sid,
                   want, boundVars>>

\* "count >= 5", and one too many.
ThresholdReached_Late(s) == failures[s] + 1 > FailureThreshold
ThresholdReached(s) == failures[s] + 1 >= FailureThreshold

\* A connection through s failed; every FailureThreshold-th report starts a check.
ReportFailure(p, s) ==
    /\ phase = "up" /\ pc[p] = "idle" /\ p # Main
    /\ Begin
    /\ s \in DOMAIN work
    /\ IF ThresholdReached(s)
       THEN /\ failures' = [failures EXCEPT ![s] = 0]
            /\ Goto(p, "trigger")
            /\ sid' = [sid EXCEPT ![p] = s]
       ELSE /\ failures' = [failures EXCEPT ![s] = @ + 1]
            /\ UNCHANGED <<pc, sid>>
    /\ UNCHANGED <<phase, zoneVars, work, lockVars, fileVars, want, after, buf, crashes>>

ReportSuccess(s) ==
    /\ phase = "up"
    /\ s \in DOMAIN work
    /\ failures[s] # 0
    /\ failures' = [failures EXCEPT ![s] = 0]
    /\ UNCHANGED <<phase, zoneVars, work, lockVars, fileVars, localVars, boundVars>>

\* triggerSingleHealthCheck takes the write lock and keeps it during the check.
TriggerLock(p) ==
    /\ pc[p] = "trigger" /\ ConfigFree
    /\ IF sid[p] \in members /\ obj[sid[p]].instance # NoInstance
       THEN /\ configLock' = p
            /\ Goto(p, "triggercheck")
            /\ UNCHANGED sid
       ELSE /\ Goto(p, "idle")
            /\ sid' = [sid EXCEPT ![p] = NoServer]
            /\ UNCHANGED configLock
    /\ UNCHANGED <<phase, zoneVars, work, failures, fileLock, fileVars, want, after, buf,
                   boundVars>>

TriggerApply(p) ==
    /\ pc[p] = "triggercheck"
    /\ \E h \in {"Up", "Down"} :
         /\ obj' = [obj EXCEPT ![sid[p]].health = h]
         /\ Goto(p, IF HealthChanged(sid[p], h) THEN "copy" ELSE "idle")
    /\ configLock' = Nobody
    /\ sid' = [sid EXCEPT ![p] = NoServer]
    /\ UNCHANGED <<phase, members, active, built, open, work, failures, fileLock, fileVars, want,
                   after, buf, boundVars>>

-----------------------------------------------------------------------------
(* A crash loses everything but the file; a crash inside os.WriteFile may   *)
(* leave the file truncated.                                                *)

Crash ==
    /\ phase # "dead"
    /\ crashes < MaxCrashes /\ crashes' = crashes + 1
    /\ Begin
    /\ \/ UNCHANGED file
       \/ /\ \E p \in Procs : pc[p] \in {"savewrite", "loadsave"}
          /\ file' = Torn
    /\ saveFailed' = FALSE
    /\ phase' = "boot"
    /\ members' = {}
    /\ obj' = [s \in Servers |-> NewState(NoProfile)]
    /\ active' = [q \in Profiles |-> FALSE]
    /\ built' = [i \in Instances |-> NoProfile]
    /\ open' = {}
    /\ work' = EmptyZone
    /\ failures' = [s \in Servers |-> 0]
    /\ configLock' = Nobody
    /\ fileLock' = Nobody
    /\ pc' = [p \in Procs |-> IF p = Main THEN "load" ELSE "idle"]
    /\ sid' = [p \in Procs |-> NoServer]
    /\ want' = [p \in Procs |-> FALSE]
    /\ after' = [p \in Procs |-> "idle"]
    /\ buf' = [p \in Procs |-> EmptyZone]

-----------------------------------------------------------------------------
\* The CloseTunnel that p called returns.
CloseReturns(p) == (\E s \in Servers : ManageClose(p, s)) \/ RestartClosed(p) \/ DeleteClosed(p)

Manage(p) == (\E s \in Servers : ManageCreate(p, s) \/ ManageFail(p, s)) \/ ManageDone(p)

Reload(p) == ReloadCopy(p) \/ ReloadSwap(p)

Save(p) == SaveLock(p) \/ SaveRead(p) \/ SaveWrite(p)

Bootstrap == Load \/ LoadSave

HealthCycle == HealthSnapshot \/ HealthApply

Trigger(p) == TriggerLock(p) \/ TriggerApply(p)

\* What p does next in an operation it has begun, by itself.
Step(p) == \/ Manage(p) \/ Reload(p) \/ Save(p) \/ SetActiveApply(p) \/ Trigger(p)
           \/ (p = Main /\ (Bootstrap \/ HealthCycle))

Request(p) ==
    \E s \in Servers :
        \/ \E b \in BOOLEAN : SetActiveLookup(p, s, b)
        \/ AddServerProfile(p, s)
        \/ UpdateServerProfile(p, s)
        \/ DeleteServerProfile(p, s)
        \/ ReportFailure(p, s)

Next == \/ \E p \in Procs : Step(p) \/ CloseReturns(p)
        \/ \E p \in Requests : Request(p)
        \/ \E s \in Servers : ReportSuccess(s)
        \/ Tick
        \/ Crash

\* Goroutines that can run do run, and a Go mutex is not withheld from a
\* waiter forever; requests, ticks and crashes need not happen, and a CloseTunnel
\* need not return.
Spec == Init /\ [][Next]_vars /\ \A p \in Procs : SF_vars(Step(p))

-----------------------------------------------------------------------------
(* Properties.                                                              *)

Labels == {"idle", "load", "loadsave", "manage", "probe", "check", "copy", "swap",
           "setactive", "restart", "delete", "savelock", "saveread", "savewrite",
           "trigger", "triggercheck"}

\* Every variable keeps its type.
TypeOK ==
    /\ phase \in {"boot", "up", "dead"}
    /\ members \in SUBSET Servers
    /\ obj \in [Servers -> ServerState]
    /\ active \in [Profiles -> BOOLEAN]
    /\ built \in [Instances -> Profiles \cup {NoProfile}]
    /\ open \in SUBSET Instances
    /\ work \in Zones
    /\ failures \in [Servers -> 0..(FailureThreshold - 1)]
    /\ configLock \in Procs \cup {Nobody}
    /\ fileLock \in Procs \cup {Nobody}
    /\ file \in Files \cup {Torn}
    /\ saveFailed \in BOOLEAN
    /\ pc \in [Procs -> Labels]
    /\ sid \in [Procs -> Servers \cup {NoServer}]
    /\ want \in [Procs -> BOOLEAN]
    /\ after \in [Procs -> {"idle", "copy", "savelock"}]
    /\ buf \in [Procs -> Zones]
    /\ ops \in Nat /\ crashes \in Nat

\* No listener leaks: an instance is running exactly when it is the instance of
\* one server of the A zone, whatever sequence of activations, updates,
\* deletions, failed starts and restarts led here (manageInstances).
InstancesOwned ==
    /\ open = {obj[s].instance : s \in members} \ {NoInstance}
    /\ \A s, t \in members : obj[s].instance = obj[t].instance /\ s # t
                                => obj[s].instance = NoInstance

\* Outside the write sections a server of the A zone is active exactly when it
\* has an instance: no request leaves a half-started or half-stopped server.
ActiveHasInstance ==
    ConfigFree => \A s \in members :
        active[obj[s].profile] <=> obj[s].instance # NoInstance

\* What is published is consistent: the instance the B zone offers for a server
\* was built from the very profile the B zone shows for it, however reloads
\* interleave with profile updates.
ConsistentPublication ==
    \A s \in DOMAIN work :
        work[s].instance # NoInstance => built[work[s].instance] = work[s].profile

Quiescent == phase = "up" /\ \A p \in Procs : pc[p] = "idle"

\* Once all requests are done, servers.json holds the servers of the A zone
\* with their newest profiles, and every running server is recorded as active,
\* in whatever order the saves of concurrent requests ran (SaveConfigToFile) -
\* unless the save that wrote last failed: its error is dropped or logged, nobody
\* tries again, and the old file or a torn one stays until the next request.
FileUpToDate ==
    Quiescent /\ ~saveFailed =>
        /\ file # Torn
        /\ DOMAIN file = members
        /\ \A s \in members : /\ file[s].profile = obj[s].profile
                              /\ active[obj[s].profile] => file[s].active

\* Process p, which holds configLock, waits for a CloseTunnel.
InClose(p) == pc[p] \in {"restart", "delete"} \/ (pc[p] = "manage" /\ ToClose # {})

\* Every operation that began ends - no lock is kept by mistake, no one waits for
\* ever - unless some CloseTunnel never returns: then its caller keeps configLock,
\* and whoever needs the lock waits with it.
OperationsEnd ==
    (\A p \in Procs : pc[p] # "idle" ~> pc[p] = "idle") \/ \E p \in Procs : <>[]InClose(p)

-----------------------------------------------------------------------------
(* The inductive invariant behind the safety properties.                    *)

\* A zone whose servers have profiles of their own.
OwnProfiles(z) ==
    /\ \A s \in DOMAIN z : z[s].profile \in Profiles
    /\ \A s, t \in DOMAIN z : z[s].profile = z[t].profile => s = t

\* A zone whose instances were built from the profiles beside them.
Consistent(z) ==
    \A s \in DOMAIN z : z[s].instance # NoInstance => built[z[s].instance] = z[s].profile

\* Where a process holds configLock.
LockedLabels == {"loadsave", "manage", "restart", "delete", "triggercheck"}

\* Who holds configLock, and what only the main goroutine runs.
LockInv ==
    /\ \A p \in Procs : configLock = p <=> pc[p] \in LockedLabels
    /\ \A p \in Requests : pc[p] \notin {"load", "loadsave", "probe", "check"}

\* The same for one server of the A zone.
ServerConsistent(s) ==
    obj[s].instance # NoInstance => built[obj[s].instance] = obj[s].profile

\* What a process knows of the server it works on and of the zone it copied.
LocalOK(p) ==
    /\ pc[p] = "setactive" => sid[p] \in Servers /\ obj[sid[p]].profile \in Profiles
    /\ pc[p] \in {"trigger", "triggercheck"} => sid[p] \in Servers
    /\ pc[p] \in {"triggercheck", "restart", "delete"} => sid[p] \in members
    /\ pc[p] = "restart" => \A s \in Servers \ {sid[p]} : ServerConsistent(s)
    /\ OwnProfiles(buf[p])
    /\ Consistent(buf[p])

LocalInv == \A p \in Procs : LocalOK(p)

\* Removed servers have no instance; no two servers share a profile object.
ObjectInv ==
    /\ \A s \in Servers \ members : obj[s].instance = NoInstance
    /\ \A s \in members : obj[s].profile \in Profiles
    /\ \A s, t \in Servers : obj[s].profile = obj[t].profile /\ s # t
                                => obj[s].profile = NoProfile
    /\ (\A p \in Procs : pc[p] # "restart") => Consistent(obj)

\* Requests are served only when the server is up; before the file is loaded
\* there is nothing.
LoadInv ==
    /\ phase # "up" => \A p \in Requests : pc[p] = "idle"
    /\ pc[Main] = "load" => /\ phase = "boot"
                            /\ members = {} /\ open = {}
                            /\ obj = [s \in Servers |-> NewState(NoProfile)]

\* ActiveHasInstance also holds while a triggered check has the lock, or a deletion
\* waits for CloseTunnel.
Settled ==
    (configLock \in Procs => pc[configLock] \in {"triggercheck", "delete"}) =>
        \A s \in members : active[obj[s].profile] <=> obj[s].instance # NoInstance

IInv ==
    /\ TypeOK /\ InstancesOwned /\ LockInv /\ LocalInv /\ ObjectInv /\ LoadInv /\ Settled
    /\ ConsistentPublication
    /\ file # Torn => OwnProfiles(file)

-----------------------------------------------------------------------------
(* The inductive invariant behind FileUpToDate.                             *)

\* A process that will still read the A zone for a save.
WillSave(p) == \/ pc[p] \in {"savelock", "saveread"}
               \/ pc[p] \in {"manage", "restart", "delete", "copy", "swap"} /\ after[p] = "savelock"

\* A copy of the A zone that still has its servers and profiles; a file that also
\* records every running server as active.
Current(z) == DOMAIN z = members /\ \A s \in members : z[s].profile = obj[s].profile
Recorded(f) == Current(f) /\ \A s \in members : active[obj[s].profile] => f[s].active

\* serversFileLock, and the part of the main goroutine, which saves nothing.
SaveInv ==
    /\ \A p \in Procs : fileLock = p <=> pc[p] \in {"saveread", "savewrite"}
    /\ pc[Main] \in {"idle", "load", "loadsave", "manage", "probe", "check", "copy", "swap"}
    /\ after[Main] \in {"idle", "copy"}
    /\ \A p \in Procs : pc[p] \in {"restart", "delete"} => after[p] = "savelock"

\* Once loaded, the last save failed or the file is up to date, or a current copy is about
\* to be written, or someone will still take one.
FileInv ==
    phase # "dead" /\ pc[Main] \notin {"load", "loadsave"} =>
        \/ \E p \in Procs : WillSave(p)
        \/ /\ \A p \in Procs : pc[p] = "savewrite" => Current(buf[p])
           /\ \/ saveFailed
              \/ file # Torn /\ Recorded(file)
              \/ \E p \in Procs : pc[p] = "savewrite"

=============================================================================
