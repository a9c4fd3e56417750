------------------------ MODULE GoRemoteTunnelProofs ------------------------
(***************************************************************************)
(* Proofs about GoRemoteTunnel, for any number of callers and tunnels.     *)
(* OneDialer is what makes Install safe: nobody else is about to install,  *)
(* and there is no current tunnel to displace.  NoLostTunnel needs it, and *)
(* it needs DialInv, that a dialling caller has set reconnecting.          *)
(***************************************************************************)
EXTENDS GoRemoteTunnel, TLAPS

\* A new agent has no tunnel and no caller.
LEMMA InitIInv == Init => IInv
  <1> SUFFICES ASSUME Init PROVE IInv
    OBVIOUS
  <1>1. reader \in [Tunnels -> Readers]
    BY DEF Init, Readers
  <1>5. calls \in 0..MaxCalls
    BY TunnelAssumption DEF Init
  <1>6. /\ pc \in [Callers -> {"idle", "get", "wait", "dial", "install", "write", "writing"}]
        /\ got \in [Callers -> Tunnels \cup {NoTunnel}]
        /\ \A p \in Callers : pc[p] = "idle"
    BY DEF Init
  <1>2. TypeOK
    BY <1>1, <1>5, <1>6 DEF Init, TypeOK
  <1>3. OneDialer /\ DialInv
    BY DEF Init, OneDialer, DialInv, Dialling
  <1>4. NoLostTunnel
    BY DEF Init, NoLostTunnel
  <1> QED
    BY <1>2, <1>3, <1>4 DEF IInv

\* GetConnection's early steps move only the caller: nobody starts to dial.
LEMMA CallerStep ==
    ASSUME IInv, NEW p \in Callers,
           Call(p) \/ GetCurrent(p) \/ GetWait(p)
    PROVE  IInv'
  <1>1. CASE Call(p)
    <2>1. TypeOK'
      BY <1>1, TunnelAssumption DEF IInv, TypeOK, Call
    <2>2. OneDialer' /\ NoLostTunnel' /\ DialInv'
      BY <1>1 DEF IInv, TypeOK, Call, OneDialer, NoLostTunnel, DialInv, Dialling
    <2> QED
      BY <2>1, <2>2 DEF IInv
  <1>2. CASE GetCurrent(p)
    <2>1. TypeOK'
      BY <1>2 DEF IInv, TypeOK, GetCurrent, Resume, Keep
    <2>2. OneDialer' /\ NoLostTunnel' /\ DialInv'
      BY <1>2 DEF IInv, TypeOK, GetCurrent, Resume, Keep, OneDialer, NoLostTunnel, DialInv,
                  Dialling
    <2> QED
      BY <2>1, <2>2 DEF IInv
  <1>3. CASE GetWait(p)
    BY <1>3 DEF IInv, TypeOK, GetWait, OneDialer, NoLostTunnel, DialInv, Dialling
  <1> QED
    BY <1>1, <1>2, <1>3

\* GetConnection claims the dial only when nobody else has.
LEMMA GetDialStep ==
    ASSUME IInv, NEW p \in Callers, GetDial(p)
    PROVE  IInv'
  <1>1. TypeOK'
    BY DEF IInv, TypeOK, GetDial, MayDial
  <1>2. OneDialer'
    BY DEF IInv, TypeOK, GetDial, MayDial, OneDialer, DialInv, Dialling
  <1>3. NoLostTunnel' /\ DialInv'
    BY DEF IInv, TypeOK, GetDial, NoLostTunnel, DialInv, Dialling
  <1> QED
    BY <1>1, <1>2, <1>3 DEF IInv

\* A dialled connection is in the hands of the caller that will install it.
LEMMA DialStep ==
    ASSUME IInv, NEW p \in Callers, (\E t \in Tunnels : DialSucceeds(p, t)) \/ DialFails(p)
    PROVE  IInv'
  <1>1. CASE \E t \in Tunnels : DialSucceeds(p, t)
    <2> PICK t \in Tunnels : DialSucceeds(p, t)
      BY <1>1
    <2>1. TypeOK'
      BY DEF IInv, TypeOK, Readers, DialSucceeds
    <2>2. OneDialer' /\ DialInv'
      BY DEF IInv, TypeOK, DialSucceeds, OneDialer, DialInv, Dialling
    <2>3. NoLostTunnel'
      BY DEF IInv, TypeOK, DialSucceeds, NoLostTunnel, OneDialer, Dialling
    <2> QED
      BY <2>1, <2>2, <2>3 DEF IInv
  <1>2. CASE DialFails(p)
    BY <1>2 DEF IInv, TypeOK, DialFails, OneDialer, NoLostTunnel, DialInv, Dialling
  <1> QED
    BY <1>1, <1>2

\* The installed tunnel displaces none, and nobody else has one to install.
LEMMA InstallStep ==
    ASSUME IInv, NEW p \in Callers, Install(p)
    PROVE  IInv'
  <1>1. /\ current = NoTunnel
        /\ \A q \in Callers : Dialling(q) => q = p
    BY DEF IInv, OneDialer, Install, Dialling
  <1>2. \A q \in Callers : pc'[q] \notin {"dial", "install"}
    BY <1>1 DEF IInv, TypeOK, Install, AfterDial, Resume, Woken, Dialling
  <1>3. TypeOK'
    BY DEF IInv, TypeOK, Install, AfterDial, Resume, Keep, Woken
  <1>4. OneDialer'
    BY <1>2 DEF OneDialer, Dialling
  <1>5. DialInv'
    BY <1>2 DEF IInv, TypeOK, DialInv, Dialling, Install, AfterDial, Resume, Keep, Woken
  <1>6. NoLostTunnel'
    BY <1>1, TunnelAssumption DEF IInv, TypeOK, NoLostTunnel, Install, Dialling
  <1> QED
    BY <1>3, <1>4, <1>5, <1>6 DEF IInv

\* WritePacket closes at most the current tunnel, and forgets it in the same section.
LEMMA WriteStep ==
    ASSUME IInv, NEW p \in Callers, WriteLock(p) \/ WriteSucceeds(p) \/ WriteFails(p)
    PROVE  IInv'
  <1>1. CASE WriteLock(p)
    BY <1>1 DEF IInv, TypeOK, WriteLock, OneDialer, NoLostTunnel, DialInv, Dialling
  <1>2. CASE WriteSucceeds(p)
    BY <1>2 DEF IInv, TypeOK, WriteSucceeds, Drop, OneDialer, NoLostTunnel, DialInv, Dialling
  <1>3. CASE WriteFails(p)
    <2>1. TypeOK'
      BY <1>3 DEF IInv, TypeOK, WriteFails, Drop, StillOpen, CurrentWithout
    <2>2. OneDialer' /\ DialInv'
      BY <1>3 DEF IInv, TypeOK, WriteFails, Drop, StillOpen, CurrentWithout, OneDialer, DialInv,
                  Dialling
    <2>3. NoLostTunnel'
      BY <1>3 DEF IInv, TypeOK, WriteFails, Drop, StillOpen, CurrentWithout, NoLostTunnel
    <2> QED
      BY <2>1, <2>2, <2>3 DEF IInv
  <1> QED
    BY <1>1, <1>2, <1>3

\* Breaks, read loops, profile updates and Close close at most the current tunnel.
LEMMA TunnelStep ==
    ASSUME IInv,
           \/ \E t \in Tunnels : ReadLoop(t) \/ Break(t) \/ Stall(t)
           \/ UpdateServerProfile \/ CloseTunnel \/ CloseReturns
    PROVE  IInv'
  <1>1. TypeOK'
    BY DEF IInv, TypeOK, Readers, ReadLoop, ReadFails, ReaderCloses, Break, Stall, StillOpen,
           CurrentWithout, UpdateServerProfile, CloseTunnel, CloseReturns
  <1>2. pc' = pc /\ got' = got /\ reconnecting' = reconnecting
    BY DEF ReadLoop, ReadFails, ReaderCloses, Break, Stall, UpdateServerProfile, CloseTunnel,
           CloseReturns
  <1>3. /\ current' \in {current, NoTunnel}
        /\ \A t \in open' : t \in open /\ (t = current => t = current')
    BY TunnelAssumption DEF IInv, TypeOK, ReadLoop, ReadFails, ReaderCloses, Break, Stall,
           StillOpen,
           CurrentWithout, UpdateServerProfile, CloseTunnel, CloseReturns
  <1>4. OneDialer' /\ DialInv' /\ NoLostTunnel'
    BY <1>2, <1>3 DEF IInv, OneDialer, DialInv, NoLostTunnel, Dialling
  <1> QED
    BY <1>1, <1>4 DEF IInv

\* Every step of the agent preserves the inductive invariant.
LEMMA NextIInv == IInv /\ [Next]_vars => IInv'
  <1> SUFFICES ASSUME IInv, [Next]_vars PROVE IInv'
    OBVIOUS
  <1>1. CASE UNCHANGED vars
    BY <1>1 DEF vars, IInv, TypeOK, OneDialer, NoLostTunnel, DialInv, Dialling
  <1>2. CASE \E p \in Callers : Step(p) \/ Call(p)
    BY <1>2, CallerStep, GetDialStep, DialStep, InstallStep, WriteStep DEF Step
  <1>3. CASE \/ \E t \in Tunnels : ReadLoop(t) \/ Break(t) \/ Stall(t)
             \/ UpdateServerProfile \/ CloseTunnel \/ CloseReturns
    BY <1>3, TunnelStep
  <1> QED
    BY <1>1, <1>2, <1>3 DEF Next

\* The inductive invariant holds in every reachable state.
THEOREM Invariance == Spec => []IInv
  BY InitIInv, NextIInv, PTL DEF Spec

\* GetConnection lets one caller dial at a time, and only when there is no
\* tunnel, for any number of callers.
THEOREM DialsAlone == Spec => []OneDialer
  <1>1. IInv => OneDialer
    BY DEF IInv
  <1> QED
    BY <1>1, Invariance, PTL

\* The agent never loses an open connection: it is current or being installed.
THEOREM TunnelsKept == Spec => []NoLostTunnel
  <1>1. IInv => NoLostTunnel
    BY DEF IInv
  <1> QED
    BY <1>1, Invariance, PTL

\* The variables keep their types, and WritePacket has a tunnel in hand when it writes,
\* whichever caller dialled it, for any number of callers and tunnels.
THEOREM TypeCorrect == Spec => []TypeOK
  <1>1. IInv => TypeOK
    BY DEF IInv
  <1> QED
    BY <1>1, Invariance, PTL

=============================================================================
