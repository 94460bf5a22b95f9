-------------------------- MODULE ScheduleProofs --------------------------
(***************************************************************************)
(* What the scheduler guarantees for any number of workers and peers, any  *)
(* interval, timeout, grace and thresholds, and any age of the clock       *)
(* readings its handlers work with.                                        *)
(***************************************************************************)
EXTENDS Schedule, TLAPS

----------------------------------------------------------------------------
(***************************************************************************)
(* Types                                                                   *)
(***************************************************************************)
PeerTypes == shm \in [Peers -> PeerStates]
ProbeTypes == probe \in [Workers -> [Peers -> Probes]]
TimerTypes == armed \in [Workers -> [Peers -> BOOLEAN]]

LEMMA IdleType == \A pr \in Probes : Idle(pr) \in Probes
BY DEF Idle, Probes, Stages

LEMMA NoProbeType == NoProbe \in Probes
BY ScheduleAssumption DEF NoProbe, Probes, Stages

\* A reading of the clock is a time.
LEMMA ReadingType == ASSUME TypeOK PROVE Readings \subseteq Nat
BY DEF TypeOK, Readings

LEMMA StartedType ==
    \A pr \in Probes, d \in Nat : [pr EXCEPT !.stage = "io", !.deadline = d] \in Probes
BY DEF Probes, Stages

LEMMA PublishedType == \A pr \in Probes : [pr EXCEPT !.published = TRUE] \in Probes
BY DEF Probes

LEMMA InFlightType == \A s \in PeerStates, pr \in Probes : InFlight(s, pr) \in PeerStates
BY DEF InFlight, PeerStates, Probes, Phases

LEMMA CountedType ==
    ASSUME NEW s \in PeerStates, NEW result \in BOOLEAN
    PROVE  Counted(s, result) \in PeerStates
<1> DEFINE rises == NextCount(s.rise, RiseCount)
           falls == NextCount(s.fall, FallCount)
           up == s.down /\ rises < RiseCount
           failed == s.down \/ falls >= FallCount
<1>1. rises \in 0..MaxCount /\ falls \in 0..MaxCount
  BY ScheduleAssumption DEF NextCount, PeerStates
<1>2. up \in BOOLEAN /\ failed \in BOOLEAN
  OBVIOUS
<1>3. 0 \in 0..MaxCount
  BY ScheduleAssumption
<1>4. Counted(s, result) = IF result
         THEN [s EXCEPT !.fall = 0, !.rise = rises, !.down = up]
         ELSE [s EXCEPT !.rise = 0, !.fall = falls, !.down = failed]
  BY DEF Counted
<1> HIDE DEF rises, falls, up, failed
<1> QED BY <1>1, <1>2, <1>3, <1>4 DEF PeerStates

LEMMA TimerUpdate ==
    ASSUME TypeOK, NEW w \in Workers, NEW p \in Peers, NEW set \in BOOLEAN
    PROVE  [armed EXCEPT ![w][p] = set] \in [Workers -> [Peers -> BOOLEAN]]
<1> DEFINE A == [q \in Peers |-> IF q = p THEN set ELSE armed[w][q]]
<1>1. A \in [Peers -> BOOLEAN]
  BY DEF TypeOK
<1>2. [armed EXCEPT ![w][p] = set] = [v \in Workers |-> IF v = w THEN A ELSE armed[v]]
  BY DEF TypeOK
<1> HIDE DEF A
<1> QED BY <1>1, <1>2 DEF TypeOK

LEMMA ProbeUpdate ==
    ASSUME TypeOK, NEW w \in Workers, NEW p \in Peers, NEW pr \in Probes
    PROVE  [probe EXCEPT ![w][p] = pr] \in [Workers -> [Peers -> Probes]]
BY DEF TypeOK

LEMMA ClaimType ==
    ASSUME TypeOK, NEW w \in Workers, NEW p \in Peers, NEW at \in Nat,
           Claim(w, p, at)
    PROVE  PeerTypes' /\ ProbeTypes' /\ TimerTypes'
<1> DEFINE s == shm[p]
           taken == [s EXCEPT
              !.term = IF Own(w, s) THEN s.term ELSE s.term + 1,
              !.worker = w, !.owner = proc[w].pid, !.instance = proc[w].instance,
              !.round = s.round + 1, !.started = at, !.phase = "PREPARING",
              !.deadline = at + CheckTimeout]
           pr == [stage |-> "prepare", result |-> FALSE, published |-> FALSE,
                  instance |-> taken.instance, term |-> taken.term,
                  round |-> taken.round, deadline |-> taken.deadline]
<1>1. s \in PeerStates /\ CountersLeft(w, s) /\ proc[w] \in Procs
  BY DEF Claim, TypeOK
<1>2. taken \in PeerStates
  <2>1. (IF Own(w, s) THEN s.term ELSE s.term + 1) \in 0..MaxTerm
    BY <1>1, ScheduleAssumption DEF PeerStates, CountersLeft
  <2>2. s.round + 1 \in 0..MaxRound
    BY <1>1, ScheduleAssumption DEF PeerStates, CountersLeft
  <2>3. at + CheckTimeout \in Nat
    BY ScheduleAssumption
  <2>4. proc[w].pid \in Pids \union {NoPid} /\ proc[w].instance \in 0..MaxInstance
    BY <1>1 DEF Procs
  <2> QED BY <1>1, <2>1, <2>2, <2>3, <2>4 DEF PeerStates, Phases
<1>3. pr \in Probes
  BY <1>2 DEF PeerStates, Probes, Stages
<1>4. shm' = [shm EXCEPT ![p] = taken] /\ probe' = [probe EXCEPT ![w][p] = pr]
  BY DEF Claim
<1>5. PeerTypes'
  BY <1>2, <1>4 DEF TypeOK, PeerTypes
<1>6. ProbeTypes'
  BY <1>3, <1>4 DEF TypeOK, ProbeTypes
<1>7. TimerTypes'
  BY TimerUpdate DEF Claim, Armed, TypeOK, TimerTypes
<1> QED BY <1>5, <1>6, <1>7

LEMMA SubmitType ==
    ASSUME TypeOK, NEW w \in Workers, NEW p \in Peers, NEW result \in BOOLEAN,
           Submit(w, p, result)
    PROVE  PeerTypes' /\ ProbeTypes' /\ TimerTypes'
<1>1. ProbeTypes'
  BY IdleType DEF Submit, TypeOK, ProbeTypes
<1>2. TimerTypes'
  <2>1. armed' = armed \/ armed' = Armed(w, p)
    BY DEF Submit
  <2>2. Armed(w, p) \in [Workers -> [Peers -> BOOLEAN]]
    BY TimerUpdate DEF Armed
  <2> QED BY <2>1, <2>2 DEF TypeOK, TimerTypes
<1>3. PeerTypes'
  <2>1. CASE UNCHANGED shm
    BY <2>1 DEF TypeOK, PeerTypes
  <2>2. ASSUME NEW at \in Readings,
               shm' = [shm EXCEPT ![p] = [Counted(@, result) EXCEPT
                  !.phase = "WAITING",
                  !.deadline = Larger(shm[p].started + CheckInterval, at)]]
        PROVE  PeerTypes'
    <3>1. Counted(shm[p], result) \in PeerStates /\ shm[p] \in PeerStates
      BY CountedType DEF TypeOK
    <3>2. Larger(shm[p].started + CheckInterval, at) \in Nat
      BY <3>1, ReadingType, ScheduleAssumption DEF Larger, PeerStates
    <3>3. [Counted(shm[p], result) EXCEPT !.phase = "WAITING",
             !.deadline = Larger(shm[p].started + CheckInterval, at)] \in PeerStates
      BY <3>1, <3>2 DEF PeerStates, Phases
    <3> QED BY <2>2, <3>3 DEF TypeOK, PeerTypes
  <2> QED BY <2>1, <2>2 DEF Submit
<1> QED BY <1>1, <1>2, <1>3

LEMMA FinishType ==
    ASSUME TypeOK, NEW w \in Workers, NEW p \in Peers, NEW result \in BOOLEAN,
           Finish(w, p, result)
    PROVE  PeerTypes' /\ ProbeTypes' /\ TimerTypes'
<1>1. CASE Submit(w, p, result)
  BY <1>1, SubmitType
<1>2. CASE /\ probe' = [probe EXCEPT ![w][p] = Pending(@, result)]
           /\ UNCHANGED <<shm, armed>>
  <2>1. Idle(probe[w][p]) \in Probes
    BY IdleType DEF TypeOK
  <2>2. Pending(probe[w][p], result) \in Probes
    BY <2>1 DEF Pending, Probes, Stages
  <2> QED BY <1>2, <2>2 DEF TypeOK, PeerTypes, ProbeTypes, TimerTypes
<1> QED BY <1>1, <1>2 DEF Finish

LEMMA ProcType ==
    \A pr \in Procs : /\ [pr EXCEPT !.quit = TRUE] \in Procs
                      /\ [pr EXCEPT !.stopped = TRUE] \in Procs
BY DEF Procs

LEMMA RegistrationType ==
    \A r \in Registrations : [r EXCEPT !.exiting = TRUE] \in Registrations
BY DEF Registrations

\* A registration gets an instance within the limit.
LEMMA JoinType ==
    ASSUME TypeOK, NEW w \in Workers, NEW pid \in Pids,
           Join(w, pid) \/ JoinLater(w, pid)
    PROVE  /\ activatedAt' \in Nat \union {Never}
           /\ reg' \in [Workers -> Registrations]
           /\ proc' \in [Workers -> Procs]
<1>1. Activate => activatedAt' \in Nat \union {Never}
  BY ReadingType DEF Activate, TypeOK
<1>2. activatedAt' \in Nat \union {Never}
  BY <1>1 DEF Join, JoinLater, TypeOK
<1>3. reg[w].instance \in 0..MaxInstance
  BY DEF TypeOK, Registrations
<1>4. CASE Join(w, pid)
  <2>1. reg[w].instance + 1 \in 0..MaxInstance
    BY <1>3, <1>4, ScheduleAssumption DEF Join, InstanceLeft
  <2>2. [pid |-> pid, instance |-> reg[w].instance + 1, exiting |-> FALSE]
           \in Registrations
    BY <2>1 DEF Registrations
  <2>3. \A q \in Procs, x \in 0..MaxInstance :
           [q EXCEPT !.pid = pid, !.instance = x] \in Procs
    BY DEF Procs
  <2> QED BY <1>2, <1>4, <2>1, <2>2, <2>3 DEF Join, TypeOK
<1>5. CASE JoinLater(w, pid)
  <2>1. \A q \in Procs : [q EXCEPT !.pid = pid] \in Procs
    BY DEF Procs
  <2> QED BY <1>2, <1>5, <2>1 DEF JoinLater, TypeOK
<1> QED BY <1>4, <1>5

LEMMA InitType == ASSUME Init PROVE TypeOK
<1>1. \A p \in Peers : Home(p) \in Workers
  BY ScheduleAssumption DEF Home, Workers, Peers
<1>2. \A p \in Peers, down \in BOOLEAN, rise, fall \in 0..MaxInherited,
         started \in 0..StartTime :
            InitialState(p, down, rise, fall, started) \in PeerStates
  BY <1>1, ScheduleAssumption DEF InitialState, PeerStates, Phases, StartTime
<1>3. PeerTypes
  BY <1>2 DEF Init, PeerTypes
<1>4. ProbeTypes
  BY NoProbeType DEF Init, ProbeTypes
<1>5. reg \in [Workers -> Registrations] /\ proc \in [Workers -> Procs]
  BY ScheduleAssumption DEF Init, Registrations, Procs, NoProcess
<1> QED BY <1>3, <1>4, <1>5 DEF Init, TypeOK, PeerTypes, ProbeTypes, StartTime

LEMMA TypeStep == ASSUME TypeOK, [Next]_vars PROVE TypeOK'
<1> DEFINE Shared == PeerTypes' /\ ProbeTypes' /\ TimerTypes'
           Steady == UNCHANGED <<now, activatedAt, reg, proc>>
           Observations == watch' \in [Workers -> SUBSET Takeovers]
           Registering == /\ activatedAt' \in Nat \union {Never}
                          /\ reg' \in [Workers -> Registrations]
                          /\ proc' \in [Workers -> Procs]
<1>1. ASSUME Shared, Steady, UNCHANGED watch PROVE TypeOK'
  BY <1>1 DEF TypeOK, PeerTypes, ProbeTypes, TimerTypes
<1>2. CASE UNCHANGED vars
  BY <1>2 DEF vars, TypeOK
<1>3. CASE Tick
  BY <1>3 DEF Tick, TypeOK
<1>4. ASSUME NEW w \in Workers, ProcessStep(w) PROVE TypeOK'
  <2>1. CASE StartProcess(w)
    <3>1. PICK pid \in Pids :
            \/ /\ Join(w, pid)
               /\ armed' = [armed EXCEPT ![w] = [p \in Peers |-> Home(p) = w]]
            \/ JoinLater(w, pid) /\ UNCHANGED armed
      BY <2>1 DEF StartProcess
    <3>2. Join(w, pid) \/ JoinLater(w, pid)
      BY <3>1
    <3>3. TimerTypes'
      <4>1. [p \in Peers |-> Home(p) = w] \in [Peers -> BOOLEAN]
        OBVIOUS
      <4> QED BY <3>1, <4>1 DEF TypeOK, TimerTypes
    <3>4. Registering
      BY <3>2, JoinType
    <3> QED BY <2>1, <3>3, <3>4 DEF StartProcess, TypeOK, TimerTypes
  <2>2. CASE WatchRegister(w)
    <3>1. proc[w].pid \in Pids
      BY <2>2 DEF WatchRegister, Handling, Alive, TypeOK, Procs
    <3>2. Registering
      BY <2>2, <3>1, JoinType DEF WatchRegister
    <3> QED BY <2>2, <3>2 DEF WatchRegister, TypeOK
  <2>3. CASE WatchClaim(w)
    <3>1. PICK o \in watch[w] :
            /\ watch' = [watch EXCEPT ![w] = {}]
            /\ Steady
            /\ \/ \E at \in Readings : Claim(w, o.peer, at)
               \/ UNCHANGED <<shm, probe, armed>>
      BY <2>3 DEF WatchClaim
    <3>2. o.peer \in Peers
      BY DEF TypeOK, Takeovers
    <3>3. Shared
      BY <3>1, <3>2, ClaimType, ReadingType
         DEF TypeOK, PeerTypes, ProbeTypes, TimerTypes
    <3>4. Observations
      BY <3>1 DEF TypeOK
    <3> QED BY <3>1, <3>3, <3>4 DEF TypeOK, PeerTypes, ProbeTypes, TimerTypes
  <2>4. CASE Quit(w)
    <3>1. [proc[w] EXCEPT !.quit = TRUE] \in Procs
      BY ProcType DEF TypeOK
    <3> QED BY <2>4, <3>1 DEF Quit, TypeOK
  <2>5. CASE Stop(w)
    <3>1. [proc[w] EXCEPT !.stopped = TRUE] \in Procs
      BY ProcType DEF TypeOK
    <3>2. [reg[w] EXCEPT !.exiting = TRUE] \in Registrations
      BY RegistrationType DEF TypeOK
    <3>3. reg' \in [Workers -> Registrations]
      BY <2>5, <3>2 DEF Stop, TypeOK
    <3>4. [p \in Peers |-> Idle(probe[w][p])] \in [Peers -> Probes]
      BY IdleType DEF TypeOK
    <3>5. [p \in Peers |-> FALSE] \in [Peers -> BOOLEAN]
      OBVIOUS
    <3>6. TimerTypes' /\ Observations
      BY <2>5, <3>5 DEF Stop, NoEvents, TypeOK, TimerTypes
    <3> QED BY <2>5, <3>1, <3>3, <3>4, <3>6 DEF Stop, TypeOK, TimerTypes
  <2>6. CASE Die(w)
    <3>1. NoProcess \in Procs
      BY ScheduleAssumption DEF NoProcess, Procs
    <3>2. [p \in Peers |-> NoProbe] \in [Peers -> Probes]
      BY NoProbeType
    <3>3. [p \in Peers |-> FALSE] \in [Peers -> BOOLEAN]
      OBVIOUS
    <3>4. TimerTypes' /\ Observations
      BY <2>6, <3>3 DEF Die, NoEvents, TypeOK, TimerTypes
    <3> QED BY <2>6, <3>1, <3>2, <3>4 DEF Die, TypeOK, TimerTypes
  <2> QED BY <1>4, <2>1, <2>2, <2>3, <2>4, <2>5, <2>6 DEF ProcessStep
<1>5. ASSUME NEW w \in Workers, NEW p \in Peers, PeerStep(w, p) PROVE TypeOK'
  <2>1. CASE Begin(w, p)
    BY <2>1, <1>1, ClaimType, ReadingType DEF Begin
  <2>2. CASE BeginDeclined(w, p)
    <3>1. TimerTypes'
      BY <2>2, TimerUpdate DEF BeginDeclined, TimerTypes
    <3> QED BY <2>2, <3>1, <1>1 DEF BeginDeclined, TypeOK, PeerTypes, ProbeTypes
  <2>3. CASE ProbeLost(w, p)
    <3>1. ProbeTypes'
      BY <2>3, IdleType DEF ProbeLost, TypeOK, ProbeTypes
    <3> QED BY <2>3, <3>1, <1>1 DEF ProbeLost, TypeOK, PeerTypes, TimerTypes
  <2>4. CASE ProbePrepared(w, p)
    <3>1. CheckDeadline(w, p) \in Nat
      BY ScheduleAssumption DEF CheckDeadline, TypeOK, Probes
    <3>2. [probe[w][p] EXCEPT !.stage = "io", !.deadline = CheckDeadline(w, p)] \in Probes
      <4>1. probe[w][p] \in Probes
        BY DEF TypeOK
      <4> QED BY <3>1, <4>1, StartedType, Zenon
    <3>3. ProbeTypes'
      BY <2>4, <3>2, ProbeUpdate DEF ProbePrepared, ProbeTypes
    <3> QED BY <2>4, <3>3, <1>1 DEF ProbePrepared, TypeOK, PeerTypes, TimerTypes
  <2>5. CASE ProbeNotPrepared(w, p)
    <3>1. Finish(w, p, p \in Udp) /\ (p \in Udp) \in BOOLEAN
      BY <2>5 DEF ProbeNotPrepared
    <3>2. Shared
      BY <3>1, FinishType, Zenon
    <3> QED BY <2>5, <3>2, <1>1 DEF ProbeNotPrepared
  <2>6. CASE ProbeWaiting(w, p)
    <3>1. InFlight(shm[p], probe[w][p]) \in PeerStates
      BY InFlightType DEF TypeOK
    <3>2. PeerTypes'
      BY <2>6, <3>1 DEF ProbeWaiting, TypeOK, PeerTypes
    <3>3. [probe[w][p] EXCEPT !.published = TRUE] \in Probes
      BY PublishedType DEF TypeOK
    <3>4. ProbeTypes'
      BY <2>6, <3>3, ProbeUpdate DEF ProbeWaiting, ProbeTypes
    <3> QED BY <2>6, <3>2, <3>4, <1>1 DEF ProbeWaiting, TypeOK, TimerTypes
  <2>7. CASE TcpResult(w, p)
    BY <2>7, <1>1, FinishType DEF TcpResult
  <2>8. CASE UdpResult(w, p)
    BY <2>8, <1>1, FinishType DEF UdpResult
  <2>9. CASE ProbeTimeout(w, p)
    <3>1. Finish(w, p, p \in Udp) /\ (p \in Udp) \in BOOLEAN
      BY <2>9 DEF ProbeTimeout
    <3>2. Shared
      BY <3>1, FinishType, Zenon
    <3> QED BY <2>9, <3>2, <1>1 DEF ProbeTimeout
  <2>10. CASE WatchSubmit(w, p)
    <3>1. probe[w][p].result \in BOOLEAN
      BY DEF TypeOK, Probes
    <3> QED BY <2>10, <3>1, <1>1, SubmitType DEF WatchSubmit
  <2>11. CASE WatchRead(w, p)
    <3>1. Observed(p) \in Takeovers
      BY DEF Observed, Takeovers, TypeOK, PeerStates
    <3>2. Observations
      BY <2>11, <3>1 DEF WatchRead, TypeOK
    <3>3. ProbeTypes'
      BY <2>11, IdleType DEF WatchRead, TypeOK, ProbeTypes
    <3>4. TimerTypes'
      <4> DEFINE first == /\ shm[p].phase = "INITIAL"
                          /\ shm[p].instance = 0 /\ shm[p].worker = w
                 start == armed[w][p] \/ first
      <4>1. start \in BOOLEAN
        BY DEF TypeOK
      <4>2. \/ armed' = [armed EXCEPT ![w][p] = FALSE]
            \/ armed' = [armed EXCEPT ![w][p] = start]
        BY <2>11 DEF WatchRead
      <4> HIDE DEF start
      <4>3. /\ [armed EXCEPT ![w][p] = FALSE] \in [Workers -> [Peers -> BOOLEAN]]
            /\ [armed EXCEPT ![w][p] = start] \in [Workers -> [Peers -> BOOLEAN]]
        BY <4>1, TimerUpdate
      <4> QED BY <4>2, <4>3 DEF TimerTypes
    <3> QED BY <2>11, <3>2, <3>3, <3>4
          DEF WatchRead, TypeOK, PeerTypes, ProbeTypes, TimerTypes
  <2> QED BY <1>5, <2>1, <2>2, <2>3, <2>4, <2>5, <2>6, <2>7, <2>8, <2>9,
             <2>10, <2>11 DEF PeerStep
<1> QED BY <1>2, <1>3, <1>4, <1>5 DEF Next

\* Every variable keeps its type: in particular no claim moves a round, a term
\* or an instance beyond its limit, and no submission a counter.
THEOREM TypeSafety == Spec => []TypeOK
<1>1. Init => TypeOK
  BY InitType
<1>2. TypeOK /\ [Next]_vars => TypeOK'
  BY TypeStep
<1> QED BY <1>1, <1>2, PTL DEF Spec

----------------------------------------------------------------------------
(***************************************************************************)
(* Ownership.  The invariant behind both theorems: a process keeps its     *)
(* registration until it is told to quit, no peer names an instance that   *)
(* was never registered, and the owner of a peer has the identity of its   *)
(* round, its check timer, and a probe that is busy as long as the round   *)
(* runs.                                                                   *)
(***************************************************************************)
\* A process knows its current instance; a running one keeps its registration.
RegistrationKept(w) ==
    /\ proc[w].instance <= reg[w].instance
    /\ Alive(w) /\ ~proc[w].quit /\ Registered(w) =>
          RegistrationOwn(w, proc[w].instance)

\* A dead process left neither a registration nor a probe behind.
DeadIsIdle(w) == ~Alive(w) =>
    /\ ~Registered(w)
    /\ \A p \in Peers : probe[w][p].stage = "idle"

\* No peer names an instance that was not handed out yet.
InstancePast(w, p) == shm[p].worker = w => shm[p].instance <= reg[w].instance

\* The probe, the timer and the published phase of an owned peer agree.
Owner(w, p) == OwnedAlive(w, p) =>
    /\ SameRound(w, shm[p], probe[w][p])
    /\ shm[p].owner = proc[w].pid
    /\ armed[w][p]
    /\ Running(shm[p]) <=> probe[w][p].stage # "idle"

OwnershipInv ==
    /\ TypeOK
    /\ \A w \in Workers : RegistrationKept(w) /\ DeadIsIdle(w)
    /\ \A w \in Workers, p \in Peers : InstancePast(w, p) /\ Owner(w, p)

LEMMA OwnershipInit == ASSUME Init PROVE OwnershipInv
<1>1. TypeOK
  BY InitType
<1>2. \A w \in Workers : ~Alive(w) /\ ~Registered(w) /\ proc[w].instance = 0
                         /\ reg[w].instance = 0
  BY DEF Init, Alive, Registered, NoProcess
<1>3. \A w \in Workers : RegistrationKept(w)
  BY <1>2 DEF RegistrationKept
<1>4. \A w \in Workers : DeadIsIdle(w)
  BY <1>2 DEF DeadIsIdle, Init, NoProbe
<1>5. \A w \in Workers, p \in Peers : Owner(w, p)
  BY <1>2 DEF Owner, OwnedAlive
<1>6. \A p \in Peers : shm[p].instance = 0
  BY DEF Init, InitialState
<1>7. \A w \in Workers, p \in Peers : InstancePast(w, p)
  BY <1>2, <1>6 DEF InstancePast
<1> QED BY <1>1, <1>3, <1>4, <1>5, <1>7 DEF OwnershipInv

\* The owner of a peer passes every test of owned_lock.
LEMMA OwnerOwns ==
    ASSUME OwnershipInv, NEW w \in Workers, NEW p \in Peers, OwnedAlive(w, p)
    PROVE  Owned(w, p)
<1>1. Owner(w, p) /\ RegistrationOwn(w, proc[w].instance)
  BY DEF OwnershipInv, RegistrationKept, OwnedAlive
<1>2. SameRound(w, shm[p], probe[w][p]) /\ shm[p].owner = proc[w].pid
  BY <1>1 DEF Owner
<1>3. probe[w][p].instance = proc[w].instance
  BY <1>2 DEF OwnedAlive, Own, SameRound
<1> QED BY <1>1, <1>2, <1>3 DEF Owned, OwnedAlive

\* A probe's identity survives when it becomes idle.
LEMMA IdleFields ==
    \A pr \in Probes : /\ Idle(pr).stage = "idle"
                       /\ Idle(pr).instance = pr.instance
                       /\ Idle(pr).term = pr.term
                       /\ Idle(pr).round = pr.round
BY DEF Idle, Probes

\* A counted result leaves the identity of the round and its start alone.
LEMMA CountedFields ==
    ASSUME NEW s \in PeerStates, NEW result \in BOOLEAN
    PROVE  /\ Counted(s, result) \in PeerStates
           /\ Counted(s, result).worker = s.worker
           /\ Counted(s, result).instance = s.instance
           /\ Counted(s, result).owner = s.owner
           /\ Counted(s, result).term = s.term
           /\ Counted(s, result).round = s.round
           /\ Counted(s, result).started = s.started
<1>1. Counted(s, result) \in PeerStates
  BY CountedType
<1>2. CASE result
  <2>1. PICK rises, verdict :
          Counted(s, result) = [s EXCEPT !.fall = 0, !.rise = rises, !.down = verdict]
    BY <1>2, Zenon DEF Counted
  <2>2. QED
    BY <1>1, <2>1 DEF PeerStates
<1>3. CASE ~result
  <2>1. PICK falls, verdict :
          Counted(s, result) = [s EXCEPT !.rise = 0, !.fall = falls, !.down = verdict]
    BY <1>3, Zenon DEF Counted
  <2>2. QED
    BY <1>1, <2>1 DEF PeerStates
<1>4. QED
  BY <1>2, <1>3

\* What a claim does to the shared state, the probe and the timer of its peer,
\* and that it does nothing else.
LEMMA ClaimEffect ==
    ASSUME TypeOK, NEW w \in Workers, NEW p \in Peers, NEW at \in Nat,
           Claim(w, p, at)
    PROVE  /\ shm'[p].worker = w /\ shm'[p].owner = proc[w].pid
           /\ shm'[p].instance = proc[w].instance
           /\ shm'[p].round = shm[p].round + 1
           /\ shm'[p].started = at /\ shm'[p].deadline = at + CheckTimeout
           /\ shm'[p].phase = "PREPARING"
           /\ shm'[p].down = shm[p].down
           /\ shm'[p].rise = shm[p].rise /\ shm'[p].fall = shm[p].fall
           /\ SameRound(w, shm'[p], probe'[w][p])
           /\ probe'[w][p].stage = "prepare" /\ ~probe'[w][p].published
           /\ probe'[w][p].deadline = at + CheckTimeout
           /\ armed'[w][p]
           /\ \A q \in Peers \ {p} : shm'[q] = shm[q]
           /\ \A v \in Workers, q \in Peers : v # w \/ q # p =>
                 probe'[v][q] = probe[v][q] /\ armed'[v][q] = armed[v][q]
<1> DEFINE s == shm[p]
           taken == [s EXCEPT
              !.term = IF Own(w, s) THEN s.term ELSE s.term + 1,
              !.worker = w, !.owner = proc[w].pid, !.instance = proc[w].instance,
              !.round = s.round + 1, !.started = at, !.phase = "PREPARING",
              !.deadline = at + CheckTimeout]
           pr == [stage |-> "prepare", result |-> FALSE, published |-> FALSE,
                  instance |-> taken.instance, term |-> taken.term,
                  round |-> taken.round, deadline |-> taken.deadline]
<1>1. s \in PeerStates
  BY DEF TypeOK
<1>2. shm' = [shm EXCEPT ![p] = taken] /\ probe' = [probe EXCEPT ![w][p] = pr]
      /\ armed' = [armed EXCEPT ![w][p] = TRUE]
  BY DEF Claim, Armed
<1>3. /\ taken.worker = w /\ taken.owner = proc[w].pid
      /\ taken.instance = proc[w].instance /\ taken.round = s.round + 1
      /\ taken.started = at /\ taken.deadline = at + CheckTimeout
      /\ taken.phase = "PREPARING"
      /\ taken.rise = s.rise /\ taken.fall = s.fall
  BY <1>1 DEF PeerStates
<1>4. taken.down = s.down
  BY <1>1 DEF PeerStates
<1>5. SameRound(w, taken, pr) /\ pr.stage = "prepare" /\ ~pr.published
      /\ pr.deadline = at + CheckTimeout
  BY <1>3 DEF SameRound
<1> HIDE DEF taken, pr
<1>6. shm'[p] = taken /\ \A q \in Peers \ {p} : shm'[q] = shm[q]
  BY <1>2 DEF TypeOK
<1>7. probe'[w][p] = pr /\ \A v \in Workers, q \in Peers : v # w \/ q # p =>
         probe'[v][q] = probe[v][q]
  BY <1>2 DEF TypeOK
<1>8. armed'[w][p] = TRUE /\ \A v \in Workers, q \in Peers : v # w \/ q # p =>
         armed'[v][q] = armed[v][q]
  BY <1>2 DEF TypeOK
<1> QED BY <1>3, <1>4, <1>5, <1>6, <1>7, <1>8

\* A step of worker w on its peer p changes no other peer, probe or timer.
Elsewhere(w, p) ==
    /\ \A q \in Peers \ {p} : shm'[q] = shm[q]
    /\ \A v \in Workers, q \in Peers : v # w \/ q # p =>
          probe'[v][q] = probe[v][q] /\ armed'[v][q] = armed[v][q]

\* The peer's state after a counted result.
CountedStep(p, result) ==
    /\ shm'[p].worker = shm[p].worker /\ shm'[p].instance = shm[p].instance
    /\ shm'[p].owner = shm[p].owner
    /\ shm'[p].term = shm[p].term /\ shm'[p].round = shm[p].round
    /\ shm'[p].started = shm[p].started
    /\ shm'[p].phase = "WAITING"
    /\ shm'[p].deadline >= shm[p].started + CheckInterval
    /\ shm'[p].down = Counted(shm[p], result).down
    /\ shm'[p].rise = Counted(shm[p], result).rise
    /\ shm'[p].fall = Counted(shm[p], result).fall

LEMMA SubmitEffect ==
    ASSUME TypeOK, NEW w \in Workers, NEW p \in Peers, NEW result \in BOOLEAN,
           Submit(w, p, result)
    PROVE  /\ Elsewhere(w, p)
           /\ probe'[w][p] = Idle(probe[w][p])
           /\ armed[w][p] => armed'[w][p]
           /\ \/ Owned(w, p) /\ Running(shm[p]) /\ CountedStep(p, result)
              \/ ~(Owned(w, p) /\ Running(shm[p])) /\ UNCHANGED <<shm, armed>>
<1>1. probe' = [probe EXCEPT ![w][p] = Idle(@)]
  BY DEF Submit
<1>2. /\ probe'[w][p] = Idle(probe[w][p])
      /\ \A v \in Workers, q \in Peers : v # w \/ q # p => probe'[v][q] = probe[v][q]
  BY <1>1 DEF TypeOK
<1>3. CASE ~(Owned(w, p) /\ Running(shm[p])) /\ UNCHANGED <<shm, armed>>
  BY <1>2, <1>3 DEF Elsewhere
<1>4. CASE Owned(w, p) /\ Running(shm[p])
  <2> DEFINE due == shm[p].started + CheckInterval
  <2>1. PICK at \in Readings :
           /\ shm' = [shm EXCEPT ![p] = [Counted(@, result) EXCEPT
                         !.phase = "WAITING", !.deadline = Larger(due, at)]]
           /\ armed' = IF at >= due THEN Armed(w, p) ELSE armed
    BY <1>4 DEF Submit
  <2>2. armed' = [armed EXCEPT ![w][p] = TRUE] \/ armed' = armed
    BY <2>1 DEF Armed
  <2>3. /\ armed[w][p] => armed'[w][p]
        /\ \A v \in Workers, q \in Peers : v # w \/ q # p => armed'[v][q] = armed[v][q]
    BY <2>2 DEF TypeOK
  <2>4. /\ shm[p] \in PeerStates /\ due \in Nat /\ at \in Nat
        /\ Larger(due, at) \in Nat /\ Larger(due, at) >= due
    BY ScheduleAssumption, ReadingType DEF TypeOK, PeerStates, Larger
  <2>5. /\ shm'[p] = [Counted(shm[p], result) EXCEPT
                        !.phase = "WAITING", !.deadline = Larger(due, at)]
        /\ \A q \in Peers \ {p} : shm'[q] = shm[q]
    BY <2>1 DEF TypeOK
  <2>6. CountedStep(p, result)
    <3> DEFINE s == shm[p]
               t == shm'[p]
               c == Counted(s, result)
               d == Larger(due, at)
    <3>1. /\ d \in Nat /\ d >= s.started + CheckInterval
          /\ t = [c EXCEPT !.phase = "WAITING", !.deadline = d]
      BY <2>4, <2>5
    <3>2. /\ c \in PeerStates /\ c.worker = s.worker /\ c.instance = s.instance
          /\ c.owner = s.owner /\ c.term = s.term
          /\ c.round = s.round /\ c.started = s.started
      BY <2>4, CountedFields
    <3>3. CountedStep(p, result) <=>
             /\ t.worker = s.worker /\ t.instance = s.instance
             /\ t.owner = s.owner /\ t.term = s.term
             /\ t.round = s.round /\ t.started = s.started
             /\ t.phase = "WAITING"
             /\ t.deadline >= s.started + CheckInterval
             /\ t.down = c.down /\ t.rise = c.rise /\ t.fall = c.fall
      BY Zenon DEF CountedStep
    <3> HIDE DEF s, t, c, d
    <3>4. /\ t.worker = c.worker /\ t.instance = c.instance
          /\ t.owner = c.owner /\ t.term = c.term
          /\ t.round = c.round /\ t.started = c.started
          /\ t.phase = "WAITING" /\ t.deadline = d
          /\ t.down = c.down /\ t.rise = c.rise /\ t.fall = c.fall
      BY <3>1, <3>2 DEF PeerStates
    <3> QED BY <3>1, <3>2, <3>3, <3>4, Zenon
  <2> QED BY <1>2, <1>4, <2>3, <2>5, <2>6 DEF Elsewhere
<1> QED BY <1>3, <1>4 DEF Submit

\* A result is submitted, or stays with its probe.
LEMMA FinishEffect ==
    ASSUME TypeOK, NEW w \in Workers, NEW p \in Peers, NEW result \in BOOLEAN,
           Finish(w, p, result)
    PROVE  \/ Submit(w, p, result)
           \/ /\ Elsewhere(w, p) /\ UNCHANGED <<shm, armed>>
              /\ probe'[w][p].stage = "pending"
              /\ probe'[w][p].instance = probe[w][p].instance
              /\ probe'[w][p].term = probe[w][p].term
              /\ probe'[w][p].round = probe[w][p].round
<1> SUFFICES ASSUME probe' = [probe EXCEPT ![w][p] = Pending(@, result)],
                    UNCHANGED <<shm, armed>>
             PROVE  /\ Elsewhere(w, p)
                    /\ probe'[w][p].stage = "pending"
                    /\ probe'[w][p].instance = probe[w][p].instance
                    /\ probe'[w][p].term = probe[w][p].term
                    /\ probe'[w][p].round = probe[w][p].round
  BY DEF Finish
<1>1. probe[w][p] \in Probes
  BY DEF TypeOK
<1>2. /\ Pending(probe[w][p], result).stage = "pending"
      /\ Pending(probe[w][p], result).instance = probe[w][p].instance
      /\ Pending(probe[w][p], result).term = probe[w][p].term
      /\ Pending(probe[w][p], result).round = probe[w][p].round
  BY <1>1 DEF Pending, Idle, Probes
<1>3. /\ probe'[w][p] = Pending(probe[w][p], result)
      /\ \A v \in Workers, q \in Peers : v # w \/ q # p => probe'[v][q] = probe[v][q]
  BY DEF TypeOK
<1> QED BY <1>2, <1>3 DEF Elsewhere

----------------------------------------------------------------------------
(***************************************************************************)
(* Every step keeps the ownership.                                         *)
(***************************************************************************)
\* A handler of one peer can only disturb the ownership of its own worker.
LEMMA PeerStepFrame ==
    ASSUME OwnershipInv, TypeOK', NEW w \in Workers, NEW p \in Peers,
           Alive(w), Elsewhere(w, p), UNCHANGED <<proc, reg>>,
           \/ shm'[p] = shm[p]
           \/ shm'[p].worker = w /\ shm'[p].instance <= reg[w].instance,
           Owner(w, p)'
    PROVE  OwnershipInv'
<1>1. \A v \in Workers : RegistrationKept(v)'
  BY DEF OwnershipInv, RegistrationKept, RegistrationOwn, Alive, Registered
<1>2. \A v \in Workers : DeadIsIdle(v)'
  <2> SUFFICES ASSUME NEW v \in Workers PROVE DeadIsIdle(v)'
    OBVIOUS
  <2>1. CASE v = w
    BY <2>1 DEF DeadIsIdle, Alive
  <2>2. CASE v # w
    BY <2>2 DEF OwnershipInv, DeadIsIdle, Alive, Registered, Elsewhere
  <2> QED BY <2>1, <2>2
<1>3. \A v \in Workers, q \in Peers : InstancePast(v, q)'
  BY DEF OwnershipInv, InstancePast, Elsewhere
<1>4. \A v \in Workers, q \in Peers : Owner(v, q)'
  <2> SUFFICES ASSUME NEW v \in Workers, NEW q \in Peers, v # w \/ q # p,
                      OwnedAlive(v, q)'
               PROVE  Owner(v, q)'
    BY DEF Owner
  <2>1. shm'[q] = shm[q]
    BY DEF OwnedAlive, Own, Elsewhere
  <2>2. probe'[v][q] = probe[v][q] /\ armed'[v][q] = armed[v][q]
    BY DEF Elsewhere
  <2>3. Owner(v, q) /\ OwnedAlive(v, q)
    BY <2>1 DEF OwnershipInv, OwnedAlive, Own, Alive, Registered
  <2> QED BY <2>1, <2>2, <2>3 DEF Owner, SameRound, Running
<1> QED BY <1>1, <1>2, <1>3, <1>4 DEF OwnershipInv

\* A process that joins, quits or ends owns nothing afterwards, and disturbs
\* nobody else.
LEMMA ProcessStepFrame ==
    ASSUME OwnershipInv, TypeOK', NEW w \in Workers, UNCHANGED shm,
           \A v \in Workers \ {w} : /\ proc'[v] = proc[v] /\ reg'[v] = reg[v]
                                    /\ probe'[v] = probe[v] /\ armed'[v] = armed[v],
           reg'[w].instance >= reg[w].instance,
           RegistrationKept(w)', DeadIsIdle(w)',
           \A p \in Peers : ~OwnedAlive(w, p)'
    PROVE  OwnershipInv'
<1>1. \A v \in Workers \ {w} : RegistrationKept(v)'
  BY DEF OwnershipInv, RegistrationKept, RegistrationOwn, Alive, Registered
<1>2. \A v \in Workers \ {w} : DeadIsIdle(v)'
  BY DEF OwnershipInv, DeadIsIdle, Alive, Registered
<1>3. \A v \in Workers, q \in Peers : InstancePast(v, q)'
  <2> SUFFICES ASSUME NEW v \in Workers, NEW q \in Peers PROVE InstancePast(v, q)'
    OBVIOUS
  <2>1. InstancePast(v, q) /\ reg[v].instance \in Nat /\ reg'[v].instance \in Nat
        /\ shm[q].instance \in Nat
    BY DEF OwnershipInv, TypeOK, Registrations, PeerStates
  <2>2. reg'[v].instance >= reg[v].instance
    BY <2>1
  <2> QED BY <2>1, <2>2 DEF InstancePast
<1>4. \A v \in Workers, q \in Peers : Owner(v, q)'
  <2> SUFFICES ASSUME NEW v \in Workers \ {w}, NEW q \in Peers
               PROVE  Owner(v, q)'
    BY DEF Owner
  <2>1. Owner(v, q) /\ (OwnedAlive(v, q)' <=> OwnedAlive(v, q))
    BY DEF OwnershipInv, OwnedAlive, Own, Alive, Registered
  <2> QED BY <2>1 DEF Owner, SameRound, Running
<1> QED BY <1>1, <1>2, <1>3, <1>4 DEF OwnershipInv

LEMMA ClaimOwnership ==
    ASSUME OwnershipInv, TypeOK', NEW w \in Workers, NEW p \in Peers,
           NEW at \in Nat, Claim(w, p, at), Alive(w), UNCHANGED <<proc, reg>>
    PROVE  OwnershipInv'
<1>1. TypeOK /\ proc[w].instance <= reg[w].instance
  BY DEF OwnershipInv, RegistrationKept
<1>2. /\ shm'[p].worker = w /\ shm'[p].owner = proc[w].pid
      /\ shm'[p].instance = proc[w].instance /\ shm'[p].phase = "PREPARING"
      /\ SameRound(w, shm'[p], probe'[w][p])
      /\ probe'[w][p].stage = "prepare" /\ armed'[w][p]
      /\ Elsewhere(w, p)
  BY <1>1, ClaimEffect DEF Elsewhere
<1>3. Owner(w, p)'
  BY <1>2 DEF Owner, SameRound, Running
<1> QED BY <1>1, <1>2, <1>3, PeerStepFrame

LEMMA SubmitOwnership ==
    ASSUME OwnershipInv, TypeOK', NEW w \in Workers, NEW p \in Peers,
           NEW result \in BOOLEAN, Submit(w, p, result), Alive(w),
           probe[w][p].stage # "idle", UNCHANGED <<proc, reg>>
    PROVE  OwnershipInv'
<1>1. /\ TypeOK /\ Owner(w, p) /\ InstancePast(w, p)
      /\ probe[w][p] \in Probes
  BY DEF OwnershipInv, TypeOK
<1>2. /\ Elsewhere(w, p)
      /\ probe'[w][p] = Idle(probe[w][p])
      /\ armed[w][p] => armed'[w][p]
      /\ \/ Owned(w, p) /\ Running(shm[p]) /\ CountedStep(p, result)
         \/ ~(Owned(w, p) /\ Running(shm[p])) /\ UNCHANGED <<shm, armed>>
  BY <1>1, SubmitEffect
<1>3. /\ shm'[p].worker = shm[p].worker /\ shm'[p].instance = shm[p].instance
      /\ shm'[p].owner = shm[p].owner
      /\ shm'[p].term = shm[p].term /\ shm'[p].round = shm[p].round
  BY <1>2 DEF CountedStep
<1>4. \/ shm'[p] = shm[p]
      \/ shm'[p].worker = w /\ shm'[p].instance <= reg[w].instance
  BY <1>1, <1>2, <1>3 DEF Owned, SameRound, InstancePast
<1>5. Owner(w, p)'
  <2> SUFFICES ASSUME OwnedAlive(w, p)' PROVE Owner(w, p)'
    BY DEF Owner
  <2>1. OwnedAlive(w, p)
    BY <1>3 DEF OwnedAlive, Own, Alive, Registered
  <2>2. Owned(w, p) /\ Running(shm[p])
    BY <1>1, <2>1, OwnerOwns DEF Owner
  <2>3. shm'[p].phase = "WAITING"
    BY <1>2, <2>2 DEF CountedStep
  <2>4. /\ probe'[w][p].stage = "idle"
        /\ probe'[w][p].instance = probe[w][p].instance
        /\ probe'[w][p].term = probe[w][p].term
        /\ probe'[w][p].round = probe[w][p].round
    BY <1>1, <1>2, IdleFields
  <2> QED BY <1>1, <1>2, <1>3, <2>1, <2>3, <2>4 DEF Owner, SameRound, Running
<1> QED BY <1>2, <1>4, <1>5, PeerStepFrame

LEMMA FinishOwnership ==
    ASSUME OwnershipInv, TypeOK', NEW w \in Workers, NEW p \in Peers,
           NEW result \in BOOLEAN, Finish(w, p, result), Alive(w),
           probe[w][p].stage # "idle", UNCHANGED <<proc, reg>>
    PROVE  OwnershipInv'
<1>1. TypeOK /\ Owner(w, p)
  BY DEF OwnershipInv
<1>2. CASE Submit(w, p, result)
  BY <1>2, SubmitOwnership
<1>3. CASE ~Submit(w, p, result)
  <2>1. /\ Elsewhere(w, p) /\ UNCHANGED <<shm, armed>>
        /\ probe'[w][p].stage = "pending"
        /\ probe'[w][p].instance = probe[w][p].instance
        /\ probe'[w][p].term = probe[w][p].term
        /\ probe'[w][p].round = probe[w][p].round
    BY <1>1, <1>3, FinishEffect
  <2>2. Owner(w, p)'
    BY <1>1, <2>1 DEF Owner, OwnedAlive, Own, Alive, Registered, SameRound, Running
  <2> QED BY <2>1, <2>2, PeerStepFrame
<1> QED BY <1>2, <1>3

\* A step that changes the peer's timer or probe, and neither the peer nor the
\* identity of the probe's round.
LEMMA LocalOwnership ==
    ASSUME OwnershipInv, TypeOK', NEW w \in Workers, NEW p \in Peers,
           Alive(w), Elsewhere(w, p), UNCHANGED <<proc, reg, shm>>,
           OwnedAlive(w, p) =>
              /\ armed'[w][p]
              /\ SameRound(w, shm[p], probe'[w][p])
              /\ probe'[w][p].stage = "idle" <=> probe[w][p].stage = "idle"
    PROVE  OwnershipInv'
<1>1. Owner(w, p)'
  <2> SUFFICES ASSUME OwnedAlive(w, p)' PROVE Owner(w, p)'
    BY DEF Owner
  <2>1. OwnedAlive(w, p) /\ Owner(w, p)
    BY DEF OwnershipInv, OwnedAlive, Own, Alive, Registered
  <2> QED BY <2>1 DEF Owner, SameRound, Running
<1> QED BY <1>1, PeerStepFrame

LEMMA PeerOwnership ==
    ASSUME OwnershipInv, TypeOK', NEW w \in Workers, NEW p \in Peers,
           PeerStep(w, p)
    PROVE  OwnershipInv'
<1>1. /\ TypeOK /\ Readings \subseteq Nat
      /\ probe \in [Workers -> [Peers -> Probes]] /\ probe[w][p] \in Probes
      /\ armed \in [Workers -> [Peers -> BOOLEAN]]
  BY ReadingType DEF OwnershipInv, TypeOK
<1>2. Alive(w) /\ UNCHANGED <<proc, reg>>
  BY DEF PeerStep, Begin, BeginDeclined, ProbeLost, ProbePrepared,
         ProbeNotPrepared, ProbeWaiting, TcpResult, UdpResult, ProbeTimeout,
         WatchSubmit, WatchRead, Handling
<1>3. OwnedAlive(w, p) => Owned(w, p) /\ Owner(w, p)
  BY OwnerOwns DEF OwnershipInv
<1>4. CASE Begin(w, p)
  <2>1. PICK at \in Readings : Claim(w, p, at)
    BY <1>4 DEF Begin
  <2> QED BY <1>1, <1>2, <2>1, ClaimOwnership
<1>5. CASE BeginDeclined(w, p)
  <2>1. ~OwnedAlive(w, p)
    <3> SUFFICES ASSUME OwnedAlive(w, p) PROVE Entitled(w, p)
      BY <1>5 DEF BeginDeclined
    <3> QED BY DEF OwnershipInv, RegistrationKept, OwnedAlive, Own, Entitled
  <2>2. Elsewhere(w, p) /\ UNCHANGED shm
    BY <1>1, <1>5 DEF BeginDeclined, Elsewhere
  <2> QED BY <1>2, <2>1, <2>2, LocalOwnership
<1>6. CASE ProbeLost(w, p)
  <2>1. ~OwnedAlive(w, p)
    BY <1>3, <1>6 DEF ProbeLost
  <2>2. Elsewhere(w, p) /\ UNCHANGED shm
    BY <1>1, <1>6 DEF ProbeLost, Elsewhere
  <2> QED BY <1>2, <2>1, <2>2, LocalOwnership
<1>7. CASE ProbePrepared(w, p)
  <2> DEFINE started == [probe[w][p] EXCEPT !.stage = "io",
                                            !.deadline = CheckDeadline(w, p)]
  <2>1. /\ probe' = [probe EXCEPT ![w][p] = started] /\ UNCHANGED <<shm, armed>>
        /\ probe[w][p].stage = "prepare"
    BY <1>7 DEF ProbePrepared
  <2>2. /\ started.stage = "io" /\ started.instance = probe[w][p].instance
        /\ started.term = probe[w][p].term /\ started.round = probe[w][p].round
    BY <1>1 DEF Probes
  <2> HIDE DEF started
  <2>3. Elsewhere(w, p) /\ probe'[w][p] = started
    BY <1>1, <2>1 DEF Elsewhere
  <2> QED BY <1>2, <1>3, <2>1, <2>2, <2>3, LocalOwnership DEF Owner, SameRound
<1>8. CASE ProbeNotPrepared(w, p)
  <2>1. /\ Finish(w, p, p \in Udp) /\ (p \in Udp) \in BOOLEAN
        /\ probe[w][p].stage # "idle"
    BY <1>8 DEF ProbeNotPrepared
  <2> QED BY <1>2, <2>1, FinishOwnership, Zenon
<1>9. CASE ProbeWaiting(w, p)
  <2> DEFINE s == shm[p]
             pr == probe[w][p]
  <2>1. /\ shm' = [shm EXCEPT ![p] = InFlight(s, pr)]
        /\ probe' = [probe EXCEPT ![w][p] = [pr EXCEPT !.published = TRUE]]
        /\ UNCHANGED armed /\ Owned(w, p)
    BY <1>9 DEF ProbeWaiting
  <2>2. /\ InFlight(s, pr).worker = s.worker /\ InFlight(s, pr).instance = s.instance
        /\ InFlight(s, pr).owner = s.owner /\ InFlight(s, pr).term = s.term
        /\ InFlight(s, pr).round = s.round
        /\ Running(InFlight(s, pr)) <=> Running(s)
    BY <1>1 DEF InFlight, PeerStates, TypeOK, Running
  <2>3. /\ Elsewhere(w, p) /\ shm'[p] = InFlight(s, pr)
        /\ probe'[w][p] = [pr EXCEPT !.published = TRUE]
        /\ armed'[w][p] = armed[w][p]
    BY <1>1, <2>1 DEF Elsewhere, TypeOK
  <2>4. /\ probe'[w][p].stage = pr.stage /\ probe'[w][p].instance = pr.instance
        /\ probe'[w][p].term = pr.term /\ probe'[w][p].round = pr.round
    BY <1>1, <2>3 DEF Probes
  <2>5. shm'[p].worker = w /\ shm'[p].instance <= reg[w].instance
    BY <2>1, <2>2, <2>3 DEF Owned, SameRound, OwnershipInv, InstancePast
  <2>6. Owner(w, p)'
    <3> SUFFICES ASSUME OwnedAlive(w, p)' PROVE Owner(w, p)'
      BY DEF Owner
    <3>1. OwnedAlive(w, p)
      BY <1>2, <2>2, <2>3 DEF OwnedAlive, Own, Alive, Registered
    <3>2. Running(shm'[p]) <=> Running(s)
      BY <2>2, <2>3
    <3>3. Running(shm[p])' <=> Running(shm'[p])
      BY DEF Running
    <3> QED BY <1>2, <1>3, <2>2, <2>3, <2>4, <3>1, <3>2, <3>3 DEF Owner, SameRound
  <2> QED BY <1>2, <2>3, <2>5, <2>6, PeerStepFrame
<1>10. CASE TcpResult(w, p)
  <2>1. PICK open \in BOOLEAN : Finish(w, p, open)
    BY <1>10 DEF TcpResult
  <2>2. probe[w][p].stage # "idle"
    BY <1>10 DEF TcpResult
  <2> QED BY <1>2, <2>1, <2>2, FinishOwnership
<1>11. CASE UdpResult(w, p)
  <2>1. PICK refused \in BOOLEAN : Finish(w, p, ~refused)
    BY <1>11 DEF UdpResult
  <2>2. probe[w][p].stage # "idle" /\ (~refused) \in BOOLEAN
    BY <1>11 DEF UdpResult
  <2> QED BY <1>2, <2>1, <2>2, FinishOwnership, Zenon
<1>12. CASE ProbeTimeout(w, p)
  <2>1. /\ Finish(w, p, p \in Udp) /\ (p \in Udp) \in BOOLEAN
        /\ probe[w][p].stage # "idle"
    BY <1>12 DEF ProbeTimeout, Active
  <2> QED BY <1>2, <2>1, FinishOwnership, Zenon
<1>13. CASE WatchSubmit(w, p)
  <2>1. /\ Submit(w, p, probe[w][p].result) /\ probe[w][p].stage # "idle"
        /\ probe[w][p].result \in BOOLEAN
    BY <1>1, <1>13 DEF WatchSubmit, Probes
  <2> QED BY <1>2, <2>1, SubmitOwnership
<1>14. CASE WatchRead(w, p)
  <2>1. Elsewhere(w, p) /\ UNCHANGED shm
    BY <1>1, <1>14 DEF WatchRead, Elsewhere
  <2>2. ASSUME SameRound(w, shm[p], probe[w][p]), armed[w][p]
        PROVE  armed'[w][p] /\ probe' = probe
    BY <1>1, <1>14, <2>2 DEF WatchRead
  <2> QED BY <1>2, <1>3, <2>1, <2>2, LocalOwnership DEF Owner
<1> QED BY <1>4, <1>5, <1>6, <1>7, <1>8, <1>9, <1>10, <1>11, <1>12, <1>13, <1>14
        DEF PeerStep

\* A registration hands out an instance that no peer names.
LEMMA JoinOwnership ==
    ASSUME OwnershipInv, TypeOK', NEW w \in Workers, NEW pid \in Pids,
           \/ Join(w, pid)
           \/ JoinLater(w, pid) /\ ~Registered(w),
           UNCHANGED <<shm, probe>>,
           \A v \in Workers \ {w} : armed'[v] = armed[v]
    PROVE  OwnershipInv'
<1>1. /\ proc[w] \in Procs /\ reg[w] \in Registrations
      /\ proc \in [Workers -> Procs] /\ reg \in [Workers -> Registrations]
      /\ pid # NoPid /\ proc[w].instance <= reg[w].instance
      /\ \A q \in Peers : InstancePast(w, q) /\ shm[q].instance \in Nat
  BY ScheduleAssumption
     DEF OwnershipInv, TypeOK, RegistrationKept, PeerStates
<1>2. CASE Join(w, pid)
  <2> DEFINE r == [pid |-> pid, instance |-> reg[w].instance + 1, exiting |-> FALSE]
             pr == [proc[w] EXCEPT !.pid = pid, !.instance = reg[w].instance + 1]
  <2>1. /\ reg' = [reg EXCEPT ![w] = r] /\ proc' = [proc EXCEPT ![w] = pr]
        /\ reg[w].instance \in Nat
    BY <1>1, <1>2 DEF Join, Registrations
  <2>2. pr.pid = pid /\ pr.instance = reg[w].instance + 1
    BY <1>1 DEF Procs
  <2>3. r.pid = pid /\ r.instance = reg[w].instance + 1 /\ ~r.exiting
    OBVIOUS
  <2> HIDE DEF r, pr
  <2>4. /\ reg'[w] = r /\ proc'[w] = pr
        /\ \A v \in Workers \ {w} : reg'[v] = reg[v] /\ proc'[v] = proc[v]
    BY <1>1, <2>1
  <2>5. RegistrationKept(w)' /\ DeadIsIdle(w)'
    BY <1>1, <2>1, <2>2, <2>3, <2>4
       DEF RegistrationKept, RegistrationOwn, DeadIsIdle, Alive
  <2>6. \A q \in Peers : ~OwnedAlive(w, q)'
    BY <1>1, <2>1, <2>2, <2>4 DEF OwnedAlive, Own, InstancePast
  <2>7. reg'[w].instance >= reg[w].instance
    BY <2>1, <2>3, <2>4
  <2> QED BY <2>4, <2>5, <2>6, <2>7, ProcessStepFrame
<1>3. CASE JoinLater(w, pid) /\ ~Registered(w)
  <2> DEFINE pr == [proc[w] EXCEPT !.pid = pid]
  <2>1. UNCHANGED reg /\ proc' = [proc EXCEPT ![w] = pr]
    BY <1>3 DEF JoinLater
  <2>2. pr.pid = pid /\ pr.instance = 0
    BY <1>1, <1>3 DEF Procs, Registered
  <2> HIDE DEF pr
  <2>3. proc'[w] = pr /\ \A v \in Workers \ {w} : proc'[v] = proc[v]
    BY <1>1, <2>1
  <2>4. reg[w].instance \in Nat
    BY <1>1 DEF Registrations
  <2>5. ~Registered(w)' /\ Alive(w)'
    BY <1>1, <2>2, <2>3 DEF Registered, Alive
  <2>6. RegistrationKept(w)' /\ DeadIsIdle(w)'
    BY <2>1, <2>2, <2>3, <2>4, <2>5 DEF RegistrationKept, DeadIsIdle
  <2>7. \A q \in Peers : ~OwnedAlive(w, q)'
    BY <2>5 DEF OwnedAlive
  <2>8. reg'[w].instance >= reg[w].instance
    BY <2>1, <2>4
  <2> QED BY <2>1, <2>3, <2>6, <2>7, <2>8, ProcessStepFrame
<1> QED BY <1>2, <1>3

LEMMA ProcessOwnership ==
    ASSUME OwnershipInv, TypeOK', NEW w \in Workers, ProcessStep(w)
    PROVE  OwnershipInv'
<1>1. /\ TypeOK /\ Readings \subseteq Nat
      /\ proc \in [Workers -> Procs] /\ reg \in [Workers -> Registrations]
      /\ probe \in [Workers -> [Peers -> Probes]]
      /\ armed \in [Workers -> [Peers -> BOOLEAN]]
      /\ RegistrationKept(w) /\ DeadIsIdle(w)
  BY ReadingType DEF OwnershipInv, TypeOK
<1>2. proc[w] \in Procs /\ reg[w].instance \in Nat
  BY <1>1 DEF Registrations
<1>3. CASE StartProcess(w)
  <2>1. PICK pid \in Pids :
           /\ Join(w, pid) \/ JoinLater(w, pid)
           /\ armed' = [armed EXCEPT ![w] = [p \in Peers |-> Home(p) = w]]
              \/ UNCHANGED armed
    BY <1>3 DEF StartProcess
  <2>2. ~Registered(w) /\ UNCHANGED <<shm, probe>>
    BY <1>1, <1>3 DEF StartProcess, DeadIsIdle
  <2>3. \A v \in Workers \ {w} : armed'[v] = armed[v]
    BY <1>1, <2>1
  <2> QED BY <2>1, <2>2, <2>3, JoinOwnership
<1>4. CASE WatchRegister(w)
  <2>1. proc[w].pid \in Pids
    BY <1>2, <1>4 DEF WatchRegister, Handling, Alive, Procs
  <2>2. /\ Join(w, proc[w].pid) \/ (JoinLater(w, proc[w].pid) /\ ~Registered(w))
        /\ UNCHANGED <<shm, probe, armed>>
    BY <1>4 DEF WatchRegister
  <2> QED BY <2>1, <2>2, JoinOwnership
<1>5. CASE WatchClaim(w)
  <2>1. PICK o \in watch[w] :
           /\ Alive(w) /\ UNCHANGED <<proc, reg>>
           /\ \/ \E at \in Readings : Claim(w, o.peer, at)
              \/ UNCHANGED <<shm, probe, armed>>
    BY <1>5 DEF WatchClaim
  <2>2. o.peer \in Peers
    BY <1>1 DEF TypeOK, Takeovers
  <2>3. ASSUME NEW at \in Readings, Claim(w, o.peer, at) PROVE OwnershipInv'
    BY <1>1, <2>1, <2>2, <2>3, ClaimOwnership
  <2>4. ASSUME UNCHANGED <<shm, probe, armed>> PROVE OwnershipInv'
    BY <2>1, <2>2, <2>4, LocalOwnership DEF Elsewhere, OwnershipInv, Owner
  <2> QED BY <2>1, <2>3, <2>4
<1>6. CASE Quit(w)
  <2> DEFINE pr == [proc[w] EXCEPT !.quit = TRUE]
  <2>1. proc' = [proc EXCEPT ![w] = pr] /\ UNCHANGED <<reg, shm, probe, armed>>
        /\ Alive(w)
    BY <1>6 DEF Quit
  <2>2. pr.quit /\ pr.instance = proc[w].instance /\ pr.pid = proc[w].pid
    BY <1>2 DEF Procs
  <2> HIDE DEF pr
  <2>3. proc'[w] = pr /\ \A v \in Workers \ {w} : proc'[v] = proc[v]
    BY <1>1, <2>1
  <2>4. RegistrationKept(w)' /\ DeadIsIdle(w)'
    BY <1>1, <2>1, <2>2, <2>3 DEF RegistrationKept, DeadIsIdle, Alive
  <2>5. \A q \in Peers : ~OwnedAlive(w, q)'
    BY <2>2, <2>3 DEF OwnedAlive
  <2> QED BY <1>2, <2>1, <2>3, <2>4, <2>5, ProcessStepFrame
<1>7. CASE Stop(w)
  <2> DEFINE pr == [proc[w] EXCEPT !.stopped = TRUE]
             r == [reg[w] EXCEPT !.exiting = TRUE]
  <2>1. /\ proc' = [proc EXCEPT ![w] = pr] /\ UNCHANGED shm
        /\ reg' = [reg EXCEPT ![w] = r] \/ UNCHANGED reg
        /\ Alive(w) /\ proc[w].quit
    BY <1>7 DEF Stop
  <2>2. pr.quit /\ pr.instance = proc[w].instance /\ pr.pid = proc[w].pid
    BY <1>2, <2>1 DEF Procs
  <2>3. r.instance = reg[w].instance
    BY <1>1 DEF Registrations
  <2> HIDE DEF pr, r
  <2>4. proc'[w] = pr /\ \A v \in Workers \ {w} : proc'[v] = proc[v]
    BY <1>1, <2>1
  <2>5. /\ reg'[w].instance = reg[w].instance
        /\ \A v \in Workers \ {w} : reg'[v] = reg[v]
    BY <1>1, <2>1, <2>3
  <2>6. \A v \in Workers \ {w} : probe'[v] = probe[v] /\ armed'[v] = armed[v]
    BY <1>1, <1>7 DEF Stop, NoEvents
  <2>7. RegistrationKept(w)' /\ DeadIsIdle(w)'
    BY <1>1, <2>1, <2>2, <2>4, <2>5 DEF RegistrationKept, DeadIsIdle, Alive
  <2>8. \A q \in Peers : ~OwnedAlive(w, q)'
    BY <2>2, <2>4 DEF OwnedAlive
  <2> QED BY <1>2, <2>1, <2>4, <2>5, <2>6, <2>7, <2>8, ProcessStepFrame
<1>8. CASE Die(w)
  <2>1. /\ proc' = [proc EXCEPT ![w] = NoProcess] /\ UNCHANGED <<shm, reg>>
        /\ probe' = [probe EXCEPT ![w] = [p \in Peers |-> NoProbe]]
        /\ armed' = [armed EXCEPT ![w] = [p \in Peers |-> FALSE]]
    BY <1>8 DEF Die, NoEvents
  <2>2. /\ proc'[w] = NoProcess /\ \A p \in Peers : probe'[w][p] = NoProbe
        /\ \A v \in Workers \ {w} : /\ proc'[v] = proc[v]
                                     /\ probe'[v] = probe[v] /\ armed'[v] = armed[v]
    BY <1>1, <2>1
  <2>3. ~Alive(w)' /\ ~Registered(w)' /\ proc'[w].instance = 0
    BY <2>2 DEF Alive, Registered, NoProcess
  <2>4. RegistrationKept(w)' /\ DeadIsIdle(w)'
    BY <1>2, <2>1, <2>2, <2>3 DEF RegistrationKept, DeadIsIdle, NoProbe
  <2>5. \A q \in Peers : ~OwnedAlive(w, q)'
    BY <2>3 DEF OwnedAlive
  <2> QED BY <1>2, <2>1, <2>2, <2>4, <2>5, ProcessStepFrame
<1> QED BY <1>3, <1>4, <1>5, <1>6, <1>7, <1>8 DEF ProcessStep

LEMMA OwnershipStep ==
    ASSUME OwnershipInv, [Next]_vars PROVE OwnershipInv'
<1>1. TypeOK'
  BY TypeStep DEF OwnershipInv
<1>2. CASE \E w \in Workers : ProcessStep(w)
  BY <1>1, <1>2, ProcessOwnership
<1>3. CASE \E w \in Workers, p \in Peers : PeerStep(w, p)
  BY <1>1, <1>3, PeerOwnership
<1>4. CASE Tick \/ UNCHANGED vars
  <2>1. UNCHANGED <<reg, shm, proc, probe, armed>>
    BY <1>4 DEF Tick, vars
  <2> QED BY <1>1, <2>1
          DEF OwnershipInv, RegistrationKept, RegistrationOwn, DeadIsIdle,
              InstancePast, Owner, OwnedAlive, Own, Alive, Registered, Running,
              SameRound
<1> QED BY <1>2, <1>3, <1>4 DEF Next

LEMMA OwnershipSafety == Spec => []OwnershipInv
<1>1. Init => OwnershipInv
  BY OwnershipInit
<1>2. OwnershipInv /\ [Next]_vars => OwnershipInv'
  BY OwnershipStep
<1> QED BY <1>1, <1>2, PTL DEF Spec

\* The owner of a peer never loses its check timer (begin, watch_peers and
\* runtime_init are the only places that start or drop it).
THEOREM TimerSafety == Spec => []NoLostTimer
<1>1. OwnershipInv => NoLostTimer
  BY DEF OwnershipInv, Owner, NoLostTimer
<1> QED BY <1>1, OwnershipSafety, PTL

\* A round runs exactly as long as its living owner works on it: no sequence of
\* claims, lost rounds, refused and repeated submissions leaves one behind.
THEOREM WorkSafety == Spec => []RunningIffWorking
<1>1. OwnershipInv => RunningIffWorking
  BY DEF OwnershipInv, Owner, RunningIffWorking, Working, OwnedAlive
<1> QED BY <1>1, OwnershipSafety, PTL

----------------------------------------------------------------------------
(***************************************************************************)
(* Deadlines: the invariant.  What is published follows from the deadline  *)
(* inside the probe that works on the round, so both are bounded together. *)
(***************************************************************************)
\* The deadline of a check that follows a preparation in time.
CheckBudget(p, started, deadline) ==
    /\ deadline >= started + CheckTimeout
    /\ deadline < started + 2 * CheckTimeout + Lag
    /\ p \in Udp => deadline = started + CheckTimeout

PeerBudget(p) ==
    LET s == shm[p]
    IN  /\ s.started <= now
        /\ s.phase = "PREPARING" => s.deadline = s.started + CheckTimeout
        /\ s.phase = "INFLIGHT" => CheckBudget(p, s.started, s.deadline)
        /\ s.phase = "WAITING" => s.deadline >= s.started + CheckInterval

ProbeBudget(w, p) ==
    LET s == shm[p]
        pr == probe[w][p]
    IN  Active(pr) /\ SameRound(w, s, pr) =>
          /\ IF pr.published
             THEN pr.stage = "io" /\ s.phase = "INFLIGHT" /\ s.deadline = pr.deadline
             ELSE s.phase = "PREPARING"
          /\ pr.stage = "prepare" => pr.deadline = s.started + CheckTimeout
          /\ pr.stage = "io" => CheckBudget(p, s.started, pr.deadline)

BudgetInv ==
    /\ TypeOK
    /\ \A p \in Peers : PeerBudget(p)
    /\ \A w \in Workers, p \in Peers : ProbeBudget(w, p)

LEMMA BudgetInit == ASSUME Init PROVE BudgetInv
<1>1. TypeOK
  BY InitType
<1>2. now = 1 /\ \A p \in Peers : shm[p].phase = "INITIAL" /\ shm[p].started \in 0..1
  BY DEF Init, InitialState, StartTime
<1>3. \A p \in Peers : PeerBudget(p)
  BY <1>2 DEF PeerBudget
<1>4. \A w \in Workers, p \in Peers : ProbeBudget(w, p)
  BY DEF Init, NoProbe, ProbeBudget, Active
<1> QED BY <1>1, <1>3, <1>4 DEF BudgetInv

----------------------------------------------------------------------------
(***************************************************************************)
(* Every step keeps the budgets.                                           *)
(***************************************************************************)
\* A handler of one peer concerns the budgets of this peer only, and those of
\* other workers no longer where it published something.
LEMMA BudgetFrame ==
    ASSUME BudgetInv, TypeOK', NEW w \in Workers, NEW p \in Peers,
           Elsewhere(w, p), UNCHANGED now,
           shm'[p] = shm[p] \/ shm'[p].worker = w,
           PeerBudget(p)', ProbeBudget(w, p)'
    PROVE  BudgetInv'
<1>1. \A q \in Peers : PeerBudget(q)'
  BY DEF BudgetInv, PeerBudget, Elsewhere
<1>2. \A v \in Workers, q \in Peers : ProbeBudget(v, q)'
  <2> SUFFICES ASSUME NEW v \in Workers, NEW q \in Peers, v # w \/ q # p,
                      SameRound(v, shm'[q], probe'[v][q])
               PROVE  ProbeBudget(v, q)'
    BY DEF ProbeBudget, SameRound
  <2>1. shm'[q] = shm[q] /\ probe'[v][q] = probe[v][q]
    BY DEF Elsewhere, SameRound
  <2> QED BY <2>1 DEF BudgetInv, ProbeBudget, Active, SameRound
<1> QED BY <1>1, <1>2 DEF BudgetInv

\* Probes that ended, and processes that come and go, publish nothing.
LEMMA BudgetQuiet ==
    ASSUME BudgetInv, TypeOK', UNCHANGED shm, now' >= now,
           \A w \in Workers, p \in Peers :
              probe'[w][p] = probe[w][p] \/ ~Active(probe'[w][p])
    PROVE  BudgetInv'
<1>1. \A p \in Peers : PeerBudget(p)'
  <2> SUFFICES ASSUME NEW p \in Peers PROVE PeerBudget(p)'
    OBVIOUS
  <2>1. shm[p].started \in Nat /\ now \in Nat /\ now' \in Nat
    BY DEF BudgetInv, TypeOK, PeerStates
  <2> QED BY <2>1 DEF BudgetInv, PeerBudget
<1>2. \A w \in Workers, p \in Peers : ProbeBudget(w, p)'
  BY DEF BudgetInv, ProbeBudget, Active, SameRound
<1> QED BY <1>1, <1>2 DEF BudgetInv

LEMMA ClaimBudget ==
    ASSUME BudgetInv, TypeOK', NEW w \in Workers, NEW p \in Peers,
           NEW at \in Readings, Claim(w, p, at), UNCHANGED now
    PROVE  BudgetInv'
<1>1. TypeOK /\ at \in Nat /\ at <= now
  BY ReadingType DEF BudgetInv, Readings, TypeOK
<1>2. /\ shm'[p].worker = w
      /\ shm'[p].started = at /\ shm'[p].deadline = at + CheckTimeout
      /\ shm'[p].phase = "PREPARING"
      /\ probe'[w][p].stage = "prepare" /\ ~probe'[w][p].published
      /\ probe'[w][p].deadline = at + CheckTimeout
      /\ Elsewhere(w, p)
  BY <1>1, ClaimEffect DEF Elsewhere
<1>3. PeerBudget(p)' /\ ProbeBudget(w, p)'
  BY <1>1, <1>2 DEF PeerBudget, ProbeBudget
<1> QED BY <1>2, <1>3, BudgetFrame

LEMMA SubmitBudget ==
    ASSUME BudgetInv, TypeOK', NEW w \in Workers, NEW p \in Peers,
           NEW result \in BOOLEAN, Submit(w, p, result), UNCHANGED now
    PROVE  BudgetInv'
<1>1. TypeOK /\ PeerBudget(p) /\ probe[w][p] \in Probes
  BY DEF BudgetInv, TypeOK
<1>2. /\ Elsewhere(w, p)
      /\ probe'[w][p] = Idle(probe[w][p])
      /\ \/ Owned(w, p) /\ CountedStep(p, result)
         \/ UNCHANGED shm
  BY <1>1, SubmitEffect
<1>3. ProbeBudget(w, p)'
  BY <1>1, <1>2, IdleFields DEF ProbeBudget, Active
<1>4. shm'[p] = shm[p] \/ shm'[p].worker = w
  BY <1>2 DEF CountedStep, Owned, SameRound
<1>5. PeerBudget(p)'
  BY <1>1, <1>2 DEF PeerBudget, CountedStep
<1> QED BY <1>2, <1>3, <1>4, <1>5, BudgetFrame

LEMMA FinishBudget ==
    ASSUME BudgetInv, TypeOK', NEW w \in Workers, NEW p \in Peers,
           NEW result \in BOOLEAN, Finish(w, p, result), UNCHANGED now
    PROVE  BudgetInv'
<1>1. TypeOK
  BY DEF BudgetInv
<1>2. CASE Submit(w, p, result)
  BY <1>2, SubmitBudget
<1>3. CASE ~Submit(w, p, result)
  <2>1. Elsewhere(w, p) /\ UNCHANGED shm /\ probe'[w][p].stage = "pending"
    BY <1>1, <1>3, FinishEffect
  <2>2. PeerBudget(p)' /\ ProbeBudget(w, p)'
    BY <2>1 DEF BudgetInv, PeerBudget, ProbeBudget, Active
  <2> QED BY <2>1, <2>2, BudgetFrame
<1> QED BY <1>2, <1>3

\* A check that follows its preparation in time stays within the budget.
LEMMA PreparedBudget ==
    ASSUME BudgetInv, TypeOK', NEW w \in Workers, NEW p \in Peers,
           ProbePrepared(w, p)
    PROVE  BudgetInv'
<1> DEFINE s == shm[p]
           pr == probe[w][p]
           started == [pr EXCEPT !.stage = "io", !.deadline = CheckDeadline(w, p)]
<1>1. /\ TypeOK /\ s \in PeerStates /\ pr \in Probes /\ now \in Nat
      /\ PeerBudget(p) /\ ProbeBudget(w, p)
  BY DEF BudgetInv, TypeOK
<1>2. /\ UNCHANGED <<now, shm, armed>> /\ probe' = [probe EXCEPT ![w][p] = started]
      /\ pr.stage = "prepare" /\ SameRound(w, s, pr) /\ NotDue(pr.deadline)
  BY DEF ProbePrepared, Owned
<1>3. Elsewhere(w, p) /\ probe'[w][p] = started
  BY <1>1, <1>2 DEF Elsewhere, TypeOK
<1>4. /\ s.started <= now /\ pr.deadline = s.started + CheckTimeout
      /\ ~pr.published /\ s.phase = "PREPARING"
  BY <1>1, <1>2 DEF PeerBudget, ProbeBudget, Active
<1>5. CheckBudget(p, s.started, CheckDeadline(w, p))
  <2>1. s.started \in Nat /\ now < s.started + CheckTimeout + Lag
    BY <1>1, <1>2, <1>4 DEF PeerStates, NotDue
  <2>2. CASE p \in Udp
    <3>1. CheckDeadline(w, p) = s.started + CheckTimeout
      BY <1>4, <2>2 DEF CheckDeadline
    <3>2. CheckTimeout + CheckTimeout = 2 * CheckTimeout
      BY ScheduleAssumption
    <3> QED BY <2>1, <2>2, <3>1, <3>2, ScheduleAssumption DEF CheckBudget
  <2>3. CASE p \notin Udp
    <3>1. CheckDeadline(w, p) = now + CheckTimeout
      BY <2>3 DEF CheckDeadline
    <3> QED BY <1>1, <1>4, <2>1, <2>3, <3>1, ScheduleAssumption DEF CheckBudget
  <2> QED BY <2>2, <2>3
<1>6. /\ started.stage = "io" /\ started.published = pr.published
      /\ started.deadline = CheckDeadline(w, p)
  BY <1>1 DEF Probes
<1> HIDE DEF started
<1>7. ProbeBudget(w, p)'
  BY <1>2, <1>3, <1>4, <1>5, <1>6 DEF ProbeBudget
<1>8. PeerBudget(p)'
  BY <1>1, <1>2 DEF PeerBudget
<1> QED BY <1>2, <1>3, <1>7, <1>8, BudgetFrame

\* The deadline that is published is the probe's.
LEMMA WaitingBudget ==
    ASSUME BudgetInv, TypeOK', NEW w \in Workers, NEW p \in Peers,
           ProbeWaiting(w, p)
    PROVE  /\ BudgetInv'
           /\ shm[p].phase = "PREPARING" /\ shm'[p].phase = "INFLIGHT"
           /\ Elsewhere(w, p)
<1> DEFINE s == shm[p]
           pr == probe[w][p]
           s2 == [s EXCEPT !.phase = "INFLIGHT", !.deadline = pr.deadline]
           pr2 == [pr EXCEPT !.published = TRUE]
<1>1. /\ TypeOK /\ s \in PeerStates /\ pr \in Probes
      /\ PeerBudget(p) /\ ProbeBudget(w, p)
  BY DEF BudgetInv, TypeOK
<1>2. /\ shm' = [shm EXCEPT ![p] = InFlight(s, pr)]
      /\ probe' = [probe EXCEPT ![w][p] = pr2] /\ UNCHANGED <<now, armed>>
      /\ pr.stage = "io" /\ ~pr.published /\ SameRound(w, s, pr)
  BY DEF ProbeWaiting, Owned
<1>3. s.phase = "PREPARING" /\ CheckBudget(p, s.started, pr.deadline)
  BY <1>1, <1>2 DEF ProbeBudget, Active
<1>4. Elsewhere(w, p) /\ shm'[p] = s2 /\ probe'[w][p] = pr2
  BY <1>1, <1>2, <1>3 DEF Elsewhere, TypeOK, InFlight
<1>5. /\ s2.phase = "INFLIGHT" /\ s2.deadline = pr.deadline
      /\ s2.started = s.started /\ s2.worker = s.worker
  BY <1>1 DEF PeerStates
<1>6. pr2.stage = "io" /\ pr2.published /\ pr2.deadline = pr.deadline
  BY <1>1, <1>2 DEF Probes
<1>7. s.started <= now /\ s.worker = w
  BY <1>1, <1>2 DEF PeerBudget, SameRound
<1> HIDE DEF s2, pr2
<1>8. PeerBudget(p)'
  BY <1>2, <1>3, <1>4, <1>5, <1>7 DEF PeerBudget
<1>9. ProbeBudget(w, p)'
  BY <1>3, <1>4, <1>5, <1>6 DEF ProbeBudget
<1> QED BY <1>2, <1>3, <1>4, <1>5, <1>7, <1>8, <1>9, BudgetFrame

LEMMA PeerStepBudget ==
    ASSUME BudgetInv, TypeOK', NEW w \in Workers, NEW p \in Peers,
           PeerStep(w, p)
    PROVE  BudgetInv'
<1>1. /\ TypeOK /\ probe \in [Workers -> [Peers -> Probes]] /\ now \in Nat
  BY DEF BudgetInv, TypeOK
<1>2. UNCHANGED now
  BY DEF PeerStep, Begin, BeginDeclined, ProbeLost, ProbePrepared,
         ProbeNotPrepared, ProbeWaiting, TcpResult, UdpResult, ProbeTimeout,
         WatchSubmit, WatchRead
<1>3. CASE Begin(w, p)
  BY <1>2, <1>3, ClaimBudget DEF Begin
<1>4. CASE BeginDeclined(w, p)
  BY <1>1, <1>2, <1>4, BudgetQuiet DEF BeginDeclined
<1>5. CASE ProbeLost(w, p) \/ WatchRead(w, p)
  <2>1. /\ UNCHANGED shm
        /\ probe' = [probe EXCEPT ![w][p] = Idle(@)] \/ probe' = probe
    BY <1>5 DEF ProbeLost, WatchRead
  <2>2. \A v \in Workers, q \in Peers :
           probe'[v][q] = probe[v][q] \/ ~Active(probe'[v][q])
    BY <1>1, <2>1, IdleFields DEF Active
  <2> QED BY <1>1, <1>2, <2>1, <2>2, BudgetQuiet
<1>6. CASE ProbePrepared(w, p)
  BY <1>6, PreparedBudget
<1>7. CASE ProbeNotPrepared(w, p) \/ ProbeTimeout(w, p)
  <2>1. Finish(w, p, p \in Udp) /\ (p \in Udp) \in BOOLEAN
    BY <1>7 DEF ProbeNotPrepared, ProbeTimeout
  <2> QED BY <1>2, <2>1, FinishBudget, Zenon
<1>8. CASE ProbeWaiting(w, p)
  BY <1>8, WaitingBudget
<1>9. CASE TcpResult(w, p)
  BY <1>2, <1>9, FinishBudget DEF TcpResult
<1>10. CASE UdpResult(w, p)
  <2>1. PICK refused \in BOOLEAN : Finish(w, p, ~refused)
    BY <1>10 DEF UdpResult
  <2>2. (~refused) \in BOOLEAN
    OBVIOUS
  <2> QED BY <1>2, <2>1, <2>2, FinishBudget, Zenon
<1>11. CASE WatchSubmit(w, p)
  <2>1. Submit(w, p, probe[w][p].result) /\ probe[w][p].result \in BOOLEAN
    BY <1>1, <1>11 DEF WatchSubmit, Probes
  <2> QED BY <1>2, <2>1, SubmitBudget
<1> QED BY <1>3, <1>4, <1>5, <1>6, <1>7, <1>8, <1>9, <1>10, <1>11 DEF PeerStep

LEMMA ProcessBudget ==
    ASSUME BudgetInv, TypeOK', NEW w \in Workers, ProcessStep(w)
    PROVE  BudgetInv'
<1>1. /\ TypeOK /\ probe \in [Workers -> [Peers -> Probes]] /\ now \in Nat
  BY DEF BudgetInv, TypeOK
<1>2. UNCHANGED now
  BY DEF ProcessStep, StartProcess, WatchRegister, WatchClaim, Quit, Stop, Die
<1>3. CASE UNCHANGED <<shm, probe>>
  BY <1>1, <1>2, <1>3, BudgetQuiet
<1>4. CASE WatchClaim(w) /\ ~UNCHANGED <<shm, probe>>
  <2>1. PICK o \in watch[w] : \E at \in Readings : Claim(w, o.peer, at)
    BY <1>4 DEF WatchClaim
  <2>2. o.peer \in Peers
    BY <1>1 DEF TypeOK, Takeovers
  <2> QED BY <1>2, <2>1, <2>2, ClaimBudget
<1>5. CASE Stop(w)
  <2>1. probe' = [probe EXCEPT ![w] = [p \in Peers |-> Idle(@[p])]] /\ UNCHANGED shm
    BY <1>5 DEF Stop
  <2>2. \A v \in Workers, q \in Peers :
           probe'[v][q] = probe[v][q] \/ ~Active(probe'[v][q])
    BY <1>1, <2>1, IdleFields DEF Active
  <2> QED BY <1>1, <1>2, <2>1, <2>2, BudgetQuiet
<1>6. CASE Die(w)
  <2>1. probe' = [probe EXCEPT ![w] = [p \in Peers |-> NoProbe]] /\ UNCHANGED shm
    BY <1>6 DEF Die
  <2>2. \A v \in Workers, q \in Peers :
           probe'[v][q] = probe[v][q] \/ ~Active(probe'[v][q])
    BY <1>1, <2>1 DEF NoProbe, Active
  <2> QED BY <1>1, <1>2, <2>1, <2>2, BudgetQuiet
<1> QED BY <1>3, <1>4, <1>5, <1>6
        DEF ProcessStep, StartProcess, WatchRegister, Quit

LEMMA BudgetStep == ASSUME BudgetInv, [Next]_vars PROVE BudgetInv'
<1>1. TypeOK /\ TypeOK'
  BY TypeStep DEF BudgetInv
<1>2. CASE \E w \in Workers : ProcessStep(w)
  BY <1>1, <1>2, ProcessBudget
<1>3. CASE \E w \in Workers, p \in Peers : PeerStep(w, p)
  BY <1>1, <1>3, PeerStepBudget
<1>4. CASE Tick \/ UNCHANGED vars
  <2>1. now \in Nat /\ UNCHANGED <<shm, probe>> /\ (now' = now + 1 \/ now' = now)
    BY <1>1, <1>4 DEF Tick, vars, TypeOK
  <2>2. now' >= now
    BY <2>1
  <2> QED BY <1>1, <2>1, <2>2, BudgetQuiet
<1> QED BY <1>2, <1>3, <1>4 DEF Next

LEMMA BudgetSafety == Spec => []BudgetInv
<1>1. Init => BudgetInv
  BY BudgetInit
<1>2. BudgetInv /\ [Next]_vars => BudgetInv'
  BY BudgetStep
<1> QED BY <1>1, <1>2, PTL DEF Spec

\* A published deadline stays within one timeout for the preparation and, for a
\* TCP check, one more for the check (claim, probe_start, probe_waiting and
\* submit write it); the next round is announced no earlier than the interval.
THEOREM RoundBudgetSafety == Spec => []RoundBudget
<1>1. BudgetInv => RoundBudget
  BY DEF BudgetInv, PeerBudget, CheckBudget, RoundBudget
<1> QED BY <1>1, BudgetSafety, PTL

----------------------------------------------------------------------------
(***************************************************************************)
(* What a step may publish: a new round, the deadline of a check that      *)
(* starts, or a counted result.                                            *)
(***************************************************************************)
TakenBy(w, p) ==
    /\ shm'[p].worker = w /\ shm'[p].instance = proc[w].instance
    /\ shm'[p].round = shm[p].round + 1
    /\ Entitled(w, p) \/ now >= Deadline(shm[p]) + Grace

PublishedBy(w, p) ==
    /\ Owned(w, p)
    /\ shm' = [shm EXCEPT ![p] = InFlight(@, probe[w][p])]
    /\ shm[p].phase = "PREPARING" /\ shm'[p].phase = "INFLIGHT"

CountedBy(w, p) ==
    /\ Owned(w, p) /\ Running(shm[p])
    /\ \E result \in BOOLEAN : CountedStep(p, result)

LEMMA SubmitPublishes ==
    ASSUME TypeOK, NEW w \in Workers, NEW p \in Peers, NEW result \in BOOLEAN,
           Submit(w, p, result) \/ Finish(w, p, result)
    PROVE  /\ shm'[p] = shm[p] \/ CountedBy(w, p)
           /\ \A q \in Peers \ {p} : shm'[q] = shm[q]
<1>1. CASE Submit(w, p, result)
  BY <1>1, SubmitEffect DEF CountedBy, Elsewhere
<1>2. CASE ~Submit(w, p, result)
  BY <1>2, FinishEffect DEF Elsewhere
<1> QED BY <1>1, <1>2

LEMMA ClaimPublishes ==
    ASSUME TypeOK, NEW w \in Workers, NEW p \in Peers, NEW at \in Readings,
           Claim(w, p, at), Entitled(w, p) \/ at >= Deadline(shm[p]) + Grace
    PROVE  /\ TakenBy(w, p)
           /\ \A q \in Peers \ {p} : shm'[q] = shm[q]
<1>1. at \in Nat /\ at <= now /\ now \in Nat
  BY ReadingType DEF Readings, TypeOK
<1>2. Deadline(shm[p]) + Grace \in Int
  <2>1. Larger(CheckInterval, Floor) \in Int /\ Larger(CheckInterval \div 2, 1) \in Int
    BY ScheduleAssumption DEF Larger
  <2>2. activatedAt \in Int /\ shm[p].deadline \in Int /\ Grace \in Int
    BY ScheduleAssumption DEF TypeOK, Never, PeerStates
  <2> QED BY <2>1, <2>2 DEF Deadline
<1>3. Entitled(w, p) \/ now >= Deadline(shm[p]) + Grace
  BY <1>1, <1>2
<1>4. /\ shm'[p].worker = w /\ shm'[p].instance = proc[w].instance
      /\ shm'[p].round = shm[p].round + 1
      /\ \A q \in Peers \ {p} : shm'[q] = shm[q]
  BY <1>1, ClaimEffect
<1> QED BY <1>3, <1>4 DEF TakenBy

LEMMA Publications ==
    ASSUME BudgetInv, [Next]_vars, NEW p \in Peers, shm'[p] # shm[p]
    PROVE  \E w \in Workers : TakenBy(w, p) \/ PublishedBy(w, p) \/ CountedBy(w, p)
<1>1. TypeOK /\ TypeOK'
  BY TypeStep DEF BudgetInv
<1>2. CASE \E w \in Workers : ProcessStep(w)
  <2>1. PICK w \in Workers : WatchClaim(w)
    BY <1>2 DEF ProcessStep, StartProcess, WatchRegister, Quit, Stop, Die
  <2>2. PICK o \in watch[w], at \in Readings :
           Claim(w, o.peer, at) /\ at >= Deadline(shm[o.peer]) + Grace
    BY <2>1 DEF WatchClaim
  <2>3. o.peer \in Peers
    BY <1>1 DEF TypeOK, Takeovers
  <2> QED BY <1>1, <2>2, <2>3, ClaimPublishes
<1>3. CASE \E w \in Workers, q \in Peers : PeerStep(w, q)
  <2>1. PICK w \in Workers, q \in Peers : PeerStep(w, q)
    BY <1>3
  <2>2. CASE Begin(w, q)
    <3>1. PICK at \in Readings : Claim(w, q, at) /\ Entitled(w, q)
      BY <2>2 DEF Begin
    <3> QED BY <1>1, <3>1, ClaimPublishes
  <2>3. CASE ProbeWaiting(w, q)
    <3>1. /\ shm[q].phase = "PREPARING" /\ shm'[q].phase = "INFLIGHT"
          /\ \A r \in Peers \ {q} : shm'[r] = shm[r]
      BY <1>1, <2>3, WaitingBudget DEF Elsewhere
    <3>2. Owned(w, q) /\ shm' = [shm EXCEPT ![q] = InFlight(@, probe[w][q])]
      BY <2>3 DEF ProbeWaiting
    <3> QED BY <3>1, <3>2 DEF PublishedBy
  <2>4. CASE ProbeNotPrepared(w, q) \/ ProbeTimeout(w, q)
    <3>1. Finish(w, q, q \in Udp) /\ (q \in Udp) \in BOOLEAN
      BY <2>4 DEF ProbeNotPrepared, ProbeTimeout
    <3>2. (shm'[q] = shm[q] \/ CountedBy(w, q)) /\ \A r \in Peers \ {q} : shm'[r] = shm[r]
      BY <1>1, <3>1, SubmitPublishes, Zenon
    <3> QED BY <3>2
  <2>5. CASE TcpResult(w, q)
    BY <1>1, <2>5, SubmitPublishes DEF TcpResult
  <2>6. CASE UdpResult(w, q)
    <3>1. PICK refused \in BOOLEAN : Finish(w, q, ~refused)
      BY <2>6 DEF UdpResult
    <3>2. (~refused) \in BOOLEAN
      OBVIOUS
    <3>3. (shm'[q] = shm[q] \/ CountedBy(w, q)) /\ \A r \in Peers \ {q} : shm'[r] = shm[r]
      BY <1>1, <3>1, <3>2, SubmitPublishes, Zenon
    <3> QED BY <3>3
  <2>7. CASE WatchSubmit(w, q)
    <3>1. Submit(w, q, probe[w][q].result) /\ probe[w][q].result \in BOOLEAN
      BY <1>1, <2>7 DEF WatchSubmit, TypeOK, Probes
    <3> QED BY <1>1, <3>1, SubmitPublishes
  <2> QED BY <2>1, <2>2, <2>3, <2>4, <2>5, <2>6, <2>7
          DEF PeerStep, BeginDeclined, ProbeLost, ProbePrepared, WatchRead
<1>4. CASE Tick \/ UNCHANGED vars
  BY <1>4 DEF Tick, vars
<1> QED BY <1>2, <1>3, <1>4 DEF Next

----------------------------------------------------------------------------
(***************************************************************************)
(* Deadlines and takeovers                                                 *)
(***************************************************************************)
\* Only progress moves a deadline: the watch and the other events of a round
\* cannot extend it.
THEOREM DeadlineSafety == Spec => DeadlineMovesWithPhase
<1> DEFINE Moves(p) ==
      shm'[p].round = shm[p].round /\ shm'[p].deadline # shm[p].deadline =>
          \/ shm[p].phase = "PREPARING" /\ shm'[p].phase = "INFLIGHT"
          \/ Running(shm[p]) /\ shm'[p].phase = "WAITING"
<1>1. ASSUME BudgetInv, [Next]_vars, NEW p \in Peers PROVE Moves(p)
  <2> SUFFICES ASSUME shm'[p] # shm[p], shm'[p].round = shm[p].round
               PROVE  \/ shm[p].phase = "PREPARING" /\ shm'[p].phase = "INFLIGHT"
                      \/ Running(shm[p]) /\ shm'[p].phase = "WAITING"
    OBVIOUS
  <2>1. shm[p].round \in Nat
    BY <1>1 DEF BudgetInv, TypeOK, PeerStates
  <2>2. PICK w \in Workers : TakenBy(w, p) \/ PublishedBy(w, p) \/ CountedBy(w, p)
    BY <1>1, Publications
  <2> QED BY <2>1, <2>2 DEF TakenBy, PublishedBy, CountedBy, CountedStep
<1>2. BudgetInv /\ [Next]_vars => \A p \in Peers : Moves(p)
  BY <1>1
<1>3. BudgetInv /\ [Next]_vars => [\A p \in Peers : Moves(p)]_vars
  BY <1>2
<1> QED BY <1>3, BudgetSafety, PTL DEF Spec, DeadlineMovesWithPhase

\* A watch that read the peer earlier, from any process, takes the round from a
\* working owner only after the deadline the owner itself works with.
THEOREM TakeoverSafety == Spec => NoEarlyTakeover
<1> DEFINE Fair(w, p) ==
      /\ OwnedAlive(w, p) /\ Active(probe[w][p]) /\ probe[w][p].published
      /\ ~Own(w, shm'[p])
      => now >= probe[w][p].deadline + Grace
<1>1. ASSUME OwnershipInv, BudgetInv, [Next]_vars, NEW w \in Workers, NEW p \in Peers
      PROVE  Fair(w, p)
  <2> SUFFICES ASSUME OwnedAlive(w, p), Active(probe[w][p]), probe[w][p].published,
                      ~Own(w, shm'[p])
               PROVE  now >= probe[w][p].deadline + Grace
    OBVIOUS
  <2>1. SameRound(w, shm[p], probe[w][p]) /\ Own(w, shm[p])
    BY <1>1 DEF OwnershipInv, Owner, OwnedAlive
  <2>2. shm[p].phase = "INFLIGHT" /\ shm[p].deadline = probe[w][p].deadline
    BY <1>1, <2>1 DEF BudgetInv, ProbeBudget
  <2>3. PICK v \in Workers : TakenBy(v, p)
    <3>1. shm'[p] # shm[p]
      BY <2>1
    <3>2. PICK v \in Workers : TakenBy(v, p) \/ PublishedBy(v, p) \/ CountedBy(v, p)
      BY <1>1, <3>1, Publications
    <3> QED BY <2>1, <2>2, <3>2 DEF PublishedBy, CountedBy, CountedStep, Own
  <2>4. ~Entitled(v, p)
    BY <2>1, <2>3 DEF TakenBy, Entitled, Own
  <2>5. Deadline(shm[p]) = probe[w][p].deadline
    BY <2>2 DEF Deadline
  <2> QED BY <2>3, <2>4, <2>5 DEF TakenBy
<1>2. OwnershipInv /\ BudgetInv /\ [Next]_vars =>
         [\A w \in Workers, p \in Peers : Fair(w, p)]_vars
  BY <1>1
<1> QED BY <1>2, OwnershipSafety, BudgetSafety, PTL DEF Spec, NoEarlyTakeover


----------------------------------------------------------------------------
(***************************************************************************)
(* How steps of the scheduler look in PeerRounds.                          *)
(***************************************************************************)
WorkersOf(p) == {w \in Workers : Working(w, p)}

VerdictKept(p) ==
    /\ shm'[p].down = shm[p].down
    /\ shm'[p].rise = shm[p].rise /\ shm'[p].fall = shm[p].fall

OthersKept(p) ==
    \A q \in Peers \ {p} : shm'[q] = shm[q] /\ WorkersOf(q)' = WorkersOf(q)

LEMMA OneWorker ==
    \A w \in Workers, p \in Peers : Working(w, p) => shm[p].worker = w
BY DEF Working, SameRound

\* No process starts to work on a round without a claim.
LEMMA QuietStep ==
    ASSUME \A p \in Peers : shm'[p].round = shm[p].round /\ VerdictKept(p),
           \A w \in Workers, p \in Peers : Working(w, p)' => Working(w, p)
    PROVE  Rounds!Leave
<1> DEFINE lost == {p \in Peers : WorkersOf(p)' # WorkersOf(p)}
<1>1. \A p \in lost : WorkersOf(p)' = {}
  BY OneWorker DEF WorkersOf
<1>2. \A p \in Peers : WorkersOf(p)' = IF p \in lost THEN {} ELSE WorkersOf(p)
  BY <1>1
<1>3. [p \in Peers |-> WorkersOf(p)]' =
         [p \in Peers |-> IF p \in lost THEN {} ELSE [q \in Peers |-> WorkersOf(q)][p]]
  BY <1>2
<1>4. lost \in SUBSET Peers
  OBVIOUS
<1> HIDE DEF lost
<1>5. /\ [p \in Peers |-> shm[p].round]' = [p \in Peers |-> shm[p].round]
      /\ [p \in Peers |-> shm[p].down]' = [p \in Peers |-> shm[p].down]
      /\ [p \in Peers |-> AtMost(shm[p].rise, RiseCount)]' =
            [p \in Peers |-> AtMost(shm[p].rise, RiseCount)]
      /\ [p \in Peers |-> AtMost(shm[p].fall, FallCount)]' =
            [p \in Peers |-> AtMost(shm[p].fall, FallCount)]
  BY DEF VerdictKept
<1> QED BY <1>3, <1>4, <1>5 DEF Rounds!Leave, WorkersOf

\* A claim starts the next round, with the claimer as its only worker.
LEMMA StartStep ==
    ASSUME NEW w \in Workers, NEW p \in Peers, OthersKept(p), VerdictKept(p),
           shm'[p].round = shm[p].round + 1,
           WorkersOf(p)' = {w}
    PROVE  Rounds!Start(p)
<1>1. [q \in Peers |-> shm[q].round]' =
         [[q \in Peers |-> shm[q].round] EXCEPT ![p] = @ + 1]
  BY DEF OthersKept
<1>2. [q \in Peers |-> WorkersOf(q)]' = [[q \in Peers |-> WorkersOf(q)] EXCEPT ![p] = {w}]
  BY DEF OthersKept
<1>3. /\ [q \in Peers |-> shm[q].down]' = [q \in Peers |-> shm[q].down]
      /\ [q \in Peers |-> AtMost(shm[q].rise, RiseCount)]' =
            [q \in Peers |-> AtMost(shm[q].rise, RiseCount)]
      /\ [q \in Peers |-> AtMost(shm[q].fall, FallCount)]' =
            [q \in Peers |-> AtMost(shm[q].fall, FallCount)]
  BY DEF OthersKept, VerdictKept
<1> QED BY <1>1, <1>2, <1>3 DEF Rounds!Start, WorkersOf

\* A counter beyond its threshold counts as being at the threshold.
LEMMA NextAtMost ==
    ASSUME NEW count \in 0..MaxCount, NEW limit \in Nat, 0 < limit, limit <= MaxCount,
           NEW n, n = NextCount(count, limit)
    PROVE  /\ AtMost(n, limit) \in 1..limit
           /\ \/ AtMost(n, limit) = AtMost(count, limit) + 1
              \/ AtMost(count, limit) = limit /\ AtMost(n, limit) = limit
           /\ AtMost(n, limit) = limit <=> n >= limit
           /\ n \in Nat
BY ScheduleAssumption DEF NextCount, AtMost

LEMMA CountedVerdict ==
    ASSUME NEW s \in PeerStates, NEW result \in BOOLEAN
    PROVE  /\ result =>
                 /\ Counted(s, result).rise = NextCount(s.rise, RiseCount)
                 /\ Counted(s, result).fall = 0
                 /\ Counted(s, result).down =
                       (s.down /\ NextCount(s.rise, RiseCount) < RiseCount)
           /\ ~result =>
                 /\ Counted(s, result).fall = NextCount(s.fall, FallCount)
                 /\ Counted(s, result).rise = 0
                 /\ Counted(s, result).down =
                       (s.down \/ NextCount(s.fall, FallCount) >= FallCount)
BY DEF Counted, PeerStates

\* A counted result is a success or a failure of the round's only worker.
LEMMA CountStep ==
    ASSUME TypeOK, NEW p \in Peers, NEW result \in BOOLEAN, OthersKept(p),
           CountedStep(p, result),
           WorkersOf(p) # {}, WorkersOf(p)' = {}
    PROVE  Rounds!Count(p)
<1> DEFINE s == shm[p]
           rise(q) == AtMost(shm[q].rise, RiseCount)
           fall(q) == AtMost(shm[q].fall, FallCount)
<1>1. s \in PeerStates /\ s.rise \in 0..MaxCount /\ s.fall \in 0..MaxCount
      /\ s.down \in BOOLEAN
  BY DEF TypeOK, PeerStates
<1>2. /\ shm'[p].down = Counted(s, result).down
      /\ shm'[p].rise = Counted(s, result).rise
      /\ shm'[p].fall = Counted(s, result).fall
      /\ shm'[p].round = s.round
  BY DEF CountedStep
<1>3. /\ RiseCount \in Nat /\ 0 < RiseCount /\ RiseCount <= MaxCount
      /\ FallCount \in Nat /\ 0 < FallCount /\ FallCount <= MaxCount
      /\ AtMost(0, RiseCount) = 0 /\ AtMost(0, FallCount) = 0
  BY ScheduleAssumption DEF AtMost
<1>4. [q \in Peers |-> shm[q].round]' = [q \in Peers |-> shm[q].round]
  BY <1>2 DEF OthersKept
<1>5. [q \in Peers |-> WorkersOf(q)]' = [[q \in Peers |-> WorkersOf(q)] EXCEPT ![p] = {}]
  BY DEF OthersKept
<1>6. CASE result
  <2> DEFINE m == NextCount(s.rise, RiseCount)
             n == AtMost(m, RiseCount)
  <2>1. /\ n \in 1..RiseCount /\ m \in Nat
        /\ n = rise(p) + 1 \/ (rise(p) = RiseCount /\ n = RiseCount)
        /\ n = RiseCount <=> m >= RiseCount
    BY <1>1, <1>3, NextAtMost
  <2>2. /\ shm'[p].rise = m /\ shm'[p].fall = 0
        /\ shm'[p].down = (s.down /\ m < RiseCount)
    BY <1>1, <1>2, <1>6, CountedVerdict
  <2>3. shm'[p].down = (s.down /\ n # RiseCount)
    BY <1>3, <2>1, <2>2
  <2> HIDE DEF m
  <2>4. [q \in Peers |-> rise(q)]' = [[q \in Peers |-> rise(q)] EXCEPT ![p] = n]
    BY <2>2 DEF OthersKept
  <2>5. [q \in Peers |-> fall(q)]' = [[q \in Peers |-> fall(q)] EXCEPT ![p] = 0]
    BY <1>3, <2>2 DEF OthersKept
  <2>6. [q \in Peers |-> shm[q].down]' =
           [[q \in Peers |-> shm[q].down] EXCEPT ![p] = @ /\ n # RiseCount]
    BY <2>3 DEF OthersKept
  <2> HIDE DEF n
  <2>7. Rounds!Success(p)
    BY <2>1, <2>4, <2>5, <2>6 DEF Rounds!Success
  <2> QED BY <1>4, <1>5, <2>7 DEF Rounds!Count, WorkersOf
<1>7. CASE ~result
  <2> DEFINE m == NextCount(s.fall, FallCount)
             n == AtMost(m, FallCount)
  <2>1. /\ n \in 1..FallCount /\ m \in Nat
        /\ n = fall(p) + 1 \/ (fall(p) = FallCount /\ n = FallCount)
        /\ n = FallCount <=> m >= FallCount
    BY <1>1, <1>3, NextAtMost
  <2>2. /\ shm'[p].fall = m /\ shm'[p].rise = 0
        /\ shm'[p].down = (s.down \/ m >= FallCount)
    BY <1>1, <1>2, <1>7, CountedVerdict
  <2>3. shm'[p].down = (s.down \/ n = FallCount)
    BY <1>3, <2>1, <2>2
  <2> HIDE DEF m
  <2>4. [q \in Peers |-> fall(q)]' = [[q \in Peers |-> fall(q)] EXCEPT ![p] = n]
    BY <2>2 DEF OthersKept
  <2>5. [q \in Peers |-> rise(q)]' = [[q \in Peers |-> rise(q)] EXCEPT ![p] = 0]
    BY <1>3, <2>2 DEF OthersKept
  <2>6. [q \in Peers |-> shm[q].down]' =
           [[q \in Peers |-> shm[q].down] EXCEPT ![p] = @ \/ n = FallCount]
    BY <2>3 DEF OthersKept
  <2> HIDE DEF n
  <2>7. Rounds!Failure(p)
    BY <2>1, <2>4, <2>5, <2>6 DEF Rounds!Failure
  <2> QED BY <1>4, <1>5, <2>7 DEF Rounds!Count, WorkersOf
<1> QED BY <1>6, <1>7

----------------------------------------------------------------------------
(***************************************************************************)
(* The handlers                                                            *)
(***************************************************************************)
LEMMA ClaimRounds ==
    ASSUME TypeOK, NEW w \in Workers, NEW p \in Peers, NEW at \in Nat,
           Claim(w, p, at), Alive(w), UNCHANGED proc
    PROVE  Rounds!Start(p)
<1>1. /\ shm'[p].worker = w /\ shm'[p].round = shm[p].round + 1 /\ VerdictKept(p)
      /\ SameRound(w, shm'[p], probe'[w][p]) /\ probe'[w][p].stage = "prepare"
      /\ Elsewhere(w, p)
  BY ClaimEffect DEF VerdictKept, Elsewhere
<1>2. OthersKept(p)
  BY <1>1 DEF OthersKept, WorkersOf, Working, Elsewhere, Alive, SameRound
<1>3. WorkersOf(p)' = {w}
  BY <1>1 DEF WorkersOf, Working, Alive, SameRound
<1> QED BY <1>1, <1>2, <1>3, StartStep

LEMMA SubmitRounds ==
    ASSUME TypeOK, NEW w \in Workers, NEW p \in Peers, NEW result \in BOOLEAN,
           Submit(w, p, result), Alive(w), probe[w][p].stage # "idle",
           UNCHANGED proc
    PROVE  Rounds!Count(p) \/ Rounds!Leave
<1>1. /\ Elsewhere(w, p) /\ probe'[w][p].stage = "idle"
      /\ \/ Owned(w, p) /\ CountedStep(p, result)
         \/ UNCHANGED shm
  BY SubmitEffect, IdleFields DEF TypeOK
<1>2. CASE Owned(w, p) /\ CountedStep(p, result)
  <2>1. w \in WorkersOf(p)
    BY <1>2 DEF WorkersOf, Working, Owned
  <2>2. WorkersOf(p)' = {}
    <3>1. shm'[p].worker = w
      BY <1>2 DEF Owned, SameRound, CountedStep
    <3> QED BY <1>1, <3>1 DEF WorkersOf, Working, SameRound
  <2>3. OthersKept(p)
    BY <1>1 DEF OthersKept, WorkersOf, Working, Elsewhere, Alive, SameRound
  <2>4. WorkersOf(p) # {}
    BY <2>1
  <2>5. Rounds!Count(p)
    BY <1>2, <2>2, <2>3, <2>4, CountStep
  <2> QED BY <2>5
<1>3. CASE UNCHANGED shm
  <2>1. \A v \in Workers, q \in Peers : Working(v, q)' => Working(v, q)
    BY <1>1, <1>3 DEF Working, Elsewhere, Alive, SameRound
  <2> QED BY <1>3, <2>1, QuietStep DEF VerdictKept
<1> QED BY <1>1, <1>2, <1>3

\* A step that leaves the peers and the identity of every working probe alone.
LEMMA LocalRounds ==
    ASSUME UNCHANGED shm,
           \A w \in Workers, p \in Peers :
              Alive(w)' /\ probe'[w][p].stage # "idle" =>
                 /\ Alive(w) /\ probe[w][p].stage # "idle"
                 /\ probe'[w][p].instance = probe[w][p].instance
                 /\ probe'[w][p].term = probe[w][p].term
                 /\ probe'[w][p].round = probe[w][p].round
    PROVE  Rounds!Leave
<1>1. \A w \in Workers, p \in Peers : Working(w, p)' => Working(w, p)
  BY DEF Working, SameRound
<1> QED BY <1>1, QuietStep DEF VerdictKept

LEMMA FinishRounds ==
    ASSUME TypeOK, NEW w \in Workers, NEW p \in Peers, NEW result \in BOOLEAN,
           Finish(w, p, result), Alive(w), probe[w][p].stage # "idle",
           UNCHANGED proc
    PROVE  Rounds!Count(p) \/ Rounds!Leave
<1>1. CASE Submit(w, p, result)
  BY <1>1, SubmitRounds
<1>2. CASE ~Submit(w, p, result)
  BY <1>2, FinishEffect, LocalRounds DEF Elsewhere, Alive
<1> QED BY <1>1, <1>2

LEMMA PeerStepRounds ==
    ASSUME OwnershipInv, NEW w \in Workers, NEW p \in Peers, PeerStep(w, p)
    PROVE  Rounds!Start(p) \/ Rounds!Count(p) \/ Rounds!Leave
<1>1. /\ TypeOK /\ Readings \subseteq Nat
      /\ probe \in [Workers -> [Peers -> Probes]] /\ probe[w][p] \in Probes
  BY ReadingType DEF OwnershipInv, TypeOK
<1>2. Alive(w) /\ UNCHANGED proc
  BY DEF PeerStep, Begin, BeginDeclined, ProbeLost, ProbePrepared,
         ProbeNotPrepared, ProbeWaiting, TcpResult, UdpResult, ProbeTimeout,
         WatchSubmit, WatchRead, Handling
<1>3. CASE Begin(w, p)
  <2>1. PICK at \in Readings : Claim(w, p, at)
    BY <1>3 DEF Begin
  <2> QED BY <1>1, <1>2, <2>1, ClaimRounds
<1>4. CASE BeginDeclined(w, p)
  BY <1>2, <1>4, LocalRounds DEF BeginDeclined, Alive
<1>5. CASE ProbeLost(w, p) \/ WatchRead(w, p)
  <2>1. /\ UNCHANGED shm
        /\ probe' = [probe EXCEPT ![w][p] = Idle(@)] \/ probe' = probe
    BY <1>5 DEF ProbeLost, WatchRead
  <2>2. \A v \in Workers, q \in Peers :
           probe'[v][q] = probe[v][q] \/ probe'[v][q].stage = "idle"
    BY <1>1, <2>1, IdleFields
  <2> QED BY <1>2, <2>1, <2>2, LocalRounds DEF Alive
<1>6. CASE ProbePrepared(w, p)
  <2> DEFINE started == [probe[w][p] EXCEPT !.stage = "io",
                                            !.deadline = CheckDeadline(w, p)]
  <2>1. /\ probe' = [probe EXCEPT ![w][p] = started] /\ UNCHANGED shm
        /\ probe[w][p].stage # "idle"
    BY <1>6 DEF ProbePrepared
  <2>2. /\ started.instance = probe[w][p].instance
        /\ started.term = probe[w][p].term /\ started.round = probe[w][p].round
    BY <1>1 DEF Probes
  <2> HIDE DEF started
  <2>3. \A v \in Workers, q \in Peers :
           probe'[v][q] = IF v = w /\ q = p THEN started ELSE probe[v][q]
    BY <1>1, <2>1
  <2> QED BY <1>2, <2>1, <2>2, <2>3, LocalRounds DEF Alive
<1>7. CASE ProbeNotPrepared(w, p) \/ ProbeTimeout(w, p)
  <2>1. /\ Finish(w, p, p \in Udp) /\ (p \in Udp) \in BOOLEAN
        /\ probe[w][p].stage # "idle"
    BY <1>7 DEF ProbeNotPrepared, ProbeTimeout, Active
  <2> QED BY <1>1, <1>2, <2>1, FinishRounds, Zenon
<1>8. CASE ProbeWaiting(w, p)
  <2> DEFINE s == shm[p]
             pr == probe[w][p]
  <2>1. /\ shm' = [shm EXCEPT ![p] = InFlight(s, pr)]
        /\ probe' = [probe EXCEPT ![w][p] = [pr EXCEPT !.published = TRUE]]
    BY <1>8 DEF ProbeWaiting
  <2>2. /\ InFlight(s, pr).worker = s.worker /\ InFlight(s, pr).instance = s.instance
        /\ InFlight(s, pr).term = s.term /\ InFlight(s, pr).round = s.round
        /\ InFlight(s, pr).down = s.down
        /\ InFlight(s, pr).rise = s.rise /\ InFlight(s, pr).fall = s.fall
    BY <1>1 DEF InFlight, PeerStates, TypeOK
  <2>3. \A q \in Peers :
           /\ shm'[q].worker = shm[q].worker /\ shm'[q].instance = shm[q].instance
           /\ shm'[q].term = shm[q].term /\ shm'[q].round = shm[q].round
           /\ VerdictKept(q)
    <3>1. \A q \in Peers : shm'[q] = IF q = p THEN InFlight(s, pr) ELSE shm[q]
      BY <1>1, <2>1 DEF TypeOK
    <3> HIDE DEF s, pr
    <3> QED BY <2>2, <3>1 DEF VerdictKept, s
  <2>4. \A v \in Workers, q \in Peers :
           /\ probe'[v][q].stage = probe[v][q].stage
           /\ probe'[v][q].instance = probe[v][q].instance
           /\ probe'[v][q].term = probe[v][q].term
           /\ probe'[v][q].round = probe[v][q].round
    BY <1>1, <2>1 DEF Probes
  <2>5. \A v \in Workers, q \in Peers : Working(v, q)' => Working(v, q)
    BY <1>2, <2>3, <2>4 DEF Working, SameRound, Alive
  <2> QED BY <2>3, <2>5, QuietStep
<1>9. CASE TcpResult(w, p)
  <2>1. PICK open \in BOOLEAN : Finish(w, p, open)
    BY <1>9 DEF TcpResult
  <2>2. probe[w][p].stage # "idle"
    BY <1>9 DEF TcpResult
  <2> QED BY <1>1, <1>2, <2>1, <2>2, FinishRounds
<1>10. CASE UdpResult(w, p)
  <2>1. PICK refused \in BOOLEAN : Finish(w, p, ~refused)
    BY <1>10 DEF UdpResult
  <2>2. probe[w][p].stage # "idle" /\ (~refused) \in BOOLEAN
    BY <1>10 DEF UdpResult
  <2> QED BY <1>1, <1>2, <2>1, <2>2, FinishRounds, Zenon
<1>11. CASE WatchSubmit(w, p)
  <2>1. /\ Submit(w, p, probe[w][p].result) /\ probe[w][p].result \in BOOLEAN
        /\ probe[w][p].stage # "idle"
    BY <1>1, <1>11 DEF WatchSubmit, Probes
  <2> QED BY <1>1, <1>2, <2>1, SubmitRounds
<1> QED BY <1>3, <1>4, <1>5, <1>6, <1>7, <1>8, <1>9, <1>10, <1>11 DEF PeerStep

LEMMA ProcessRounds ==
    ASSUME OwnershipInv, NEW w \in Workers, ProcessStep(w)
    PROVE  Rounds!Leave \/ \E p \in Peers : Rounds!Start(p)
<1>1. /\ TypeOK /\ Readings \subseteq Nat
      /\ proc \in [Workers -> Procs] /\ probe \in [Workers -> [Peers -> Probes]]
      /\ proc[w] \in Procs /\ DeadIsIdle(w)
  BY ReadingType DEF OwnershipInv, TypeOK
<1>2. CASE StartProcess(w)
  <2>1. PICK pid \in Pids : Join(w, pid) \/ JoinLater(w, pid)
    BY <1>2 DEF StartProcess
  <2>2. ~Alive(w) /\ UNCHANGED <<shm, probe>>
    BY <1>2 DEF StartProcess
  <2>3. \A v \in Workers \ {w} : proc'[v] = proc[v]
    BY <1>1, <2>1 DEF Join, JoinLater
  <2> QED BY <1>1, <2>2, <2>3, LocalRounds DEF DeadIsIdle, Alive
<1>3. CASE WatchRegister(w)
  <2>1. Join(w, proc[w].pid) \/ JoinLater(w, proc[w].pid)
    BY <1>3 DEF WatchRegister
  <2>2. Alive(w) /\ UNCHANGED <<shm, probe>>
    BY <1>3 DEF WatchRegister, Handling
  <2>3. \A v \in Workers \ {w} : proc'[v] = proc[v]
    BY <1>1, <2>1 DEF Join, JoinLater
  <2> QED BY <2>2, <2>3, LocalRounds DEF Alive
<1>4. CASE WatchClaim(w)
  <2>1. PICK o \in watch[w] :
           /\ Alive(w) /\ UNCHANGED proc
           /\ \/ \E at \in Readings : Claim(w, o.peer, at)
              \/ UNCHANGED <<shm, probe>>
    BY <1>4 DEF WatchClaim
  <2>2. o.peer \in Peers
    BY <1>1 DEF TypeOK, Takeovers
  <2>3. ASSUME NEW at \in Readings, Claim(w, o.peer, at)
        PROVE  \E p \in Peers : Rounds!Start(p)
    <3>1. Rounds!Start(o.peer)
      BY <1>1, <2>1, <2>2, <2>3, ClaimRounds
    <3> QED BY <2>2, <3>1
  <2>4. ASSUME UNCHANGED <<shm, probe>> PROVE Rounds!Leave
    BY <2>1, <2>4, LocalRounds DEF Alive
  <2> QED BY <2>1, <2>3, <2>4
<1>5. CASE Quit(w)
  <2>1. UNCHANGED <<shm, probe>> /\ \A v \in Workers : proc'[v].pid = proc[v].pid
    BY <1>1, <1>5 DEF Quit, Procs
  <2> QED BY <2>1, LocalRounds DEF Alive
<1>6. CASE Stop(w)
  <2>1. UNCHANGED shm /\ \A v \in Workers : proc'[v].pid = proc[v].pid
    BY <1>1, <1>6 DEF Stop, Procs
  <2>2. \A v \in Workers, q \in Peers :
           probe'[v][q] = probe[v][q] \/ probe'[v][q].stage = "idle"
    BY <1>1, <1>6, IdleFields DEF Stop
  <2> QED BY <2>1, <2>2, LocalRounds DEF Alive
<1>7. CASE Die(w)
  <2>1. /\ UNCHANGED shm /\ ~Alive(w)'
        /\ \A v \in Workers \ {w} : proc'[v] = proc[v] /\ probe'[v] = probe[v]
    BY <1>1, <1>7 DEF Die, NoProcess, Alive
  <2> QED BY <2>1, LocalRounds DEF Alive
<1> QED BY <1>2, <1>3, <1>4, <1>5, <1>6, <1>7 DEF ProcessStep

----------------------------------------------------------------------------
(***************************************************************************)
(* The refinement                                                          *)
(***************************************************************************)
LEMMA RoundsInit == ASSUME Init PROVE Rounds!PInit
<1>1. PICK down \in BOOLEAN, rise \in 0..MaxInherited, fall \in 0..MaxInherited,
           started \in 0..StartTime :
         shm = [p \in Peers |-> InitialState(p, down, rise, fall, started)]
  BY DEF Init
<1>2. \A p \in Peers : /\ shm[p].round = 0 /\ shm[p].down = down
                       /\ shm[p].rise = rise /\ shm[p].fall = fall
  BY <1>1 DEF InitialState
<1>3. AtMost(rise, RiseCount) \in 0..RiseCount /\ AtMost(fall, FallCount) \in 0..FallCount
  BY ScheduleAssumption DEF AtMost
<1>4. [p \in Peers |-> WorkersOf(p)] = [p \in Peers |-> {}]
  BY DEF WorkersOf, Working, Init, Alive, NoProcess
<1> QED BY <1>2, <1>3, <1>4 DEF Rounds!PInit, WorkersOf

LEMMA RoundsStep ==
    ASSUME OwnershipInv, [Next]_vars PROVE [Rounds!PNext]_Rounds!pvars
<1>1. CASE \E w \in Workers : ProcessStep(w)
  BY <1>1, ProcessRounds DEF Rounds!PNext
<1>2. CASE \E w \in Workers, p \in Peers : PeerStep(w, p)
  BY <1>2, PeerStepRounds DEF Rounds!PNext
<1>3. CASE Tick \/ UNCHANGED vars
  <2>1. UNCHANGED <<shm, proc, probe>>
    BY <1>3 DEF Tick, vars
  <2> QED BY <2>1, LocalRounds DEF Rounds!PNext, Alive
<1> QED BY <1>1, <1>2, <1>3 DEF Next

\* At most one result is counted for a round, by the process that started it and
\* while it is the latest round; the verdict changes exactly when as many
\* consecutive results as configured agree (claim, owned_lock and submit).
THEOREM RoundsRefinement == Spec => ImplementsPeerRounds
<1>1. Init => Rounds!PInit
  BY RoundsInit
<1>2. OwnershipInv /\ [Next]_vars => [Rounds!PNext]_Rounds!pvars
  BY RoundsStep
<1> QED BY <1>1, <1>2, OwnershipSafety, PTL DEF Spec, ImplementsPeerRounds, Rounds!PSpec
=============================================================================
