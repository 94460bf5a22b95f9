-------------------------- MODULE TakeoverProofs --------------------------
(***************************************************************************)
(* Proofs about Takeover: its types, and that a cycle is activated once.   *)
(***************************************************************************)
EXTENDS Takeover, FiniteSetTheorems, TLAPS

\* The places between the two looks at the flag and its store.
Activating == {"store", "flag"}

\* Types, but for the number of holders, which HolderActivates bounds.
Types ==
    /\ active \in Activations
    /\ reg \in [Workers -> 0..Unregistered]
    /\ peer \in [Peers -> PeerStates]
    /\ proc \in [Workers -> Procs]
    /\ deaths \in 0..MaxDeaths

(***************************************************************************)
(* A worker on its way to storing the flag is alive, has the lock, alone,  *)
(* and the flag is not stored yet; who has the lock is on that way.        *)
(***************************************************************************)
HolderActivates ==
    /\ \A w \in Workers : proc[w].at \in Activating => holder = {w} /\ ~active.flag
    /\ holder = {} \/ \E w \in Workers : holder = {w}

\* A watch that goes on has visits left.
VisitsLeft == \A w \in Workers : proc[w].at = "visit" => proc[w].left # 0

TakeoverInv == Types /\ HolderActivates /\ VisitsLeft

----------------------------------------------------------------------------
(***************************************************************************)
(* What the actions do to the types                                        *)
(***************************************************************************)
LEMMA WorkersAreNumbers ==
    /\ NumPeers \in Nat \ {0} /\ Batch \in Nat \ {0}
    /\ Grace \in Nat \ {0} /\ Preference \in Nat
    /\ 0 \in Peers
    /\ \A w \in Workers : w \in Nat
    /\ \A p \in Peers : p \in Nat
    /\ Sound \subseteq Workers
BY TakeoverAssumption DEF Workers, Peers

LEMMA ModuloRange ==
    ASSUME NEW n \in Nat, NEW m \in Nat \ {0}
    PROVE  n % m \in 0..(m - 1)
OBVIOUS

\* Every home is a worker number.
LEMMA HomeType == ASSUME NEW p \in Peers PROVE Home(p) \in Workers
<1>1. p \in Nat /\ NumWorkers \in Nat \ {0}
  BY WorkersAreNumbers, TakeoverAssumption
<1>2. QED
  BY <1>1, ModuloRange DEF Home, Workers

\* What becomes of a process: it keeps its type, gets to a place outside the
\* activation, and has visits left if it goes on with its watch.
Outside(r) ==
    /\ r \in Procs /\ r.at \notin Activating
    /\ r.at = "visit" => r.left # 0

LEMMA NoProcessOutside == Outside(NoProcess)
BY WorkersAreNumbers DEF Outside, NoProcess, Procs, Activating

LEMMA VisitingOutside == ASSUME NEW r \in Procs PROVE Outside(Visiting(r))
<1>1. Least(NumPeers, Batch) \in 0..Batch /\ Least(NumPeers, Batch) # 0
  BY TakeoverAssumption DEF Least
<1>2. QED
  BY <1>1 DEF Visiting, Outside, Procs, Activating

LEMMA OverOutside == ASSUME NEW r \in Procs PROVE Outside(Over(r))
<1>1. 0 \in 0..Batch
  BY WorkersAreNumbers
<1>2. Over(r) \in Procs
  BY <1>1 DEF Over, Procs
<1>3. Over(r).at = "out"
  BY DEF Over, Procs
<1>4. QED
  BY <1>2, <1>3 DEF Outside, Activating

LEMMA RestOutside == ASSUME NEW r \in Procs PROVE Outside(Rest(r))
<1>1. CASE r.left = 0
  BY <1>1, OverOutside DEF Rest
<1>2. CASE r.left # 0
  BY <1>2 DEF Rest, Outside, Procs, Activating
<1>3. QED
  BY <1>1, <1>2

LEMMA AdvancedType ==
    ASSUME NEW r \in Procs, r.left # 0
    PROVE  Advanced(r) \in Procs
<1>1. r.left \in 0..Batch /\ r.cursor \in Nat
  BY WorkersAreNumbers DEF Procs
<1>2. r.left - 1 \in 0..Batch
  BY <1>1, r.left # 0, WorkersAreNumbers
<1>3. (r.cursor + 1) % NumPeers \in Peers
  <2>1. r.cursor + 1 \in Nat /\ NumPeers \in Nat \ {0}
    BY <1>1, WorkersAreNumbers
  <2>2. QED
    BY <2>1, ModuloRange DEF Peers
<1>4. QED
  BY <1>2, <1>3 DEF Advanced, Procs

\* The claim of a peer, in what the watch keeps of it.
LEMMA ChosenOutside ==
    ASSUME NEW r \in Procs, r.left # 0
    PROVE  Outside([Advanced(r) EXCEPT !.at = "claim", !.unchanged = TRUE])
<1>1. Advanced(r) \in Procs
  BY AdvancedType
<1>2. QED
  BY <1>1 DEF Outside, Procs, Activating

----------------------------------------------------------------------------
(***************************************************************************)
(* Two forms of a step                                                     *)
(***************************************************************************)
\* A step that leaves the activation alone and moves processes only to places
\* outside of it.
LEMMA OutsideFrame ==
    ASSUME TakeoverInv, Types',
           UNCHANGED <<active, holder>>,
           \A w \in Workers : proc[w].at \in Activating => proc'[w].at = proc[w].at,
           \A w \in Workers : \/ proc'[w].at = proc[w].at /\ proc'[w].left = proc[w].left
                              \/ Outside(proc'[w])
    PROVE  TakeoverInv'
<1>1. ASSUME NEW w \in Workers, proc'[w].at \in Activating
      PROVE  proc[w].at \in Activating
  BY <1>1 DEF Outside
<1>2. HolderActivates'
  BY <1>1 DEF TakeoverInv, HolderActivates
<1>3. VisitsLeft'
  BY DEF TakeoverInv, VisitsLeft, Outside
<1>4. QED
  BY <1>2, <1>3 DEF TakeoverInv

\* A step of one process outside of the activation.
LEMMA ProcStep ==
    ASSUME TakeoverInv, NEW w \in Workers, NEW r, Outside(r),
           proc[w].at \notin Activating,
           proc' = [proc EXCEPT ![w] = r],
           UNCHANGED <<active, holder>>,
           reg' \in [Workers -> 0..Unregistered],
           peer' \in [Peers -> PeerStates],
           deaths' \in 0..MaxDeaths
    PROVE  TakeoverInv'
<1>1. r \in Procs /\ proc \in [Workers -> Procs]
  BY DEF Outside, TakeoverInv, Types
<1>2. proc' \in [Workers -> Procs]
  BY <1>1
<1>3. Types'
  BY <1>2 DEF TakeoverInv, Types
<1>4. QED
  BY <1>1, <1>3, OutsideFrame

\* A change of peers that processes with a claim take notice of.
LEMMA NoticedStep ==
    ASSUME NEW procs \in [Workers -> Procs], NEW p \in Peers
    PROVE  /\ Noticed(procs, p) \in [Workers -> Procs]
           /\ \A v \in Workers : /\ Noticed(procs, p)[v].at = procs[v].at
                               /\ Noticed(procs, p)[v].left = procs[v].left
<1>1. ASSUME NEW r \in Procs
      PROVE  /\ [r EXCEPT !.unchanged = FALSE] \in Procs
             /\ [r EXCEPT !.unchanged = FALSE].at = r.at
             /\ [r EXCEPT !.unchanged = FALSE].left = r.left
  BY <1>1 DEF Procs
<1>2. \A v \in Workers : procs[v] \in Procs
  OBVIOUS
<1>3. QED
  BY <1>1, <1>2 DEF Noticed

----------------------------------------------------------------------------
(***************************************************************************)
(* The actions                                                             *)
(***************************************************************************)
LEMMA InitInv == Init => TakeoverInv
<1> SUFFICES ASSUME Init PROVE TakeoverInv
  OBVIOUS
<1>1. 0 \in 0..(Grace + Preference) /\ Unregistered \in 0..Unregistered /\ 0 \in 0..MaxDeaths
  BY TakeoverAssumption DEF Unregistered
<1>2. \A p \in Peers : [worker |-> Home(p), instance |-> "none", overdue |-> 0] \in PeerStates
  BY <1>1, HomeType DEF PeerStates, Instances
<1>3. NoProcess \in Procs /\ NoProcess.at = "out"
  BY NoProcessOutside DEF Outside, NoProcess
<1>4. Types
  BY <1>1, <1>2, <1>3 DEF Init, Types, Activations
<1>5. QED
  BY <1>3, <1>4 DEF Init, TakeoverInv, HolderActivates, VisitsLeft, Activating

LEMMA StartInv == ASSUME TakeoverInv, NEW w \in Workers, Start(w) PROVE TakeoverInv'
<1>1. proc[w] \in Procs /\ proc \in [Workers -> Procs]
  BY DEF TakeoverInv, Types
<1>2. proc' = [proc EXCEPT ![w] = [proc[w] EXCEPT !.alive = TRUE]]
  BY <1>1 DEF Start
<1>3. [proc[w] EXCEPT !.alive = TRUE] \in Procs
  BY <1>1 DEF Procs
<1>4. /\ [proc[w] EXCEPT !.alive = TRUE].at = proc[w].at
      /\ [proc[w] EXCEPT !.alive = TRUE].left = proc[w].left
  BY <1>1 DEF Procs
<1>5. \A v \in Workers : proc'[v].at = proc[v].at /\ proc'[v].left = proc[v].left
  BY <1>1, <1>2, <1>4
<1>6. Types'
  BY <1>1, <1>2, <1>3 DEF Start, TakeoverInv, Types
<1>7. QED
  BY <1>5, <1>6, OutsideFrame DEF Start

\* Die lets go of the lock.
LEMMA DieInv == ASSUME TakeoverInv, NEW w \in Workers, Die(w) PROVE TakeoverInv'
<1>1. proc \in [Workers -> Procs] /\ deaths + 1 \in 0..MaxDeaths
  BY TakeoverAssumption DEF TakeoverInv, Types, Die
<1>2. NoProcess \in Procs /\ NoProcess.at = "out"
  BY NoProcessOutside DEF Outside, NoProcess
<1>3. proc' \in [Workers -> Procs]
  BY <1>1, <1>2 DEF Die
<1>4. proc'[w] = NoProcess /\ \A v \in Workers \ {w} : proc'[v] = proc[v]
  BY <1>1 DEF Die
<1>5. Types'
  BY <1>1, <1>3 DEF Die, TakeoverInv, Types
<1>6. ASSUME NEW v \in Workers, proc'[v].at \in Activating
      PROVE  holder' = {v} /\ ~active'.flag
  <2>1. v # w /\ proc[v].at \in Activating
    BY <1>2, <1>4, <1>6 DEF Activating
  <2>2. holder = {v} /\ ~active.flag
    BY <2>1 DEF TakeoverInv, HolderActivates
  <2>3. QED
    BY <2>1, <2>2 DEF Die
<1>7. holder' = {} \/ \E v \in Workers : holder' = {v}
  BY DEF TakeoverInv, HolderActivates, Die
<1>8. QED
  BY <1>2, <1>4, <1>5, <1>6, <1>7 DEF TakeoverInv, HolderActivates, VisitsLeft

LEMMA EnterInv == ASSUME TakeoverInv, NEW w \in Workers, Enter(w) PROVE TakeoverInv'
<1>1. proc[w] \in Procs /\ proc[w].at \notin Activating
  BY DEF TakeoverInv, Types, Enter, Activating
<1>2. PICK place \in {"register", "lock"} : proc' = [proc EXCEPT ![w].at = place]
  BY Zenon DEF Enter, Goto
<1>3. Outside([proc[w] EXCEPT !.at = place])
  BY <1>1, <1>2 DEF Outside, Procs, Activating
<1>4. QED
  BY <1>1, <1>2, <1>3, ProcStep DEF Enter, TakeoverInv, Types

\* Lock looks at the flag again: who goes on to activate the cycle has the
\* lock, and the flag is not stored.
LEMMA LockInv == ASSUME TakeoverInv, NEW w \in Workers, Lock(w) PROVE TakeoverInv'
<1>1. proc[w] \in Procs /\ proc \in [Workers -> Procs] /\ proc[w].at \notin Activating
  BY DEF TakeoverInv, Types, Lock, Activating
<1>2. CASE active.flag
  <2>1. proc' = [proc EXCEPT ![w].at = "register"] /\ UNCHANGED holder
    BY <1>2 DEF Lock, ActiveByNow, Goto
  <2>2. Outside([proc[w] EXCEPT !.at = "register"])
    BY <1>1 DEF Outside, Procs, Activating
  <2>3. QED
    BY <1>1, <2>1, <2>2, ProcStep DEF Lock, TakeoverInv, Types
<1>3. CASE ~active.flag
  <2>1. proc' = [proc EXCEPT ![w].at = "store"] /\ holder' = {w}
    BY <1>3 DEF Lock, ActiveByNow, Goto
  <2>2. [proc[w] EXCEPT !.at = "store"] \in Procs
    BY <1>1 DEF Procs
  <2>3. Types'
    BY <1>1, <2>1, <2>2 DEF Lock, TakeoverInv, Types
  <2>4. proc'[w].at = "store" /\ \A v \in Workers \ {w} : proc'[v] = proc[v]
    BY <1>1, <2>1 DEF Procs
  <2>5. \A v \in Workers \ {w} : proc[v].at \notin Activating
    BY DEF Lock, TakeoverInv, HolderActivates
  <2>6. QED
    BY <1>3, <2>1, <2>3, <2>4, <2>5
    DEF Lock, TakeoverInv, HolderActivates, VisitsLeft
<1>4. QED
  BY <1>2, <1>3

LEMMA StoreTimeInv == ASSUME TakeoverInv, NEW w \in Workers, StoreTime(w) PROVE TakeoverInv'
<1>1. proc[w] \in Procs /\ proc \in [Workers -> Procs] /\ active \in Activations
  BY DEF TakeoverInv, Types
<1>2. holder = {w} /\ ~active.flag
  BY DEF StoreTime, TakeoverInv, HolderActivates, Activating
<1>3. active' \in Activations /\ active'.flag = active.flag
  BY <1>1 DEF StoreTime, Activations
<1>4. [proc[w] EXCEPT !.at = "flag"] \in Procs
  BY <1>1 DEF Procs
<1>5. proc' = [proc EXCEPT ![w].at = "flag"]
  BY DEF StoreTime, Goto
<1>6. Types'
  BY <1>1, <1>3, <1>4, <1>5 DEF StoreTime, TakeoverInv, Types
<1>7. proc'[w].at = "flag" /\ \A v \in Workers \ {w} : proc'[v] = proc[v]
  BY <1>1, <1>5 DEF Procs
<1>8. \A v \in Workers \ {w} : proc[v].at \notin Activating
  BY <1>2 DEF TakeoverInv, HolderActivates
<1>9. QED
  BY <1>2, <1>3, <1>6, <1>7, <1>8
  DEF StoreTime, TakeoverInv, HolderActivates, VisitsLeft

LEMMA StoreFlagInv == ASSUME TakeoverInv, NEW w \in Workers, StoreFlag(w) PROVE TakeoverInv'
<1>1. proc[w] \in Procs /\ proc \in [Workers -> Procs] /\ active \in Activations
  BY DEF TakeoverInv, Types
<1>2. holder = {w}
  BY DEF StoreFlag, TakeoverInv, HolderActivates, Activating
<1>3. active' \in Activations
  BY <1>1 DEF StoreFlag, Activations
<1>4. [proc[w] EXCEPT !.at = "register"] \in Procs
  BY <1>1 DEF Procs
<1>5. proc' = [proc EXCEPT ![w].at = "register"]
  BY DEF StoreFlag, Goto
<1>6. Types'
  BY <1>1, <1>3, <1>4, <1>5 DEF StoreFlag, TakeoverInv, Types
<1>7. proc'[w].at = "register" /\ \A v \in Workers \ {w} : proc'[v] = proc[v]
  BY <1>1, <1>5 DEF Procs
<1>8. \A v \in Workers \ {w} : proc[v].at \notin Activating
  BY <1>2 DEF TakeoverInv, HolderActivates
<1>9. \A v \in Workers : proc'[v].at \notin Activating
  BY <1>7, <1>8 DEF Activating
<1>10. QED
  BY <1>6, <1>7, <1>9 DEF StoreFlag, TakeoverInv, HolderActivates, VisitsLeft

LEMMA RegisterInv == ASSUME TakeoverInv, NEW w \in Workers, Register(w) PROVE TakeoverInv'
<1>1. proc[w] \in Procs /\ proc[w].at \notin Activating /\ 0 \in 0..Unregistered
  BY TakeoverAssumption DEF TakeoverInv, Types, Register, Activating, Unregistered
<1>2. reg' \in [Workers -> 0..Unregistered]
  BY <1>1 DEF Register, TakeoverInv, Types
<1>3. ASSUME NEW p \in Peers PROVE [peer[p] EXCEPT !.instance = "former"] \in PeerStates
  BY DEF TakeoverInv, Types, PeerStates, Instances
<1>4. peer' \in [Peers -> PeerStates]
  BY <1>3 DEF Register, TakeoverInv, Types
<1>5. proc' = [proc EXCEPT ![w] = Visiting(proc[w])]
  BY <1>1 DEF Register, TakeoverInv, Types
<1>6. UNCHANGED <<active, holder>> /\ deaths' \in 0..MaxDeaths
  BY DEF Register, TakeoverInv, Types
<1>7. QED
  BY <1>1, <1>2, <1>4, <1>5, <1>6, VisitingOutside, ProcStep

LEMMA RegisterLaterInv ==
    ASSUME TakeoverInv, NEW w \in Workers, RegisterLater(w) PROVE TakeoverInv'
<1>1. proc[w] \in Procs /\ proc \in [Workers -> Procs] /\ proc[w].at \notin Activating
  BY DEF TakeoverInv, Types, RegisterLater, Activating
<1> DEFINE r == IF proc[w].registered THEN Visiting(proc[w]) ELSE [proc[w] EXCEPT !.at = "out"]
<1>2. Outside([proc[w] EXCEPT !.at = "out"])
  BY <1>1 DEF Outside, Procs, Activating
<1>3. Outside(r)
  BY <1>1, <1>2, VisitingOutside
<1>4. proc' = [proc EXCEPT ![w] = r]
  BY <1>1 DEF RegisterLater
<1> HIDE DEF r
<1>5. QED
  BY <1>1, <1>3, <1>4, ProcStep DEF RegisterLater, TakeoverInv, Types

LEMMA PassInv == ASSUME TakeoverInv, NEW w \in Workers, Pass(w) PROVE TakeoverInv'
<1>1. proc[w] \in Procs /\ proc[w].at \notin Activating /\ proc[w].left # 0
  BY DEF TakeoverInv, Types, VisitsLeft, Pass, Activating
<1>2. Outside(Rest(Advanced(proc[w]))) /\ Outside(Over(Advanced(proc[w])))
  BY <1>1, AdvancedType, RestOutside, OverOutside
<1>3. \/ proc' = [proc EXCEPT ![w] = Rest(Advanced(proc[w]))]
      \/ proc' = [proc EXCEPT ![w] = Over(Advanced(proc[w]))]
  BY DEF Pass, TakeoverInv, Types
<1>4. PICK r : Outside(r) /\ proc' = [proc EXCEPT ![w] = r]
  BY <1>2, <1>3, Zenon
<1>5. QED
  BY <1>1, <1>4, ProcStep DEF Pass, TakeoverInv, Types

LEMMA ChooseInv ==
    ASSUME TakeoverInv, NEW w \in Workers, NEW p \in Peers, Choose(w, p) PROVE TakeoverInv'
<1>1. proc[w] \in Procs /\ proc[w].at \notin Activating /\ proc[w].left # 0
  BY DEF TakeoverInv, Types, VisitsLeft, Choose, Activating
<1>2. PICK r : Outside(r) /\ proc' = [proc EXCEPT ![w] = r]
  <2>1. Outside([Advanced(proc[w]) EXCEPT !.at = "claim", !.unchanged = TRUE])
    BY <1>1, ChosenOutside
  <2>2. proc' = [proc EXCEPT ![w] = [Advanced(proc[w]) EXCEPT !.at = "claim", !.unchanged = TRUE]]
    BY DEF Choose, TakeoverInv, Types
  <2>3. QED
    BY <2>1, <2>2, Zenon
<1>3. QED
  BY <1>1, <1>2, ProcStep DEF Choose, TakeoverInv, Types

LEMMA ClaimFailsInv ==
    ASSUME TakeoverInv, NEW w \in Workers, ClaimFails(w) PROVE TakeoverInv'
<1>1. proc[w] \in Procs /\ proc[w].at \notin Activating
  BY DEF TakeoverInv, Types, ClaimFails, Activating
<1>2. proc' = [proc EXCEPT ![w] = Rest(proc[w])]
  BY DEF ClaimFails, TakeoverInv, Types
<1>3. QED
  BY <1>1, <1>2, RestOutside, ProcStep DEF ClaimFails, TakeoverInv, Types

LEMMA ClaimInv ==
    ASSUME TakeoverInv, NEW w \in Workers, NEW p \in Peers, Claim(w, p) PROVE TakeoverInv'
<1>1. proc[w] \in Procs /\ proc \in [Workers -> Procs] /\ proc[w].at \notin Activating
  BY DEF TakeoverInv, Types, Claim, Activating
<1> DEFINE procs == [proc EXCEPT ![w] = Rest(proc[w])]
<1>2. Outside(Rest(proc[w]))
  BY <1>1, RestOutside
<1>3. /\ procs \in [Workers -> Procs] /\ procs[w] = Rest(proc[w])
      /\ \A v \in Workers \ {w} : procs[v] = proc[v]
  BY <1>1, <1>2 DEF Outside
<1>4. proc' = Noticed(procs, p)
  BY DEF Claim, TakeoverInv, Types
<1> HIDE DEF procs
<1>5. proc' \in [Workers -> Procs] /\ \A v \in Workers : proc'[v] \in Procs
  BY <1>3, <1>4, NoticedStep
<1>6. \A v \in Workers : proc'[v].at = procs[v].at /\ proc'[v].left = procs[v].left
  BY <1>3, <1>4, NoticedStep
<1>7. [worker |-> w, instance |-> "current", overdue |-> 0] \in PeerStates
  BY WorkersAreNumbers DEF PeerStates, Instances
<1>8. Types'
  BY <1>5, <1>7 DEF Claim, TakeoverInv, Types
<1>9. Outside(proc'[w])
  BY <1>2, <1>3, <1>5, <1>6 DEF Outside
<1>10. QED
  BY <1>1, <1>3, <1>6, <1>8, <1>9, OutsideFrame DEF Claim

LEMMA WorkInv ==
    ASSUME TakeoverInv, NEW w \in Workers, NEW p \in Peers, Work(w, p) PROVE TakeoverInv'
<1>1. proc \in [Workers -> Procs] /\ peer \in [Peers -> PeerStates]
  BY DEF TakeoverInv, Types
<1>2. proc' \in [Workers -> Procs]
  BY <1>1, NoticedStep DEF Work
<1>3. \A v \in Workers : proc'[v].at = proc[v].at /\ proc'[v].left = proc[v].left
  BY <1>1, NoticedStep DEF Work
<1>4. peer' \in [Peers -> PeerStates]
  <2>1. peer[p] \in PeerStates /\ 0 \in 0..(Grace + Preference)
    BY <1>1, WorkersAreNumbers
  <2>2. [peer[p] EXCEPT !.instance = "current", !.overdue = 0] \in PeerStates
    BY <2>1 DEF PeerStates, Instances
  <2>3. peer' = [peer EXCEPT ![p] = [peer[p] EXCEPT !.instance = "current", !.overdue = 0]]
    BY <1>1 DEF Work
  <2>4. QED
    BY <1>1, <2>2, <2>3
<1>5. Types'
  BY <1>2, <1>4 DEF Work, TakeoverInv, Types
<1>6. QED
  BY <1>3, <1>5, OutsideFrame DEF Work

LEMMA TickInv == ASSUME TakeoverInv, Tick PROVE TakeoverInv'
<1>1. /\ \A w \in Workers : reg[w] \in 0..Unregistered
      /\ \A p \in Peers : peer[p] \in PeerStates
  BY DEF TakeoverInv, Types
<1>2. ASSUME NEW w \in Workers PROVE Least(reg[w] + 1, Grace) \in 0..Unregistered
  BY <1>1, TakeoverAssumption DEF Least, Unregistered
<1>3. reg' \in [Workers -> 0..Unregistered]
  BY <1>1, <1>2 DEF Tick
<1>4. ASSUME NEW p \in Peers
      PROVE  [peer[p] EXCEPT !.overdue = Least(@ + 1, Grace + Preference)] \in PeerStates
  <2>1. peer[p].overdue \in 0..(Grace + Preference)
    BY <1>1 DEF PeerStates
  <2> DEFINE later == Least(peer[p].overdue + 1, Grace + Preference)
  <2>2. later \in 0..(Grace + Preference)
    BY <2>1, WorkersAreNumbers DEF Least
  <2> HIDE DEF later
  <2>3. [peer[p] EXCEPT !.overdue = later] \in PeerStates
    BY <1>1, <2>2 DEF PeerStates
  <2>4. QED
    BY <1>1, <2>3 DEF later, PeerStates
<1>5. peer' \in [Peers -> PeerStates]
  BY <1>4 DEF Tick
<1>6. Types'
  BY <1>3, <1>5 DEF Tick, TakeoverInv, Types
<1>7. QED
  BY <1>6, OutsideFrame DEF Tick

LEMMA NextInv == ASSUME TakeoverInv, [Next]_vars PROVE TakeoverInv'
<1>1. CASE UNCHANGED vars
  BY <1>1 DEF vars, TakeoverInv, Types, HolderActivates, VisitsLeft
<1>2. ASSUME NEW w \in Workers, WatchStep(w) PROVE TakeoverInv'
  BY <1>2, EnterInv, LockInv, StoreTimeInv, StoreFlagInv, RegisterInv,
     RegisterLaterInv, PassInv, ClaimFailsInv, ChooseInv, ClaimInv DEF WatchStep
<1>3. CASE Next
  BY <1>2, <1>3, TickInv, StartInv, DieInv, WorkInv DEF Next
<1>4. QED
  BY <1>1, <1>3

LEMMA TakeoverSafety == Spec => []TakeoverInv
BY InitInv, NextInv, PTL DEF Spec

\* At most one worker has the activation lock, cursors and batches stay in the
\* range of the peers, and ages within the time that any test tells apart.
THEOREM TakeoverTypeSafety == Spec => []TypeOK
<1>1. TakeoverInv => TypeOK
  <2> SUFFICES ASSUME TakeoverInv PROVE TypeOK
    OBVIOUS
  <2>1. holder \subseteq Workers /\ Cardinality(holder) <= 1
    <3>1. CASE holder = {}
      BY <3>1, FS_EmptySet
    <3>2. ASSUME NEW w \in Workers, holder = {w} PROVE Cardinality(holder) = 1
      BY <3>2, FS_Singleton, Zenon
    <3>3. QED
      BY <3>1, <3>2 DEF TakeoverInv, HolderActivates
  <2>2. QED
    BY <2>1 DEF TakeoverInv, Types, TypeOK
<1>2. QED
  BY <1>1, TakeoverSafety, PTL

----------------------------------------------------------------------------
(***************************************************************************)
(* The activation                                                          *)
(***************************************************************************)
\* ngx_healthcheck_activate: once the cycle is active its time stays, however
\* many workers come to activate it at once, or die on the way.
THEOREM ActivationSafety == Spec => ActivatedOnce
<1>1. ASSUME TakeoverInv, [Next]_vars, active.flag PROVE active' = active
  <2>1. ASSUME NEW w \in Workers PROVE ~StoreTime(w) /\ ~StoreFlag(w)
    BY <1>1 DEF StoreTime, StoreFlag, TakeoverInv, HolderActivates, Activating
  <2>2. QED
    BY <1>1, <2>1 DEF Next, WatchStep, vars, Tick, Start, Die, Enter, Lock, Register,
                      RegisterLater, Pass, Choose, Claim, ClaimFails, Work
<1>2. TakeoverInv /\ [Next]_vars => [active.flag => active' = active]_vars
  BY <1>1
<1>3. QED
  BY <1>2, TakeoverSafety, PTL DEF Spec, ActivatedOnce
=============================================================================
