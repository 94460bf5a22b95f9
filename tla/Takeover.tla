------------------------------ MODULE Takeover ------------------------------
(***************************************************************************)
(* How peers that nobody checks find a worker                              *)
(* (runtime/ngx_healthcheck_schedule.c): the activation of a cycle and the *)
(* registration with its heartbeat, the batches of the watch, and the      *)
(* preference between the workers that may take a peer over.               *)
(*                                                                         *)
(* Schedule models the rounds of a peer and leaves open which peer a watch *)
(* visits and which worker takes over.  Here the round is reduced to the   *)
(* time since its published deadline, and every time is kept as an age, so *)
(* that the clock never stops.  The end of a cycle (quitting workers) is   *)
(* left to Schedule.                                                       *)
(***************************************************************************)
EXTENDS Integers, FiniteSets

CONSTANTS
    NumWorkers, NumPeers,
    Batch,       \* NGX_HEALTHCHECK_BATCH
    Grace,       \* runtime->grace
    Preference,  \* runtime->preference
    Score,       \* ngx_healthcheck_score, by peer and worker
    Sound,       \* the workers that do not run out of memory
    MaxDeaths    \* bound: processes that die

Workers == 0..(NumWorkers - 1)
Peers == 0..(NumPeers - 1)

ASSUME TakeoverAssumption ==
    /\ NumWorkers \in Nat \ {0} /\ NumPeers \in Nat \ {0}
    /\ Batch \in Nat \ {0} /\ Grace \in Nat \ {0} /\ Preference \in Nat
    /\ Score \in [Peers -> [Workers -> Nat]]
    /\ Sound \subseteq Workers
    /\ MaxDeaths \in Nat

Least(a, b) == IF a <= b THEN a ELSE b

VARIABLES active,  \* peers_shm->activated and activated_at
          holder,  \* the worker in the activation lock, as a set
          reg,     \* the age of the heartbeat of each registered worker number
          peer,    \* the owner of each peer and the time since its deadline
          proc,    \* the process of each worker number
          deaths   \* bound

vars == <<active, holder, reg, peer, proc, deaths>>

Never == 0

\* Two readings of the clock are told apart by alternating stamps.
Activations == [flag : BOOLEAN, at : {Never, 1, 2}]

\* instance 0, the one now registered under the worker number, or an earlier one.
Instances == {"none", "current", "former"}

PeerStates == [worker : Workers, instance : Instances, overdue : 0..Grace + Preference]

(***************************************************************************)
(* at is the place in ngx_healthcheck_watch, left the visits left in its   *)
(* batch; unchanged: the state the watch read is still the published one.  *)
(***************************************************************************)
Procs == [alive : BOOLEAN, registered : BOOLEAN, cursor : Peers, left : 0..Batch,
          unchanged : BOOLEAN,
          at : {"out", "lock", "store", "flag", "register", "visit", "claim"}]

NoProcess == [alive |-> FALSE, registered |-> FALSE, cursor |-> 0, left |-> 0,
              unchanged |-> FALSE, at |-> "out"]

Home(p) == p % NumWorkers

Unregistered == Grace + 1

Init ==
    /\ active = [flag |-> FALSE, at |-> Never]
    /\ holder = {}
    /\ reg = [w \in Workers |-> Unregistered]
    /\ peer = [p \in Peers |-> [worker |-> Home(p), instance |-> "none", overdue |-> 0]]
    /\ proc = [w \in Workers |-> NoProcess]
    /\ deaths = 0

----------------------------------------------------------------------------
(***************************************************************************)
(* Processes                                                               *)
(***************************************************************************)
Goto(w, place) == proc' = [proc EXCEPT ![w].at = place]

Start(w) ==
    /\ ~proc[w].alive
    /\ proc' = [proc EXCEPT ![w].alive = TRUE]
    /\ UNCHANGED <<active, holder, reg, peer, deaths>>

\* A process dies anywhere; a contender recovers the lock it holds.
Die(w) ==
    /\ proc[w].alive /\ deaths < MaxDeaths
    /\ proc' = [proc EXCEPT ![w] = NoProcess]
    /\ holder' = holder \ {w}
    /\ deaths' = deaths + 1
    /\ UNCHANGED <<active, reg, peer>>

----------------------------------------------------------------------------
(***************************************************************************)
(* Activation and registration                                             *)
(***************************************************************************)
\* The watch looks at the flag without the lock.  runtime_init registers the
\* same way; it is a first watch that visits nothing that matters.
Enter(w) ==
    /\ proc[w].alive /\ proc[w].at = "out"
    /\ Goto(w, IF active.flag THEN "register" ELSE "lock")
    /\ UNCHANGED <<active, holder, reg, peer, deaths>>

\* A plausible bug: the flag is not looked at again under the lock.
NotAgain == FALSE

ActiveByNow == active.flag

\* The worker gets the lock and looks at the flag again.
Lock(w) ==
    /\ proc[w].at = "lock" /\ holder = {}
    /\ IF ActiveByNow THEN Goto(w, "register") /\ UNCHANGED holder
       ELSE Goto(w, "store") /\ holder' = {w}
    /\ UNCHANGED <<active, reg, peer, deaths>>

\* The time is stored before the flag; a process may die in between.
StoreTime(w) ==
    /\ proc[w].at = "store"
    /\ active' = [active EXCEPT !.at = IF @ = 1 THEN 2 ELSE 1]
    /\ Goto(w, "flag")
    /\ UNCHANGED <<holder, reg, peer, deaths>>

StoreFlag(w) ==
    /\ proc[w].at = "flag"
    /\ active' = [active EXCEPT !.flag = TRUE]
    /\ holder' = {}
    /\ Goto(w, "register")
    /\ UNCHANGED <<reg, peer, deaths>>

\* The batch starts at the cursor.
Visiting(r) == [r EXCEPT !.registered = TRUE, !.at = "visit",
                         !.left = Least(NumPeers, Batch)]

\* The heartbeat is renewed; a new process gets a new instance, and what its
\* worker number owned belongs to a former one.
Register(w) ==
    /\ proc[w].at = "register"
    /\ reg' = [reg EXCEPT ![w] = 0]
    /\ proc' = [proc EXCEPT ![w] = Visiting(@)]
    /\ peer' = IF proc[w].registered THEN peer
               ELSE [p \in Peers |->
                        IF peer[p].worker = w /\ peer[p].instance = "current"
                        THEN [peer[p] EXCEPT !.instance = "former"] ELSE peer[p]]
    /\ UNCHANGED <<active, holder, deaths>>

\* A lock is busy or the clock unavailable: an unregistered process tries
\* again with its next watch, a registered one goes on.
RegisterLater(w) ==
    /\ proc[w].at \in {"lock", "register"}
    /\ proc' = [proc EXCEPT ![w] =
            IF @.registered THEN Visiting(@) ELSE [@ EXCEPT !.at = "out"]]
    /\ UNCHANGED <<active, holder, reg, peer, deaths>>

----------------------------------------------------------------------------
(***************************************************************************)
(* The batches of the watch                                                *)
(***************************************************************************)
\* The watch is over: its batch or its budget is used up.
Over(r) == [r EXCEPT !.at = "out", !.left = 0, !.unchanged = FALSE]

Rest(r) == IF r.left = 0 THEN Over(r) ELSE [r EXCEPT !.at = "visit", !.unchanged = FALSE]

\* A plausible bug: every watch begins with the first peer.
FromTheStart(r) == [r EXCEPT !.left = @ - 1, !.cursor = IF r.left = 1 THEN 0
                                                        ELSE (@ + 1) % NumPeers]

\* The cursor moves on before the visit, and stays where it is between watches.
Advanced(r) == [r EXCEPT !.left = @ - 1, !.cursor = (@ + 1) % NumPeers]

\* The peer whose visit has begun, that is, the one before the cursor.
Visited(r) == (r.cursor + NumPeers - 1) % NumPeers

Own(w, p) == peer[p].worker = w /\ peer[p].instance = "current"

Eligible(p) == peer[p].overdue >= Grace

\* Everybody may take over.
WaitedEnough(p) == peer[p].overdue >= Grace + Preference

\* Registered, fresh, and not the instance that let the deadline pass.
Candidates(p) == {i \in Workers : reg[i] < Grace /\ ~Own(i, p)}

\* The highest score, and of equal scores the first.
Best(C, p) ==
    {i \in C : \A k \in C : \/ Score[p][k] < Score[p][i]
                            \/ Score[p][k] = Score[p][i] /\ i <= k}

\* A plausible bug: there is no end to the preference.
OnlyPreferred(w, p) ==
    \E C \in SUBSET Candidates(p) : w \in Best(C, p)

\* Heartbeats are read one by one; a busy registration, and one renewed after
\* the watch read its clock, is passed over, and so any of the candidates may
\* be missing.
MayClaim(w, p) ==
    \/ WaitedEnough(p)
    \/ \E C \in SUBSET Candidates(p) : w \in Best(C, p)

\* The next peer is not worth a claim, cannot be read, or is not for us.
Pass(w) ==
    /\ proc[w].at = "visit"
    /\ \/ proc' = [proc EXCEPT ![w] = Rest(Advanced(@))]
       \/ proc' = [proc EXCEPT ![w] = Over(Advanced(@))]
    /\ UNCHANGED <<active, holder, reg, peer, deaths>>

Choose(w, p) ==
    /\ proc[w].at = "visit" /\ proc[w].cursor = p
    /\ ~Own(w, p) /\ Eligible(p) /\ MayClaim(w, p)
    /\ proc' = [proc EXCEPT ![w] = [Advanced(@) EXCEPT !.at = "claim", !.unchanged = TRUE]]
    /\ UNCHANGED <<active, holder, reg, peer, deaths>>

\* Whoever has read the peer, and not claimed it yet, finds it changed.
Noticed(procs, p) ==
    [v \in Workers |-> IF procs[v].at = "claim" /\ Visited(procs[v]) = p
                       THEN [procs[v] EXCEPT !.unchanged = FALSE] ELSE procs[v]]

\* The claim succeeds, if nothing happened to the peer since it was read.
Claim(w, p) ==
    /\ proc[w].at = "claim" /\ Visited(proc[w]) = p
    /\ w \in Sound /\ proc[w].unchanged
    /\ peer' = [peer EXCEPT ![p] = [worker |-> w, instance |-> "current", overdue |-> 0]]
    /\ proc' = Noticed([proc EXCEPT ![w] = Rest(@)], p)
    /\ UNCHANGED <<active, holder, reg, deaths>>

\* The claim fails, for memory, a busy lock, or what happened since.
ClaimFails(w) ==
    /\ proc[w].at = "claim"
    /\ proc' = [proc EXCEPT ![w] = Rest(@)]
    /\ UNCHANGED <<active, holder, reg, peer, deaths>>

\* An owner starts a round or gets on with it: a later deadline.
Work(w, p) ==
    /\ proc[w].alive /\ proc[w].registered /\ w \in Sound
    /\ peer[p].worker = w /\ peer[p].instance # "former"
    /\ peer' = [peer EXCEPT ![p].instance = "current", ![p].overdue = 0]
    /\ proc' = Noticed(proc, p)
    /\ UNCHANGED <<active, holder, reg, deaths>>

----------------------------------------------------------------------------
\* Ages that no test tells apart are one.
Tick ==
    /\ reg' = [w \in Workers |-> IF reg[w] = Unregistered THEN Unregistered
                                 ELSE Least(reg[w] + 1, Grace)]
    /\ peer' = [p \in Peers |-> [peer[p] EXCEPT
                    !.overdue = Least(@ + 1, Grace + Preference)]]
    /\ UNCHANGED <<active, holder, proc, deaths>>

WatchStep(w) ==
    \/ Enter(w) \/ Lock(w) \/ StoreTime(w) \/ StoreFlag(w)
    \/ Register(w) \/ RegisterLater(w) \/ Pass(w) \/ ClaimFails(w)
    \/ \E p \in Peers : Choose(w, p) \/ Claim(w, p)

Next ==
    \/ Tick
    \/ \E w \in Workers : Start(w) \/ Die(w) \/ WatchStep(w)
    \/ \E w \in Workers, p \in Peers : Work(w, p)

Spec == Init /\ [][Next]_vars

(***************************************************************************)
(* The clock runs, the master replaces dead workers, and a watch goes on.  *)
(* No lock is contended every single time, so what a watch tries again and *)
(* again succeeds at some time (strong fairness); that a preference is     *)
(* seen is not required, and no owner is required to work.                 *)
(***************************************************************************)
Fairness ==
    /\ WF_vars(Tick)
    /\ \A w \in Workers : WF_vars(Start(w)) /\ WF_vars(WatchStep(w))
    /\ \A w \in Sound :
          /\ SF_vars(Lock(w) \/ Register(w))
          /\ \A p \in Peers : SF_vars(Choose(w, p)) /\ SF_vars(Claim(w, p))

FairSpec == Spec /\ Fairness

----------------------------------------------------------------------------
(***************************************************************************)
(* Properties                                                              *)
(***************************************************************************)
TypeOK ==
    /\ active \in Activations
    /\ holder \subseteq Workers /\ Cardinality(holder) <= 1
    /\ reg \in [Workers -> 0..Unregistered]
    /\ peer \in [Peers -> PeerStates]
    /\ proc \in [Workers -> Procs]
    /\ deaths \in 0..MaxDeaths

\* The first deadline of every peer counts from one time: once the cycle is
\* active that time never moves, however many workers come to activate it at
\* once, or die between storing the time and the flag.
ActivatedOnce == [][active.flag => active' = active]_vars

\* The process that should check the peer is gone, or never came.
Abandoned(p) ==
    /\ WaitedEnough(p)
    /\ peer[p].instance # "current" \/ ~proc[peer[p].worker].alive

\* README: "The watchdog retries pending work and recovers checks after worker
\* stalls or crashes", and "Takeover requires another runnable worker": a peer
\* that nobody checks is found by the batches of a sound worker and taken
\* over, also when the preferred worker is there but never succeeds.
PeersFound == \A p \in Peers : Abandoned(p) ~> ~Abandoned(p)

=============================================================================
