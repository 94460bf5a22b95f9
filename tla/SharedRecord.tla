--------------------------- MODULE SharedRecord ---------------------------
(***************************************************************************)
(* One record of the shared zone (runtime/ngx_healthcheck_state.c): a lock *)
(* word holding the pid of its holder, two slots, and a published word     *)
(* that names the valid slot and repeats its down flag for request         *)
(* routing.  Every worker process copies the valid slot under the lock and *)
(* updates the record by filling the other slot and publishing it.  A      *)
(* process may die between any two steps; a contender that finds the       *)
(* holder's pid gone releases the lock in its place.                       *)
(*                                                                         *)
(* A slot has two parts, copied one after the other, so that a reader or a *)
(* writer overtaken half way would show.                                   *)
(***************************************************************************)
EXTENDS Naturals

CONSTANTS Procs,       \* the places for worker processes
          Pids,        \* the process ids the kernel can hand out
          NoPid,       \* the value 0 of the lock word, and the pid of a dead place
          MaxVersion,  \* bound: updates of the record
          PidReuse,    \* whether the kernel may hand out the pid of a dead process
          NoValue      \* what the atomic record holds for an idle process

ASSUME RecordAssumption ==
    /\ NoPid \notin Pids
    /\ MaxVersion \in Nat
    /\ PidReuse \in BOOLEAN

VARIABLES lock,       \* *mutex->lock
          slots,      \* peer->slots
          published,  \* peer->published: slot number and down bit
          pid,        \* the pid of the process living in each place, or NoPid
          spent,      \* pids of dead processes that are not handed out again
          pc,         \* where each process is in the protocol
          op,         \* the operation each process performs
          local,      \* the process's copy of the state
          seen        \* recover_lock: the holder read from the lock word

vars == <<lock, slots, published, pid, spent, pc, op, local, seen>>

States == [version : 0..MaxVersion, down : BOOLEAN]

\* A read (read_peer, try_read_peer), or an update after which the peer is up
\* or down (claim, probe_waiting, submit).
Ops == {"read", "up", "down"}

EmptyState == [version |-> 0, down |-> FALSE]

LivePids == {pid[p] : p \in Procs} \ {NoPid}

Init ==
    /\ lock = NoPid
    /\ slots = [s \in 0..1 |-> EmptyState]
    /\ published = [slot |-> 0, down |-> FALSE]
    /\ \E start \in [Procs -> Pids] :
          /\ \A p, q \in Procs : start[p] = start[q] => p = q
          /\ pid = start
    /\ spent = {}
    /\ pc = [p \in Procs |-> "idle"]
    /\ op = [p \in Procs |-> "read"]
    /\ local = [p \in Procs |-> EmptyState]
    /\ seen = [p \in Procs |-> NoPid]

----------------------------------------------------------------------------
\* Taking the lock

\* A process calls ngx_healthcheck_lock or ngx_healthcheck_try_read_peer.
Call(p) ==
    /\ pc[p] = "idle"
    /\ pc' = [pc EXCEPT ![p] = "trylock"]
    /\ \E o \in Ops : op' = [op EXCEPT ![p] = o]
    /\ UNCHANGED <<lock, slots, published, pid, spent, local, seen>>

\* ngx_shmtx_trylock: compare-and-swap 0 by the caller's pid.
TryLock(p) ==
    /\ pc[p] = "trylock"
    /\ \/ /\ lock = NoPid
          /\ lock' = pid[p]
          /\ pc' = [pc EXCEPT ![p] = "copyHealth"]
       \/ /\ lock # NoPid
          /\ lock' = lock
          /\ pc' = [pc EXCEPT ![p] = "recover"]
    /\ UNCHANGED <<slots, published, pid, spent, op, local, seen>>

\* recover_lock reads the holder; a lock released meanwhile has none.
ReadHolder(p) ==
    /\ pc[p] = "recover"
    /\ seen' = [seen EXCEPT ![p] = lock]
    /\ pc' = [pc EXCEPT ![p] = IF lock = NoPid THEN "retry" ELSE "kill"]
    /\ UNCHANGED <<lock, slots, published, pid, spent, op, local>>

\* A plausible bug: no holder ever counts as gone.
GoneNever(x) == FALSE

\* kill(holder, 0) answers ESRCH exactly when no process has that pid now.
Gone(x) == x \notin LivePids

TestHolder(p) ==
    /\ pc[p] = "kill"
    /\ \/ /\ ~Gone(seen[p])
          /\ pc' = [pc EXCEPT ![p] = "retry"]
          /\ seen' = [seen EXCEPT ![p] = NoPid]
       \/ /\ Gone(seen[p])
          /\ pc' = [pc EXCEPT ![p] = "force"]
          /\ seen' = seen
    /\ UNCHANGED <<lock, slots, published, pid, spent, op, local>>

\* A plausible bug: the lock word is cleared whatever it holds by then.
Cleared(x) == NoPid

\* Compare-and-swap of the lock word from pid x to 0.
Released(x) == IF lock = x THEN NoPid ELSE lock

\* ngx_shmtx_force_unlock with the dead holder's pid.
ForceUnlock(p) ==
    /\ pc[p] = "force"
    /\ lock' = Released(seen[p])
    /\ pc' = [pc EXCEPT ![p] = "retry"]
    /\ seen' = [seen EXCEPT ![p] = NoPid]
    /\ UNCHANGED <<slots, published, pid, spent, op, local>>

\* The caller tries again within its budget, or returns NGX_AGAIN.
Retry(p) ==
    /\ pc[p] = "retry"
    /\ \/ pc' = [pc EXCEPT ![p] = "trylock"] /\ op' = op
       \/ pc' = [pc EXCEPT ![p] = "idle"] /\ op' = [op EXCEPT ![p] = "read"]
    /\ UNCHANGED <<lock, slots, published, pid, spent, local, seen>>

----------------------------------------------------------------------------
\* Under the lock

CopyHealth(p) ==
    /\ pc[p] = "copyHealth"
    /\ local' = [local EXCEPT ![p].down = slots[published.slot].down]
    /\ pc' = [pc EXCEPT ![p] = "copyProgress"]
    /\ UNCHANGED <<lock, slots, published, pid, spent, op, seen>>

\* An update goes on while the version can still grow (claim's round guard).
Publishes(p) == op[p] # "read" /\ slots[published.slot].version < MaxVersion

CopyProgress(p) ==
    /\ pc[p] = "copyProgress"
    /\ local' = [local EXCEPT ![p].version = slots[published.slot].version]
    /\ pc' = [pc EXCEPT ![p] = IF Publishes(p) THEN "fillHealth" ELSE "unlock"]
    /\ UNCHANGED <<lock, slots, published, pid, spent, op, seen>>

\* A plausible bug: the valid slot is overwritten in place.
ValidSlot == published.slot

FreeSlot == 1 - published.slot

FillHealth(p) ==
    /\ pc[p] = "fillHealth"
    /\ slots' = [slots EXCEPT ![FreeSlot].down = op[p] = "down"]
    /\ pc' = [pc EXCEPT ![p] = "fillProgress"]
    /\ UNCHANGED <<lock, published, pid, spent, op, local, seen>>

FillProgress(p) ==
    /\ pc[p] = "fillProgress"
    /\ slots' = [slots EXCEPT ![FreeSlot].version = local[p].version + 1]
    /\ pc' = [pc EXCEPT ![p] = "publish"]
    /\ UNCHANGED <<lock, published, pid, spent, op, local, seen>>

\* A plausible bug: the published word keeps its down bit.
StaleWord(p) == [slot |-> FreeSlot, down |-> published.down]

Word(p) == [slot |-> FreeSlot, down |-> op[p] = "down"]

\* After the barrier, one store makes the filled slot the valid one.
Publish(p) ==
    /\ pc[p] = "publish"
    /\ published' = Word(p)
    /\ pc' = [pc EXCEPT ![p] = "unlock"]
    /\ UNCHANGED <<lock, slots, pid, spent, op, local, seen>>

\* ngx_shmtx_unlock with the caller's pid.  The operation and its copy end here.
Unlock(p) ==
    /\ pc[p] = "unlock"
    /\ lock' = Released(pid[p])
    /\ pc' = [pc EXCEPT ![p] = "idle"]
    /\ op' = [op EXCEPT ![p] = "read"]
    /\ local' = [local EXCEPT ![p] = EmptyState]
    /\ UNCHANGED <<slots, published, pid, spent, seen>>

----------------------------------------------------------------------------
\* Processes

Available == Pids \ (LivePids \union spent)

\* A process dies where it stands and leaves the lock word as it is.  Bound:
\* only while a pid is left for a replacement.
Crash(p) ==
    /\ pid[p] # NoPid
    /\ Available # {}
    /\ pid' = [pid EXCEPT ![p] = NoPid]
    /\ spent' = IF PidReuse THEN spent ELSE spent \union {pid[p]}
    /\ pc' = [pc EXCEPT ![p] = "dead"]
    /\ op' = [op EXCEPT ![p] = "read"]
    /\ local' = [local EXCEPT ![p] = EmptyState]
    /\ seen' = [seen EXCEPT ![p] = NoPid]
    /\ UNCHANGED <<lock, slots, published>>

\* The master process starts a replacement under an available pid.
Respawn(p) ==
    /\ pid[p] = NoPid
    /\ \E x \in Available : pid' = [pid EXCEPT ![p] = x]
    /\ pc' = [pc EXCEPT ![p] = "idle"]
    /\ UNCHANGED <<lock, slots, published, spent, op, local, seen>>

----------------------------------------------------------------------------
Step(p) ==
    \/ Call(p) \/ TryLock(p)
    \/ ReadHolder(p) \/ TestHolder(p) \/ ForceUnlock(p) \/ Retry(p)
    \/ CopyHealth(p) \/ CopyProgress(p)
    \/ FillHealth(p) \/ FillProgress(p) \/ Publish(p) \/ Unlock(p)

Next == \E p \in Procs : Step(p) \/ Crash(p) \/ Respawn(p)

\* A running process keeps executing, its periodic watch timer keeps it
\* coming back to the record, and the master replaces a dead worker.  Deaths
\* are never required.
Fairness == \A p \in Procs : WF_vars(Step(p)) /\ WF_vars(Respawn(p))

Spec == Init /\ [][Next]_vars

FairSpec == Spec /\ Fairness

----------------------------------------------------------------------------
(***************************************************************************)
(* Properties                                                              *)
(***************************************************************************)
PCs == {"dead", "idle", "trylock", "recover", "kill", "force", "retry",
        "copyHealth", "copyProgress", "fillHealth", "fillProgress", "publish",
        "unlock"}

Holding == {"copyHealth", "copyProgress", "fillHealth", "fillProgress",
            "publish", "unlock"}

\* Every variable keeps its type.
TypeOK ==
    /\ lock \in Pids \union {NoPid}
    /\ slots \in [0..1 -> States]
    /\ published \in [slot : 0..1, down : BOOLEAN]
    /\ pid \in [Procs -> Pids \union {NoPid}]
    /\ spent \subseteq Pids
    /\ pc \in [Procs -> PCs]
    /\ op \in [Procs -> Ops]
    /\ local \in [Procs -> States]
    /\ seen \in [Procs -> Pids \union {NoPid}]

\* "Live lock holders remain protected": while a live process is between a
\* successful trylock and its unlock, the lock word holds its pid, whatever
\* dead-holder recoveries contenders have under way.
HolderProtected ==
    \A p \in Procs : pc[p] \in Holding => lock = pid[p]

\* Request routing takes one unlocked look at the published word, so its down
\* bit is the down flag of the slot it names at every instant, also after a
\* writer died anywhere in publish.
RoutingBit == published.down = slots[published.slot].down

\* The record is atomic: complete reads, no lost update, no half update after
\* a crash.  An operation holds what it read from its last copy to its return.
Reading(p) == pc[p] \in {"fillHealth", "fillProgress", "publish", "unlock"}

Atomic == INSTANCE AtomicRecord WITH
    value <- slots[published.slot],
    got <- [p \in Procs |-> IF Reading(p) THEN local[p] ELSE NoValue],
    routed <- published.down

ImplementsAtomicRecord == Atomic!ASpec

\* A lock left behind by a dead process is eventually released by a contender.
OrphanReleased ==
    \A x \in Pids : (lock = x /\ x \notin LivePids) ~> (lock # x)

=============================================================================
