------------------------ MODULE SharedRecordProofs ------------------------
(***************************************************************************)
(* As long as the kernel does not hand out the pid of a dead process       *)
(* again, the lock of a shared record protects its holder, for any number  *)
(* of processes that die anywhere, and the record is atomic.               *)
(***************************************************************************)
EXTENDS SharedRecord, TLAPS

(***************************************************************************)
(* The inductive invariant.  What a contender read from the lock word is   *)
(* the pid of a process that has lived; once kill reports it gone it is    *)
(* spent, and no later holder can have it.                                 *)
(***************************************************************************)
DeadHaveNoPid == \A p \in Procs : pid[p] = NoPid <=> pc[p] = "dead"

PidsDistinct ==
    \A p, q \in Procs : pid[p] = pid[q] /\ pid[p] # NoPid => p = q

SpentNotLive == \A p \in Procs : pid[p] \notin spent

Known(x) == x \in spent \/ \E p \in Procs : pid[p] = x

LockKnown == lock # NoPid => Known(lock)

SeenKnown == \A p \in Procs : pc[p] = "kill" => seen[p] # NoPid /\ Known(seen[p])

SeenSpent == \A p \in Procs : pc[p] = "force" => seen[p] \in spent

\* A process that fills a slot has room for one more version.
Room == \A p \in Procs :
    pc[p] \in {"fillHealth", "fillProgress", "publish"} =>
        local[p].version < MaxVersion

LockInv ==
    /\ TypeOK /\ Room
    /\ DeadHaveNoPid /\ PidsDistinct /\ SpentNotLive
    /\ LockKnown /\ SeenKnown /\ SeenSpent
    /\ HolderProtected

LEMMA InitLock == ASSUME Init PROVE LockInv
<1> USE DEF Init
<1>1. TypeOK /\ Room
  BY RecordAssumption
     DEF TypeOK, States, EmptyState, PCs, Ops, Room
<1>2. DeadHaveNoPid /\ PidsDistinct /\ SpentNotLive
  BY RecordAssumption DEF DeadHaveNoPid, PidsDistinct, SpentNotLive
<1>3. LockKnown /\ SeenKnown /\ SeenSpent /\ HolderProtected
  BY DEF LockKnown, SeenKnown, SeenSpent, HolderProtected, Holding
<1> QED BY <1>1, <1>2, <1>3 DEF LockInv

LEMMA TypeStep == ASSUME TypeOK, Room, [Next]_vars PROVE TypeOK'
<1> USE RecordAssumption DEF TypeOK, States, EmptyState, PCs, Ops
<1>1. CASE UNCHANGED vars
  BY <1>1 DEF vars
<1>2. ASSUME NEW p \in Procs, Step(p) PROVE TypeOK'
  <2>1. CASE Call(p)
    BY <2>1 DEF Call
  <2>2. CASE TryLock(p)
    BY <2>2 DEF TryLock
  <2>3. CASE ReadHolder(p)
    BY <2>3 DEF ReadHolder
  <2>4. CASE TestHolder(p)
    BY <2>4 DEF TestHolder
  <2>5. CASE ForceUnlock(p)
    BY <2>5 DEF ForceUnlock, Released
  <2>6. CASE Retry(p)
    BY <2>6 DEF Retry
  <2>7. CASE CopyHealth(p)
    BY <2>7 DEF CopyHealth
  <2>8. CASE CopyProgress(p)
    BY <2>8 DEF CopyProgress
  <2>9. CASE FillHealth(p)
    <3>1. slots' \in [0..1 -> States]
      <4> DEFINE s == slots[FreeSlot]
      <4>1. FreeSlot \in 0..1 /\ s \in States
        BY DEF FreeSlot
      <4>2. [s EXCEPT !.down = op[p] = "down"] \in States
        BY <4>1
      <4> QED BY <2>9, <4>1, <4>2 DEF FillHealth
    <3> QED BY <2>9, <3>1 DEF FillHealth
  <2>10. CASE FillProgress(p)
    <3>1. slots' \in [0..1 -> States]
      <4> DEFINE s == slots[FreeSlot]
      <4>1. FreeSlot \in 0..1 /\ s \in States
        BY DEF FreeSlot
      <4>2. local[p].version + 1 \in 0..MaxVersion
        BY <2>10 DEF FillProgress, Room
      <4>3. [s EXCEPT !.version = local[p].version + 1] \in States
        BY <4>1, <4>2
      <4> QED BY <2>10, <4>1, <4>3 DEF FillProgress
    <3> QED BY <2>10, <3>1 DEF FillProgress
  <2>11. CASE Publish(p)
    BY <2>11 DEF Publish, Word, FreeSlot
  <2>12. CASE Unlock(p)
    BY <2>12 DEF Unlock, Released
  <2> QED BY <1>2, <2>1, <2>2, <2>3, <2>4, <2>5, <2>6, <2>7, <2>8, <2>9,
             <2>10, <2>11, <2>12 DEF Step
<1>3. ASSUME NEW p \in Procs, Crash(p) PROVE TypeOK'
  BY <1>3 DEF Crash
<1>4. ASSUME NEW p \in Procs, Respawn(p) PROVE TypeOK'
  BY <1>4 DEF Respawn, Available
<1> QED BY <1>1, <1>2, <1>3, <1>4 DEF Next

LEMMA RoomStep == ASSUME TypeOK, Room, [Next]_vars PROVE Room'
<1> USE DEF Room
<1>1. CASE UNCHANGED vars
  BY <1>1 DEF vars
<1>2. ASSUME NEW p \in Procs, Step(p) PROVE Room'
  <2> USE DEF TypeOK
  <2>1. CASE CopyProgress(p)
    <3> DEFINE v == slots[published.slot].version
    <3>1. v \in 0..MaxVersion
      BY DEF States
    <3>2. local'[p].version = v
      BY <2>1 DEF CopyProgress, States
    <3>3. pc'[p] # "unlock" => v < MaxVersion
      BY <2>1, <3>1, RecordAssumption DEF CopyProgress, Publishes
    <3>4. pc'[p] \in {"unlock", "fillHealth"}
      BY <2>1 DEF CopyProgress
    <3>5. \A q \in Procs \ {p} : pc'[q] = pc[q] /\ local'[q] = local[q]
      BY <2>1 DEF CopyProgress
    <3> HIDE DEF v
    <3> QED BY <3>2, <3>3, <3>4, <3>5
  <2>2. CASE \/ Call(p) \/ TryLock(p) \/ ReadHolder(p) \/ TestHolder(p)
             \/ ForceUnlock(p) \/ Retry(p) \/ CopyHealth(p) \/ Unlock(p)
    BY <2>2 DEF Call, TryLock, ReadHolder, TestHolder, ForceUnlock, Retry,
                CopyHealth, Unlock
  <2>3. CASE FillHealth(p) \/ FillProgress(p) \/ Publish(p)
    BY <2>3 DEF FillHealth, FillProgress, Publish
  <2> QED BY <1>2, <2>1, <2>2, <2>3 DEF Step
<1>3. ASSUME NEW p \in Procs, Crash(p) \/ Respawn(p) PROVE Room'
  BY <1>3 DEF Crash, Respawn, TypeOK
<1> QED BY <1>1, <1>2, <1>3 DEF Next

(***************************************************************************)
(* The lock part of the invariant is kept by every step of a system that   *)
(* does not reuse pids.                                                    *)
(***************************************************************************)
LEMMA LockStep ==
    ASSUME PidReuse = FALSE, LockInv, [Next]_vars
    PROVE  LockInv'
<1> USE RecordAssumption DEF LockInv
<1>1. TypeOK' /\ Room'
  BY TypeStep, RoomStep
<1> DEFINE Rest == /\ DeadHaveNoPid /\ PidsDistinct /\ SpentNotLive
                   /\ LockKnown /\ SeenKnown /\ SeenSpent /\ HolderProtected
<1> SUFFICES Rest'
  BY <1>1
<1> USE DEF TypeOK, DeadHaveNoPid, PidsDistinct, SpentNotLive, Known,
            LockKnown, SeenKnown, SeenSpent, HolderProtected, Holding, PCs
<1>2. CASE UNCHANGED vars
  BY <1>2 DEF vars
<1>3. ASSUME NEW p \in Procs, Step(p) PROVE Rest'
  \* A step in the life of a process changes no pid.
  <2>1. pid' = pid /\ spent' = spent
    BY <1>3 DEF Step, Call, TryLock, ReadHolder, TestHolder, ForceUnlock,
                Retry, CopyHealth, CopyProgress, FillHealth, FillProgress,
                Publish, Unlock
  <2>2. CASE Call(p)
    BY <2>1, <2>2 DEF Call
  <2>3. CASE TryLock(p)
    BY <2>1, <2>3 DEF TryLock
  <2>4. CASE ReadHolder(p)
    BY <2>1, <2>4 DEF ReadHolder
  <2>5. CASE TestHolder(p)
    BY <2>1, <2>5 DEF TestHolder, Gone, LivePids
  <2>6. CASE ForceUnlock(p)
    BY <2>1, <2>6 DEF ForceUnlock, Released
  <2>7. CASE Retry(p)
    BY <2>1, <2>7 DEF Retry
  <2>8. CASE CopyHealth(p)
    BY <2>1, <2>8 DEF CopyHealth
  <2>9. CASE CopyProgress(p)
    BY <2>1, <2>9 DEF CopyProgress
  <2>10. CASE FillHealth(p) \/ FillProgress(p) \/ Publish(p)
    BY <2>1, <2>10 DEF FillHealth, FillProgress, Publish
  <2>11. CASE Unlock(p)
    BY <2>1, <2>11 DEF Unlock, Released
  <2> QED BY <1>3, <2>2, <2>3, <2>4, <2>5, <2>6, <2>7, <2>8, <2>9, <2>10,
             <2>11 DEF Step
<1>4. ASSUME NEW p \in Procs, Crash(p) PROVE Rest'
  <2>1. /\ pid[p] \in Pids /\ pid' = [pid EXCEPT ![p] = NoPid]
        /\ spent' = spent \union {pid[p]}
        /\ pc' = [pc EXCEPT ![p] = "dead"] /\ lock' = lock
        /\ seen' = [seen EXCEPT ![p] = NoPid]
    BY <1>4 DEF Crash
  <2>2. \A x : Known(x) /\ x # NoPid => Known(x)'
    BY <2>1
  <2>3. DeadHaveNoPid' /\ PidsDistinct' /\ SpentNotLive'
    BY <2>1
  <2>4. LockKnown' /\ SeenKnown' /\ SeenSpent' /\ HolderProtected'
    BY <2>1, <2>2
  <2> QED BY <2>3, <2>4
<1>5. ASSUME NEW p \in Procs, Respawn(p) PROVE Rest'
  <2> PICK x \in Available : pid' = [pid EXCEPT ![p] = x]
    BY <1>5 DEF Respawn
  <2>1. /\ pid[p] = NoPid /\ x \in Pids /\ x \notin spent
        /\ \A q \in Procs : pid[q] # x
        /\ pc' = [pc EXCEPT ![p] = "idle"]
        /\ lock' = lock /\ spent' = spent /\ seen' = seen
    BY <1>5 DEF Respawn, Available, LivePids
  <2>2. \A y : Known(y) /\ y # NoPid => Known(y)'
    BY <2>1
  <2>3. DeadHaveNoPid' /\ PidsDistinct' /\ SpentNotLive'
    BY <2>1
  <2>4. LockKnown' /\ SeenKnown' /\ SeenSpent' /\ HolderProtected'
    BY <2>1, <2>2
  <2> QED BY <2>3, <2>4
<1> QED BY <1>2, <1>3, <1>4, <1>5 DEF Next

\* Without pid reuse, a live process that took the lock keeps it until it
\* unlocks, whatever recoveries run beside it.
THEOREM HolderSafety ==
    ASSUME PidReuse = FALSE PROVE Spec => []HolderProtected
<1>1. Init => LockInv
  BY InitLock
<1>2. LockInv /\ [Next]_vars => LockInv'
  BY LockStep
<1>3. LockInv => HolderProtected
  BY DEF LockInv
<1> QED BY <1>1, <1>2, <1>3, PTL DEF Spec

----------------------------------------------------------------------------
(***************************************************************************)
(* What the holder has copied is the valid slot, and what it has filled is *)
(* the next one.  At most one process is a holder.                         *)
(***************************************************************************)
Valid == slots[published.slot]

HalfCopied ==
    \A p \in Procs : pc[p] = "copyProgress" => local[p].down = Valid.down

Copied ==
    \A p \in Procs :
        pc[p] \in {"fillHealth", "fillProgress", "publish"} => local[p] = Valid

HalfFilled ==
    \A p \in Procs :
        pc[p] \in {"fillProgress", "publish"} =>
            slots[FreeSlot].down = (op[p] = "down")

Filled ==
    \A p \in Procs :
        pc[p] = "publish" => slots[FreeSlot].version = local[p].version + 1

DataInv == RoutingBit /\ HalfCopied /\ Copied /\ HalfFilled /\ Filled

LEMMA OneHolder ==
    ASSUME LockInv, NEW p \in Procs, NEW q \in Procs,
           pc[p] \in Holding, pc[q] \in Holding
    PROVE  p = q
BY DEF LockInv, HolderProtected, PidsDistinct, DeadHaveNoPid, Holding

LEMMA InitData == ASSUME Init PROVE DataInv
<1>1. RoutingBit
  <2>1. published.slot = 0 /\ published.down = FALSE
    BY DEF Init
  <2>2. slots[0].down = FALSE
    BY DEF Init, EmptyState
  <2> QED BY <2>1, <2>2 DEF RoutingBit
<1>2. \A p \in Procs : pc[p] = "idle"
  BY DEF Init
<1> QED BY <1>1, <1>2 DEF DataInv, HalfCopied, Copied, HalfFilled, Filled

LEMMA DataStep ==
    ASSUME LockInv, DataInv, [Next]_vars PROVE DataInv'
<1> USE DEF DataInv
<1>1. /\ TypeOK /\ Room
      /\ published.slot \in 0..1 /\ FreeSlot \in 0..1
      /\ FreeSlot # published.slot /\ 1 - FreeSlot = published.slot
      /\ Valid \in States /\ slots[FreeSlot] \in States
  BY DEF LockInv, TypeOK, FreeSlot, Valid
<1> DEFINE Quiet == /\ slots' = slots /\ published' = published
\* Steps that neither fill nor publish nor move a process under the lock.
<1>2. ASSUME NEW p \in Procs, Quiet,
             \A q \in Procs \ {p} :
                 pc'[q] = pc[q] /\ local'[q] = local[q] /\ op'[q] = op[q],
             pc'[p] \notin {"copyProgress", "fillHealth", "fillProgress", "publish"}
      PROVE  DataInv'
  BY <1>2 DEF RoutingBit, HalfCopied, Copied, HalfFilled, Filled, Valid, FreeSlot
<1>3. CASE UNCHANGED vars
  BY <1>3 DEF vars, RoutingBit, HalfCopied, Copied, HalfFilled, Filled, Valid,
              FreeSlot
<1>4. ASSUME NEW p \in Procs, Step(p) PROVE DataInv'
  <2> USE <1>1
  <2> DEFINE Others == \A q \in Procs \ {p} :
                 pc'[q] = pc[q] /\ local'[q] = local[q] /\ op'[q] = op[q]
             Alone == \A q \in Procs \ {p} : pc[q] \notin Holding
  <2>1. CASE \/ Call(p) \/ TryLock(p) \/ ReadHolder(p) \/ TestHolder(p)
             \/ ForceUnlock(p) \/ Retry(p) \/ Unlock(p)
    <3>1. Quiet /\ Others
      BY <2>1 DEF Call, TryLock, ReadHolder, TestHolder, ForceUnlock, Retry,
                  Unlock, TypeOK
    <3>2. pc'[p] \notin {"copyProgress", "fillHealth", "fillProgress", "publish"}
      BY <2>1 DEF Call, TryLock, ReadHolder, TestHolder, ForceUnlock, Retry,
                  Unlock, TypeOK
    <3> QED BY <3>1, <3>2, <1>2
  <2>2. CASE CopyHealth(p)
    <3>1. Quiet /\ Others /\ pc'[p] = "copyProgress" /\ local'[p].down = Valid.down
      BY <2>2 DEF CopyHealth, TypeOK, Valid, States
    <3> QED BY <3>1 DEF RoutingBit, HalfCopied, Copied, HalfFilled, Filled,
                        Valid, FreeSlot
  <2>3. CASE CopyProgress(p)
    <3>1. /\ Quiet /\ Others /\ pc'[p] \in {"unlock", "fillHealth"}
          /\ local' = [local EXCEPT ![p].version = Valid.version]
          /\ local[p] \in States
      BY <2>3 DEF CopyProgress, TypeOK, Valid
    <3>2. local[p].down = Valid.down
      BY <2>3 DEF CopyProgress, HalfCopied
    <3>3. local'[p] = Valid
      BY <3>1, <3>2 DEF States, TypeOK
    <3> QED BY <3>1, <3>3 DEF RoutingBit, HalfCopied, Copied, HalfFilled,
                              Filled, Valid, FreeSlot
  <2>4. CASE FillHealth(p)
    <3>1. Alone
      BY <2>4, OneHolder DEF FillHealth, Holding
    <3>2. /\ Others /\ published' = published /\ local' = local /\ op' = op
          /\ pc[p] = "fillHealth" /\ pc'[p] = "fillProgress"
          /\ slots' = [slots EXCEPT ![FreeSlot].down = op[p] = "down"]
      BY <2>4 DEF FillHealth, TypeOK
    <3>3. Valid' = Valid /\ FreeSlot' = FreeSlot
      BY <3>2 DEF Valid, FreeSlot, TypeOK
    <3>4. slots'[FreeSlot].down = (op[p] = "down")
      BY <3>2 DEF TypeOK, States
    <3> QED BY <3>1, <3>2, <3>3, <3>4
            DEF RoutingBit, HalfCopied, Copied, HalfFilled, Filled, Valid, Holding
  <2>5. CASE FillProgress(p)
    <3>1. Alone
      BY <2>5, OneHolder DEF FillProgress, Holding
    <3>2. /\ Others /\ published' = published /\ local' = local /\ op' = op
          /\ pc[p] = "fillProgress" /\ pc'[p] = "publish"
          /\ slots' = [slots EXCEPT ![FreeSlot].version = local[p].version + 1]
      BY <2>5 DEF FillProgress, TypeOK
    <3>3. Valid' = Valid /\ FreeSlot' = FreeSlot
      BY <3>2 DEF Valid, FreeSlot, TypeOK
    <3>4. /\ slots'[FreeSlot].version = local[p].version + 1
          /\ slots'[FreeSlot].down = slots[FreeSlot].down
      BY <3>2 DEF TypeOK, States
    <3> QED BY <3>1, <3>2, <3>3, <3>4
            DEF RoutingBit, HalfCopied, Copied, HalfFilled, Filled, Valid, Holding
  <2>6. CASE Publish(p)
    <3>1. Alone
      BY <2>6, OneHolder DEF Publish, Holding
    <3>2. /\ Others /\ slots' = slots /\ pc[p] = "publish" /\ pc'[p] = "unlock"
          /\ published' = [slot |-> FreeSlot, down |-> op[p] = "down"]
      BY <2>6 DEF Publish, Word, TypeOK
    <3>3. published'.down = slots'[published'.slot].down
      BY <3>2 DEF HalfFilled
    <3> QED BY <3>1, <3>2, <3>3
            DEF RoutingBit, HalfCopied, Copied, HalfFilled, Filled, Holding
  <2> QED BY <1>4, <2>1, <2>2, <2>3, <2>4, <2>5, <2>6 DEF Step
<1>5. ASSUME NEW p \in Procs, Crash(p) \/ Respawn(p) PROVE DataInv'
  <2>1. Quiet /\ pc'[p] \in {"dead", "idle"}
    BY <1>1, <1>5 DEF Crash, Respawn, TypeOK
  <2>2. \A q \in Procs \ {p} :
            pc'[q] = pc[q] /\ local'[q] = local[q] /\ op'[q] = op[q]
    BY <1>1, <1>5 DEF Crash, Respawn, TypeOK
  <2> QED BY <2>1, <2>2, <1>2
<1> QED BY <1>3, <1>4, <1>5 DEF Next

\* Without pid reuse the routing bit is right at every instant.
THEOREM RoutingSafety ==
    ASSUME PidReuse = FALSE PROVE Spec => []RoutingBit
<1>1. Init => LockInv /\ DataInv
  BY InitLock, InitData
<1>2. LockInv /\ DataInv /\ [Next]_vars => (LockInv /\ DataInv)'
  BY LockStep, DataStep
<1>3. DataInv => RoutingBit
  BY DEF DataInv
<1> QED BY <1>1, <1>2, <1>3, PTL DEF Spec

----------------------------------------------------------------------------
(***************************************************************************)
(* The record implements an atomic register: the last copy step is the     *)
(* read, the publication is the update, the end of an operation lets go of *)
(* what was read, and every other step is invisible.                       *)
(***************************************************************************)
Got == [p \in Procs |-> IF Reading(p) THEN local[p] ELSE NoValue]

LEMMA AtomicStep ==
    ASSUME LockInv, DataInv, [Next]_vars
    PROVE  [Atomic!ANext]_(Atomic!avars)
<1> USE DEF DataInv
<1>1. /\ TypeOK /\ Room
      /\ published.slot \in 0..1 /\ FreeSlot \in 0..1
      /\ FreeSlot # published.slot
      /\ Valid \in States
  BY DEF LockInv, TypeOK, FreeSlot, Valid
<1> DEFINE Unseen == Valid' = Valid /\ published' = published
\* A step that changes neither the value nor what operations have read.
<1>2. ASSUME Unseen, Got' = Got PROVE UNCHANGED Atomic!avars
  BY <1>2 DEF Atomic!avars, Got, Valid
\* A step after which one process holds nothing.
<1>3. ASSUME NEW p \in Procs, Unseen, Got' = [Got EXCEPT ![p] = NoValue]
      PROVE  Atomic!ANext
  <2>1. Atomic!Finish(p)
    BY <1>3 DEF Atomic!Finish, Got, Valid
  <2> QED BY <2>1 DEF Atomic!ANext
<1>4. CASE UNCHANGED vars
  BY <1>2, <1>4 DEF vars, Got, Reading, Valid
<1>5. ASSUME NEW p \in Procs, Step(p) PROVE [Atomic!ANext]_(Atomic!avars)
  <2>1. CASE \/ Call(p) \/ TryLock(p) \/ ReadHolder(p) \/ TestHolder(p)
             \/ ForceUnlock(p) \/ Retry(p) \/ CopyHealth(p)
    <3>1. Unseen
      BY <2>1 DEF Call, TryLock, ReadHolder, TestHolder, ForceUnlock, Retry,
                  CopyHealth, Valid
    <3>2. \A q \in Procs : Reading(q)' = Reading(q) /\ (Reading(q) => local'[q] = local[q])
      BY <1>1, <2>1 DEF Call, TryLock, ReadHolder, TestHolder, ForceUnlock,
                        Retry, CopyHealth, Reading, TypeOK
    <3> QED BY <1>2, <3>1, <3>2 DEF Got
  <2>2. CASE CopyProgress(p)
    <3>1. /\ Unseen /\ ~Reading(p) /\ Reading(p)'
          /\ local' = [local EXCEPT ![p].version = Valid.version]
          /\ \A q \in Procs \ {p} : Reading(q)' = Reading(q)
      BY <1>1, <2>2 DEF CopyProgress, Reading, TypeOK, Valid
    <3>2. local[p] \in States /\ local[p].down = Valid.down
      BY <1>1, <2>2 DEF CopyProgress, HalfCopied, TypeOK
    <3>3. local'[p] = Valid
      BY <1>1, <3>1, <3>2 DEF States, TypeOK
    <3>4. Got[p] = NoValue /\ Got' = [Got EXCEPT ![p] = Valid]
      BY <1>1, <3>1, <3>3 DEF Got, TypeOK
    <3>5. Atomic!Read(p)
      BY <3>1, <3>4 DEF Atomic!Read, Got, Valid
    <3> QED BY <3>5 DEF Atomic!ANext
  <2>3. CASE FillHealth(p) \/ FillProgress(p)
    <3>1. published' = published /\ local' = local
      BY <2>3 DEF FillHealth, FillProgress
    <3>2. Valid' = Valid
      BY <1>1, <2>3, <3>1 DEF FillHealth, FillProgress, Valid, TypeOK
    <3>3. \A q \in Procs : Reading(q)' = Reading(q)
      BY <1>1, <2>3 DEF FillHealth, FillProgress, Reading, TypeOK
    <3> QED BY <1>2, <3>1, <3>2, <3>3 DEF Got
  <2>4. CASE Publish(p)
    <3>1. /\ pc[p] = "publish" /\ slots' = slots /\ local' = local
          /\ published' = [slot |-> FreeSlot, down |-> op[p] = "down"]
      BY <2>4 DEF Publish, Word
    <3>2. \A q \in Procs : Reading(q)' = Reading(q)
      BY <1>1, <2>4 DEF Publish, Reading, TypeOK
    <3>3. Got' = Got /\ Got[p] = Valid
      BY <3>1, <3>2 DEF Got, Reading, Copied
    <3> DEFINE d == op[p] = "down"
    <3>4. Valid' = [version |-> Valid.version + 1, down |-> d]
      <4>1. Valid' = slots[FreeSlot] /\ slots[FreeSlot] \in States
        BY <1>1, <3>1 DEF Valid, TypeOK
      <4>2. slots[FreeSlot].version = Valid.version + 1
        BY <3>1 DEF Filled, Copied
      <4>3. slots[FreeSlot].down = d
        BY <3>1 DEF HalfFilled
      <4> HIDE DEF d
      <4> QED BY <4>1, <4>2, <4>3 DEF States
    <3>5. Valid.version < MaxVersion
      BY <1>1, <3>1 DEF Room, Copied
    <3>6. d \in BOOLEAN /\ published'.down = d
      BY <3>1
    <3> HIDE DEF d
    <3>7. Atomic!Update(p)
      BY <3>3, <3>4, <3>5, <3>6 DEF Atomic!Update, Got, Valid
    <3> QED BY <3>7 DEF Atomic!ANext
  <2>5. CASE Unlock(p)
    <3>1. Unseen /\ ~Reading(p)'
      BY <1>1, <2>5 DEF Unlock, Reading, TypeOK, Valid
    <3>2. \A q \in Procs \ {p} : Reading(q)' = Reading(q) /\ local'[q] = local[q]
      BY <1>1, <2>5 DEF Unlock, Reading, TypeOK
    <3> QED BY <1>3, <3>1, <3>2 DEF Got
  <2> QED BY <1>5, <2>1, <2>2, <2>3, <2>4, <2>5 DEF Step
<1>6. ASSUME NEW p \in Procs, Crash(p) \/ Respawn(p)
      PROVE  Atomic!ANext
  <2>1. Unseen /\ ~Reading(p)'
    BY <1>1, <1>6 DEF Crash, Respawn, Reading, TypeOK, Valid
  <2>2. \A q \in Procs \ {p} : Reading(q)' = Reading(q) /\ local'[q] = local[q]
    BY <1>1, <1>6 DEF Crash, Respawn, Reading, TypeOK
  <2> QED BY <1>3, <2>1, <2>2 DEF Got
<1> QED BY <1>4, <1>5, <1>6 DEF Next

\* Without pid reuse the record is atomic: no torn read, no lost or half
\* update, whichever processes die at whichever step.
THEOREM RecordIsAtomic ==
    ASSUME PidReuse = FALSE PROVE Spec => ImplementsAtomicRecord
<1>1. Init => LockInv /\ DataInv
  BY InitLock, InitData
<1>2. LockInv /\ DataInv /\ [Next]_vars => (LockInv /\ DataInv)'
  BY LockStep, DataStep
<1>3. Init => Atomic!AInit
  BY DEF Init, Atomic!AInit, Atomic!InitialValue, EmptyState, Reading
<1>4. LockInv /\ DataInv /\ [Next]_vars => [Atomic!ANext]_(Atomic!avars)
  BY AtomicStep
<1> QED BY <1>1, <1>2, <1>3, <1>4, PTL
        DEF Spec, ImplementsAtomicRecord, Atomic!ASpec
=============================================================================
