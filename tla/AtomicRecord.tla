--------------------------- MODULE AtomicRecord ---------------------------
(***************************************************************************)
(* What a shared peer record promises its users: it behaves as one value   *)
(* that is read as a whole and replaced as a whole, and no replacement is  *)
(* lost.  The value is a version (the round of the health check) with the  *)
(* down flag of that version; request routing sees the value's down flag.  *)
(***************************************************************************)
EXTENDS Naturals

CONSTANTS Procs,       \* the processes that use the record
          NoValue,     \* what a process outside an operation holds
          MaxVersion   \* bound on the number of updates

VARIABLES value,   \* the record's current contents
          got,     \* what the operation under way of each process has read
          routed   \* the down flag seen by request routing

avars == <<value, got, routed>>

InitialValue == [version |-> 0, down |-> FALSE]

AInit ==
    /\ value = InitialValue
    /\ got = [p \in Procs |-> NoValue]
    /\ routed = FALSE

\* A process reads the whole value.
Read(p) ==
    /\ got[p] = NoValue
    /\ got' = [got EXCEPT ![p] = value]
    /\ UNCHANGED <<value, routed>>

\* A process replaces the value it has read: nobody has replaced it since.
Update(p) ==
    /\ got[p] = value
    /\ value.version < MaxVersion
    /\ \E d \in BOOLEAN :
          /\ value' = [version |-> value.version + 1, down |-> d]
          /\ routed' = d
    /\ UNCHANGED got

\* An operation returns, or its process dies.
Finish(p) ==
    /\ got' = [got EXCEPT ![p] = NoValue]
    /\ UNCHANGED <<value, routed>>

ANext == \E p \in Procs : Read(p) \/ Update(p) \/ Finish(p)

ASpec == AInit /\ [][ANext]_avars
=============================================================================
