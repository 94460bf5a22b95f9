------------------------------- MODULE Reload -------------------------------
(***************************************************************************)
(* Loading a configuration: generations, the shared zone of each module    *)
(* and what its peers inherit from the zone of the configuration in force  *)
(* (runtime/ngx_healthcheck_zone.c and the identity index of               *)
(* ngx_healthcheck_common.c), over any number of loads that succeed or     *)
(* fail.                                                                   *)
(*                                                                         *)
(* A peer's health is abstracted to its lineage: where its history began,  *)
(* as the module, generation and position of a peer that started over.     *)
(* The counters and the start of the last round travel with it.            *)
(***************************************************************************)
EXTENDS Integers, Sequences, FiniteSets, FiniteSetsExt

CONSTANTS
    Modules,       \* the tags of the HTTP and the stream module
    Identities,    \* upstream name, address, check address and check type
    Hash,          \* the hash of an identity
    MaxGeneration, \* the largest ngx_uint_t
    MaxPeers       \* bound: the peers of one module

ASSUME ReloadAssumption ==
    /\ Hash \in [Identities -> Nat]
    /\ MaxGeneration \in Nat
    /\ MaxPeers \in Nat

VARIABLES shared,  \* the zones of the configuration in force
          conf,    \* the peers of the configuration being loaded
          todo,    \* the modules whose new zone is not initialised yet
          built,   \* the new zones that are
          zone     \* the zone that init_zone is working on, at most one

vars == <<shared, conf, todo, built, zone>>

Lineages == [module : Modules, generation : 1..MaxGeneration, place : 1..MaxPeers]

\* The shared record of a peer.
Records == [identity : Identities, lineage : Lineages]

\* Sequences up to the bound.
Upto(S) == UNION {[1..n -> S] : n \in 0..MaxPeers}

Zones == [tag : Modules, generation : 1..MaxGeneration, records : Seq(Records)]

(***************************************************************************)
(* The zone being initialised: its records so far, the old records it      *)
(* inherits from, the positions of those still in the index, and the new   *)
(* positions whose predecessor could not be read (auxiliary).              *)
(***************************************************************************)
LoadingZones ==
    [tag : Modules, generation : 1..MaxGeneration, records : Seq(Records),
     old : Seq(Records), index : SUBSET (1..MaxPeers), busy : SUBSET (1..MaxPeers)]

NoConf == [m \in Modules |-> <<>>]

Init ==
    /\ shared = {}
    /\ conf = NoConf
    /\ todo = {} /\ built = {} /\ zone = {}

----------------------------------------------------------------------------
\* A plausible bug: the zones of the modules are not told apart.
AnyTag(tag) == shared

Tagged(tag) == {z \in shared : z.tag = tag}

\* ngx_healthcheck_find_latest_peers_shm, as a set of at most one zone.
Latest(tag) ==
    {z \in Tagged(tag) : \A other \in Tagged(tag) : other.generation <= z.generation}

OldGeneration(tag) == Max({z.generation : z \in Latest(tag)} \union {0})

OldRecords(tag) ==
    IF Latest(tag) = {} THEN <<>> ELSE (CHOOSE z \in Latest(tag) : TRUE).records

Idle == todo = {} /\ built = {} /\ zone = {}

GenerationLeft(tag) == OldGeneration(tag) < MaxGeneration

\* A configuration is read: a module has a zone when the configuration has its
\* block.  ngx_healthcheck_configure_zone refuses it when there is no
\* generation left.
Configure ==
    /\ Idle
    /\ \E present \in SUBSET Modules \ {{}} :
          /\ \A m \in present : GenerationLeft(m)
          /\ \E peers \in [present -> Upto(Identities)] :
                conf' = [m \in Modules |-> IF m \in present THEN peers[m] ELSE <<>>]
          /\ todo' = present
    /\ UNCHANGED <<shared, built, zone>>

\* A configuration with neither block comes into force.
ConfigureNone ==
    /\ Idle
    /\ shared' = {}
    /\ UNCHANGED <<conf, todo, built, zone>>

----------------------------------------------------------------------------
(***************************************************************************)
(* The identity index: buckets of old records.  A bucket is a list whose   *)
(* latest entry comes first, that is, the largest position.                *)
(***************************************************************************)
BucketCount(old) == IF Len(old) > 0 THEN 2 * Len(old) + 1 ELSE 1

Bucket(old, identity) == Hash[identity] % BucketCount(old)

\* ngx_healthcheck_init_zone up to its loop.
StartZone ==
    /\ zone = {}
    /\ \E m \in todo :
          zone' = {[tag |-> m, generation |-> OldGeneration(m) + 1,
                    records |-> <<>>,
                    old |-> OldRecords(m), index |-> DOMAIN OldRecords(m), busy |-> {}]}
    /\ UNCHANGED <<shared, conf, todo, built>>

InBucket(z, identity) ==
    {k \in z.index : Bucket(z.old, z.old[k].identity) = Bucket(z.old, identity)}

Matching(z, identity) == {k \in InBucket(z, identity) : z.old[k].identity = identity}

\* ngx_healthcheck_identity_index_take: the first match, or 0.
Take(z, identity) == Max(Matching(z, identity) \union {0})

\* Plausible bugs: the match stays in the index, or its bucket is emptied.
NotConsumed(z, identity) == z.index
BucketConsumed(z, identity) == z.index \ InBucket(z, identity)

Consumed(z, identity) == z.index \ {Take(z, identity)}

\* A peer starts over with default_down.
NewLineage(z) ==
    [module |-> z.tag, generation |-> z.generation, place |-> Len(z.records) + 1]

\* One turn of the loop: the next peer takes its predecessor, and reads it
\* unless its lock is busy.
InitPeer ==
    \E z \in zone :
       /\ Len(z.records) < Len(conf[z.tag])
       /\ LET identity == conf[z.tag][Len(z.records) + 1]
              k == Take(z, identity)
              next(lineage) ==
                  [z EXCEPT
                      !.records = Append(@, [identity |-> identity, lineage |-> lineage]),
                      !.index = Consumed(z, identity)]
          IN  \/ /\ k # 0
                 /\ zone' = {next(z.old[k].lineage)}
              \/ /\ k # 0
                 /\ zone' = {[next(NewLineage(z)) EXCEPT
                                 !.busy = @ \union {Len(z.records) + 1}]}
              \/ /\ k = 0
                 /\ zone' = {next(NewLineage(z))}
       /\ UNCHANGED <<shared, conf, todo, built>>

EndZone ==
    \E z \in zone :
       /\ Len(z.records) = Len(conf[z.tag])
       /\ built' = built \union
              {[tag |-> z.tag, generation |-> z.generation, records |-> z.records]}
       /\ todo' = todo \ {z.tag}
       /\ zone' = {}
       /\ UNCHANGED <<shared, conf>>

\* The new configuration is in force.
Commit ==
    /\ todo = {} /\ built # {}
    /\ shared' = built
    /\ built' = {} /\ conf' = NoConf
    /\ UNCHANGED <<todo, zone>>

\* The load fails: out of memory here, or anything wrong elsewhere.
Fail ==
    /\ ~Idle
    /\ todo' = {} /\ built' = {} /\ zone' = {} /\ conf' = NoConf
    /\ UNCHANGED shared

Next == Configure \/ ConfigureNone \/ StartZone \/ InitPeer \/ EndZone \/ Commit \/ Fail

Spec == Init /\ [][Next]_vars

----------------------------------------------------------------------------
(***************************************************************************)
(* Properties                                                              *)
(***************************************************************************)
\* Every variable keeps its type.
TypeOK ==
    /\ shared \subseteq Zones /\ built \subseteq Zones
    /\ conf \in [Modules -> Upto(Identities)]
    /\ todo \subseteq Modules
    /\ zone \subseteq LoadingZones
    /\ Cardinality(zone) <= 1

\* No two peers of a zone share a history, after any number of loads, also
\* when peers of one identity come and go: a record is inherited at most once.
OneHeir ==
    \A z \in shared \union built \union zone : \A i, j \in DOMAIN z.records :
        z.records[i].lineage = z.records[j].lineage => i = j

\* "Matching peers inherit their state on reload" (README), by module,
\* upstream name, both addresses and type: a history belongs to one identity
\* for good.  Wherever a lineage shows up, in the configuration in force or in
\* a new one, it has the same identity and is in the zone of its module.
HistoryOfIdentity ==
    \A y, z \in shared \union built \union zone :
        \A i \in DOMAIN y.records, j \in DOMAIN z.records :
            y.records[i].lineage = z.records[j].lineage =>
                /\ y.records[i].identity = z.records[j].identity
                /\ y.records[i].lineage.module = y.tag

CountOf(records, identity) ==
    Cardinality({i \in DOMAIN records : records[i].identity = identity})

Least(a, b) == IF a <= b THEN a ELSE b

\* As many peers of an identity inherit as can: the smaller of its old and its
\* new number take a record, and only a busy record is forgotten.
NoneForgotten ==
    \A z \in zone : Len(z.records) = Len(conf[z.tag]) =>
        \A identity \in Identities :
            Cardinality({i \in DOMAIN z.records :
                            /\ z.records[i].identity = identity
                            /\ \/ i \in z.busy
                               \/ \E k \in DOMAIN z.old :
                                     z.old[k].lineage = z.records[i].lineage})
            = Least(CountOf(z.old, identity), CountOf(z.records, identity))

=============================================================================
