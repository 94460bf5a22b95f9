---------------------------- MODULE ReloadProofs ----------------------------
(***************************************************************************)
(* What peers inherit over any number of loads, for any modules, any       *)
(* identities and hashes of them, and any number of peers and generations. *)
(***************************************************************************)
EXTENDS Reload, FiniteSetTheorems, TLAPS

----------------------------------------------------------------------------
(***************************************************************************)
(* The largest match and the latest zone                                   *)
(***************************************************************************)
LEMMA MaxExists ==
    ASSUME NEW n \in Nat, NEW S \in SUBSET (0..n), S # {}
    PROVE  Max(S) \in S /\ \A k \in S : k <= Max(S)
<1> DEFINE T == {n - k : k \in S}
<1>1. \A k \in S : k \in 0..n
  OBVIOUS
<1>2. \A y \in T : y \in Nat
  <2>1. \A k \in S : n - k \in Nat
    BY <1>1
  <2>2. QED
    BY <2>1
<1>3. T # {}
  OBVIOUS
<1>4. \A k \in S : n - k \in T
  OBVIOUS
<1>5. \A y \in T : \E k \in S : y = n - k
  OBVIOUS
<1> HIDE DEF T
<1>6. PICK x \in T : \A y \in T : ~(<<y, x>> \in OpToRel(<, Nat))
  BY <1>2, <1>3, NatLessThanWellFounded, WFMin, Zenon
<1>7. ASSUME NEW y \in T PROVE x <= y
  <2>1. x \in Nat /\ y \in Nat
    BY <1>2, <1>6
  <2>2. <<y, x>> \in Nat \X Nat /\ <<y, x>>[1] = y /\ <<y, x>>[2] = x
    BY <2>1
  <2>3. ~(<<y, x>> \in OpToRel(<, Nat))
    BY <1>6, Zenon
  <2>4. ~(y < x)
    BY <2>2, <2>3, Zenon DEF OpToRel
  <2>5. QED
    BY <2>1, <2>4
<1>8. PICK k \in S : x = n - k
  BY <1>5, <1>6
<1>9. \A j \in S : k >= j
  BY <1>1, <1>4, <1>7, <1>8
<1>10. Max(S) \in S /\ \A j \in S : Max(S) >= j
  BY <1>9, Zenon DEF Max
<1>11. QED
  BY <1>1, <1>10

----------------------------------------------------------------------------
(***************************************************************************)
(* The invariant: how the zones and the load hang together, and where the  *)
(* history of each peer comes from.                                        *)
(***************************************************************************)
Known == shared \union built \union zone

Types ==
    /\ shared \subseteq Zones /\ built \subseteq Zones
    /\ conf \in [Modules -> Upto(Identities)]
    /\ todo \subseteq Modules
    /\ zone \subseteq LoadingZones

\* A module has one zone in force and one new zone; nothing else is loading.
OneZone ==
    /\ \A y, z \in shared : y.tag = z.tag => y = z
    /\ \A y, z \in built : y.tag = z.tag => y = z
    /\ \A y, z \in zone : y = z
    /\ \A z \in built : z.tag \notin todo
    /\ \A z \in zone : z.tag \in todo
    /\ \A m \in todo : GenerationLeft(m)

\* A history began in a zone of its module, no later than the zone it is in.
Born ==
    \A z \in Known :
        /\ Len(z.records) <= MaxPeers
        /\ \A i \in DOMAIN z.records :
              /\ z.records[i].lineage.module = z.tag
              /\ z.records[i].lineage.generation <= z.generation

\* A new zone is later than that in force, from which its histories come that
\* did not begin in it.
Inherits(z, record) ==
    \/ record.lineage.generation = z.generation
    \/ \E s \in shared : s.tag = z.tag /\ \E k \in DOMAIN s.records : record = s.records[k]

Descends ==
    /\ \A z \in built \union zone, s \in shared : s.tag = z.tag => s.generation < z.generation
    /\ \A z \in built : \A i \in DOMAIN z.records : Inherits(z, z.records[i])

\* A peer of the zone being initialised has a history of its own or that of an
\* old record which is no longer in the index.
Placed(z, i) ==
    \/ z.records[i].lineage = [module |-> z.tag, generation |-> z.generation, place |-> i]
    \/ \E k \in DOMAIN z.old \ z.index : z.records[i] = z.old[k]

Loading ==
    \A z \in zone :
        /\ z.old = <<>> \/ \E s \in shared : s.tag = z.tag /\ z.old = s.records
        /\ z.index \subseteq DOMAIN z.old
        /\ \A i \in DOMAIN z.records : Placed(z, i)

LoadInv == Types /\ OneZone /\ Born /\ Descends /\ Loading /\ OneHeir

LEMMA InitLoad == Init => LoadInv
<1> SUFFICES ASSUME Init PROVE LoadInv
  OBVIOUS
<1>1. NoConf \in [Modules -> Upto(Identities)]
  <2>1. <<>> \in [1..0 -> Identities] /\ 0 \in 0..MaxPeers
    BY ReloadAssumption
  <2>2. QED
    BY <2>1 DEF NoConf, Upto
<1>2. QED
  BY <1>1
  DEF Init, LoadInv, Types, OneZone, Born, Known, Descends, Loading, OneHeir

\* The latest zone of a module is the only one.
LEMMA LatestZone ==
    ASSUME Types, OneZone, NEW m \in Modules
    PROVE  /\ OldGeneration(m) \in 0..MaxGeneration
           /\ \A s \in shared : s.tag = m => s.generation = OldGeneration(m)
           /\ \/ OldRecords(m) = <<>>
              \/ \E s \in shared : s.tag = m /\ OldRecords(m) = s.records
<1> DEFINE generations == {z.generation : z \in Latest(m)} \union {0}
<1>1. OldGeneration(m) = Max(generations)
  BY DEF OldGeneration
<1>2. CASE Tagged(m) = {}
  <2>1. Latest(m) = {} /\ \A s \in shared : s.tag # m
    BY <1>2 DEF Latest, Tagged
  <2>2. generations = {0}
    BY <2>1
  <2>3. Max({0}) \in {0}
    BY MaxExists
  <2>4. OldGeneration(m) = 0 /\ OldRecords(m) = <<>>
    BY <1>1, <2>1, <2>2, <2>3 DEF OldRecords
  <2>5. QED
    BY <2>1, <2>4, ReloadAssumption
<1>3. ASSUME NEW s \in Tagged(m)
      PROVE  /\ OldGeneration(m) \in 0..MaxGeneration
             /\ \A z \in shared : z.tag = m => z.generation = OldGeneration(m)
             /\ s \in shared /\ s.tag = m /\ OldRecords(m) = s.records
  <2>1. s \in shared /\ s.tag = m /\ s.generation \in 1..MaxGeneration
    BY <1>3 DEF Tagged, Types, Zones
  <2>2. Tagged(m) = {s}
    BY <1>3, <2>1 DEF Tagged, OneZone
  <2>3. Latest(m) = {s}
    BY <2>1, <2>2 DEF Latest
  <2> DEFINE g == s.generation
  <2>4. generations = {g, 0}
    BY <2>3
  <2>5. g \in Nat /\ {g, 0} \in SUBSET (0..g)
    BY <2>1, ReloadAssumption
  <2> HIDE DEF g
  <2>6. Max({g, 0}) \in {g, 0} /\ \A k \in {g, 0} : k <= Max({g, 0})
    BY <2>5, MaxExists
  <2>7. OldGeneration(m) = g
    BY <1>1, <2>4, <2>5, <2>6
  <2>8. OldRecords(m) = s.records
    BY <2>3 DEF OldRecords
  <2>9. QED
    BY <2>1, <2>2, <2>7, <2>8, ReloadAssumption DEF Tagged, g
<1>4. QED
  BY <1>2, <1>3

\* The index gives up a match as long as it has one.
LEMMA TakeMatch ==
    ASSUME NEW z \in LoadingZones, NEW identity \in Identities,
           z.index \subseteq DOMAIN z.old
    PROVE  LET k == Take(z, identity)
           IN  /\ k # 0 => k \in z.index /\ z.old[k].identity = identity
               /\ k = 0 => \A j \in z.index : z.old[j].identity # identity
<1>1. z.old \in Seq(Records) /\ Len(z.old) \in Nat /\ DOMAIN z.old = 1..Len(z.old)
  BY DEF LoadingZones
<1> DEFINE matches == Matching(z, identity) \union {0}
<1>2. matches \in SUBSET (0..Len(z.old)) /\ matches # {}
  BY <1>1 DEF Matching, InBucket
<1>3. Take(z, identity) = Max(matches)
  BY DEF Take
<1> HIDE DEF matches
<1>4. Take(z, identity) \in matches /\ \A k \in matches : k <= Take(z, identity)
  BY <1>1, <1>2, <1>3, MaxExists
<1>5. ASSUME Take(z, identity) = 0, NEW j \in z.index, z.old[j].identity = identity
      PROVE  FALSE
  <2>1. j \in matches
    BY <1>5, Zenon DEF matches, Matching, InBucket
  <2>2. j \in 1..Len(z.old)
    BY <1>1
  <2>3. QED
    BY <1>1, <1>4, <1>5, <2>1, <2>2
<1>6. Take(z, identity) # 0 =>
        Take(z, identity) \in z.index /\ z.old[Take(z, identity)].identity = identity
  BY <1>4, Zenon DEF matches, Matching, InBucket
<1>7. QED
  BY <1>5, <1>6, Zenon

----------------------------------------------------------------------------
(***************************************************************************)
(* The next peer                                                           *)
(***************************************************************************)
\* The zone after one turn of the loop of init_zone: it has one record more,
\* which is the match taken from the index, or new.
Extended(z, next, identity, record) ==
    /\ Len(z.records) < MaxPeers
    /\ next \in LoadingZones
    /\ next.tag = z.tag /\ next.generation = z.generation /\ next.old = z.old
    /\ next.records = Append(z.records, record)
    /\ next.index = z.index \ {Take(z, identity)}
    /\ record \in Records /\ record.identity = identity
    /\ \/ /\ Take(z, identity) # 0 /\ record = z.old[Take(z, identity)]
          /\ next.busy = z.busy
       \/ /\ Take(z, identity) # 0 /\ record.lineage = NewLineage(z)
          /\ next.busy = z.busy \union {Len(z.records) + 1}
       \/ /\ Take(z, identity) = 0 /\ record.lineage = NewLineage(z)
          /\ next.busy = z.busy

\* The parts of InitPeer.
NextIdentity(z) == conf[z.tag][Len(z.records) + 1]

WithRecord(z, lineage) ==
    [z EXCEPT !.records = Append(@, [identity |-> NextIdentity(z), lineage |-> lineage]),
              !.index = Consumed(z, NextIdentity(z))]

Marked(z, new) == [new EXCEPT !.busy = @ \union {Len(z.records) + 1}]

LEMMA InitPeerCases ==
    ASSUME InitPeer
    PROVE  \E z \in zone :
              /\ Len(z.records) < Len(conf[z.tag])
              /\ \/ /\ Take(z, NextIdentity(z)) # 0
                    /\ zone' = {WithRecord(z, z.old[Take(z, NextIdentity(z))].lineage)}
                 \/ /\ Take(z, NextIdentity(z)) # 0
                    /\ zone' = {Marked(z, WithRecord(z, NewLineage(z)))}
                 \/ /\ Take(z, NextIdentity(z)) = 0
                    /\ zone' = {WithRecord(z, NewLineage(z))}
              /\ UNCHANGED <<shared, conf, todo, built>>
  BY Zenon DEF InitPeer, NextIdentity, WithRecord, Marked

LEMMA InitPeerEffect ==
    ASSUME LoadInv, InitPeer
    PROVE  \E z \in zone, identity \in Identities, record \in Records, next \in LoadingZones :
              /\ zone' = {next}
              /\ Extended(z, next, identity, record)
              /\ UNCHANGED <<shared, conf, todo, built>>
<1>1. PICK z \in zone :
        /\ Len(z.records) < Len(conf[z.tag])
        /\ \/ /\ Take(z, NextIdentity(z)) # 0
              /\ zone' = {WithRecord(z, z.old[Take(z, NextIdentity(z))].lineage)}
           \/ /\ Take(z, NextIdentity(z)) # 0
              /\ zone' = {Marked(z, WithRecord(z, NewLineage(z)))}
           \/ /\ Take(z, NextIdentity(z)) = 0
              /\ zone' = {WithRecord(z, NewLineage(z))}
        /\ UNCHANGED <<shared, conf, todo, built>>
  BY InitPeerCases
<1>2. /\ z \in LoadingZones /\ z.tag \in Modules /\ z.generation \in 1..MaxGeneration
      /\ z.records \in Seq(Records) /\ z.old \in Seq(Records)
      /\ z.index \subseteq 1..MaxPeers /\ z.busy \subseteq 1..MaxPeers
      /\ z.index \subseteq DOMAIN z.old
  BY DEF LoadInv, Types, LoadingZones, Loading
<1> DEFINE n == Len(z.records) + 1
           identity == NextIdentity(z)
           k == Take(z, identity)
<1>3. n \in 1..MaxPeers /\ Len(z.records) < MaxPeers /\ identity \in Identities
  <2>1. PICK m \in 0..MaxPeers : conf[z.tag] \in [1..m -> Identities]
    BY <1>2 DEF LoadInv, Types, Upto
  <2>2. Len(conf[z.tag]) = m
    BY <2>1
  <2>3. Len(z.records) \in Nat /\ n <= m /\ n \in 1..m
    BY <1>1, <1>2, <2>1, <2>2
  <2>4. conf[z.tag][n] \in Identities
    BY <2>1, <2>3
  <2>5. QED
    BY <2>3, <2>4, ReloadAssumption DEF NextIdentity
<1>4. k # 0 => k \in z.index /\ z.old[k].identity = identity
  BY <1>2, <1>3, TakeMatch
<1>5. NewLineage(z) \in Lineages
  BY <1>2, <1>3 DEF NewLineage, Lineages
<1>6. Consumed(z, identity) = z.index \ {k} /\ z.index \ {k} \subseteq 1..MaxPeers
  BY <1>2 DEF Consumed
<1>7. z.busy \union {n} \subseteq 1..MaxPeers
  BY <1>2, <1>3
<1>8. /\ \/ k # 0 /\ zone' = {WithRecord(z, z.old[k].lineage)}
         \/ k # 0 /\ zone' = {Marked(z, WithRecord(z, NewLineage(z)))}
         \/ k = 0 /\ zone' = {WithRecord(z, NewLineage(z))}
      /\ UNCHANGED <<shared, conf, todo, built>>
  BY <1>1
<1> HIDE DEF n, identity, k
<1> DEFINE record(lineage) == [identity |-> identity, lineage |-> lineage]
<1>9. ASSUME NEW lineage \in Lineages
      PROVE  LET new == WithRecord(z, lineage)
             IN  /\ record(lineage) \in Records /\ record(lineage).identity = identity
                 /\ record(lineage).lineage = lineage
                 /\ new \in LoadingZones
                 /\ new.tag = z.tag /\ new.generation = z.generation /\ new.old = z.old
                 /\ new.records = Append(z.records, record(lineage))
                 /\ new.index = z.index \ {k} /\ new.busy = z.busy
  <2>1. /\ record(lineage) \in Records /\ record(lineage).identity = identity
        /\ record(lineage).lineage = lineage
    BY <1>3, <1>9 DEF Records
  <2> DEFINE records == Append(z.records, record(lineage))
             index == z.index \ {k}
             new == WithRecord(z, lineage)
  <2>2. new = [z EXCEPT !.records = records, !.index = index]
    BY <1>6 DEF WithRecord, identity
  <2> HIDE DEF record
  <2>3. records \in Seq(Records) /\ index \in SUBSET (1..MaxPeers)
    BY <1>2, <1>6, <2>1
  <2> HIDE DEF records, index, new
  <2>4. new \in LoadingZones
    BY <1>2, <2>2, <2>3 DEF LoadingZones
  <2>5. /\ new.tag = z.tag /\ new.generation = z.generation /\ new.old = z.old
        /\ new.records = records /\ new.index = index /\ new.busy = z.busy
    BY <1>2, <2>2 DEF LoadingZones
  <2>6. QED
    BY <2>1, <2>4, <2>5 DEF records, index, new
<1>10. ASSUME NEW new \in LoadingZones, new.busy = z.busy
       PROVE  LET marked == Marked(z, new)
              IN  /\ marked \in LoadingZones
                  /\ marked.tag = new.tag /\ marked.generation = new.generation
                  /\ marked.old = new.old /\ marked.records = new.records
                  /\ marked.index = new.index /\ marked.busy = z.busy \union {n}
  <2> DEFINE busy == z.busy \union {n}
             marked == Marked(z, new)
  <2>1. marked = [new EXCEPT !.busy = busy] /\ busy \in SUBSET (1..MaxPeers)
    BY <1>7, <1>10 DEF Marked, n
  <2> HIDE DEF busy, marked
  <2>2. marked \in LoadingZones
    BY <1>10, <2>1 DEF LoadingZones
  <2>3. /\ marked.tag = new.tag /\ marked.generation = new.generation
        /\ marked.old = new.old /\ marked.records = new.records
        /\ marked.index = new.index /\ marked.busy = busy
    BY <1>10, <2>1 DEF LoadingZones
  <2>4. QED
    BY <2>2, <2>3 DEF busy, marked
<1>11. CASE k # 0 /\ zone' = {WithRecord(z, z.old[k].lineage)}
  <2>1. z.old[k] \in Records
    BY <1>2, <1>4, <1>11
  <2>2. z.old[k].lineage \in Lineages /\ z.old[k] = record(z.old[k].lineage)
    BY <1>4, <1>11, <2>1 DEF Records
  <2>3. Extended(z, WithRecord(z, z.old[k].lineage), identity, z.old[k])
    BY <1>3, <1>9, <1>11, <2>2 DEF Extended, k
  <2>4. QED
    BY <1>3, <1>8, <1>9, <1>11, <2>1, <2>2, <2>3
<1>12. CASE k # 0 /\ zone' = {Marked(z, WithRecord(z, NewLineage(z)))}
  <2> DEFINE new == WithRecord(z, NewLineage(z))
  <2>1. /\ record(NewLineage(z)) \in Records /\ record(NewLineage(z)).identity = identity
        /\ record(NewLineage(z)).lineage = NewLineage(z)
        /\ new \in LoadingZones
        /\ new.tag = z.tag /\ new.generation = z.generation /\ new.old = z.old
        /\ new.records = Append(z.records, record(NewLineage(z)))
        /\ new.index = z.index \ {k} /\ new.busy = z.busy
    BY <1>5, <1>9
  <2> HIDE DEF new, record
  <2>2. Extended(z, Marked(z, new), identity, record(NewLineage(z)))
    BY <1>3, <1>10, <1>12, <2>1 DEF Extended, k, n
  <2>3. Marked(z, new) \in LoadingZones /\ zone' = {Marked(z, new)}
    BY <1>10, <1>12, <2>1 DEF new
  <2>4. QED
    BY <1>3, <1>8, <2>1, <2>2, <2>3
<1>13. CASE k = 0 /\ zone' = {WithRecord(z, NewLineage(z))}
  <2>1. Extended(z, WithRecord(z, NewLineage(z)), identity, record(NewLineage(z)))
    BY <1>3, <1>5, <1>9, <1>13 DEF Extended, k
  <2>2. QED
    BY <1>3, <1>5, <1>8, <1>9, <1>13, <2>1
<1>14. QED
  BY <1>8, <1>11, <1>12, <1>13

\* What is known of a match: it comes from the zone in force.
LEMMA OldOrigin ==
    ASSUME LoadInv, NEW z \in zone
    PROVE  /\ \A k \in DOMAIN z.old :
                 /\ z.old[k].lineage.module = z.tag
                 /\ z.old[k].lineage.generation < z.generation
                 /\ \E s \in shared : s.tag = z.tag
                       /\ \E j \in DOMAIN s.records : z.old[k] = s.records[j]
           /\ \A j, k \in DOMAIN z.old : z.old[j].lineage = z.old[k].lineage => j = k
<1>1. CASE z.old = <<>>
  BY <1>1
<1>2. ASSUME NEW s \in shared, s.tag = z.tag, z.old = s.records
      PROVE  /\ \A k \in DOMAIN z.old :
                 /\ z.old[k].lineage.module = z.tag
                 /\ z.old[k].lineage.generation < z.generation
             /\ \A j, k \in DOMAIN z.old : z.old[j].lineage = z.old[k].lineage => j = k
  <2>1. s \in Known /\ s.records \in Seq(Records) /\ s.generation \in Nat
    BY <1>2 DEF Known, LoadInv, Types, Zones
  <2>2. s.generation < z.generation /\ z.generation \in Nat
    BY <1>2 DEF LoadInv, Descends, Types, LoadingZones
  <2>3. ASSUME NEW k \in DOMAIN z.old
        PROVE  /\ z.old[k].lineage.module = z.tag
               /\ z.old[k].lineage.generation < z.generation
    <3>1. z.old[k] \in Records
      BY <1>2, <2>1, <2>3
    <3>2. z.old[k].lineage.generation \in Nat
      BY <3>1 DEF Records, Lineages
    <3>3. /\ z.old[k].lineage.module = s.tag
          /\ z.old[k].lineage.generation <= s.generation
      BY <1>2, <2>1, <2>3 DEF LoadInv, Born
    <3>4. QED
      BY <1>2, <2>1, <2>2, <3>2, <3>3
  <2>4. \A j, k \in DOMAIN z.old : z.old[j].lineage = z.old[k].lineage => j = k
    BY <1>2 DEF LoadInv, OneHeir
  <2>5. QED
    BY <2>3, <2>4
<1>3. QED
  BY <1>1, <1>2 DEF LoadInv, Loading

LEMMA InitPeerLoad ==
    ASSUME LoadInv, InitPeer
    PROVE  LoadInv'
<1>1. PICK z \in zone, identity \in Identities, record \in Records, next \in LoadingZones :
        /\ zone' = {next}
        /\ Extended(z, next, identity, record)
        /\ UNCHANGED <<shared, conf, todo, built>>
  BY InitPeerEffect
<1> DEFINE n == Len(z.records) + 1
<1>2. z \in LoadingZones /\ z.records \in Seq(Records) /\ z.generation \in Nat
  BY DEF LoadInv, Types, LoadingZones
<1>3. /\ n \in Nat /\ n <= MaxPeers /\ Len(next.records) = n
      /\ DOMAIN next.records = 1..n /\ DOMAIN z.records = 1..n - 1
      /\ next.records[n] = record
      /\ \A i \in 1..n - 1 : next.records[i] = z.records[i]
  BY <1>1, <1>2, ReloadAssumption DEF Extended
<1>4. /\ next.tag = z.tag /\ next.generation = z.generation /\ next.old = z.old
      /\ next.index \subseteq z.index
  BY <1>1 DEF Extended
<1>5. \/ record.lineage = [module |-> next.tag, generation |-> next.generation, place |-> n]
      \/ \E k \in DOMAIN z.old : /\ k \in z.index /\ k \notin next.index
                                /\ record = z.old[k]
  <2>1. z.index \subseteq DOMAIN z.old
    BY DEF LoadInv, Loading
  <2>2. Take(z, identity) # 0 => Take(z, identity) \in z.index
    BY <1>2, <2>1, TakeMatch
  <2>3. QED
    BY <1>1, <1>4, <2>1, <2>2 DEF Extended, NewLineage
<1> HIDE DEF n
<1>6. Types'
  BY <1>1 DEF LoadInv, Types
<1>7. OneZone'
  <2>1. \A m : GenerationLeft(m)' = GenerationLeft(m)
    BY <1>1 DEF GenerationLeft, OldGeneration, Latest, Tagged
  <2>2. QED
    BY <1>1, <1>4, <2>1 DEF LoadInv, OneZone
<1>8. Born'
  <2>1. \A i \in 1..n - 1 : /\ z.records[i].lineage.module = z.tag
                           /\ z.records[i].lineage.generation <= z.generation
    BY <1>3 DEF LoadInv, Born, Known
  <2>2. /\ record.lineage.module = z.tag
        /\ record.lineage.generation <= z.generation
    <3>1. CASE \E k \in DOMAIN z.old : record = z.old[k]
      <4>1. /\ record.lineage.module = z.tag
            /\ record.lineage.generation < z.generation
        BY <3>1, OldOrigin
      <4>2. record.lineage.generation \in Nat
        BY DEF Records, Lineages
      <4>3. QED
        BY <1>2, <4>1, <4>2
    <3>2. CASE record.lineage =
                 [module |-> next.tag, generation |-> next.generation, place |-> n]
      BY <1>2, <1>4, <3>2
    <3>3. QED
      BY <1>5, <3>1, <3>2
  <2>3. \A i \in 1..n : i = n \/ i \in 1..n - 1
    BY <1>3
  <2>4. /\ Len(next.records) <= MaxPeers
        /\ \A i \in DOMAIN next.records :
              /\ next.records[i].lineage.module = next.tag
              /\ next.records[i].lineage.generation <= next.generation
    BY <1>3, <1>4, <2>1, <2>2, <2>3
  <2>5. QED
    BY <1>1, <2>4 DEF LoadInv, Born, Known
<1>9. Descends'
  BY <1>1, <1>4 DEF LoadInv, Descends, Inherits
<1>10. Loading'
  <2>1. \A i \in 1..n - 1 : Placed(z, i)
    BY <1>3 DEF LoadInv, Loading
  <2>2. \A i \in 1..n - 1 : Placed(next, i)
    BY <1>3, <1>4, <2>1 DEF Placed
  <2>3. Placed(next, n)
    BY <1>3, <1>4, <1>5 DEF Placed
  <2>4. \A i \in 1..n : i = n \/ i \in 1..n - 1
    BY <1>3
  <2>5. \A i \in DOMAIN next.records : Placed(next, i)
    BY <1>3, <2>2, <2>3, <2>4
  <2>6. /\ next.old = <<>> \/ \E s \in shared : s.tag = next.tag /\ next.old = s.records
        /\ next.index \subseteq DOMAIN next.old
    BY <1>4 DEF LoadInv, Loading
  <2>7. QED
    BY <1>1, <2>5, <2>6 DEF Loading, Placed
<1>11. OneHeir'
  <2>1. \A i, j \in 1..n - 1 : z.records[i].lineage = z.records[j].lineage => i = j
    BY <1>3 DEF LoadInv, OneHeir
  <2>2. ASSUME NEW i \in 1..n - 1 PROVE z.records[i].lineage # record.lineage
    <3>1. i < n /\ Placed(z, i)
      BY <1>3 DEF LoadInv, Loading
    <3>2. CASE record.lineage =
                 [module |-> next.tag, generation |-> next.generation, place |-> n]
      <4>1. \A k \in DOMAIN z.old : z.old[k].lineage.generation # z.generation
        BY <1>2, OldOrigin
      <4>2. QED
        BY <1>4, <3>1, <3>2, <4>1 DEF Placed
    <3>3. ASSUME NEW k \in DOMAIN z.old, k \in z.index, record = z.old[k]
          PROVE  z.records[i].lineage # record.lineage
      BY <1>2, <3>1, <3>3, OldOrigin DEF Placed
    <3>4. QED
      BY <1>5, <3>2, <3>3
  <2>3. \A i \in 1..n : i = n \/ i \in 1..n - 1
    BY <1>3
  <2>4. \A i, j \in DOMAIN next.records :
           next.records[i].lineage = next.records[j].lineage => i = j
    BY <1>3, <2>1, <2>2, <2>3
  <2>5. QED
    BY <1>1, <2>4 DEF LoadInv, OneHeir
<1>12. QED
  BY <1>6, <1>7, <1>8, <1>9, <1>10, <1>11 DEF LoadInv

----------------------------------------------------------------------------
(***************************************************************************)
(* Every step keeps the invariant.                                         *)
(***************************************************************************)
LEMMA ConfigureLoad ==
    ASSUME LoadInv, Configure
    PROVE  LoadInv'
<1>1. /\ UNCHANGED <<shared, built, zone>> /\ built = {} /\ zone = {}
      /\ todo' \subseteq Modules /\ \A m \in todo' : GenerationLeft(m)
      /\ conf' \in [Modules -> Upto(Identities)]
  <2>1. PICK present \in SUBSET Modules :
          /\ \A m \in present : GenerationLeft(m)
          /\ todo' = present
          /\ \E peers \in [present -> Upto(Identities)] :
                conf' = [m \in Modules |-> IF m \in present THEN peers[m] ELSE <<>>]
    BY DEF Configure
  <2>2. <<>> \in Upto(Identities)
    BY ReloadAssumption DEF Upto
  <2>3. QED
    BY <2>1, <2>2 DEF Configure, Idle
<1>2. \A m : GenerationLeft(m)' = GenerationLeft(m)
  BY <1>1 DEF GenerationLeft, OldGeneration, Latest, Tagged
<1>3. QED
  BY <1>1, <1>2
  DEF LoadInv, Types, OneZone, Born, Known, Descends, Inherits, Loading, OneHeir

LEMMA StartZoneLoad ==
    ASSUME LoadInv, StartZone
    PROVE  LoadInv'
<1>1. PICK m \in todo :
        /\ zone' = {[tag |-> m, generation |-> OldGeneration(m) + 1, records |-> <<>>,
                     old |-> OldRecords(m), index |-> DOMAIN OldRecords(m), busy |-> {}]}
        /\ UNCHANGED <<shared, conf, todo, built>> /\ zone = {}
  BY DEF StartZone
<1> DEFINE generation == OldGeneration(m) + 1
           old == OldRecords(m)
           index == DOMAIN old
           records == <<>>
           z == [tag |-> m, generation |-> generation, records |-> records,
                 old |-> old, index |-> index, busy |-> {}]
<1>2. m \in Modules /\ GenerationLeft(m)
  BY DEF LoadInv, Types, OneZone
<1>3. /\ OldGeneration(m) \in 0..MaxGeneration
      /\ \A s \in shared : s.tag = m => s.generation = OldGeneration(m)
      /\ old = <<>> \/ \E s \in shared : s.tag = m /\ old = s.records
  BY <1>2, LatestZone DEF LoadInv
<1>4. generation \in 1..MaxGeneration
  BY <1>2, <1>3, ReloadAssumption DEF GenerationLeft
<1>5. old \in Seq(Records) /\ index \subseteq 1..MaxPeers
  <2>1. CASE old = <<>>
    BY <2>1
  <2>2. ASSUME NEW s \in shared, old = s.records
        PROVE  old \in Seq(Records) /\ index \subseteq 1..MaxPeers
    <3>1. s.records \in Seq(Records) /\ Len(s.records) <= MaxPeers
      BY <2>2 DEF LoadInv, Types, Zones, Born, Known
    <3>2. QED
      BY <2>2, <3>1, ReloadAssumption
  <2>3. QED
    BY <1>3, <2>1, <2>2
<1>6. records \in Seq(Records) /\ Len(records) <= MaxPeers /\ DOMAIN records = {}
  BY ReloadAssumption
<1>7. zone' = {z}
  BY <1>1
<1>8. \A s \in shared : s.tag = m => s.generation < generation
  BY <1>3
<1> HIDE DEF generation, old, records
<1>9. z \in LoadingZones
  BY <1>2, <1>4, <1>5, <1>6 DEF LoadingZones
<1>10. /\ z.tag = m /\ z.generation = generation /\ z.records = records
       /\ z.old = old /\ z.index = DOMAIN old
  OBVIOUS
<1> HIDE DEF z
<1>11. Types'
  BY <1>1, <1>7, <1>9 DEF LoadInv, Types
<1>12. OneZone'
  <2>1. \A tag : GenerationLeft(tag)' = GenerationLeft(tag)
    BY <1>1 DEF GenerationLeft, OldGeneration, Latest, Tagged
  <2>2. QED
    BY <1>1, <1>7, <1>10, <2>1 DEF LoadInv, OneZone
<1>13. Born' /\ OneHeir'
  BY <1>1, <1>6, <1>7, <1>10 DEF LoadInv, Born, OneHeir, Known
<1>14. Descends'
  BY <1>1, <1>7, <1>8, <1>10 DEF LoadInv, Descends, Inherits
<1>15. Loading'
  BY <1>1, <1>3, <1>6, <1>7, <1>10 DEF Loading
<1>16. QED
  BY <1>11, <1>12, <1>13, <1>14, <1>15 DEF LoadInv

LEMMA EndZoneLoad ==
    ASSUME LoadInv, EndZone
    PROVE  LoadInv'
<1>1. PICK z \in zone :
        /\ built' = built \union
              {[tag |-> z.tag, generation |-> z.generation, records |-> z.records]}
        /\ todo' = todo \ {z.tag} /\ zone' = {}
        /\ UNCHANGED <<shared, conf>>
  BY DEF EndZone
<1> DEFINE new == [tag |-> z.tag, generation |-> z.generation, records |-> z.records]
<1>2. /\ z.tag \in Modules /\ z.generation \in 1..MaxGeneration
      /\ z.records \in Seq(Records) /\ z.tag \in todo
  BY DEF LoadInv, Types, LoadingZones, OneZone
<1>3. new \in Zones /\ built' = built \union {new}
  BY <1>1, <1>2 DEF Zones
<1>4. new.tag = z.tag /\ new.generation = z.generation /\ new.records = z.records
  OBVIOUS
<1> HIDE DEF new
<1>5. Types'
  BY <1>1, <1>3 DEF LoadInv, Types
<1>6. OneZone'
  <2>1. \A tag : GenerationLeft(tag)' = GenerationLeft(tag)
    BY <1>1 DEF GenerationLeft, OldGeneration, Latest, Tagged
  <2>2. \A y \in built : y.tag # new.tag
    BY <1>2, <1>4 DEF LoadInv, OneZone
  <2>3. QED
    BY <1>1, <1>3, <1>4, <2>1, <2>2 DEF LoadInv, OneZone
<1>7. Born' /\ OneHeir'
  BY <1>1, <1>3, <1>4 DEF LoadInv, Born, OneHeir, Known
<1>8. ASSUME NEW i \in DOMAIN z.records PROVE Inherits(z, z.records[i])
  <2>1. Placed(z, i)
    BY DEF LoadInv, Loading
  <2>2. CASE z.records[i].lineage =
               [module |-> z.tag, generation |-> z.generation, place |-> i]
    BY <2>2 DEF Inherits
  <2>3. CASE \E k \in DOMAIN z.old : z.records[i] = z.old[k]
    BY <2>3, OldOrigin DEF Inherits
  <2>4. QED
    BY <2>1, <2>2, <2>3 DEF Placed
<1>9. Descends'
  BY <1>1, <1>3, <1>4, <1>8 DEF LoadInv, Descends, Inherits
<1>10. Loading'
  BY <1>1 DEF Loading
<1>11. QED
  BY <1>5, <1>6, <1>7, <1>9, <1>10 DEF LoadInv

LEMMA LoadStep ==
    ASSUME LoadInv, [Next]_vars
    PROVE  LoadInv'
<1>1. NoConf \in [Modules -> Upto(Identities)]
  <2>1. <<>> \in [1..0 -> Identities] /\ 0 \in 0..MaxPeers
    BY ReloadAssumption
  <2>2. QED
    BY <2>1 DEF NoConf, Upto
<1>2. CASE ConfigureNone
  BY <1>2
  DEF ConfigureNone, Idle, LoadInv, Types, OneZone, Born, Known, Descends, Loading, OneHeir
<1>3. CASE Commit
  <2>1. zone = {}
    BY <1>3 DEF Commit, LoadInv, OneZone
  <2>2. QED
    BY <1>1, <1>3, <2>1
    DEF Commit, LoadInv, Types, OneZone, Born, Known, Descends, Loading, OneHeir
<1>4. CASE Fail
  BY <1>1, <1>4
  DEF Fail, LoadInv, Types, OneZone, Born, Known, Descends, Loading, OneHeir
<1>5. CASE UNCHANGED vars
  <2>1. \A m : GenerationLeft(m)' = GenerationLeft(m)
    BY <1>5 DEF vars, GenerationLeft, OldGeneration, Latest, Tagged
  <2>2. QED
    BY <1>5, <2>1 DEF vars, LoadInv, Types, OneZone, Born, Known, Descends, Inherits,
                      Loading, Placed, OneHeir
<1>6. QED
  BY <1>2, <1>3, <1>4, <1>5, ConfigureLoad, StartZoneLoad, InitPeerLoad, EndZoneLoad
  DEF Next

LEMMA LoadSafety == Spec => []LoadInv
  BY InitLoad, LoadStep, PTL DEF Spec

----------------------------------------------------------------------------
(***************************************************************************)
(* One heir, one identity                                                  *)
(***************************************************************************)
\* Every variable of a load keeps its type; at most one zone is initialised at
\* a time.
THEOREM ReloadTypeSafety == Spec => []TypeOK
<1>1. LoadInv => TypeOK
  <2> SUFFICES ASSUME LoadInv PROVE TypeOK
    OBVIOUS
  <2>1. CASE zone = {}
    BY <2>1, FS_EmptySet DEF LoadInv, Types, TypeOK
  <2>2. ASSUME NEW z \in zone PROVE TypeOK
    <3>1. zone = {z}
      BY DEF LoadInv, OneZone
    <3>2. Cardinality(zone) = 1
      BY <3>1, FS_Singleton
    <3>3. QED
      BY <3>2 DEF LoadInv, Types, TypeOK
  <2>3. QED
    BY <2>1, <2>2
<1>2. QED
  BY <1>1, LoadSafety, PTL

\* No two peers of a zone share a history: identity_index_take gives each old
\* record away once.
THEOREM OneHeirSafety == Spec => []OneHeir
<1>1. LoadInv => OneHeir
  BY DEF LoadInv
<1>2. QED
  BY <1>1, LoadSafety, PTL

\* The origin of a history in a new zone, loading or loaded.
LEMMA NewOrigin ==
    ASSUME LoadInv, NEW z \in built \union zone, NEW i \in DOMAIN z.records
    PROVE  Inherits(z, z.records[i])
<1>1. CASE z \in built
  BY <1>1 DEF LoadInv, Descends
<1>2. CASE z \in zone
  <2>1. Placed(z, i)
    BY <1>2 DEF LoadInv, Loading
  <2>2. CASE z.records[i].lineage =
               [module |-> z.tag, generation |-> z.generation, place |-> i]
    BY <2>2 DEF Inherits
  <2>3. CASE \E k \in DOMAIN z.old : z.records[i] = z.old[k]
    BY <1>2, <2>3, OldOrigin DEF Inherits
  <2>4. QED
    BY <2>1, <2>2, <2>3 DEF Placed
<1>3. QED
  BY <1>1, <1>2

\* A history in a new zone that is also in the zone in force.
LEMMA SharedHistory ==
    ASSUME LoadInv, NEW y \in shared, NEW z \in built \union zone, y.tag = z.tag,
           NEW i \in DOMAIN y.records, NEW j \in DOMAIN z.records,
           y.records[i].lineage = z.records[j].lineage
    PROVE  y.records[i].identity = z.records[j].identity
<1>1. y.generation < z.generation /\ y.generation \in Nat /\ z.generation \in Nat
  BY DEF LoadInv, Descends, Types, Zones, LoadingZones
<1>2. y.records[i].lineage.generation <= y.generation
  BY DEF LoadInv, Born, Known
<1>3. y.records[i].lineage.generation \in Nat
  <2>1. y.records \in Seq(Records)
    BY DEF LoadInv, Types, Zones
  <2>2. y.records[i] \in Records
    BY <2>1
  <2>3. QED
    BY <2>2 DEF Records, Lineages
<1>4. z.records[j].lineage.generation # z.generation
  BY <1>1, <1>2, <1>3
<1>5. PICK s \in shared : s.tag = z.tag
                         /\ \E k \in DOMAIN s.records : z.records[j] = s.records[k]
  BY <1>4, NewOrigin DEF Inherits
<1>6. s = y
  BY <1>5 DEF LoadInv, OneZone
<1>7. PICK k \in DOMAIN y.records : z.records[j] = y.records[k]
  BY <1>5, <1>6
<1>8. i = k
  BY <1>7 DEF LoadInv, OneHeir
<1>9. QED
  BY <1>7, <1>8

\* A history belongs to one identity of one module for good: init_zone inherits
\* from the zone with the tag of the module and compares the identities.
THEOREM HistorySafety == Spec => []HistoryOfIdentity
<1>1. ASSUME LoadInv, NEW y \in Known, NEW z \in Known,
             NEW i \in DOMAIN y.records, NEW j \in DOMAIN z.records,
             y.records[i].lineage = z.records[j].lineage
      PROVE  /\ y.records[i].identity = z.records[j].identity
             /\ y.records[i].lineage.module = y.tag
  <2>1. y.records[i].lineage.module = y.tag /\ z.records[j].lineage.module = z.tag
    BY <1>1 DEF LoadInv, Born
  <2>2. y.tag = z.tag
    BY <1>1, <2>1
  <2>3. CASE y \in shared /\ z \in built \union zone
    BY <1>1, <2>1, <2>2, <2>3, SharedHistory
  <2>4. CASE z \in shared /\ y \in built \union zone
    BY <1>1, <2>1, <2>2, <2>4, SharedHistory
  <2>5. CASE y = z
    <3>1. i = j
      BY <1>1, <2>5 DEF LoadInv, OneHeir, Known
    <3>2. QED
      BY <2>1, <2>5, <3>1
  <2>6. y = z \/ (y \in shared /\ z \in built \union zone)
             \/ (z \in shared /\ y \in built \union zone)
    BY <1>1, <2>2 DEF LoadInv, OneZone, Known
  <2>7. QED
    BY <2>3, <2>4, <2>5, <2>6
<1>2. LoadInv => HistoryOfIdentity
  BY <1>1 DEF HistoryOfIdentity, Known
<1>3. QED
  BY <1>2, LoadSafety, PTL

----------------------------------------------------------------------------
(***************************************************************************)
(* None forgotten.  The heirs of an identity and the old records they took *)
(* are equally many, and either all of its new peers are heirs or all of   *)
(* its old records are taken.                                              *)
(***************************************************************************)
Of(records, identity) == {i \in DOMAIN records : records[i].identity = identity}

Heirs(z, identity) ==
    {i \in DOMAIN z.records :
        /\ z.records[i].identity = identity
        /\ \/ i \in z.busy
           \/ \E k \in DOMAIN z.old : z.old[k].lineage = z.records[i].lineage}

Taken(z, identity) ==
    {k \in DOMAIN z.old : k \notin z.index /\ z.old[k].identity = identity}

Balanced(z, identity) ==
    /\ Cardinality(Heirs(z, identity)) = Cardinality(Taken(z, identity))
    /\ \/ Heirs(z, identity) = Of(z.records, identity)
       \/ Taken(z, identity) = Of(z.old, identity)

BalanceInv ==
    /\ LoadInv
    /\ \A z \in zone : /\ z.busy \subseteq DOMAIN z.records
                      /\ \A identity \in Identities : Balanced(z, identity)

LEMMA FiniteSides ==
    ASSUME NEW z \in LoadingZones, NEW identity \in Identities
    PROVE  /\ IsFiniteSet(Of(z.records, identity)) /\ IsFiniteSet(Of(z.old, identity))
           /\ Heirs(z, identity) \subseteq Of(z.records, identity)
           /\ Taken(z, identity) \subseteq Of(z.old, identity)
           /\ IsFiniteSet(Heirs(z, identity)) /\ IsFiniteSet(Taken(z, identity))
<1>1. ASSUME NEW records \in Seq(Records) PROVE IsFiniteSet(Of(records, identity))
  <2>1. DOMAIN records = 1..Len(records) /\ Len(records) \in Nat
    BY <1>1
  <2>2. IsFiniteSet(1..Len(records))
    BY <2>1, FS_Interval
  <2>3. Of(records, identity) \in SUBSET (1..Len(records))
    BY <2>1 DEF Of
  <2>4. QED
    BY <2>2, <2>3, FS_Subset
<1>2. IsFiniteSet(Of(z.records, identity)) /\ IsFiniteSet(Of(z.old, identity))
  BY <1>1 DEF LoadingZones
<1>3. /\ Heirs(z, identity) \subseteq Of(z.records, identity)
      /\ Taken(z, identity) \subseteq Of(z.old, identity)
  BY Zenon DEF Heirs, Taken, Of
<1>4. QED
  BY <1>2, <1>3, FS_Subset

\* A balanced zone that is complete has forgotten nobody.
LEMMA BalanceCounts ==
    ASSUME NEW z \in LoadingZones, NEW identity \in Identities, Balanced(z, identity)
    PROVE  Cardinality(Heirs(z, identity))
           = Least(CountOf(z.old, identity), CountOf(z.records, identity))
<1> DEFINE heirs == Cardinality(Heirs(z, identity))
           news == Cardinality(Of(z.records, identity))
           olds == Cardinality(Of(z.old, identity))
<1>1. heirs \in Nat /\ news \in Nat /\ olds \in Nat
  BY FiniteSides, FS_CardinalityType
<1>2. heirs <= news
  BY FiniteSides, FS_Subset
<1>3. heirs <= olds
  <2>1. Cardinality(Taken(z, identity)) <= olds
    BY FiniteSides, FS_Subset
  <2>2. QED
    BY <2>1 DEF Balanced
<1>4. heirs = news \/ heirs = olds
  BY DEF Balanced
<1>5. CountOf(z.old, identity) = olds /\ CountOf(z.records, identity) = news
  BY Zenon DEF CountOf, Of
<1> HIDE DEF heirs, news, olds
<1>6. heirs = Least(olds, news)
  BY <1>1, <1>2, <1>3, <1>4 DEF Least
<1>7. QED
  BY <1>5, <1>6 DEF heirs

LEMMA InitPeerBalance ==
    ASSUME BalanceInv, InitPeer
    PROVE  BalanceInv'
<1>1. PICK z \in zone, identity \in Identities, record \in Records, next \in LoadingZones :
        /\ zone' = {next}
        /\ Extended(z, next, identity, record)
        /\ UNCHANGED <<shared, conf, todo, built>>
  BY InitPeerEffect DEF BalanceInv
<1> DEFINE n == Len(z.records) + 1
           k == Take(z, identity)
<1>2. /\ z \in LoadingZones /\ z.records \in Seq(Records) /\ z.generation \in Nat
      /\ z.index \subseteq DOMAIN z.old /\ DOMAIN z.old \subseteq Nat \ {0}
  BY DEF BalanceInv, LoadInv, Types, LoadingZones, Loading
<1>3. /\ n \in Nat /\ DOMAIN next.records = 1..n /\ DOMAIN z.records = 1..n - 1
      /\ n \notin 1..n - 1 /\ 1..n = 1..n - 1 \union {n}
      /\ next.records[n] = record
      /\ \A i \in 1..n - 1 : next.records[i] = z.records[i]
  BY <1>1, <1>2 DEF Extended
<1>4. /\ next.old = z.old /\ next.index = z.index \ {k} /\ record.identity = identity
      /\ \/ k # 0 /\ record = z.old[k] /\ next.busy = z.busy
         \/ k # 0 /\ record.lineage = NewLineage(z) /\ next.busy = z.busy \union {n}
         \/ k = 0 /\ record.lineage = NewLineage(z) /\ next.busy = z.busy
  BY <1>1 DEF Extended
<1>5. /\ k # 0 => k \in z.index /\ z.old[k].identity = identity
      /\ k = 0 => \A j \in z.index : z.old[j].identity # identity
  BY <1>2, TakeMatch
<1>6. z.busy \subseteq 1..n - 1
  BY <1>3 DEF BalanceInv
<1>7. \A j \in DOMAIN z.old : z.old[j].lineage # NewLineage(z)
  <2>1. NewLineage(z).generation = z.generation
    BY DEF NewLineage
  <2>2. \A j \in DOMAIN z.old : z.old[j].lineage.generation < z.generation
    BY OldOrigin DEF BalanceInv
  <2>3. QED
    BY <1>2, <2>1, <2>2
<1> HIDE DEF n, k
<1>8. next.busy \subseteq DOMAIN next.records
  BY <1>3, <1>4, <1>6
<1>9. ASSUME NEW other \in Identities PROVE Balanced(next, other)
  <2>1. Balanced(z, other)
    BY DEF BalanceInv
  <2>2. /\ \A i \in 1..n - 1 : i \in Heirs(next, other) <=> i \in Heirs(z, other)
        /\ \A i \in 1..n - 1 : i \in Of(next.records, other) <=> i \in Of(z.records, other)
    BY <1>3, <1>4 DEF Heirs, Of
  <2>3. /\ Heirs(z, other) \subseteq 1..n - 1 /\ Of(z.records, other) \subseteq 1..n - 1
        /\ Heirs(next, other) \subseteq 1..n /\ Of(next.records, other) \subseteq 1..n
    BY <1>3 DEF Heirs, Of
  <2>4. Of(next.old, other) = Of(z.old, other)
    BY <1>4 DEF Of
  <2>5. CASE other # identity
    <3>1. n \notin Heirs(next, other) /\ n \notin Of(next.records, other)
      BY <1>3, <1>4, <2>5 DEF Heirs, Of
    <3>2. Heirs(next, other) = Heirs(z, other) /\ Of(next.records, other) = Of(z.records, other)
      BY <1>3, <2>2, <2>3, <3>1
    <3>3. Taken(next, other) = Taken(z, other)
      <4>1. \A j \in DOMAIN z.old : z.old[j].identity = other => j # k
        BY <1>2, <1>5, <2>5
      <4>2. \A j \in DOMAIN z.old :
               z.old[j].identity = other => (j \in next.index <=> j \in z.index)
        BY <1>4, <4>1
      <4>3. QED
        BY <1>4, <4>2 DEF Taken
    <3>4. QED
      BY <2>1, <2>4, <3>2, <3>3 DEF Balanced
  <2>6. CASE other = identity /\ k # 0
    <3>1. n \in Heirs(next, other) /\ n \in Of(next.records, other)
      BY <1>2, <1>3, <1>4, <1>5, <2>6 DEF Heirs, Of
    <3>2. /\ Heirs(next, other) = Heirs(z, other) \union {n}
          /\ Of(next.records, other) = Of(z.records, other) \union {n}
          /\ n \notin Heirs(z, other)
      BY <1>3, <2>2, <2>3, <3>1
    <3>3. Taken(next, other) = Taken(z, other) \union {k} /\ k \notin Taken(z, other)
      BY <1>2, <1>4, <1>5, <2>6 DEF Taken
    <3>4. /\ Cardinality(Heirs(next, other)) = Cardinality(Heirs(z, other)) + 1
          /\ Cardinality(Taken(next, other)) = Cardinality(Taken(z, other)) + 1
      BY <1>2, <3>2, <3>3, FiniteSides, FS_AddElement
    <3>5. Taken(z, other) # Of(z.old, other)
      BY <1>2, <1>5, <2>6, <3>3 DEF Of
    <3>6. QED
      BY <2>1, <3>2, <3>4, <3>5 DEF Balanced
  <2>7. CASE other = identity /\ k = 0
    <3>1. n \notin Heirs(next, other)
      BY <1>3, <1>4, <1>6, <1>7, <2>7 DEF Heirs
    <3>2. Heirs(next, other) = Heirs(z, other)
      BY <1>3, <2>2, <2>3, <3>1
    <3>3. next.index = z.index
      BY <1>2, <1>4, <2>7
    <3>4. Taken(next, other) = Taken(z, other)
      BY <1>4, <3>3 DEF Taken
    <3>5. Taken(z, other) = Of(z.old, other)
      BY <1>5, <2>7 DEF Taken, Of
    <3>6. QED
      BY <2>1, <2>4, <3>2, <3>4, <3>5 DEF Balanced
  <2>8. QED
    BY <2>5, <2>6, <2>7
<1>10. LoadInv'
  BY InitPeerLoad DEF BalanceInv
<1>11. QED
  BY <1>1, <1>8, <1>9, <1>10 DEF BalanceInv

LEMMA StartZoneBalance ==
    ASSUME BalanceInv, StartZone
    PROVE  BalanceInv'
<1>1. PICK m \in todo :
        zone' = {[tag |-> m, generation |-> OldGeneration(m) + 1, records |-> <<>>,
                  old |-> OldRecords(m), index |-> DOMAIN OldRecords(m), busy |-> {}]}
  BY DEF StartZone
<1> DEFINE z == [tag |-> m, generation |-> OldGeneration(m) + 1, records |-> <<>>,
                 old |-> OldRecords(m), index |-> DOMAIN OldRecords(m), busy |-> {}]
<1>2. z.records = <<>> /\ z.busy = {} /\ z.index = DOMAIN z.old
  OBVIOUS
<1>3. zone' = {z}
  BY <1>1
<1> HIDE DEF z
<1>4. DOMAIN z.records = {}
  BY <1>2
<1>5. ASSUME NEW identity \in Identities PROVE Balanced(z, identity)
  <2>1. Heirs(z, identity) = {} /\ Of(z.records, identity) = {} /\ Taken(z, identity) = {}
    BY <1>2, <1>4 DEF Heirs, Of, Taken
  <2>2. QED
    BY <2>1 DEF Balanced
<1>6. LoadInv'
  BY StartZoneLoad DEF BalanceInv
<1>7. QED
  BY <1>2, <1>3, <1>5, <1>6 DEF BalanceInv

LEMMA BalanceSafety == Spec => []BalanceInv
<1>1. Init => BalanceInv
  BY InitLoad DEF Init, BalanceInv
<1>2. ASSUME BalanceInv, [Next]_vars PROVE BalanceInv'
  <2>1. LoadInv'
    BY <1>2, LoadStep DEF BalanceInv
  <2>2. CASE zone' = zone
    BY <1>2, <2>1, <2>2 DEF BalanceInv
  <2>3. CASE zone' = {}
    BY <2>1, <2>3 DEF BalanceInv
  <2>4. CASE StartZone \/ InitPeer
    BY <1>2, <2>4, StartZoneBalance, InitPeerBalance
  <2>5. QED
    BY <1>2, <2>2, <2>3, <2>4
    DEF Next, Configure, ConfigureNone, EndZone, Commit, Fail, vars
<1>3. QED
  BY <1>1, <1>2, PTL DEF Spec

\* As many peers of an identity inherit as can: identity_index_take finds a
\* match in its bucket as long as there is one, whatever the hashes are.
THEOREM NoneForgottenSafety == Spec => []NoneForgotten
<1>1. BalanceInv => NoneForgotten
  <2> SUFFICES ASSUME BalanceInv, NEW z \in zone, NEW identity \in Identities
               PROVE  Cardinality(Heirs(z, identity))
                      = Least(CountOf(z.old, identity), CountOf(z.records, identity))
    BY Zenon DEF NoneForgotten, Heirs
  <2>1. z \in LoadingZones /\ Balanced(z, identity)
    BY DEF BalanceInv, LoadInv, Types
  <2>2. QED
    BY <2>1, BalanceCounts
<1>2. QED
  BY <1>1, BalanceSafety, PTL

=============================================================================
