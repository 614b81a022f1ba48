------------------------ MODULE DynamicCorpus_proofs ------------------------
(***************************************************************************)
(* Proofs about DynamicCorpus for any ids, scores, capacities and backend.  *)
(***************************************************************************)
EXTENDS DynamicCorpus, FiniteSetTheorems, TLAPS

-----------------------------------------------------------------------------
(* What the operations on the in-flight queue do to the set of its entries. *)

\* Taking the head of a queue without duplicates removes exactly that element.
LEMMA TailSet ==
  ASSUME NEW S, NEW s \in Seq(S), s # << >>, IsInjective(s)
  PROVE  /\ Tail(s) \in Seq(S)
         /\ Head(s) \in S
         /\ Len(Tail(s)) = Len(s) - 1
         /\ IsInjective(Tail(s))
         /\ Head(s) \in ToSet(s)
         /\ ToSet(Tail(s)) = ToSet(s) \ {Head(s)}
<1>1. /\ Len(s) \in Nat \ {0}
      /\ Tail(s) \in Seq(S)
      /\ Len(Tail(s)) = Len(s) - 1
      /\ \A i \in 1..(Len(s) - 1) : Tail(s)[i] = s[i + 1]
      /\ DOMAIN s = 1..Len(s) /\ DOMAIN Tail(s) = 1..(Len(s) - 1)
      /\ Head(s) = s[1] /\ Head(s) \in S
  OBVIOUS
<1>2. IsInjective(Tail(s))
  BY <1>1 DEF IsInjective
<1>3. Head(s) \in ToSet(s)
  BY <1>1 DEF ToSet
<1>4. ASSUME NEW i \in DOMAIN Tail(s)
      PROVE  Tail(s)[i] \in ToSet(s) \ {Head(s)}
  BY <1>1, i + 1 \in DOMAIN s, i + 1 # 1 DEF ToSet, IsInjective
<1>5. ASSUME NEW i \in DOMAIN s, s[i] # Head(s)
      PROVE  s[i] \in ToSet(Tail(s))
  <2>1. i - 1 \in DOMAIN Tail(s) /\ Tail(s)[i - 1] = s[i]
    BY <1>1, <1>5, i # 1
  <2> QED BY <2>1 DEF ToSet
<1> QED BY <1>1, <1>2, <1>3, <1>4, <1>5 DEF ToSet

\* Appending adds the element; there is no duplicate when it is new.
LEMMA AppendSet ==
  ASSUME NEW S, NEW s \in Seq(S), NEW e \in S
  PROVE  /\ Append(s, e) \in Seq(S)
         /\ Append(s, e) # << >>
         /\ Len(Append(s, e)) = Len(s) + 1
         /\ ToSet(Append(s, e)) = ToSet(s) \cup {e}
         /\ IsInjective(s) /\ e \notin ToSet(s) => IsInjective(Append(s, e))
<1>1. /\ Len(s) \in Nat
      /\ Append(s, e) \in Seq(S)
      /\ Len(Append(s, e)) = Len(s) + 1
      /\ DOMAIN s = 1..Len(s) /\ DOMAIN Append(s, e) = 1..(Len(s) + 1)
      /\ \A i \in 1..Len(s) : Append(s, e)[i] = s[i]
      /\ Append(s, e)[Len(s) + 1] = e
  OBVIOUS
<1>2. \A i \in 1..(Len(s) + 1) : i \in 1..Len(s) \/ i = Len(s) + 1
  BY <1>1
<1>3. ToSet(Append(s, e)) = ToSet(s) \cup {e}
  BY <1>1, <1>2 DEF ToSet
<1>4. IsInjective(s) /\ e \notin ToSet(s) => IsInjective(Append(s, e))
  BY <1>1, <1>2 DEF ToSet, IsInjective
<1> QED BY <1>1, <1>3, <1>4

\* Taking out one position of a queue without duplicates.
LEMMA RemoveAtSet ==
  ASSUME NEW S, NEW s \in Seq(S), NEW k \in DOMAIN s, IsInjective(s)
  PROVE  /\ RemoveAt(s, k) \in Seq(S)
         /\ Len(RemoveAt(s, k)) = Len(s) - 1
         /\ IsInjective(RemoveAt(s, k))
         /\ ToSet(RemoveAt(s, k)) = ToSet(s) \ {s[k]}
<1> DEFINE r == RemoveAt(s, k)
<1>1. Len(s) \in Nat /\ DOMAIN s = 1..Len(s) /\ k \in 1..Len(s)
  OBVIOUS
<1>2. /\ SubSeq(s, 1, k - 1) \in Seq(S) /\ Len(SubSeq(s, 1, k - 1)) = k - 1
      /\ \A i \in 1..(k - 1) : SubSeq(s, 1, k - 1)[i] = s[i]
  BY <1>1
<1>3. /\ SubSeq(s, k + 1, Len(s)) \in Seq(S)
      /\ Len(SubSeq(s, k + 1, Len(s))) = Len(s) - k
      /\ \A i \in 1..(Len(s) - k) : SubSeq(s, k + 1, Len(s))[i] = s[i + k]
  BY <1>1
<1>4. /\ r \in Seq(S) /\ Len(r) = Len(s) - 1
      /\ DOMAIN r = 1..(Len(s) - 1)
      /\ \A i \in 1..(Len(s) - 1) : r[i] = IF i < k THEN s[i] ELSE s[i + 1]
  <2> DEFINE front == SubSeq(s, 1, k - 1)
             back == SubSeq(s, k + 1, Len(s))
  <2>1. r = front \o back
    BY DEF RemoveAt
  <2>2. front \in Seq(S) /\ back \in Seq(S)
        /\ Len(front) = k - 1 /\ Len(back) = Len(s) - k
    BY <1>2, <1>3
  <2> HIDE DEF front, back, r
  <2>3. /\ r \in Seq(S) /\ Len(r) = Len(s) - 1
        /\ DOMAIN r = 1..(Len(s) - 1)
    <3>1. r \in Seq(S) /\ Len(r) = Len(front) + Len(back)
      BY <2>1, <2>2
    <3>2. Len(r) = Len(s) - 1
      BY <3>1, <2>2, <1>1
    <3> QED BY <3>1, <3>2
  <2>4. ASSUME NEW i \in 1..(Len(s) - 1)
        PROVE  r[i] = IF i < k THEN front[i] ELSE back[i - (k - 1)]
    BY <2>1, <2>2, <1>1
  <2>5. ASSUME NEW i \in 1..(Len(s) - 1)
        PROVE  r[i] = IF i < k THEN s[i] ELSE s[i + 1]
    <3>1. CASE i < k
      BY <3>1, <2>4, <1>1, <1>2 DEF front
    <3>2. CASE ~(i < k)
      BY <3>2, <2>4, <1>1, <1>3, i - (k - 1) \in 1..(Len(s) - k),
         (i - (k - 1)) + k = i + 1 DEF back
    <3> QED BY <3>1, <3>2
  <2> QED BY <2>3, <2>5
<1> HIDE DEF r
<1>5. IsInjective(r)
  <2> DEFINE at(i) == IF i < k THEN i ELSE i + 1
  <2>1. \A i \in DOMAIN r : at(i) \in DOMAIN s /\ r[i] = s[at(i)]
    BY <1>1, <1>4
  <2>2. \A i, j \in DOMAIN r : at(i) = at(j) => i = j
    BY <1>1, <1>4
  <2> HIDE DEF at
  <2> QED BY <2>1, <2>2 DEF IsInjective
<1>6. ASSUME NEW i \in DOMAIN r
      PROVE  r[i] \in ToSet(s) \ {s[k]}
  <2>1. CASE i < k
    BY <2>1, <1>1, <1>4, i \in DOMAIN s DEF ToSet, IsInjective
  <2>2. CASE ~(i < k)
    BY <2>2, <1>1, <1>4, i + 1 \in DOMAIN s, i + 1 # k DEF ToSet, IsInjective
  <2> QED BY <2>1, <2>2
<1>7. ASSUME NEW i \in DOMAIN s, s[i] # s[k]
      PROVE  s[i] \in ToSet(r)
  <2>1. CASE i < k
    BY <2>1, <1>1, <1>4, i \in DOMAIN r, r[i] = s[i] DEF ToSet
  <2>2. CASE i > k
    BY <2>2, <1>1, <1>4, i - 1 \in DOMAIN r, r[i - 1] = s[i] DEF ToSet
  <2> QED BY <2>1, <2>2, <1>1, <1>7
<1>8. ToSet(r) = ToSet(s) \ {s[k]}
  BY <1>6, <1>7 DEF ToSet
<1> QED BY <1>4, <1>5, <1>8 DEF r

-----------------------------------------------------------------------------
Tiers == {"Absent", "InFlight", "Hot", "Disk"}

-----------------------------------------------------------------------------
(* The inductive invariant.  Replacing an entry keeps the hot cache within  *)
(* its capacity because the entry popped from the queue is a hot one, which *)
(* holds because the queue has the current score of every hot entry.        *)

CoreInv ==
  /\ TypeOK
  /\ TiersFollowIndex
  /\ HotIsQueued
  /\ WithinCapacity
  /\ IsFiniteSet(hot)
  /\ hot_cap > 0
  /\ \A id \in Indexed : score[id] \in Scores

LEMMA CoreInit == Init => CoreInv
<1> SUFFICES ASSUME Init PROVE CoreInv
  OBVIOUS
<1>1. TypeOK
  BY CapAssumption, CounterAssumption DEF Init, TypeOK
<1>2. TiersFollowIndex
  BY DEF Init, TiersFollowIndex, InFlightIds, ToSet, IsInjective
<1>3. WithinCapacity
  BY CapAssumption, FS_EmptySet DEF Init, WithinCapacity
<1>4. HotIsQueued /\ IsFiniteSet(hot) /\ Indexed = {}
  BY FS_EmptySet DEF Init, HotIsQueued, Indexed
<1> QED BY <1>1, <1>2, <1>3, <1>4, CapAssumption DEF Init, CoreInv

-----------------------------------------------------------------------------
(* Eviction.                                                                *)

\* A set stays within its capacity when an element is put in for another one,
\* or when there is room.
LEMMA Replacement ==
  ASSUME NEW S, IsFiniteSet(S), NEW cap \in Nat, NEW v, NEW x,
         Cardinality(S) =< cap, v \in S \/ Cardinality(S) < cap
  PROVE  /\ IsFiniteSet((S \ {v}) \cup {x})
         /\ Cardinality((S \ {v}) \cup {x}) =< cap
<1> DEFINE R == S \ {v}
<1>1. Cardinality(S) \in Nat
  BY FS_CardinalityType
<1>2. /\ IsFiniteSet(R)
      /\ Cardinality(R) = IF v \in S THEN Cardinality(S) - 1 ELSE Cardinality(S)
  BY FS_RemoveElement
<1> HIDE DEF R
<1>3. /\ IsFiniteSet(R \cup {x})
      /\ Cardinality(R \cup {x}) = IF x \in R THEN Cardinality(R) ELSE Cardinality(R) + 1
  BY <1>2, FS_AddElement
<1>4. Cardinality(R) + 1 =< cap
  BY <1>1, <1>2
<1>5. Cardinality(R) \in Nat
  BY <1>2, FS_CardinalityType
<1>6. Cardinality(R \cup {x}) =< cap
  BY <1>3, <1>4, <1>5
<1> QED BY <1>3, <1>6 DEF R

\* The outcome v of an eviction for a newcomer of the score limit: there is
\* room, or v is a worst hot entry and worse than the newcomer.
Evicts(v, limit) ==
  \/ v = Room /\ Cardinality(hot) < hot_cap
  \/ /\ v \in hot
     /\ score[v] < limit
     /\ \A other \in hot : score[v] =< score[other]

LEMMA EvictOutcome ==
  ASSUME CoreInv, NEW limit \in Scores, NEW v \in EvictCachedIf(limit), v # Keep
  PROVE  Evicts(v, limit)
<1>1. /\ hot \subseteq Queued
      /\ \A id \in hot : hot_eviction[id] = score[id]
  BY ValueAssumption DEF CoreInv, TypeOK, TiersFollowIndex, HotIsQueued, Queued, Indexed, NoScore
<1>2. CASE Cardinality(hot) < hot_cap
  BY <1>2 DEF EvictCachedIf, Evicts
<1>3. CASE Queued = {}
  <2>1. Cardinality(hot) = 0
    BY <1>1, <1>3, FS_EmptySet
  <2>2. Cardinality(hot) < hot_cap
    BY <2>1 DEF CoreInv, TypeOK
  <2> QED BY <2>2 DEF EvictCachedIf, Evicts
<1>4. CASE ~(Cardinality(hot) < hot_cap \/ Queued = {})
  <2> DEFINE worst == {id \in Queued :
                         \A other \in Queued : hot_eviction[id] =< hot_eviction[other]}
  <2>1. PICK id \in worst : v = IF hot_eviction[id] < limit /\ id \in hot THEN id ELSE Keep
    BY <1>4 DEF EvictCachedIf
  <2>2. v = id /\ hot_eviction[id] < limit /\ id \in hot
    BY <2>1
  <2>3. \A other \in hot : hot_eviction[id] =< hot_eviction[other]
    BY <1>1, <2>1
  <2> QED BY <1>1, <2>2, <2>3 DEF Evicts
<1> QED BY <1>2, <1>3, <1>4

\* The tiers after id, with the score s, was settled in one of them.  tier and
\* stored are what the rest of the handler leaves of cached and disk.
Settled(id, s, tier, stored) ==
  /\ cached' \in [Ids -> Tiers]
  /\ hot_eviction' \in [Ids -> Scores \cup {NoScore}]
  /\ disk' \subseteq Ids /\ stored \subseteq disk'
  /\ hot' \subseteq hot \cup {id}
  /\ IsFiniteSet(hot') /\ Cardinality(hot') =< hot_cap
  /\ \A j \in hot' : /\ cached'[j] = "Hot"
                     /\ hot_eviction'[j] = IF j = id THEN s ELSE score[j]
  /\ \A j \in Ids \ {id} : j \notin hot => cached'[j] = tier[j]
  /\ \A j \in Ids : cached'[j] = "Absent" <=> tier[j] = "Absent"
  /\ \A out \in hot \ hot' : /\ id \in hot'
                             /\ score[out] < s
                             /\ \A other \in hot : score[out] =< score[other]

LEMMA MovedToCache ==
  ASSUME CoreInv, NEW id \in Indexed, id \notin hot, NEW s \in Scores,
         NEW v, Evicts(v, s), NEW ok \in BOOLEAN,
         NEW tier \in [Ids -> Tiers], NEW stored \in SUBSET Ids,
         tier[id] # "Absent", \A j \in hot : tier[j] = "Hot",
         MoveToCache(id, s, v, ok, tier, stored)
  PROVE  Settled(id, s, tier, stored)
<1>1. /\ id \in Ids /\ hot \subseteq Ids /\ id # v /\ v # Keep
      /\ v \in Ids => v \in hot
      /\ hot_eviction \in [Ids -> Scores \cup {NoScore}]
      /\ hot_cap \in Nat
  BY OutcomeAssumption DEF CoreInv, TypeOK, Indexed, Evicts, Room, Keep
<1>2. /\ hot' = (hot \ {v}) \cup {id}
      /\ hot_eviction' = [QueueWithout(v) EXCEPT ![id] = s]
      /\ cached' = [IndexWithout(tier, v, ok) EXCEPT ![id] = "Hot"]
      /\ disk' = DiskWith(stored, v, ok)
  BY DEF MoveToCache
<1>3. /\ cached' \in [Ids -> Tiers]
      /\ cached'[id] = "Hot"
      /\ \A j \in Ids \ {id} : j # v => cached'[j] = tier[j]
      /\ \A j \in Ids \ {id} : cached'[j] \in {tier[j], "Disk"} /\ (j \notin Indexed => cached'[j] = tier[j])
  BY <1>1, <1>2 DEF IndexWithout, Tiers
<1>4. /\ hot_eviction' \in [Ids -> Scores \cup {NoScore}]
      /\ hot_eviction'[id] = s
      /\ \A j \in Ids \ {id} : j # v => hot_eviction'[j] = hot_eviction[j]
  BY <1>1, <1>2 DEF QueueWithout
<1>5. disk' \subseteq Ids /\ stored \subseteq disk'
  BY <1>2 DEF DiskWith
<1>6. IsFiniteSet(hot') /\ Cardinality(hot') =< hot_cap
  <2>1. IsFiniteSet(hot) /\ Cardinality(hot) =< hot_cap
    BY DEF CoreInv, WithinCapacity
  <2>2. v \in hot \/ Cardinality(hot) < hot_cap
    BY DEF Evicts
  <2> QED BY <1>1, <1>2, <2>1, <2>2, Replacement
<1>7. \A j \in hot' : /\ cached'[j] = "Hot"
                      /\ hot_eviction'[j] = IF j = id THEN s ELSE score[j]
  <2> SUFFICES ASSUME NEW j \in hot', j # id
               PROVE  cached'[j] = "Hot" /\ hot_eviction'[j] = score[j]
    BY <1>3, <1>4
  <2>1. j \in hot /\ j # v /\ j \in Ids
    BY <1>1, <1>2
  <2> QED BY <2>1, <1>3, <1>4 DEF CoreInv, HotIsQueued
<1>8. \A j \in Ids \ {id} : j \notin hot => cached'[j] = tier[j]
  BY <1>1, <1>3
<1>9. \A j \in Ids : cached'[j] = "Absent" <=> tier[j] = "Absent"
  <2> SUFFICES ASSUME NEW j \in Ids, j # id
               PROVE  cached'[j] = "Absent" <=> tier[j] = "Absent"
    BY <1>3
  <2>1. CASE j \in hot
    BY <2>1, <1>3
  <2>2. CASE j \notin hot
    BY <2>2, <1>8
  <2> QED BY <2>1, <2>2
<1>10. \A out \in hot \ hot' : /\ id \in hot'
                               /\ score[out] < s
                               /\ \A other \in hot : score[out] =< score[other]
  <2> SUFFICES ASSUME NEW out \in hot \ hot'
               PROVE  score[out] < s /\ \A other \in hot : score[out] =< score[other]
    BY <1>2
  <2>1. out = v /\ v # Room
    BY <1>1, <1>2, OutcomeAssumption
  <2> QED BY <2>1 DEF Evicts
<1>11. hot' \subseteq hot \cup {id}
  BY <1>2
<1> QED BY <1>3, <1>4, <1>5, <1>6, <1>7, <1>8, <1>9, <1>10, <1>11 DEF Settled

LEMMA MovedToDisk ==
  ASSUME CoreInv, NEW id \in Indexed, id \notin hot, NEW s \in Scores,
         NEW ok \in BOOLEAN, NEW tier \in [Ids -> Tiers], NEW stored \in SUBSET Ids,
         tier[id] # "Absent", \A j \in hot : tier[j] = "Hot",
         MoveToDisk(id, ok, tier, stored)
  PROVE  Settled(id, s, tier, stored)
<1>1. /\ id \in Ids /\ hot \subseteq Ids /\ hot' = hot
      /\ hot_eviction' = hot_eviction
      /\ hot_eviction \in [Ids -> Scores \cup {NoScore}]
      /\ cached' = IndexWithout(tier, id, ok)
      /\ disk' = DiskWith(stored, id, ok)
  BY DEF CoreInv, TypeOK, Indexed, MoveToDisk
<1>2. /\ cached' \in [Ids -> Tiers]
      /\ cached'[id] \in {tier[id], "Disk"}
      /\ \A j \in Ids \ {id} : cached'[j] = tier[j]
  BY <1>1 DEF IndexWithout, Tiers
<1>3. disk' \subseteq Ids /\ stored \subseteq disk'
  BY <1>1 DEF DiskWith
<1>4. \A j \in hot' : /\ cached'[j] = "Hot"
                      /\ hot_eviction'[j] = IF j = id THEN s ELSE score[j]
  BY <1>1, <1>2 DEF CoreInv, HotIsQueued
<1>5. IsFiniteSet(hot') /\ Cardinality(hot') =< hot_cap
  BY <1>1 DEF CoreInv, WithinCapacity
<1> QED BY <1>1, <1>2, <1>3, <1>4, <1>5 DEF Settled

\* Whatever a write answers, it is a Boolean.
LEMMA WriteType ==
  /\ \A id : Write(id) \subseteq BOOLEAN
  /\ \A v : WriteVictim(v) \subseteq BOOLEAN
BY ValueAssumption DEF Write, WriteVictim

LEMMA SettleStep ==
  ASSUME CoreInv, NEW id \in Indexed, id \notin hot, NEW s \in Scores,
         NEW tier \in [Ids -> Tiers], NEW stored \in SUBSET Ids,
         tier[id] # "Absent", \A j \in hot : tier[j] = "Hot",
         Settle(id, s, tier, stored)
  PROVE  Settled(id, s, tier, stored)
<1>1. PICK v \in EvictCachedIf(s) :
        \/ /\ v = Keep
           /\ \E ok \in Write(id) : MoveToDisk(id, ok, tier, stored)
        \/ /\ v # Keep
           /\ \E ok \in WriteVictim(v) : MoveToCache(id, s, v, ok, tier, stored)
  BY DEF Settle
<1>2. CASE v = Keep
  BY <1>1, <1>2, WriteType, MovedToDisk
<1>3. CASE v # Keep
  BY <1>1, <1>3, WriteType, EvictOutcome, MovedToCache
<1> QED BY <1>2, <1>3

\* What EvictsTheWorst says of a step; it holds of one after which no entry is
\* hot that was not hot before.
WorstGoes ==
  \A out \in hot \ hot', new \in hot' \ hot :
    /\ score[out] < score'[new]
    /\ \A other \in hot : score[out] =< score[other]

\* After an entry was settled the invariant holds again, when the handler kept
\* the other scores of hot entries and the in-flight tier in order.
LEMMA SettledCore ==
  ASSUME CoreInv, NEW id \in Ids, NEW s \in Scores,
         NEW tier \in [Ids -> Tiers], NEW stored \in SUBSET Ids,
         Settled(id, s, tier, stored),
         round' \in [Ids -> 0..(U8 - 1)],
         score' \in [Ids -> Scores \cup {NoScore}],
         in_flight' \in Seq(Ids), lost_dirs' \subseteq Ids, retired' \subseteq Ids,
         requests' \in Nat, cache_misses' \in Nat, hot_cap' = hot_cap,
         score'[id] = s,
         \A j \in hot \ {id} : score'[j] = score[j],
         \A j \in Ids : tier[j] # "Absent" => score'[j] \in Scores,
         IsInjective(in_flight'), Len(in_flight') =< IN_FLIGHT_CAP,
         \A j \in ToSet(in_flight') : j # id /\ j \notin hot /\ tier[j] = "InFlight"
  PROVE  CoreInv' /\ WorstGoes
<1>1. TypeOK'
  <2>1. hot \subseteq Ids /\ hot_cap \in Nat
    BY DEF CoreInv, TypeOK
  <2> QED BY <2>1 DEF Settled, TypeOK, Tiers
<1>2. TiersFollowIndex'
  <2>1. \A j \in ToSet(in_flight') : j \in Ids
    BY DEF ToSet
  <2>2. \A j \in ToSet(in_flight') : cached'[j] = "InFlight"
    BY <2>1 DEF Settled
  <2>3. \A j \in hot' : cached'[j] = "Hot"
    BY DEF Settled
  <2> QED BY <2>2, <2>3 DEF TiersFollowIndex, InFlightIds
<1>3. HotIsQueued'
  BY DEF Settled, HotIsQueued
<1>4. WithinCapacity'
  BY DEF Settled, CoreInv, WithinCapacity
<1>5. \A j \in Indexed' : score'[j] \in Scores
  BY DEF Settled, Indexed
<1>6. WorstGoes
  BY DEF Settled, WorstGoes
<1> QED BY <1>1, <1>2, <1>3, <1>4, <1>5, <1>6 DEF CoreInv, Settled

-----------------------------------------------------------------------------
(* get.                                                                     *)

\* A handler that leaves tiers, scores and capacity alone.
LEMMA NothingMoved ==
  ASSUME CoreInv, UNCHANGED <<entries, tiers, backend, hot_cap, retired>>,
         requests' \in Nat, cache_misses' \in Nat
  PROVE  CoreInv' /\ WorstGoes
BY DEF CoreInv, TypeOK, TiersFollowIndex, InFlightIds, HotIsQueued, WithinCapacity, Indexed,
       entries, tiers, backend, WorstGoes

LEMMA GetStep ==
  ASSUME CoreInv, NEW id \in Ids, get(id)
  PROVE  CoreInv' /\ WorstGoes
<1>1. /\ id \in Indexed /\ requests' \in Nat
      /\ UNCHANGED <<hot_cap, retired>>
      /\ GetResident(id) \/ GetFromDisk(id)
  BY DEF get, CoreInv, TypeOK
<1>2. CASE GetResident(id)
  BY <1>1, <1>2, NothingMoved DEF GetResident, CoreInv, TypeOK
<1>3. CASE cache_misses' = cache_misses + 1 /\ UNCHANGED <<entries, tiers, backend>>
  BY <1>1, <1>3, NothingMoved DEF CoreInv, TypeOK
<1>4. CASE /\ cached[id] = "Disk"
           /\ Cardinality(hot) < hot_cap
           /\ MoveToCache(id, score[id], Room, TRUE, cached, disk)
           /\ UNCHANGED <<round, score, in_flight, lost_dirs, cache_misses>>
  <2>1. /\ cached[id] = "Disk"
        /\ Cardinality(hot) < hot_cap
        /\ MoveToCache(id, score[id], Room, TRUE, cached, disk)
        /\ UNCHANGED <<round, score, in_flight, lost_dirs, cache_misses>>
    BY <1>4
  <2>2. /\ id \notin hot /\ score[id] \in Scores /\ cached \in [Ids -> Tiers]
        /\ disk \in SUBSET Ids /\ \A j \in hot : cached[j] = "Hot"
    BY <1>1, <2>1 DEF CoreInv, TypeOK, TiersFollowIndex, Tiers
  <2>3. Settled(id, score[id], cached, disk)
    BY <1>1, <2>1, <2>2, MovedToCache DEF Evicts
  <2>4. \A j \in ToSet(in_flight') : j # id /\ j \notin hot /\ cached[j] = "InFlight"
    BY <2>1, <2>2 DEF CoreInv, TiersFollowIndex, InFlightIds
  <2>5. \A j \in Ids : cached[j] # "Absent" => score'[j] \in Scores
    BY <2>1 DEF CoreInv, Indexed
  <2> QED BY <1>1, <2>1, <2>2, <2>3, <2>4, <2>5, SettledCore
          DEF CoreInv, TypeOK, TiersFollowIndex, WithinCapacity
<1> QED BY <1>1, <1>2, <1>3, <1>4 DEF GetFromDisk

-----------------------------------------------------------------------------
(* update.                                                                  *)

\* The u8 of an in-flight entry wraps around.
LEMMA RoundType ==
  ASSUME CoreInv, NEW id \in Ids
  PROVE  (round[id] + 1) % U8 \in 0..(U8 - 1) /\ 0 \in 0..(U8 - 1)
BY CounterAssumption DEF CoreInv, TypeOK

\* What update leaves alone, and the new score.
LEMMA UpdateFrame ==
  ASSUME CoreInv, NEW id \in Ids, NEW s \in Scores, update(id, s)
  PROVE  /\ id \in Indexed
         /\ score' = [score EXCEPT ![id] = s]
         /\ score' \in [Ids -> Scores \cup {NoScore}]
         /\ score'[id] = s
         /\ \A j \in Ids \ {id} : score'[j] = score[j]
         /\ \A j \in Ids : cached[j] # "Absent" => score'[j] \in Scores
         /\ UNCHANGED <<lost_dirs, hot_cap, requests, cache_misses, retired>>
BY DEF update, CoreInv, TypeOK, Indexed, counters

LEMMA WaitStep ==
  ASSUME CoreInv, NEW id \in Ids, NEW s \in Scores, update(id, s), Wait(id)
  PROVE  CoreInv' /\ WorstGoes
<1>1. /\ cached[id] = "InFlight"
      /\ round' = [round EXCEPT ![id] = (round[id] + 1) % U8]
      /\ UNCHANGED <<cached, in_flight, hot, hot_eviction, disk>>
  BY DEF Wait, tiers
<1>2. TypeOK'
  BY <1>1, RoundType, UpdateFrame DEF CoreInv, TypeOK
<1>3. id \notin hot
  BY <1>1 DEF CoreInv, TiersFollowIndex
<1>4. HotIsQueued'
  BY <1>1, <1>3, UpdateFrame DEF CoreInv, TypeOK, HotIsQueued
<1> QED BY <1>1, <1>2, <1>4, UpdateFrame
        DEF CoreInv, TiersFollowIndex, InFlightIds, WithinCapacity, Indexed, WorstGoes

LEMMA DowngradeStep ==
  ASSUME CoreInv, NEW id \in Ids, NEW s \in Scores, update(id, s), Downgrade(id, s)
  PROVE  CoreInv' /\ WorstGoes
<1>1. PICK k \in DOMAIN in_flight : in_flight[k] = id /\ in_flight' = RemoveAt(in_flight, k)
  BY DEF Downgrade
<1>2. /\ cached[id] = "InFlight"
      /\ Settle(id, s, cached, disk)
      /\ round' = [round EXCEPT ![id] = IF cached'[id] = "InFlight" THEN (round[id] + 1) % U8 ELSE 0]
  BY DEF Downgrade
<1>3. /\ in_flight \in Seq(Ids) /\ IsInjective(in_flight)
      /\ cached \in [Ids -> Tiers] /\ disk \in SUBSET Ids
      /\ id \notin hot /\ \A j \in hot : cached[j] = "Hot"
  BY <1>2 DEF CoreInv, TypeOK, TiersFollowIndex, Tiers
<1>4. /\ in_flight' \in Seq(Ids) /\ IsInjective(in_flight')
      /\ Len(in_flight') = Len(in_flight) - 1
      /\ ToSet(in_flight') = ToSet(in_flight) \ {id}
  BY <1>1, <1>3, RemoveAtSet
<1>5. Settled(id, s, cached, disk)
  BY <1>2, <1>3, UpdateFrame, SettleStep
<1>6. \A j \in ToSet(in_flight') : j # id /\ j \notin hot /\ cached[j] = "InFlight"
  BY <1>4 DEF CoreInv, TiersFollowIndex, InFlightIds
<1>7. Len(in_flight') =< IN_FLIGHT_CAP
  BY <1>3, <1>4, CapAssumption DEF CoreInv, WithinCapacity
<1>8. round' \in [Ids -> 0..(U8 - 1)]
  <2>1. round \in [Ids -> 0..(U8 - 1)]
    BY DEF CoreInv, TypeOK
  <2> QED BY <1>2, <2>1, RoundType
<1>9. /\ lost_dirs' \subseteq Ids /\ retired' \subseteq Ids
      /\ requests' \in Nat /\ cache_misses' \in Nat /\ hot_cap' = hot_cap
      /\ \A j \in hot \ {id} : score'[j] = score[j]
  BY UpdateFrame DEF CoreInv, TypeOK
<1>10. /\ score' \in [Ids -> Scores \cup {NoScore}] /\ score'[id] = s
       /\ \A j \in Ids : cached[j] # "Absent" => score'[j] \in Scores
  BY UpdateFrame
<1> QED BY <1>3, <1>4, <1>5, <1>6, <1>7, <1>8, <1>9, <1>10, SettledCore

\* change_priority of an entry that is not hot, or with its new score.
LEMMA ReprioritiseStep ==
  ASSUME CoreInv, NEW id \in Ids, NEW s \in Scores, update(id, s), Reprioritise(id, s)
  PROVE  CoreInv' /\ WorstGoes
<1>1. /\ hot_eviction' = ChangePriority(hot_eviction, id, s)
      /\ UNCHANGED <<cached, round, in_flight, hot, disk>>
  BY DEF Reprioritise
<1>2. /\ hot_eviction' \in [Ids -> Scores \cup {NoScore}]
      /\ \A j \in Ids \ {id} : hot_eviction'[j] = hot_eviction[j]
      /\ hot_eviction[id] # NoScore => hot_eviction'[id] = s
  BY <1>1 DEF ChangePriority, CoreInv, TypeOK
<1>3. TypeOK'
  BY <1>1, <1>2, UpdateFrame DEF CoreInv, TypeOK
<1>4. HotIsQueued'
  <2>1. id \in hot => hot_eviction[id] # NoScore
    BY ValueAssumption, UpdateFrame DEF CoreInv, HotIsQueued, NoScore
  <2>2. hot \subseteq Ids
    BY DEF CoreInv, TypeOK
  <2> QED BY <1>1, <1>2, <2>1, <2>2, UpdateFrame DEF CoreInv, HotIsQueued
<1> QED BY <1>1, <1>3, <1>4, UpdateFrame
        DEF CoreInv, TiersFollowIndex, InFlightIds, WithinCapacity, Indexed, WorstGoes

LEMMA PrefetchStep ==
  ASSUME CoreInv, NEW id \in Ids, NEW s \in Scores, update(id, s), Prefetch(id, s)
  PROVE  CoreInv' /\ WorstGoes
<1>1. /\ cached[id] = "Disk" /\ id \notin hot /\ id \in Indexed
      /\ UNCHANGED <<round, in_flight>>
      /\ cached \in [Ids -> Tiers] /\ disk \in SUBSET Ids /\ hot \subseteq Ids
      /\ hot_eviction \in [Ids -> Scores \cup {NoScore}]
      /\ \A j \in hot : cached[j] = "Hot"
  BY DEF Prefetch, CoreInv, TypeOK, TiersFollowIndex, Tiers, Indexed
<1>2. PICK v \in EvictCachedIf(s) :
       \/ /\ v = Keep
          /\ hot_eviction' = ChangePriority(hot_eviction, id, s)
          /\ UNCHANGED <<cached, hot, disk>>
       \/ /\ v # Keep
          /\ \E ok \in WriteVictim(v) : MoveToCache(id, s, v, ok, cached, disk)
       \/ /\ v # Keep
          /\ \E ok \in WriteVictim(v) :
               /\ hot' = hot \ {v}
               /\ hot_eviction' = ChangePriority(QueueWithout(v), id, s)
               /\ cached' = IndexWithout(cached, v, ok)
               /\ disk' = DiskWith(disk, v, ok)
  BY DEF Prefetch
<1>3. CASE /\ v = Keep
           /\ hot_eviction' = ChangePriority(hot_eviction, id, s)
           /\ UNCHANGED <<cached, hot, disk>>
  <2>1. /\ hot_eviction' \in [Ids -> Scores \cup {NoScore}]
        /\ \A j \in Ids \ {id} : hot_eviction'[j] = hot_eviction[j]
    BY <1>1, <1>3 DEF ChangePriority
  <2>2. TypeOK'
    BY <1>1, <1>3, <2>1, UpdateFrame DEF CoreInv, TypeOK
  <2>3. HotIsQueued'
    BY <1>1, <1>3, <2>1, UpdateFrame DEF CoreInv, HotIsQueued
  <2> QED BY <1>1, <1>3, <2>2, <2>3, UpdateFrame
          DEF CoreInv, TiersFollowIndex, InFlightIds, WithinCapacity, Indexed, WorstGoes
<1>4. CASE /\ v # Keep
           /\ \E ok \in WriteVictim(v) : MoveToCache(id, s, v, ok, cached, disk)
  <2>1. Settled(id, s, cached, disk)
    BY <1>1, <1>4, WriteType, EvictOutcome, MovedToCache
  <2>2. \A j \in ToSet(in_flight') : j # id /\ j \notin hot /\ cached[j] = "InFlight"
    BY <1>1 DEF CoreInv, TiersFollowIndex, InFlightIds
  <2>3. /\ round' \in [Ids -> 0..(U8 - 1)] /\ in_flight' \in Seq(Ids)
        /\ IsInjective(in_flight') /\ Len(in_flight') =< IN_FLIGHT_CAP
        /\ lost_dirs' \subseteq Ids /\ retired' \subseteq Ids
        /\ requests' \in Nat /\ cache_misses' \in Nat
    BY <1>1, UpdateFrame DEF CoreInv, TypeOK, TiersFollowIndex, WithinCapacity
  <2>4. /\ hot_cap' = hot_cap /\ score'[id] = s
        /\ score' \in [Ids -> Scores \cup {NoScore}]
        /\ \A j \in hot \ {id} : score'[j] = score[j]
        /\ \A j \in Ids : cached[j] # "Absent" => score'[j] \in Scores
    BY <1>1, UpdateFrame
  <2> QED BY <1>1, <2>1, <2>2, <2>3, <2>4, SettledCore
<1>5. ASSUME v # Keep, NEW ok \in WriteVictim(v),
             hot' = hot \ {v},
             hot_eviction' = ChangePriority(QueueWithout(v), id, s),
             cached' = IndexWithout(cached, v, ok),
             disk' = DiskWith(disk, v, ok)
      PROVE  CoreInv' /\ WorstGoes
  <2>1. /\ v \in Ids => v \in hot
        /\ v # id
    BY <1>1, <1>5, EvictOutcome, OutcomeAssumption DEF Evicts
  <2>2. /\ cached' \in [Ids -> Tiers]
        /\ \A j \in Ids : j # v => cached'[j] = cached[j]
        /\ \A j \in Ids : cached'[j] = "Absent" <=> cached[j] = "Absent"
    BY <1>1, <1>5 DEF IndexWithout, Tiers, Indexed
  <2>3. /\ hot_eviction' \in [Ids -> Scores \cup {NoScore}]
        /\ \A j \in Ids \ {id} : j # v => hot_eviction'[j] = hot_eviction[j]
    BY <1>1, <1>5 DEF QueueWithout, ChangePriority
  <2>4. TypeOK'
    BY <1>1, <1>5, <2>2, <2>3, UpdateFrame DEF CoreInv, TypeOK, DiskWith, Tiers
  <2>5. TiersFollowIndex'
    BY <1>1, <1>5, <2>1, <2>2 DEF CoreInv, TiersFollowIndex, InFlightIds, ToSet, TypeOK
  <2>6. HotIsQueued'
    BY <1>1, <1>5, <2>3, UpdateFrame DEF CoreInv, HotIsQueued
  <2>7. IsFiniteSet(hot') /\ Cardinality(hot') =< Cardinality(hot) /\ Cardinality(hot') \in Nat
        /\ Cardinality(hot) \in Nat
    BY <1>5, FS_Subset, FS_CardinalityType DEF CoreInv
  <2>8. WithinCapacity'
    BY <1>1, <2>7, UpdateFrame DEF CoreInv, WithinCapacity, TypeOK
  <2>9. \A j \in Indexed' : score'[j] \in Scores
    BY <2>2, UpdateFrame DEF Indexed
  <2>10. WorstGoes
    BY <1>5 DEF WorstGoes
  <2> QED BY <2>4, <2>5, <2>6, <2>7, <2>8, <2>9, <2>10, UpdateFrame DEF CoreInv
<1> QED BY <1>2, <1>3, <1>4, <1>5

LEMMA UpdateStep ==
  ASSUME CoreInv, NEW id \in Ids, NEW s \in Scores, update(id, s)
  PROVE  CoreInv' /\ WorstGoes
BY WaitStep, DowngradeStep, PrefetchStep, ReprioritiseStep DEF update

-----------------------------------------------------------------------------
(* insert.                                                                  *)

\* What insert leaves alone, and the new score.
LEMMA InsertFrame ==
  ASSUME CoreInv, NEW id \in Ids, NEW s \in Scores, insert(id, s)
  PROVE  /\ score' = [score EXCEPT ![id] = s]
         /\ score' \in [Ids -> Scores \cup {NoScore}]
         /\ score'[id] = s
         /\ \A j \in Ids \ {id} : score'[j] = score[j]
         /\ \A j \in Ids : cached[j] # "Absent" => score'[j] \in Scores
         /\ UNCHANGED <<lost_dirs, hot_cap, requests, cache_misses, retired>>
BY DEF insert, CoreInv, TypeOK, Indexed, counters

LEMMA InsertWithRoomStep ==
  ASSUME CoreInv, NEW id \in Ids, NEW s \in Scores, insert(id, s),
         NEW ok \in BOOLEAN, InsertWithRoom(id, ok)
  PROVE  CoreInv' /\ WorstGoes
<1>1. /\ id \notin Indexed \/ id \in InFlightIds
      /\ Len(in_flight) < IN_FLIGHT_CAP
      /\ in_flight' = IF id \in InFlightIds THEN in_flight ELSE Append(in_flight, id)
      /\ cached' = [cached EXCEPT ![id] = "InFlight"]
      /\ round' = [round EXCEPT ![id] = 0]
      /\ disk' = DiskWith(disk, id, ok)
      /\ UNCHANGED <<hot, hot_eviction>>
  BY DEF InsertWithRoom
<1>2. /\ in_flight \in Seq(Ids) /\ IsInjective(in_flight)
      /\ cached \in [Ids -> Tiers] /\ round \in [Ids -> 0..(U8 - 1)] /\ disk \subseteq Ids
  BY DEF CoreInv, TypeOK, TiersFollowIndex, Tiers
<1>3. id \notin hot
  BY <1>1 DEF CoreInv, TiersFollowIndex, Indexed
<1>4. /\ in_flight' \in Seq(Ids) /\ IsInjective(in_flight')
      /\ Len(in_flight') =< IN_FLIGHT_CAP
      /\ ToSet(in_flight') \subseteq ToSet(in_flight) \cup {id}
  <2>1. Len(in_flight) + 1 =< IN_FLIGHT_CAP
    BY <1>1, <1>2, CapAssumption
  <2>2. CASE id \in InFlightIds
    <3>1. in_flight' = in_flight
      BY <1>1, <2>2
    <3>2. Len(in_flight) =< IN_FLIGHT_CAP
      BY <1>1, <1>2, CapAssumption
    <3> QED BY <1>2, <3>1, <3>2
  <2>3. CASE id \notin InFlightIds
    <3>1. in_flight' = Append(in_flight, id) /\ id \notin ToSet(in_flight)
      BY <1>1, <2>3 DEF InFlightIds
    <3>2. /\ Append(in_flight, id) \in Seq(Ids)
          /\ Len(Append(in_flight, id)) = Len(in_flight) + 1
          /\ ToSet(Append(in_flight, id)) = ToSet(in_flight) \cup {id}
          /\ IsInjective(in_flight) /\ id \notin ToSet(in_flight)
             => IsInjective(Append(in_flight, id))
      BY <1>2, AppendSet
    <3> QED BY <1>2, <2>1, <3>1, <3>2
  <2> QED BY <2>2, <2>3
<1>5. TypeOK'
  BY <1>1, <1>2, <1>4, RoundType, InsertFrame DEF CoreInv, TypeOK, DiskWith, Tiers
<1>6. TiersFollowIndex'
  <2>1. \A j \in ToSet(in_flight) : j \in Ids
    BY <1>2 DEF ToSet
  <2>2. \A j \in hot : j \in Ids
    BY DEF CoreInv, TypeOK
  <2> QED BY <1>1, <1>2, <1>3, <1>4, <2>1, <2>2 DEF CoreInv, TiersFollowIndex, InFlightIds
<1>7. HotIsQueued'
  BY <1>1, <1>3, InsertFrame DEF CoreInv, TypeOK, HotIsQueued
<1>8. \A j \in Indexed' : score'[j] \in Scores
  BY <1>1, <1>2, InsertFrame DEF Indexed
<1> QED BY <1>1, <1>4, <1>5, <1>6, <1>7, <1>8, InsertFrame DEF CoreInv, WithinCapacity, WorstGoes

LEMMA InsertEvictingStep ==
  ASSUME CoreInv, NEW id \in Ids, NEW s \in Scores, insert(id, s),
         NEW ok \in BOOLEAN, InsertEvicting(id, ok)
  PROVE  CoreInv' /\ WorstGoes
<1> DEFINE oldest == Head(in_flight)
           tier == [cached EXCEPT ![id] = "InFlight"]
           stored == DiskWith(disk, id, ok)
<1>1. /\ id \notin Indexed
      /\ Len(in_flight) >= IN_FLIGHT_CAP
      /\ in_flight' = Append(Tail(in_flight), id)
      /\ Settle(oldest, score[oldest], tier, stored)
      /\ round' = [round EXCEPT ![id] = 0,
                                ![oldest] = IF cached'[oldest] = "InFlight" THEN @ ELSE 0]
  BY DEF InsertEvicting
<1>2. /\ in_flight \in Seq(Ids) /\ IsInjective(in_flight) /\ Len(in_flight) \in Nat \ {0}
      /\ cached \in [Ids -> Tiers] /\ round \in [Ids -> 0..(U8 - 1)] /\ disk \subseteq Ids
      /\ hot \subseteq Ids
  BY <1>1, CapAssumption DEF CoreInv, TypeOK, TiersFollowIndex, Tiers
<1>3. /\ Tail(in_flight) \in Seq(Ids) /\ IsInjective(Tail(in_flight))
      /\ Len(Tail(in_flight)) = Len(in_flight) - 1
      /\ oldest \in Ids /\ oldest \in ToSet(in_flight)
      /\ ToSet(Tail(in_flight)) = ToSet(in_flight) \ {oldest}
  BY <1>2, TailSet
<1>4. /\ id \notin hot /\ id \notin ToSet(in_flight) /\ id # oldest
      /\ cached[oldest] = "InFlight" /\ oldest \notin hot
      /\ oldest \in Indexed
  BY <1>1, <1>3 DEF CoreInv, TiersFollowIndex, InFlightIds, Indexed
<1>5. /\ in_flight' \in Seq(Ids) /\ IsInjective(in_flight')
      /\ Len(in_flight') = Len(in_flight)
      /\ ToSet(in_flight') = (ToSet(in_flight) \ {oldest}) \cup {id}
  <2>1. id \notin ToSet(Tail(in_flight))
    BY <1>3, <1>4
  <2> DEFINE rest == Tail(in_flight)
  <2>2. rest \in Seq(Ids) /\ IsInjective(rest) /\ id \notin ToSet(rest)
    BY <1>3, <2>1
  <2> HIDE DEF rest
  <2>4. /\ Append(rest, id) \in Seq(Ids) /\ IsInjective(Append(rest, id))
        /\ Len(Append(rest, id)) = Len(rest) + 1
        /\ ToSet(Append(rest, id)) = ToSet(rest) \cup {id}
    BY <2>2, AppendSet
  <2>3. (Len(in_flight) - 1) + 1 = Len(in_flight)
    BY <1>2
  <2> QED BY <1>1, <1>3, <2>3, <2>4 DEF rest
<1>6. /\ tier \in [Ids -> Tiers] /\ stored \in SUBSET Ids
      /\ tier[oldest] = "InFlight" /\ tier[id] = "InFlight"
      /\ \A j \in Ids \ {id} : tier[j] = cached[j]
      /\ \A j \in hot : tier[j] = "Hot"
  BY <1>2, <1>3, <1>4 DEF Tiers, DiskWith, CoreInv, TiersFollowIndex
<1>7. score[oldest] \in Scores /\ score'[oldest] = score[oldest]
  BY <1>3, <1>4, InsertFrame DEF CoreInv
<1> HIDE DEF oldest, tier, stored
<1>8. Settled(oldest, score[oldest], tier, stored)
  BY <1>1, <1>4, <1>6, <1>7, SettleStep
<1>9. \A j \in ToSet(in_flight') : j # oldest /\ j \notin hot /\ tier[j] = "InFlight"
  <2>1. \A j \in ToSet(in_flight) : j \in Ids /\ cached[j] = "InFlight" /\ j \notin hot
    BY <1>2 DEF ToSet, CoreInv, TiersFollowIndex, InFlightIds
  <2> QED BY <1>4, <1>5, <1>6, <2>1
<1>10. round' \in [Ids -> 0..(U8 - 1)]
  BY <1>1, <1>2, <1>3, RoundType
<1>11. \A j \in Ids : tier[j] # "Absent" => score'[j] \in Scores
  BY <1>6, InsertFrame
<1>12. Len(in_flight') =< IN_FLIGHT_CAP
  BY <1>5 DEF CoreInv, WithinCapacity
<1>13. /\ lost_dirs' \subseteq Ids /\ retired' \subseteq Ids
       /\ requests' \in Nat /\ cache_misses' \in Nat /\ hot_cap' = hot_cap
       /\ \A j \in hot \ {oldest} : score'[j] = score[j]
       /\ score' \in [Ids -> Scores \cup {NoScore}]
  BY <1>2, <1>4, InsertFrame DEF CoreInv, TypeOK
<1> QED BY <1>3, <1>5, <1>6, <1>7, <1>8, <1>9, <1>10, <1>11, <1>12, <1>13, SettledCore

LEMMA InsertStep ==
  ASSUME CoreInv, NEW id \in Ids, NEW s \in Scores, insert(id, s)
  PROVE  CoreInv' /\ WorstGoes
BY WriteType, InsertWithRoomStep, InsertEvictingStep DEF insert

-----------------------------------------------------------------------------
(* remove, resize and clear.                                                *)

LEMMA RemoveStep ==
  ASSUME CoreInv, NEW id \in Ids, remove(id)
  PROVE  CoreInv' /\ WorstGoes
<1>1. /\ id \notin InFlightIds
      /\ cached' = [cached EXCEPT ![id] = "Absent"]
      /\ round' = [round EXCEPT ![id] = 0]
      /\ score' = [score EXCEPT ![id] = NoScore]
      /\ hot' = IF cached[id] = "Hot" THEN hot \ {id} ELSE hot
      /\ retired' = retired \cup {id}
      /\ UNCHANGED <<in_flight, hot_eviction, disk, lost_dirs, hot_cap, requests, cache_misses>>
  BY DEF remove, MayBeCulled, backend, counters
<1>2. /\ id \notin hot' /\ hot' \subseteq hot /\ hot \subseteq Ids
      /\ cached \in [Ids -> Tiers] /\ score \in [Ids -> Scores \cup {NoScore}]
      /\ \A j \in InFlightIds : j \in Ids
  BY <1>1 DEF CoreInv, TypeOK, TiersFollowIndex, Tiers, InFlightIds, ToSet
<1>3. TypeOK'
  BY <1>1, <1>2, RoundType DEF CoreInv, TypeOK
<1>4. TiersFollowIndex' /\ HotIsQueued'
  BY <1>1, <1>2 DEF CoreInv, TiersFollowIndex, HotIsQueued, InFlightIds
<1>5. /\ IsFiniteSet(hot') /\ Cardinality(hot') =< Cardinality(hot)
      /\ Cardinality(hot') \in Nat /\ Cardinality(hot) \in Nat
  BY <1>2, FS_Subset, FS_CardinalityType DEF CoreInv
<1>6. WithinCapacity'
  BY <1>1, <1>5 DEF CoreInv, WithinCapacity, TypeOK
<1>7. \A j \in Indexed' : score'[j] \in Scores
  BY <1>1, <1>2 DEF CoreInv, Indexed
<1>8. WorstGoes
  BY <1>2 DEF WorstGoes
<1> QED BY <1>1, <1>3, <1>4, <1>5, <1>6, <1>7, <1>8 DEF CoreInv

LEMMA ResizeStep ==
  ASSUME CoreInv, resize
  PROVE  CoreInv' /\ WorstGoes
<1>1. /\ requests' = 0 /\ cache_misses' = 0
      /\ UNCHANGED <<cached, round, score, in_flight, hot, hot_eviction, disk, lost_dirs, retired>>
  BY DEF resize, entries, tiers, backend
<1>2. hot_cap' \in Nat /\ hot_cap' >= hot_cap /\ hot_cap' =< CACHE_CAP
  <2>1. hot_cap \in Nat /\ hot_cap =< CACHE_CAP /\ CACHE_CAP \in Nat
    BY CapAssumption DEF CoreInv, TypeOK, WithinCapacity
  <2>2. (hot_cap * 3) \div 2 \in Nat /\ (hot_cap * 3) \div 2 >= hot_cap
    BY <2>1
  <2> QED BY <2>1, <2>2 DEF resize
<1>3. Cardinality(hot) \in Nat /\ hot_cap \in Nat /\ hot_cap > 0 /\ Cardinality(hot) =< hot_cap
  BY FS_CardinalityType DEF CoreInv, TypeOK, WithinCapacity
<1>4. TypeOK'
  BY <1>1, <1>2 DEF CoreInv, TypeOK
<1>5. WithinCapacity' /\ hot_cap' > 0
  BY <1>1, <1>2, <1>3 DEF CoreInv, WithinCapacity
<1> QED BY <1>1, <1>4, <1>5
        DEF CoreInv, TiersFollowIndex, InFlightIds, HotIsQueued, Indexed, WorstGoes

LEMMA ClearStep ==
  ASSUME CoreInv, clear
  PROVE  CoreInv' /\ WorstGoes
<1>1. /\ cached' = [id \in Ids |-> "Absent"]
      /\ round' = [id \in Ids |-> 0]
      /\ score' = [id \in Ids |-> NoScore]
      /\ in_flight' = << >> /\ hot' = {} /\ disk' = {}
      /\ lost_dirs' = IF WriteOnce THEN lost_dirs \cup disk ELSE lost_dirs
      /\ UNCHANGED <<hot_eviction, hot_cap, requests, cache_misses, retired>>
  BY DEF clear, counters
<1>2. TypeOK'
  BY <1>1, CounterAssumption DEF CoreInv, TypeOK
<1>3. TiersFollowIndex'
  BY <1>1 DEF TiersFollowIndex, InFlightIds, ToSet, IsInjective
<1>4. IsFiniteSet(hot') /\ Cardinality(hot') = 0
  BY <1>1, FS_EmptySet
<1>5. WithinCapacity'
  BY <1>1, <1>4, CapAssumption DEF CoreInv, WithinCapacity, TypeOK
<1> QED BY <1>1, <1>2, <1>3, <1>4, <1>5 DEF CoreInv, HotIsQueued, Indexed, WorstGoes

-----------------------------------------------------------------------------
(* The invariant and the theorems.                                          *)

LEMMA CoreStep == CoreInv /\ [Next]_vars => CoreInv' /\ WorstGoes
<1> SUFFICES ASSUME CoreInv, [Next]_vars PROVE CoreInv' /\ WorstGoes
  OBVIOUS
<1>1. CASE \E id \in Ids : get(id)
  BY <1>1, GetStep
<1>2. CASE \E id \in Ids : remove(id)
  BY <1>2, RemoveStep
<1>3. CASE \E id \in Ids, s \in Scores : update(id, s)
  BY <1>3, UpdateStep
<1>4. CASE \E id \in Ids, s \in Scores : insert(id, s)
  BY <1>4, InsertStep
<1>5. CASE resize
  BY <1>5, ResizeStep
<1>6. CASE clear
  BY <1>6, ClearStep
<1>7. CASE UNCHANGED vars
  BY <1>7, NothingMoved DEF vars, counters, CoreInv, TypeOK
<1> QED BY <1>1, <1>2, <1>3, <1>4, <1>5, <1>6, <1>7 DEF Next

LEMMA CoreInvariant == Spec => []CoreInv
BY CoreInit, CoreStep, PTL DEF Spec

\* Every variable keeps its type: among others the u8 that counts the rounds of
\* an in-flight entry wraps around inside its range.
THEOREM TypeCorrect == Spec => []TypeOK
<1>1. CoreInv => TypeOK
  BY DEF CoreInv
<1> QED BY <1>1, CoreInvariant, PTL

\* Whatever the backend fails to do, no id is in two tiers, twice in one, or in
\* a tier the index does not name for it.
THEOREM TiersNeverDisagree == Spec => []TiersFollowIndex
<1>1. CoreInv => TiersFollowIndex
  BY DEF CoreInv
<1> QED BY <1>1, CoreInvariant, PTL

\* Every entry of the hot cache is in the eviction queue with its current score,
\* so that the entry popped next is a worst one.
THEOREM HotEntriesCanBeEvicted == Spec => []TiersAgree
<1>1. CoreInv => TiersAgree
  BY DEF CoreInv, TiersAgree
<1> QED BY <1>1, CoreInvariant, PTL

\* The hot cache and the in-flight tier never outgrow their capacities, for any
\* capacities, and the hot capacity never outgrows CACHE_CAP.
THEOREM CapacitiesHold == Spec => []WithinCapacity
<1>1. CoreInv => WithinCapacity
  BY DEF CoreInv
<1> QED BY <1>1, CoreInvariant, PTL

\* An entry that gives up its place in the hot cache to another was a worst one
\* of those that were hot, and is strictly worse than the newcomer.
THEOREM OnlyTheWorstIsEvicted == Spec => EvictsTheWorst
<1>1. CoreInv /\ [Next]_vars => [WorstGoes]_vars
  BY CoreStep
<1> QED BY <1>1, CoreInvariant, PTL DEF Spec, EvictsTheWorst, WorstGoes

-----------------------------------------------------------------------------
(* With a backend that keeps what it is given (BinaryBlob or InMemory, no   *)
(* I/O errors) the corpus loses no entry and implements CorpusHandler.      *)

Reliable == ~WriteOnce /\ ~IOFaults

\* A new entry is written to the backend at once, and stays there until the
\* next clear: so a downgrade or an eviction never depends on a first write.
KeptInv ==
  /\ CoreInv
  /\ lost_dirs = {}
  /\ Indexed \subseteq disk
  /\ NoEntryLost

-----------------------------------------------------------------------------
(* The backend succeeds, so every move ends in the tier the index names.    *)

LEMMA ReliableBackend ==
  ASSUME Reliable, lost_dirs = {}
  PROVE  /\ \A id : Write(id) = {TRUE}
         /\ \A v : WriteVictim(v) = {TRUE}
         /\ \A id \in disk : Retrieve(id) = {TRUE}
<1>1. \A id : Write(id) = {TRUE}
  BY DEF Reliable, Write
<1> QED BY <1>1 DEF Reliable, WriteVictim, Retrieve

\* Where the AST of j is after the step.
Found(j) ==
  \/ cached'[j] = "Hot" /\ j \in hot'
  \/ cached'[j] = "Disk" /\ j \in disk'

LEMMA CacheFinds ==
  ASSUME KeptInv, NEW id \in Indexed, id \notin hot, NEW s \in Scores,
         NEW v, v \in Ids => v \in hot,
         NEW tier \in [Ids -> Tiers], NEW stored \in SUBSET Ids,
         \A j \in hot : tier[j] = "Hot",
         MoveToCache(id, s, v, TRUE, tier, stored)
  PROVE  \A j \in hot \cup {id} : Found(j)
<1>1. /\ id \in Ids /\ hot \subseteq Indexed /\ hot \subseteq Ids
      /\ hot' = (hot \ {v}) \cup {id}
      /\ cached' = [IndexWithout(tier, v, TRUE) EXCEPT ![id] = "Hot"]
      /\ disk' = DiskWith(stored, v, TRUE)
  BY DEF KeptInv, CoreInv, TypeOK, TiersFollowIndex, Indexed, MoveToCache
<1>2. Found(id)
  BY <1>1 DEF Found, IndexWithout
<1>3. ASSUME NEW j \in hot PROVE Found(j)
  <2>1. j \in Ids /\ j # id /\ j \in Indexed
    BY <1>1
  <2>2. CASE j = v
    BY <1>1, <2>1, <2>2 DEF Found, IndexWithout, DiskWith
  <2>3. CASE j # v
    BY <1>1, <2>1, <2>3 DEF Found, IndexWithout
  <2> QED BY <2>2, <2>3
<1> QED BY <1>2, <1>3

LEMMA SettleFinds ==
  ASSUME Reliable, KeptInv, NEW id \in Indexed, id \notin hot, NEW s \in Scores,
         NEW tier \in [Ids -> Tiers], NEW stored \in SUBSET Ids,
         tier[id] # "Absent", \A j \in hot : tier[j] = "Hot",
         Settle(id, s, tier, stored)
  PROVE  /\ Settled(id, s, tier, stored)
         /\ \A j \in hot \cup {id} : Found(j)
<1>1. Settled(id, s, tier, stored)
  BY SettleStep DEF KeptInv
<1>2. PICK v \in EvictCachedIf(s) :
        \/ v = Keep /\ MoveToDisk(id, TRUE, tier, stored)
        \/ v # Keep /\ MoveToCache(id, s, v, TRUE, tier, stored)
  BY ReliableBackend DEF Settle, KeptInv
<1>3. CASE v = Keep
  <2>1. v # Keep \/ MoveToDisk(id, TRUE, tier, stored)
    BY <1>2
  <2>2. /\ id \in Ids /\ hot \subseteq Ids /\ hot' = hot
        /\ cached' = IndexWithout(tier, id, TRUE)
        /\ disk' = DiskWith(stored, id, TRUE)
    BY <1>3, <2>1 DEF MoveToDisk, KeptInv, CoreInv, TypeOK, Indexed
  <2> QED BY <1>1, <2>2 DEF Found, IndexWithout, DiskWith
<1>4. CASE v # Keep
  <2>1. v \in Ids => v \in hot
    BY <1>4, EvictOutcome, OutcomeAssumption DEF Evicts, KeptInv
  <2> QED BY <1>1, <1>2, <1>4, <2>1, CacheFinds
<1> QED BY <1>3, <1>4

\* After an entry was settled or prefetched nothing is lost: the entries it did
\* not move are where they were, on disk or in flight.
LEMMA FoundKept ==
  ASSUME KeptInv, NEW id \in Ids, NEW s, NEW tier \in [Ids -> Tiers],
         NEW stored \in SUBSET Ids,
         Settled(id, s, tier, stored),
         \A j \in hot \cup {id} : Found(j),
         lost_dirs' = {}, disk \subseteq stored,
         \A j \in Ids : tier[j] # "Absent" => j \in stored,
         \A j \in Ids \ {id} : j \notin hot /\ tier[j] = "InFlight" => j \in ToSet(in_flight'),
         \A j \in Ids : tier[j] \notin {"InFlight", "Absent"} => tier[j] = cached[j]
  PROVE  /\ lost_dirs' = {} /\ Indexed' \subseteq disk' /\ NoEntryLost'
         /\ Indexed' = {j \in Ids : tier[j] # "Absent"}
<1>1. /\ cached' \in [Ids -> Tiers] /\ stored \subseteq disk'
      /\ \A j \in Ids : cached'[j] = "Absent" <=> tier[j] = "Absent"
      /\ \A j \in Ids \ {id} : j \notin hot => cached'[j] = tier[j]
  BY DEF Settled
<1>2. Indexed' = {j \in Ids : tier[j] # "Absent"}
  BY <1>1 DEF Indexed
<1>3. ASSUME NEW j \in Indexed' PROVE Gettable(j)'
  <2>1. j \in Ids /\ tier[j] # "Absent" /\ cached'[j] # "Absent"
    BY <1>1, <1>2
  <2>2. CASE j \in hot \cup {id}
    BY <2>2 DEF Found, Gettable
  <2>3. CASE j \notin hot \cup {id} /\ tier[j] = "InFlight"
    BY <1>1, <2>1, <2>3 DEF Gettable, InFlightIds
  <2>4. CASE j \notin hot \cup {id} /\ tier[j] # "InFlight"
    <3>1. cached'[j] = cached[j] /\ j \in Indexed
      BY <1>1, <2>1, <2>4 DEF Indexed
    <3>2. cached[j] = "Disk"
      BY <2>1, <2>4, <3>1, <1>1 DEF KeptInv, NoEntryLost, Gettable
    <3>3. j \in disk'
      BY <1>1, <3>1 DEF KeptInv
    <3> QED BY <3>1, <3>2, <3>3 DEF Gettable
  <2> QED BY <2>2, <2>3, <2>4
<1> QED BY <1>1, <1>2, <1>3 DEF NoEntryLost

-----------------------------------------------------------------------------
(* One lemma per operation: nothing is lost, and what happens to the index. *)

\* Nothing is lost, and what is indexed after the step is the set S.
NothingLost(S) ==
  /\ lost_dirs' = {}
  /\ Indexed' = S
  /\ Indexed' \subseteq disk'
  /\ NoEntryLost'

\* A step that moves no entry.
LEMMA StillKept ==
  ASSUME KeptInv, UNCHANGED <<cached, in_flight, hot, disk, lost_dirs>>
  PROVE  NothingLost(Indexed)
BY DEF KeptInv, NothingLost, NoEntryLost, Gettable, Indexed, InFlightIds

\* The facts about the present that the lemmas below need.
LEMMA Present ==
  ASSUME KeptInv
  PROVE  /\ cached \in [Ids -> Tiers] /\ disk \in SUBSET Ids /\ hot \subseteq Ids
         /\ in_flight \in Seq(Ids) /\ IsInjective(in_flight)
         /\ lost_dirs = {}
         /\ \A j \in hot : cached[j] = "Hot"
         /\ \A j \in ToSet(in_flight) : cached[j] = "InFlight" /\ j \in Ids
         /\ \A j \in Ids : cached[j] # "Absent" => j \in disk /\ Gettable(j)
BY DEF KeptInv, CoreInv, TypeOK, TiersFollowIndex, InFlightIds, NoEntryLost, Indexed, Tiers, ToSet

LEMMA GetKeeps ==
  ASSUME Reliable, KeptInv, NEW id \in Ids, get(id)
  PROVE  NothingLost(Indexed) /\ score' = score
<1>1. id \in Indexed /\ (GetResident(id) \/ GetFromDisk(id))
  BY DEF get
<1>2. CASE UNCHANGED <<entries, tiers, backend>>
  BY <1>2, StillKept DEF entries, tiers, backend
<1>3. CASE /\ cached[id] = "Disk"
           /\ Cardinality(hot) < hot_cap
           /\ MoveToCache(id, score[id], Room, TRUE, cached, disk)
           /\ UNCHANGED <<score, in_flight, lost_dirs>>
  <2>1. id \notin hot /\ score[id] \in Scores
    BY <1>1, <1>3, Present DEF KeptInv, CoreInv
  <2>2. Settled(id, score[id], cached, disk)
    BY <1>1, <1>3, <2>1, Present, MovedToCache DEF Evicts, KeptInv
  <2>3. \A j \in hot \cup {id} : Found(j)
    BY <1>1, <1>3, <2>1, Present, CacheFinds, OutcomeAssumption
  <2>4. \A j \in Ids \ {id} : j \notin hot /\ cached[j] = "InFlight" => j \in ToSet(in_flight')
    BY <1>3, Present DEF Gettable, InFlightIds
  <2> QED BY <1>3, <2>2, <2>3, <2>4, Present, FoundKept DEF NothingLost, Indexed
<1> QED BY <1>1, <1>2, <1>3 DEF GetResident, GetFromDisk, entries

LEMMA DowngradeKeeps ==
  ASSUME Reliable, KeptInv, NEW id \in Ids, NEW s \in Scores,
         update(id, s), Downgrade(id, s)
  PROVE  NothingLost(Indexed)
<1>1. PICK k \in DOMAIN in_flight : in_flight[k] = id /\ in_flight' = RemoveAt(in_flight, k)
  BY DEF Downgrade
<1>2. /\ cached[id] = "InFlight" /\ id \in Indexed /\ id \notin hot
      /\ Settle(id, s, cached, disk)
      /\ lost_dirs' = lost_dirs
  BY Present DEF Downgrade, update, Indexed
<1>3. Settled(id, s, cached, disk) /\ \A j \in hot \cup {id} : Found(j)
  BY <1>2, Present, SettleFinds
<1>4. ToSet(in_flight') = ToSet(in_flight) \ {id}
  BY <1>1, Present, RemoveAtSet
<1>5. \A j \in Ids \ {id} : j \notin hot /\ cached[j] = "InFlight" => j \in ToSet(in_flight')
  BY <1>4, Present DEF Gettable, InFlightIds
<1> QED BY <1>2, <1>3, <1>5, Present, FoundKept DEF NothingLost, Indexed

LEMMA PrefetchKeeps ==
  ASSUME Reliable, KeptInv, NEW id \in Ids, NEW s \in Scores,
         update(id, s), Prefetch(id, s)
  PROVE  NothingLost(Indexed)
<1>1. /\ cached[id] = "Disk" /\ id \in Indexed /\ id \notin hot /\ id \in disk
      /\ UNCHANGED <<in_flight, lost_dirs>>
  BY Present DEF Prefetch, update, Indexed
<1>2. PICK v \in EvictCachedIf(s) :
        \/ v = Keep /\ UNCHANGED <<cached, hot, disk>>
        \/ v # Keep /\ MoveToCache(id, s, v, TRUE, cached, disk)
  BY <1>1, Present, ReliableBackend DEF Prefetch
<1>3. CASE v = Keep
  BY <1>1, <1>2, <1>3, StillKept
<1>4. CASE v # Keep
  <2>1. Evicts(v, s)
    BY <1>4, EvictOutcome DEF KeptInv
  <2>2. v \in Ids => v \in hot
    BY <2>1, OutcomeAssumption DEF Evicts
  <2>3. Settled(id, s, cached, disk)
    BY <1>1, <1>2, <1>4, <2>1, Present, MovedToCache DEF KeptInv
  <2>4. \A j \in hot \cup {id} : Found(j)
    BY <1>1, <1>2, <1>4, <2>2, Present, CacheFinds
  <2>5. \A j \in Ids \ {id} : j \notin hot /\ cached[j] = "InFlight" => j \in ToSet(in_flight')
    BY <1>1, Present DEF Gettable, InFlightIds
  <2> QED BY <1>1, <2>3, <2>4, <2>5, Present, FoundKept DEF NothingLost, Indexed
<1> QED BY <1>3, <1>4

LEMMA UpdateKeeps ==
  ASSUME Reliable, KeptInv, NEW id \in Ids, NEW s \in Scores, update(id, s)
  PROVE  /\ id \in Indexed
         /\ NothingLost(Indexed)
         /\ score' = [score EXCEPT ![id] = s]
<1>1. /\ id \in Indexed
      /\ score' = [score EXCEPT ![id] = s]
      /\ lost_dirs' = lost_dirs
      /\ Wait(id) \/ Downgrade(id, s) \/ Prefetch(id, s) \/ Reprioritise(id, s)
  BY DEF update
<1>2. CASE Wait(id) \/ Reprioritise(id, s)
  BY <1>1, <1>2, StillKept DEF Wait, Reprioritise, tiers
<1> QED BY <1>1, <1>2, DowngradeKeeps, PrefetchKeeps

LEMMA InsertKeeps ==
  ASSUME Reliable, KeptInv, NEW id \in Ids, NEW s \in Scores, insert(id, s)
  PROVE  /\ NothingLost(Indexed \cup {id})
         /\ score' = [score EXCEPT ![id] = s]
<1>1. /\ score' = [score EXCEPT ![id] = s]
      /\ lost_dirs' = {}
      /\ InsertWithRoom(id, TRUE) \/ InsertEvicting(id, TRUE)
  BY Present, ReliableBackend DEF insert
<1> DEFINE tier == [cached EXCEPT ![id] = "InFlight"]
           stored == DiskWith(disk, id, TRUE)
<1>2. /\ tier \in [Ids -> Tiers] /\ stored \in SUBSET Ids
      /\ stored = disk \cup {id} /\ tier[id] = "InFlight"
      /\ \A j \in Ids \ {id} : tier[j] = cached[j]
      /\ {j \in Ids : tier[j] # "Absent"} = Indexed \cup {id}
  BY Present DEF Tiers, DiskWith, Indexed
<1> HIDE DEF tier, stored
<1>3. CASE InsertWithRoom(id, TRUE)
  <2>1. /\ cached' = tier /\ disk' = stored /\ hot' = hot
        /\ in_flight' = IF id \in InFlightIds THEN in_flight ELSE Append(in_flight, id)
    BY <1>3 DEF InsertWithRoom, tier, stored
  <2>2. ToSet(in_flight) \cup {id} \subseteq ToSet(in_flight')
    BY <2>1, Present, AppendSet DEF InFlightIds
  <2>3. Indexed' = Indexed \cup {id}
    BY <1>2, <2>1 DEF Indexed
  <2>4. \A j \in Indexed' : Gettable(j)'
    BY <1>2, <2>1, <2>2, <2>3, Present DEF Gettable, InFlightIds, Indexed
  <2> QED BY <1>1, <1>2, <2>1, <2>3, <2>4, Present DEF NothingLost, NoEntryLost, Indexed
<1>4. CASE InsertEvicting(id, TRUE)
  <2> DEFINE oldest == Head(in_flight)
             rest == Tail(in_flight)
  <2>1. /\ id \notin Indexed /\ Len(in_flight) >= IN_FLIGHT_CAP
        /\ in_flight' = Append(rest, id)
        /\ Settle(oldest, score[oldest], tier, stored)
    BY <1>4 DEF InsertEvicting, tier, stored
  <2>2. in_flight # << >>
    BY <2>1, CapAssumption
  <2>3. /\ oldest \in ToSet(in_flight) /\ rest \in Seq(Ids)
        /\ ToSet(rest) = ToSet(in_flight) \ {oldest}
    BY <2>2, Present, TailSet
  <2> HIDE DEF oldest, rest
  <2>4. ToSet(in_flight') = ToSet(rest) \cup {id}
    BY <2>1, <2>3, AppendSet
  <2>5. /\ oldest \in Indexed /\ oldest \notin hot /\ oldest # id /\ id \notin hot
        /\ tier[oldest] = "InFlight" /\ \A j \in hot : tier[j] = "Hot"
        /\ score[oldest] \in Scores
    BY <1>2, <2>1, <2>3, Present DEF Indexed, KeptInv, CoreInv
  <2>6. /\ Settled(oldest, score[oldest], tier, stored)
        /\ \A j \in hot \cup {oldest} : Found(j)
    BY <1>2, <2>1, <2>5, SettleFinds
  <2>7. \A j \in Ids \ {oldest} : j \notin hot /\ tier[j] = "InFlight" => j \in ToSet(in_flight')
    BY <1>2, <2>3, <2>4, Present DEF Gettable, InFlightIds
  <2>8. /\ \A j \in Ids : tier[j] # "Absent" => j \in stored
        /\ \A j \in Ids : tier[j] \notin {"InFlight", "Absent"} => tier[j] = cached[j]
    BY <1>2, Present
  <2> QED BY <1>1, <1>2, <2>5, <2>6, <2>7, <2>8, FoundKept DEF NothingLost, Indexed
<1> QED BY <1>1, <1>3, <1>4

LEMMA RemoveKeeps ==
  ASSUME KeptInv, NEW id \in Ids, remove(id)
  PROVE  /\ NothingLost(Indexed \ {id})
         /\ score' = [score EXCEPT ![id] = NoScore]
<1>1. /\ cached' = [cached EXCEPT ![id] = "Absent"]
      /\ score' = [score EXCEPT ![id] = NoScore]
      /\ hot' = IF cached[id] = "Hot" THEN hot \ {id} ELSE hot
      /\ UNCHANGED <<in_flight, disk, lost_dirs>>
  BY DEF remove, backend
<1>2. Indexed' = Indexed \ {id}
  BY <1>1, Present DEF Indexed
<1>3. \A j \in Indexed' : Gettable(j)'
  BY <1>1, <1>2, Present DEF Gettable, InFlightIds, Indexed
<1> QED BY <1>1, <1>2, <1>3, Present DEF NothingLost, NoEntryLost, Indexed

LEMMA ClearKeeps ==
  ASSUME Reliable, KeptInv, clear
  PROVE  /\ NothingLost({})
         /\ score' = [id \in Ids |-> NoScore]
BY Present DEF clear, Reliable, NothingLost, NoEntryLost, Indexed

-----------------------------------------------------------------------------
(* The invariant, and the steps of CorpusHandler the steps map to.          *)

LEMMA KeptInit == Init => KeptInv
BY CoreInit DEF Init, KeptInv, NoEntryLost, Indexed

\* What a step does to the index and the scores: the next-state relation of
\* CorpusHandler, in terms of the index.
IndexStep ==
  \/ Indexed' = Indexed /\ score' = score
  \/ \E id \in Ids, s \in Scores :
       /\ Indexed' = Indexed \cup {id}
       /\ score' = [score EXCEPT ![id] = s]
  \/ \E id \in Ids :
       /\ Indexed' = Indexed \ {id}
       /\ score' = [score EXCEPT ![id] = NoScore]
  \/ Indexed' = {} /\ score' = [id \in Ids |-> NoScore]

LEMMA KeptStep ==
  ASSUME Reliable, KeptInv, [Next]_vars
  PROVE  KeptInv' /\ IndexStep
<1>1. CoreInv'
  BY CoreStep DEF KeptInv
<1>2. ASSUME NEW S, NothingLost(S) PROVE KeptInv' /\ Indexed' = S
  BY <1>1, <1>2 DEF NothingLost, KeptInv
<1>3. CASE \E id \in Ids : get(id)
  BY <1>2, <1>3, GetKeeps DEF IndexStep
<1>4. ASSUME NEW id \in Ids, remove(id)
      PROVE  KeptInv' /\ IndexStep
  <2>1. NothingLost(Indexed \ {id}) /\ score' = [score EXCEPT ![id] = NoScore]
    BY <1>4, RemoveKeeps
  <2>2. KeptInv' /\ Indexed' = Indexed \ {id}
    BY <1>2, <2>1
  <2> QED BY <2>1, <2>2 DEF IndexStep
<1>5. ASSUME NEW id \in Ids, NEW s \in Scores, update(id, s)
      PROVE  KeptInv' /\ IndexStep
  <2>1. Indexed = Indexed \cup {id}
    BY <1>5, UpdateKeeps
  <2> QED BY <1>2, <1>5, <2>1, UpdateKeeps DEF IndexStep
<1>6. ASSUME NEW id \in Ids, NEW s \in Scores, insert(id, s)
      PROVE  KeptInv' /\ IndexStep
  <2>1. NothingLost(Indexed \cup {id}) /\ score' = [score EXCEPT ![id] = s]
    BY <1>6, InsertKeeps
  <2>2. KeptInv' /\ Indexed' = Indexed \cup {id}
    BY <1>2, <2>1
  <2> QED BY <2>1, <2>2 DEF IndexStep
<1>7. CASE resize \/ UNCHANGED vars
  <2>1. UNCHANGED <<cached, in_flight, hot, disk, lost_dirs, score>>
    BY <1>7 DEF resize, vars, entries, tiers, backend
  <2> QED BY <1>2, <2>1, StillKept DEF IndexStep
<1>8. CASE clear
  BY <1>2, <1>8, ClearKeeps DEF IndexStep
<1> QED BY <1>3, <1>4, <1>5, <1>6, <1>7, <1>8 DEF Next

LEMMA KeptInvariant == ASSUME Reliable PROVE Spec => []KeptInv
<1>1. KeptInv /\ [Next]_vars => KeptInv'
  BY KeptStep
<1> QED BY <1>1, KeptInit, PTL DEF Spec

\* With a backend that never fails no eviction, prefetch or downgrade loses an
\* entry, in a corpus of any size: a get of an indexed id finds its AST.
THEOREM NothingIsLost ==
  ASSUME ~WriteOnce, ~IOFaults
  PROVE  Spec => []NoEntryLost
<1>1. Reliable
  BY DEF Reliable
<1>2. KeptInv => NoEntryLost
  BY DEF KeptInv
<1> QED BY <1>1, <1>2, KeptInvariant, PTL

\* With such a backend the tiers cannot be told from the map CorpusHandler
\* promises: every step of the corpus is one of its operations or a stutter.
THEOREM CorpusImplementsHandler ==
  ASSUME ~WriteOnce, ~IOFaults
  PROVE  Spec => ImplementsCorpusHandler
<1> DEFINE kept == {id \in Indexed : Gettable(id)}
<1>1. Reliable
  BY DEF Reliable
<1>2. KeptInv => kept = Indexed
  BY DEF KeptInv, NoEntryLost
<1>3. Init => Handler!Init
  BY DEF Init, Handler!Init, Indexed, NoScore, Handler!NoScore
<1>4. KeptInv /\ [Next]_vars => [Handler!Next]_Handler!vars
  <2> SUFFICES ASSUME KeptInv, [Next]_vars
               PROVE  [Handler!Next]_Handler!vars
    OBVIOUS
  <2>1. kept = Indexed /\ kept' = Indexed' /\ IndexStep
    BY <1>1, <1>2, KeptStep DEF KeptInv, NoEntryLost
  <2> HIDE DEF kept
  <2>2. CASE kept' = kept /\ score' = score
    BY <2>2 DEF Handler!vars, kept
  <2>3. ASSUME NEW id \in Ids, NEW s \in Scores,
               kept' = kept \cup {id}, score' = [score EXCEPT ![id] = s]
        PROVE  Handler!Next
    BY <2>3 DEF Handler!Next, Handler!insert, kept
  <2>4. ASSUME NEW id \in Ids,
               kept' = kept \ {id}, score' = [score EXCEPT ![id] = NoScore]
        PROVE  Handler!Next
    BY <2>4 DEF Handler!Next, Handler!remove, kept, NoScore, Handler!NoScore
  <2>5. CASE kept' = {} /\ score' = [id \in Ids |-> NoScore]
    BY <2>5 DEF Handler!Next, Handler!clear, kept, NoScore, Handler!NoScore
  <2> QED BY <2>1, <2>2, <2>3, <2>4, <2>5 DEF IndexStep
<1>5. Spec => []KeptInv
  BY <1>1, KeptInvariant
<1> QED BY <1>3, <1>4, <1>5, PTL DEF Spec, ImplementsCorpusHandler, Handler!Spec
=============================================================================
