---------------------------- MODULE DynamicCorpus ----------------------------
(***************************************************************************)
(* The three-tier corpus of crates/lsf-engine/src/dynamic_corpus.rs.        *)
(*                                                                         *)
(* A new test case is `in flight' until it has been scored more than        *)
(* GRACE_PERIOD times or is pushed out by younger ones; from there it goes  *)
(* to the `hot' cache when it beats the worst cached entry, and to the      *)
(* storage backend otherwise.  A hit on the backend brings it back.         *)
(*                                                                         *)
(* Every handler runs under the engine's mutex, so it is one step.  An AST  *)
(* never changes once its id is issued: a tier is the set of ids it holds   *)
(* an AST for.                                                              *)
(***************************************************************************)
EXTENDS Integers, Sequences, FiniteSets, SequencesExt

CONSTANTS
  Ids,                    \* ids of test cases
  Scores,                 \* scores a scheduler may assign
  INIT_CACHE_CAP,         \* capacity of the hot cache at first
  CACHE_CAP,              \* and at most
  IN_FLIGHT_CAP,          \* capacity of the in-flight tier
  GRACE_PERIOD,           \* updates an in-flight entry survives
  U8,                     \* number of values of the u8 that counts them
  CACHE_ADJUSTMENT_TICK,  \* requests between two adjustments of hot_cap
  CACHE_MISS_THRESHHOLD,  \* percentage of misses above which hot_cap grows
  PROTECTED_RATIO,        \* percentage of the entries the GC must keep
  WriteOnce,              \* the backend refuses a second write (ShardedDiskCache)
  IOFaults,               \* reads and first writes of the backend may fail
  MaxRequests             \* bound: requests between two calls of resize

ASSUME CapAssumption ==
  /\ INIT_CACHE_CAP \in Nat \ {0}
  /\ CACHE_CAP \in Nat
  /\ INIT_CACHE_CAP =< CACHE_CAP
  /\ IN_FLIGHT_CAP \in Nat \ {0}

ASSUME CounterAssumption ==
  /\ GRACE_PERIOD \in Nat
  /\ U8 \in Nat \ {0}
  /\ CACHE_ADJUSTMENT_TICK \in Nat \ {0}
  /\ CACHE_MISS_THRESHHOLD \in Nat
  /\ PROTECTED_RATIO \in Nat
  /\ MaxRequests \in Nat

ASSUME ValueAssumption ==
  /\ Scores \subseteq Nat
  /\ WriteOnce \in BOOLEAN
  /\ IOFaults \in BOOLEAN

VARIABLES
  cached,        \* tier the index names for an id, "Absent" when not indexed
  round,         \* times an in-flight entry was scored
  score,         \* score the index holds, NoScore when not indexed
  in_flight,     \* IndexMap: ids in order of insertion
  hot,           \* ids whose AST is cached
  hot_eviction,  \* priority queue: score of each queued id, NoScore otherwise
  disk,          \* ids the backend has an AST for
  lost_dirs,     \* ids whose directory was deleted but is recorded as created
  hot_cap,
  requests,
  cache_misses,
  retired        \* ids culled: a new entry always has a fresh id

tiers == <<in_flight, hot, hot_eviction>>
backend == <<disk, lost_dirs>>
counters == <<hot_cap, requests, cache_misses>>
entries == <<cached, round, score>>
vars == <<entries, tiers, backend, counters, retired>>

NoScore == -1
Room == "room"     \* evict_cached_if: true, nothing had to go
Keep == "keep"     \* evict_cached_if: false, the worst entry stays

ASSUME OutcomeAssumption == Room \notin Ids /\ Keep \notin Ids

Indexed == {id \in Ids : cached[id] # "Absent"}
Queued == {id \in Ids : hot_eviction[id] # NoScore}
InFlightIds == ToSet(in_flight)

TypeOK ==
  /\ cached \in [Ids -> {"Absent", "InFlight", "Hot", "Disk"}]
  /\ round \in [Ids -> 0..(U8 - 1)]
  /\ score \in [Ids -> Scores \cup {NoScore}]
  /\ in_flight \in Seq(Ids)
  /\ hot \subseteq Ids
  /\ hot_eviction \in [Ids -> Scores \cup {NoScore}]
  /\ disk \subseteq Ids
  /\ lost_dirs \subseteq Ids
  /\ hot_cap \in Nat
  /\ requests \in Nat
  /\ cache_misses \in Nat
  /\ retired \subseteq Ids

Init ==
  /\ cached = [id \in Ids |-> "Absent"]
  /\ round = [id \in Ids |-> 0]
  /\ score = [id \in Ids |-> NoScore]
  /\ in_flight = << >>
  /\ hot = {}
  /\ hot_eviction = [id \in Ids |-> NoScore]
  /\ disk = {}
  /\ lost_dirs = {}
  /\ hot_cap = INIT_CACHE_CAP
  /\ requests = 0
  /\ cache_misses = 0
  /\ retired = {}

-----------------------------------------------------------------------------
(* The storage backend.                                                     *)

\* The results a write may have.  BinaryBlob ignores the write of an id it
\* has; ShardedDiskCache opens with create_new, which fails for it, and fails
\* as well when the directory went with the last clear.
Write(id) ==
  IF id \in disk
  THEN {~WriteOnce}
  ELSE IF id \in lost_dirs
  THEN {FALSE}
  ELSE {TRUE} \cup {~IOFaults}

\* The results a retrieve may have.
Retrieve(id) ==
  IF id \in disk THEN {TRUE} \cup {~IOFaults} ELSE {FALSE}

-----------------------------------------------------------------------------
(* Moving entries between the tiers.                                        *)

\* Mutant: the queue pops the highest score.
EvictCachedIf_PopsBest(limit) ==
  IF Cardinality(hot) < hot_cap \/ Queued = {}
  THEN {Room}
  ELSE LET best == {id \in Queued :
                      \A other \in Queued : hot_eviction[id] >= hot_eviction[other]}
       IN {IF hot_eviction[id] < limit /\ id \in hot THEN id ELSE Keep : id \in best}

\* The outcomes of evict_cached_if(|cached| cached < limit): Room, Keep, or
\* the entry it takes out of the hot cache, one with the lowest score in the
\* queue (entries of equal score leave the heap in any order).
EvictCachedIf(limit) ==
  IF Cardinality(hot) < hot_cap \/ Queued = {}
  THEN {Room}
  ELSE LET worst == {id \in Queued :
                       \A other \in Queued : hot_eviction[id] =< hot_eviction[other]}
       IN {IF hot_eviction[id] < limit /\ id \in hot THEN id ELSE Keep : id \in worst}

\* The results the write of a victim may have; with Room there is none.
WriteVictim(v) == IF v = Room THEN {TRUE} ELSE Write(v)

\* Mutant: the index still calls a demoted entry hot.
IndexWithout_StaysHot(tier, v, ok) == tier

\* The index, the queue and the disk once evict_cached_if answered v # Keep:
\* the victim, if any, was popped and written with result ok.  tier and stored
\* are the values of cached and disk the rest of the handler leaves.
IndexWithout(tier, v, ok) ==
  [i \in Ids |-> IF i = v /\ ok /\ i \in Indexed THEN "Disk" ELSE tier[i]]
QueueWithout(v) == [i \in Ids |-> IF i = v THEN NoScore ELSE hot_eviction[i]]
DiskWith(stored, v, ok) == stored \cup {i \in Ids : i = v /\ ok}

\* move_to_cache of id, whose score is s, after evict_cached_if answered v.
\* Its own eviction (lines 248-250) is left out: it only runs when a caller
\* made no room, and then hot outgrows hot_cap here (see WithinCapacity).
MoveToCache(id, s, v, ok, tier, stored) ==
  /\ hot' = (hot \ {v}) \cup {id}
  /\ hot_eviction' = IF id \in Indexed THEN [QueueWithout(v) EXCEPT ![id] = s]
                                       ELSE QueueWithout(v)
  /\ cached' = IF id \in Indexed THEN [IndexWithout(tier, v, ok) EXCEPT ![id] = "Hot"]
                                 ELSE IndexWithout(tier, v, ok)
  /\ disk' = DiskWith(stored, v, ok)

\* Mutant: move_to_disk does not tell the index.
MoveToDisk_NotIndexed(id, ok, tier, stored) ==
  /\ disk' = DiskWith(stored, id, ok)
  /\ cached' = tier
  /\ UNCHANGED <<hot, hot_eviction>>

\* move_to_disk of id.  When the write fails the AST is dropped all the same.
MoveToDisk(id, ok, tier, stored) ==
  /\ disk' = DiskWith(stored, id, ok)
  /\ cached' = IndexWithout(tier, id, ok)
  /\ UNCHANGED <<hot, hot_eviction>>

\* Where id, just taken out of the in-flight tier, goes when its score is s.
Settle(id, s, tier, stored) ==
  \E v \in (IF id \in Indexed THEN EvictCachedIf(s) ELSE {Keep}) :
    \/ /\ v = Keep
       /\ \E ok \in Write(id) : MoveToDisk(id, ok, tier, stored)
    \/ /\ v # Keep
       /\ \E ok \in WriteVictim(v) : MoveToCache(id, s, v, ok, tier, stored)

-----------------------------------------------------------------------------
(* The operations of CorpusHandler.                                         *)

\* get of an indexed id (of any other it returns None and changes nothing).
GetResident(id) ==
  /\ cached[id] # "Disk" \/ FALSE \in Retrieve(id)
  /\ UNCHANGED <<entries, tiers, backend, cache_misses>>

GetFromDisk(id) ==
  /\ cached[id] = "Disk"
  /\ TRUE \in Retrieve(id)
  /\ \/ /\ Cardinality(hot) < hot_cap
        /\ MoveToCache(id, score[id], Room, TRUE, cached, disk)
        /\ UNCHANGED <<round, score, in_flight, lost_dirs, cache_misses>>
     \/ /\ Cardinality(hot) >= hot_cap
        /\ cache_misses' = cache_misses + 1
        /\ UNCHANGED <<entries, tiers, backend>>

get(id) ==
  /\ id \in Indexed
  /\ requests < MaxRequests
  /\ requests' = requests + 1
  /\ GetResident(id) \/ GetFromDisk(id)
  /\ UNCHANGED <<hot_cap, retired>>

\* Mutant: a counter wider than the u8 of InFlight.
Wait_NoWrap(id) ==
  LET next_round == round[id] + 1
  IN /\ cached[id] = "InFlight"
     /\ next_round =< GRACE_PERIOD \/ id \notin InFlightIds
     /\ round' = [round EXCEPT ![id] = next_round]
     /\ UNCHANGED <<cached, tiers, disk>>

\* update of an in-flight entry that keeps its place: the grace period is not
\* over, or its AST was dropped before by a failed move_to_disk.
Wait(id) ==
  LET next_round == (round[id] + 1) % U8
  IN /\ cached[id] = "InFlight"
     /\ next_round =< GRACE_PERIOD \/ id \notin InFlightIds
     /\ round' = [round EXCEPT ![id] = next_round]
     /\ UNCHANGED <<cached, tiers, disk>>

\* Mutant: the AST is read from the in-flight tier but left there.
Downgrade_LeavesInFlight(id, s) ==
  LET next_round == (round[id] + 1) % U8
  IN /\ cached[id] = "InFlight"
     /\ next_round > GRACE_PERIOD
     /\ id \in InFlightIds
     /\ UNCHANGED in_flight
     /\ Settle(id, s, cached, disk)
     /\ round' = [round EXCEPT ![id] = IF cached'[id] = "InFlight" THEN next_round ELSE 0]

\* update of an in-flight entry whose grace period is over.  A failed
\* move_to_disk leaves it InFlight in the index.
Downgrade(id, s) ==
  LET next_round == (round[id] + 1) % U8
  IN /\ cached[id] = "InFlight"
     /\ next_round > GRACE_PERIOD
     /\ \E k \in DOMAIN in_flight :
          /\ in_flight[k] = id
          /\ in_flight' = RemoveAt(in_flight, k)
     /\ Settle(id, s, cached, disk)
     /\ round' = [round EXCEPT ![id] = IF cached'[id] = "InFlight" THEN next_round ELSE 0]

\* change_priority: nothing happens to an id that is not queued.
ChangePriority(queue, id, s) ==
  IF queue[id] = NoScore THEN queue ELSE [queue EXCEPT ![id] = s]

\* update of an entry on disk: prefetched when it beats the worst cached one.
\* When the retrieve fails the victim has gone for nothing.
Prefetch(id, s) ==
  /\ cached[id] = "Disk"
  /\ \E v \in EvictCachedIf(s) :
       \/ /\ v = Keep
          /\ hot_eviction' = ChangePriority(hot_eviction, id, s)
          /\ UNCHANGED <<cached, hot, disk>>
       \/ /\ v # Keep
          /\ TRUE \in Retrieve(id)
          /\ \E ok \in WriteVictim(v) : MoveToCache(id, s, v, ok, cached, disk)
       \/ /\ v # Keep
          /\ FALSE \in Retrieve(id)
          /\ \E ok \in WriteVictim(v) :
               /\ hot' = hot \ {v}
               /\ hot_eviction' = ChangePriority(QueueWithout(v), id, s)
               /\ cached' = IndexWithout(cached, v, ok)
               /\ disk' = DiskWith(disk, v, ok)
  /\ UNCHANGED <<round, in_flight>>

\* update of a hot entry.
Reprioritise(id, s) ==
  /\ cached[id] = "Hot"
  /\ hot_eviction' = ChangePriority(hot_eviction, id, s)
  /\ UNCHANGED <<cached, round, in_flight, hot, disk>>

update(id, s) ==
  /\ id \in Indexed
  /\ score' = [score EXCEPT ![id] = s]
  /\ Wait(id) \/ Downgrade(id, s) \/ Prefetch(id, s) \/ Reprioritise(id, s)
  /\ UNCHANGED <<lost_dirs, counters, retired>>

\* Mutant: off by one at IN_FLIGHT_CAP.
InsertWithRoom_OffByOne(id, ok) ==
  /\ id \notin Indexed \/ id \in InFlightIds
  /\ Len(in_flight) =< IN_FLIGHT_CAP
  /\ in_flight' = IF id \in InFlightIds THEN in_flight ELSE Append(in_flight, id)
  /\ cached' = [cached EXCEPT ![id] = "InFlight"]
  /\ round' = [round EXCEPT ![id] = 0]
  /\ disk' = DiskWith(disk, id, ok)
  /\ UNCHANGED <<hot, hot_eviction>>

\* insert while the in-flight tier has room: of a new id, of an id the corpus
\* forgot in clear (the initial seeds are committed again after it), or of one
\* still in flight (the first seeds are run while they are populated).
InsertWithRoom(id, ok) ==
  /\ id \notin Indexed \/ id \in InFlightIds
  /\ Len(in_flight) < IN_FLIGHT_CAP
  /\ in_flight' = IF id \in InFlightIds THEN in_flight ELSE Append(in_flight, id)
  /\ cached' = [cached EXCEPT ![id] = "InFlight"]
  /\ round' = [round EXCEPT ![id] = 0]
  /\ disk' = DiskWith(disk, id, ok)
  /\ UNCHANGED <<hot, hot_eviction>>

\* insert into the full tier: evict_in_flight settles the oldest entry first.
InsertEvicting(id, ok) ==
  LET oldest == Head(in_flight)
  IN /\ id \notin Indexed
     /\ Len(in_flight) >= IN_FLIGHT_CAP
     /\ in_flight' = Append(Tail(in_flight), id)
     /\ Settle(oldest, score[oldest],
               [cached EXCEPT ![id] = "InFlight"], DiskWith(disk, id, ok))
     /\ round' = [round EXCEPT ![id] = 0,
                               ![oldest] = IF cached'[oldest] = "InFlight" THEN @ ELSE 0]

insert(id, s) ==
  /\ id \notin retired
  /\ score' = [score EXCEPT ![id] = s]
  /\ \E ok \in Write(id) : InsertWithRoom(id, ok) \/ InsertEvicting(id, ok)
  /\ UNCHANGED <<lost_dirs, counters, retired>>

\* protected_ids holds all in-flight ids and the best of the index, as many as
\* make up PROTECTED_RATIO percent of it together.  An id may be left out when
\* enough others score at least as much.
MayBeCulled(id) ==
  LET target == (Cardinality(Indexed) * PROTECTED_RATIO) \div 100 - Len(in_flight)
  IN /\ id \notin InFlightIds
     /\ Cardinality({other \in Indexed \ {id} : score[other] >= score[id]}) >= target

\* remove of an entry: the minimizer culls no protected one.  Neither the
\* queue nor the disk forgets it.
remove(id) ==
  /\ id \in Indexed
  /\ MayBeCulled(id)
  /\ cached' = [cached EXCEPT ![id] = "Absent"]
  /\ round' = [round EXCEPT ![id] = 0]
  /\ score' = [score EXCEPT ![id] = NoScore]
  /\ hot' = IF cached[id] = "Hot" THEN hot \ {id} ELSE hot
  /\ retired' = retired \cup {id}
  /\ UNCHANGED <<in_flight, hot_eviction, backend, counters>>

resize ==
  /\ requests >= CACHE_ADJUSTMENT_TICK
  /\ hot_cap' = IF /\ cache_misses * 100 > CACHE_MISS_THRESHHOLD * requests
                   /\ hot_cap < CACHE_CAP
                THEN LET grown == (hot_cap * 3) \div 2
                     IN IF grown < CACHE_CAP THEN grown ELSE CACHE_CAP
                ELSE hot_cap
  /\ requests' = 0
  /\ cache_misses' = 0
  /\ UNCHANGED <<entries, tiers, backend, retired>>

\* clear: neither the queue nor the counters are reset.  ShardedDiskCache
\* deletes its directories but still takes them for created.
clear ==
  /\ cached' = [id \in Ids |-> "Absent"]
  /\ round' = [id \in Ids |-> 0]
  /\ score' = [id \in Ids |-> NoScore]
  /\ in_flight' = << >>
  /\ hot' = {}
  /\ disk' = {}
  /\ lost_dirs' = IF WriteOnce THEN lost_dirs \cup disk ELSE lost_dirs
  /\ UNCHANGED <<hot_eviction, counters, retired>>

Next ==
  \/ \E id \in Ids : get(id) \/ remove(id)
  \/ \E id \in Ids, s \in Scores : update(id, s) \/ insert(id, s)
  \/ resize
  \/ clear

Spec == Init /\ [][Next]_vars

-----------------------------------------------------------------------------
(* Properties.                                                              *)

\* The id's AST is where the index says: a get returns an entry for it.
Gettable(id) ==
  \/ cached[id] = "InFlight" /\ id \in InFlightIds
  \/ cached[id] = "Hot" /\ id \in hot
  \/ cached[id] = "Disk" /\ id \in disk

\* The tiers hold only what the index places there, whatever the backend does:
\* an id is never in two tiers, never twice in one, and never in a tier after
\* it was removed (move_to_cache, move_to_disk, remove, insert).
TiersFollowIndex ==
  /\ \A id \in hot : cached[id] = "Hot"
  /\ \A id \in InFlightIds : cached[id] = "InFlight"
  /\ IsInjective(in_flight)

\* No eviction, prefetch or downgrade loses an entry: every indexed id can be
\* retrieved, as long as the backend accepts every write and serves every read
\* (BinaryBlob or InMemory without I/O errors).
NoEntryLost == \A id \in Indexed : Gettable(id)

\* Neither bounded tier outgrows its capacity: whoever calls move_to_cache has
\* made room before, and the eviction it does itself (lines 248-250) never runs.
WithinCapacity ==
  /\ Cardinality(hot) =< hot_cap
  /\ hot_cap =< CACHE_CAP
  /\ Len(in_flight) =< IN_FLIGHT_CAP

\* Every hot entry can be chosen for eviction, at its current score: the queue
\* follows the score through update, insert, prefetch and get.
HotIsQueued == \A id \in hot : hot_eviction[id] = score[id]

\* Index, tiers and eviction queue agree, whatever the backend answers: what is
\* evicted next is in the hot cache with the score it is compared by.
TiersAgree == TiersFollowIndex /\ HotIsQueued

\* An entry that gives up its place in the hot cache to another is a worst one
\* of those that were hot, and strictly worse than the newcomer.
EvictsTheWorst ==
  [][\A out \in hot \ hot', new \in hot' \ hot :
       /\ score[out] < score'[new]
       /\ \A other \in hot : score[out] =< score[other]]_vars

\* With a backend that keeps what it is given, the tiers are invisible: the
\* corpus implements the map CorpusHandler promises.
Handler == INSTANCE CorpusHandler
  WITH kept <- {id \in Indexed : Gettable(id)}, rank <- score

ImplementsCorpusHandler == Handler!Spec
=============================================================================
