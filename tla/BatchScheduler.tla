--------------------------- MODULE BatchScheduler ---------------------------
(***************************************************************************)
(* The scheduler main.py builds: SchedulerBatcher (schedule.rs) over        *)
(* FastProbabilisticMABScheduler (probabilisitic_mab.rs).                   *)
(*                                                                         *)
(* The inner scheduler draws parents by their scores; the batcher prepares  *)
(* many at a time, each with an energy, and hands them out by chance until  *)
(* the energy is spent.  Culled entries are told to the inner scheduler     *)
(* only.  All calls run under the engine's mutex, so that nothing comes     *)
(* between the draws of one next_batch.  The specification is not called    *)
(* Spec because Scheduling_proofs has it beside the one of Bandit.          *)
(***************************************************************************)
EXTENDS Integers, Sequences, FiniteSets, SequencesExt

CONSTANTS
  Ids,
  MaxSize,              \* the largest batch the engine asks for: QUERY_STASH
  MIN_REFILL,
  MAX_REFILL,
  BATCH_MULTIPLICATOR,
  BASE_PERSISTENCE,
  MaxMagnitude          \* of 1 + MAX_WEIGHT

ASSUME RefillAssumption ==
  /\ MaxSize \in Nat \ {0}
  /\ MIN_REFILL \in Nat \ {0}
  /\ MAX_REFILL \in Nat /\ MIN_REFILL =< MAX_REFILL
  /\ MaxSize =< MAX_REFILL      \* both are 128
  /\ BATCH_MULTIPLICATOR \in Nat \ {0}
  /\ BASE_PERSISTENCE \in Nat \ {0}
  /\ MaxMagnitude \in Nat \ {0}

VARIABLES
  entries,    \* of the inner scheduler; all are in the corpus
  batch,      \* prepared parents with their energies
  asked,      \* size of the next_batch that runs, or 0
  handed,     \* parents it has got
  retired,    \* ghost: culled ids, which are not used again
  due         \* ghost: how often what was prepared may still be handed out

batch_vars == <<entries, batch, asked, handed, retired, due>>

\* Mutant: the logarithm is rounded down.
Magnitudes_Floor == 0..(MaxMagnitude - 1)

\* ceil(log10(1 + score)): a score is a float between MIN_WEIGHT, above zero,
\* and MAX_WEIGHT.
Magnitudes == 1..MaxMagnitude

Energies == {BASE_PERSISTENCE * n : n \in Magnitudes}

\* The size of a refill for a batch of this size.
RefillSize(size) ==
  LET wanted == size * BATCH_MULTIPLICATOR
  IN IF wanted < MIN_REFILL THEN MIN_REFILL ELSE IF wanted > MAX_REFILL THEN MAX_REFILL ELSE wanted

Prepared(ids, energies) == [k \in DOMAIN ids |-> [id |-> ids[k], energy |-> energies[k]]]

\* The energy an id has in what is prepared.
EnergyAt(id, item) == IF item.id = id THEN item.energy ELSE 0
EnergyOf(id, items) ==
  LET sum[n \in 0..Len(items)] == IF n = 0 THEN 0 ELSE sum[n - 1] + EnergyAt(id, items[n])
  IN sum[Len(items)]

BatchOK ==
  /\ entries \subseteq Ids
  /\ \A k \in DOMAIN batch : batch[k].id \in Ids /\ batch[k].energy > 0
  /\ asked \in 0..MaxSize
  /\ handed \in 0..MaxSize
  /\ asked > 0 => handed < asked
  /\ retired \subseteq Ids
  /\ due \in [Ids -> Nat]

BatchInit ==
  /\ entries = {}
  /\ batch = << >>
  /\ asked = 0
  /\ handed = 0
  /\ retired = {}
  /\ due = [id \in Ids |-> 0]

-----------------------------------------------------------------------------

\* Mutant: the batch is filled up when it is empty.
NeedsRefill_Empty(size) == batch = << >>

NeedsRefill(size) == Len(batch) < size

\* refill, with the next_batch of the inner scheduler: it rejects by chance, so
\* any entries may come out, and any of them several times.  Without an entry
\* it panics, which Engine has.
Refill(size) ==
  /\ entries # {}
  /\ \E ids \in [1..RefillSize(size) -> entries], energies \in [1..RefillSize(size) -> Energies] :
       /\ batch' = batch \o Prepared(ids, energies)
       /\ due' = [id \in Ids |-> due[id] + EnergyOf(id, Prepared(ids, energies))]

\* next_batch: the batch is filled up first.  The loop would fill it again if it
\* were used up, which EnoughPrepared rules out.
next_batch(size) ==
  /\ asked = 0
  /\ asked' = size
  /\ handed' = 0
  /\ \/ NeedsRefill(size) /\ Refill(size)
     \/ ~NeedsRefill(size) /\ UNCHANGED <<batch, due>>
  /\ UNCHANGED <<entries, retired>>

\* Vec::swap_remove: the last element takes the place of the one removed.
SwapRemove(items, k) == Front([items EXCEPT ![k] = Last(items)])

\* Mutant: the last element goes, whichever was drawn.
Spend_DropsLast(k) ==
  IF batch[k].energy = 1
  THEN batch' = Front(batch)
  ELSE batch' = [batch EXCEPT ![k].energy = @ - 1]

Spend(k) ==
  IF batch[k].energy = 1
  THEN batch' = SwapRemove(batch, k)
  ELSE batch' = [batch EXCEPT ![k].energy = @ - 1]

\* The loop of next_batch: one parent after the other comes from the last `asked`
\* of the batch, until the call returns.
Draw ==
  /\ asked > 0
  /\ \E k \in DOMAIN batch :
       /\ k > Len(batch) - asked
       /\ Spend(k)
       /\ due' = [due EXCEPT ![batch[k].id] = @ - 1]
  /\ \/ handed + 1 < asked /\ handed' = handed + 1 /\ UNCHANGED asked
     \/ handed + 1 = asked /\ handed' = 0 /\ asked' = 0
  /\ UNCHANGED <<entries, retired>>

on_add(id) ==
  /\ asked = 0
  /\ id \notin entries \cup retired
  /\ entries' = entries \cup {id}
  /\ UNCHANGED <<batch, asked, handed, retired, due>>

\* Mutant: the removal is not passed on.
on_remove_Forgets(id) ==
  /\ asked = 0
  /\ id \in entries \ retired
  /\ retired' = retired \cup {id}
  /\ UNCHANGED <<entries, batch, asked, handed, due>>

\* on_remove: the batch is not looked at.
on_remove(id) ==
  /\ asked = 0
  /\ id \in entries
  /\ entries' = entries \ {id}
  /\ retired' = retired \cup {id}
  /\ UNCHANGED <<batch, asked, handed, due>>

\* reset: ids that were not culled may come back, as the seeds do.
batch_reset ==
  /\ asked = 0
  /\ entries' = {}
  /\ batch' = << >>
  /\ due' = [id \in Ids |-> 0]
  /\ UNCHANGED <<asked, handed, retired>>

BatchNext ==
  \/ \E size \in 1..MaxSize : next_batch(size)
  \/ Draw
  \/ \E id \in Ids : on_add(id) \/ on_remove(id)
  \/ batch_reset

BatchSpec == BatchInit /\ [][BatchNext]_batch_vars

-----------------------------------------------------------------------------
(* Properties.                                                              *)

\* An entry is handed out exactly as often as its energy says, whatever is
\* swapped to where: none goes before it is spent, or out of turn.
EnergyIsConserved == \A id \in Ids : EnergyOf(id, batch) = due[id]

\* A call that was begun has enough to draw from, however the leftovers of
\* earlier calls are spread: the window is never empty.
EnoughPrepared == Len(batch) >= asked - handed

\* A culled entry fades out: it may be a parent as often as was prepared when
\* it was culled, and never more.
CulledFadeOut == [][\A id \in retired : due'[id] =< due[id]]_batch_vars

\* The batch does not grow with the calls: leftovers are fewer than one call
\* asks for whenever a refill comes.
BatchIsBounded == Len(batch) < MaxSize + MAX_REFILL

\* Between too little and too much: what is prepared.
PreparedSuffices == EnoughPrepared /\ BatchIsBounded
=============================================================================
