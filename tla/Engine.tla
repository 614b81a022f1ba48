------------------------------- MODULE Engine -------------------------------
(***************************************************************************)
(* The engine of crates/lsf-engine: engine.rs with the minimizer            *)
(* GreedyCoverage (minimizer.rs) and the coverage maps of lsf-cov, in the   *)
(* order in which python/tester/main.py and event_loop.py call it.          *)
(*                                                                         *)
(* Four stores hold ids of test cases: the corpus, the scheduler, the best  *)
(* entry of each edge and the diversity window.  The corpus is the map      *)
(* CorpusHandler promises, of which only the ids matter here.  Every call   *)
(* runs under the engine's mutex, so it is one step.                        *)
(***************************************************************************)
EXTENDS Integers, Sequences, FiniteSets, SequencesExt

CONSTANTS
  Literal,               \* the first query main runs
  Seeds,                 \* the seeds
  Children,              \* bound: the tests mutation may create
  Edges,                 \* edges of the instrumented binary
  Scores,                \* what an entry costs, for the best of an edge: a u32
  None,                  \* no best entry
  MAX_DIVERSITY_WINDOW,
  CULL_AFTER,
  GC_AT,                 \* percentage of growth that calls for a GC
  GC_MIN_ABSOLUTE        \* and the number of new entries it takes

Tests == {Literal} \cup Seeds \cup Children

ASSUME TestsAssumption ==
  /\ IsFiniteSet(Tests)
  /\ None \notin Tests
  /\ Literal \notin Seeds \cup Children
  /\ Seeds \cap Children = {}

ASSUME LimitAssumption ==
  /\ MAX_DIVERSITY_WINDOW \in Nat \ {0}
  /\ CULL_AFTER \in Nat \ {0}
  /\ GC_AT \in Nat
  /\ GC_MIN_ABSOLUTE \in Nat \ {0}
  /\ Scores \subseteq Nat

VARIABLES
  phase,               \* how far main is
  running,             \* tests that were handed out and are not judged yet
  issued,              \* children created so far: ids are never reused
  corpus,              \* ids in the corpus
  scheduled,           \* ids in the scheduler
  edge_map,            \* edges ever recorded
  best,                \* ScoredEdges: the best entry of each edge
  best_score,          \* and what it costs
  diversity,           \* DiversityEscape.entries
  gc_rotation,         \* GC passes that found an entry bad, less one
  size_at_last_reset,
  hits                 \* ghost: the edges each test hit when it was committed

progress == <<phase, running, issued>>
stores == <<corpus, scheduled>>
minimizer == <<best, best_score, diversity, gc_rotation>>
vars == <<progress, stores, edge_map, minimizer, size_at_last_reset, hits>>

Unmarked == -1     \* no entry in gc_rotation

BestIds == {best[e] : e \in Edges} \ {None}
DiverseIds == ToSet(diversity)

TypeOK ==
  /\ phase \in {"start", "literal", "cleared", "populated", "seeds", "loop", "panicked"}
  /\ running \subseteq Tests
  /\ issued \subseteq Children
  /\ corpus \subseteq Tests
  /\ scheduled \subseteq Tests
  /\ edge_map \subseteq Edges
  /\ best \in [Edges -> Tests \cup {None}]
  /\ best_score \in [Edges -> Scores \cup {0}]
  /\ diversity \in Seq(Tests)
  /\ Len(diversity) =< MAX_DIVERSITY_WINDOW
  /\ gc_rotation \in [Tests -> Unmarked..(CULL_AFTER - 1)]
  /\ size_at_last_reset \in Nat
  /\ hits \in [Tests -> SUBSET Edges]

Init ==
  /\ phase = "start"
  /\ running = {}
  /\ issued = {}
  /\ corpus = {}
  /\ scheduled = {}
  /\ edge_map = {}
  /\ best = [e \in Edges |-> None]
  /\ best_score = [e \in Edges |-> 0]
  /\ diversity = << >>
  /\ gc_rotation = [id \in Tests |-> Unmarked]
  /\ size_at_last_reset = 0
  /\ hits = [id \in Tests |-> {}]

-----------------------------------------------------------------------------
(* Judging a test: GreedyCoverage.on_add.                                   *)

\* Mutant: the window grows for ever.
TryInsert_NoPop(id, is_diverse) ==
  diversity' = IF is_diverse THEN Append(diversity, id) ELSE diversity

\* DiversityEscape.try_insert.  Whether the hash of id is near one in the
\* window is up to the queries; nothing is near in an empty window.
TryInsert(id, is_diverse) ==
  /\ diversity = << >> => is_diverse
  /\ diversity' = IF ~is_diverse
                  THEN diversity
                  ELSE IF Len(diversity) >= MAX_DIVERSITY_WINDOW
                  THEN Append(Tail(diversity), id)
                  ELSE Append(diversity, id)

\* The edges of which id, at this cost, becomes the best entry.
Improved(edges, cost) == {e \in edges : best[e] = None \/ cost < best_score[e]}

\* ScoredEdges.update_if_best.
UpdateIfBest(id, edges, cost) ==
  /\ best' = [e \in Edges |-> IF e \in Improved(edges, cost) THEN id ELSE best[e]]
  /\ best_score' = [e \in Edges |-> IF e \in Improved(edges, cost) THEN cost ELSE best_score[e]]

\* Mutant: only diversity gets a test accepted.
Accepted_OnlyDiverse(edges, cost, is_diverse) == is_diverse

\* The outcome of on_add is Accepted(..): a test that is neither diverse nor
\* the best of an edge is Rejected(Bad).
Accepted(edges, cost, is_diverse) == is_diverse \/ Improved(edges, cost) # {}

-----------------------------------------------------------------------------
(* Operations of the engine.                                                *)

\* commit_generation of one entry: the scheduler and then the corpus get it.
CommitGeneration(ids) ==
  /\ scheduled' = scheduled \cup ids
  /\ corpus' = corpus \cup ids

commit_test_result(id) ==
  /\ id \in running /\ phase # "panicked"
  /\ running' = running \ {id}
  /\ \E edges \in SUBSET Edges, cost \in Scores, is_diverse \in BOOLEAN :
       /\ edge_map' = edge_map \cup edges
       /\ hits' = [hits EXCEPT ![id] = edges]
       /\ TryInsert(id, is_diverse)
       /\ UpdateIfBest(id, edges, cost)
       /\ CommitGeneration(IF Accepted(edges, cost, is_diverse) THEN {id} ELSE {})
  /\ UNCHANGED <<phase, issued, gc_rotation, size_at_last_reset>>

\* A test that crashes, hangs or fails is not committed.
Discard(id) ==
  /\ id \in running /\ phase # "panicked"
  /\ running' = running \ {id}
  /\ UNCHANGED <<phase, issued, stores, edge_map, minimizer, size_at_last_reset, hits>>

\* mutate_batch: the scheduler picks parents from what it knows.  With nothing
\* to pick from, random_range of the empty range 0..0 panics.
mutate_batch ==
  /\ phase = "loop"
  /\ \/ /\ scheduled # {}
        /\ \E batch \in SUBSET (Children \ issued) :
             /\ issued' = issued \cup batch
             /\ running' = running \cup batch
        /\ UNCHANGED phase
     \/ /\ scheduled = {}
        /\ phase' = "panicked"
        /\ UNCHANGED <<running, issued>>
  /\ UNCHANGED <<stores, edge_map, minimizer, size_at_last_reset, hits>>

\* Mutant: the best entries are not spared.
Spared_NotBest(protected) == protected \cup DiverseIds

\* Mutant: the diversity window is not spared.
Spared_NotDiverse(protected) == protected \cup BestIds

\* The ids minimize takes out of those of the corpus.
Spared(protected) == protected \cup BestIds \cup DiverseIds

\* Mutant: the scheduler is not told.
Minimize_NoOnRemove(protected) ==
  LET bad == corpus \ Spared(protected)
      culled == {id \in bad : gc_rotation[id] + 1 >= CULL_AFTER}
  IN /\ gc_rotation' = [id \in Tests |-> IF id \in culled THEN Unmarked
                                         ELSE IF id \in bad THEN gc_rotation[id] + 1
                                         ELSE gc_rotation[id]]
     /\ corpus' = corpus \ culled
     /\ UNCHANGED <<scheduled, best, best_score, diversity>>

\* minimize: an entry that is bad for the first time gets the counter 0 (the
\* or_default comes after and_modify), so it goes at the pass CULL_AFTER + 1.
\* A counter is never reset when the entry is good again.
Minimize(protected) ==
  LET bad == corpus \ Spared(protected)
      culled == {id \in bad : gc_rotation[id] + 1 >= CULL_AFTER}
  IN /\ gc_rotation' = [id \in Tests |-> IF id \in culled THEN Unmarked
                                         ELSE IF id \in bad THEN gc_rotation[id] + 1
                                         ELSE gc_rotation[id]]
     /\ corpus' = corpus \ culled
     /\ scheduled' = scheduled \ culled
     /\ UNCHANGED <<best, best_score, diversity>>

\* Which entries the corpus protects is up to the CorpusHandler: none for
\* InMemory, those in flight and the best ones for DynamicCorpus.
GarbageCollect ==
  /\ \E protected \in SUBSET corpus : Minimize(protected)
  /\ size_at_last_reset' = Cardinality(corpus')

\* chore calls for a GC: with no entry at the last one growth_rate is infinite,
\* or NaN when there is none now, and NaN >= GC_AT is false.
GrownEnough ==
  LET new_entries == Cardinality(corpus) - size_at_last_reset
  IN /\ new_entries >= GC_MIN_ABSOLUTE
     /\ new_entries * 100 >= GC_AT * size_at_last_reset

\* chore, once after the seeds and then now and then: of resize and of the
\* chore of the scheduler nothing shows here.
chore ==
  /\ phase = "loop" \/ (phase = "seeds" /\ running = {})
  /\ phase' = "loop"
  /\ \/ GrownEnough /\ GarbageCollect
     \/ ~GrownEnough /\ UNCHANGED <<stores, minimizer, size_at_last_reset>>
  /\ UNCHANGED <<running, issued, edge_map, hits>>

\* populate, and the snapshot main takes of it: the literal is run at once, the
\* seeds after the next clear.
populate ==
  /\ \/ /\ phase = "start"
        /\ phase' = "literal"
        /\ CommitGeneration({Literal})
        /\ running' = {Literal}
     \/ /\ phase = "cleared"
        /\ phase' = "populated"
        /\ CommitGeneration(Seeds)
        /\ UNCHANGED running
  /\ UNCHANGED <<issued, edge_map, minimizer, size_at_last_reset, hits>>

\* clear: gc_rotation, edge_map and size_at_last_reset stay.
clear ==
  /\ \/ phase = "literal" /\ running = {} /\ phase' = "cleared" /\ UNCHANGED running
     \/ phase = "populated" /\ phase' = "seeds" /\ running' = corpus
  /\ corpus' = {}
  /\ scheduled' = {}
  /\ best' = [e \in Edges |-> None]
  /\ best_score' = [e \in Edges |-> 0]
  /\ diversity' = << >>
  /\ hits' = [id \in Tests |-> {}]
  /\ UNCHANGED <<issued, edge_map, gc_rotation, size_at_last_reset>>

Next ==
  \/ populate
  \/ clear
  \/ \E id \in Tests : commit_test_result(id) \/ Discard(id)
  \/ mutate_batch
  \/ chore

Spec == Init /\ [][Next]_vars

-----------------------------------------------------------------------------
(* Properties.                                                              *)

\* What the minimizer refers to is in the corpus: a test it records as the best
\* of an edge or as diverse is accepted in the same call, and the GC spares it.
RecordsAreKept == BestIds \cup DiverseIds \subseteq corpus

\* The corpus spans the coverage since the last clear: each edge that a judged
\* test hit, rejected or culled ones included, is hit by an entry that is left
\* (bitmap.rs:49, "a good set of entries spanning all edges").
CorpusSpansCoverage ==
  \A id \in Tests, e \in Edges : e \in hits[id] => \E other \in corpus : e \in hits[other]

\* Scheduler and corpus know the same ids: a child always has a parent, and no
\* entry is left out of the fuzzing.
SchedulerFollowsCorpus == scheduled = corpus

\* The rotation counters are those of entries of the corpus: culling an entry
\* ends its count, and nothing is counted before the last clear.
RotationFollowsCorpus == \A id \in Tests : gc_rotation[id] # Unmarked => id \in corpus

\* The growth of the corpus is measured from a size it really has: it never
\* falls below the size at the last GC, where saturating_sub would hide it.
GrowthIsMeasured == size_at_last_reset =< Cardinality(corpus)

\* All that is kept beside the corpus follows it through commits, collections and
\* both clears.
OthersFollowCorpus == SchedulerFollowsCorpus /\ RotationFollowsCorpus /\ GrowthIsMeasured

\* A test that records an edge nobody recorded before becomes an entry, also
\* when edges are known from before a clear.
NewCoverageIsKept ==
  [][\A id \in running \ running' : edge_map' # edge_map => id \in corpus']_vars

\* The test engine_functionality (engine.rs:393) has mutate_batch return an
\* empty generation when the engine is empty.
EmptyEngineIsHarmless == phase # "panicked"
=============================================================================
