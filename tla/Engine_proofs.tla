---------------------------- MODULE Engine_proofs ----------------------------
(***************************************************************************)
(* Proofs about Engine for any tests, edges, costs and limits.              *)
(***************************************************************************)
EXTENDS Engine, FiniteSetTheorems, TLAPS

-----------------------------------------------------------------------------
(* What Append and Tail do to the set of the elements of a queue.           *)

\* What is left of a queue was in it before.
LEMMA TailSubset ==
  ASSUME NEW S, NEW s \in Seq(S), s # << >>
  PROVE  /\ Tail(s) \in Seq(S)
         /\ Head(s) \in S
         /\ Len(Tail(s)) = Len(s) - 1
         /\ Head(s) \in ToSet(s)
         /\ ToSet(Tail(s)) \subseteq ToSet(s)
<1>1. /\ Len(s) \in Nat \ {0}
      /\ \A i \in 1..(Len(s) - 1) : Tail(s)[i] = s[i + 1] /\ i + 1 \in 1..Len(s)
      /\ DOMAIN s = 1..Len(s) /\ DOMAIN Tail(s) = 1..(Len(s) - 1)
      /\ Head(s) = s[1]
  OBVIOUS
<1> QED BY <1>1 DEF ToSet

\* Appending adds the element; there is no duplicate when it is new.
LEMMA AppendSet ==
  ASSUME NEW S, NEW s \in Seq(S), NEW e \in S
  PROVE  /\ Append(s, e) \in Seq(S)
         /\ Append(s, e) # << >>
         /\ Len(Append(s, e)) = Len(s) + 1
         /\ ToSet(Append(s, e)) = ToSet(s) \cup {e}
         /\ IsInjective(s) /\ e \notin ToSet(s) => IsInjective(Append(s, e))
<1>1. /\ Len(s) \in Nat
      /\ Append(s, e) \in Seq(S)
      /\ Len(Append(s, e)) = Len(s) + 1
      /\ DOMAIN s = 1..Len(s) /\ DOMAIN Append(s, e) = 1..(Len(s) + 1)
      /\ \A i \in 1..Len(s) : Append(s, e)[i] = s[i]
      /\ Append(s, e)[Len(s) + 1] = e
  OBVIOUS
<1>2. \A i \in 1..(Len(s) + 1) : i \in 1..Len(s) \/ i = Len(s) + 1
  BY <1>1
<1>3. ToSet(Append(s, e)) = ToSet(s) \cup {e}
  BY <1>1, <1>2 DEF ToSet
<1>4. IsInjective(s) /\ e \notin ToSet(s) => IsInjective(Append(s, e))
  BY <1>1, <1>2 DEF ToSet, IsInjective
<1> QED BY <1>1, <1>3, <1>4

-----------------------------------------------------------------------------
(* The inductive invariant.                                                 *)

\* The best entry of an edge hit it, every edge that was hit since the last
\* clear has a best entry, and it is known to the global map.
BestIsRight ==
  /\ \A e \in Edges : best[e] # None => e \in hits[best[e]] /\ e \in edge_map
  /\ \A id \in Tests, e \in Edges : e \in hits[id] => best[e] # None

\* A test is judged once between two clears, so that its hits never change.
JudgedOnce ==
  /\ \A id \in Tests : id \in running \/ id \in Children \ issued => hits[id] = {}
  /\ running \cap Children \subseteq issued

\* No child and no GC before the last clear.
QuietStart ==
  /\ phase = "start" => running = {} /\ \A id \in Tests : hits[id] = {}
  /\ phase \notin {"loop", "panicked"} =>
       /\ \A id \in Tests : gc_rotation[id] = Unmarked
       /\ size_at_last_reset = 0
       /\ (corpus \cup running) \cap Children = {}

EngineInv ==
  /\ TypeOK
  /\ RecordsAreKept
  /\ SchedulerFollowsCorpus
  /\ RotationFollowsCorpus
  /\ GrowthIsMeasured
  /\ BestIsRight
  /\ JudgedOnce
  /\ QuietStart

LEMMA EngineInit == Init => EngineInv
<1> SUFFICES ASSUME Init PROVE EngineInv
  OBVIOUS
<1>1. TypeOK
  BY LimitAssumption DEF Init, TypeOK, Unmarked
<1>2. RecordsAreKept
  BY DEF Init, RecordsAreKept, BestIds, DiverseIds, ToSet
<1>3. GrowthIsMeasured
  BY FS_EmptySet DEF Init, GrowthIsMeasured
<1> QED BY <1>1, <1>2, <1>3
        DEF Init, EngineInv, SchedulerFollowsCorpus, RotationFollowsCorpus, BestIsRight,
            JudgedOnce, QuietStart

-----------------------------------------------------------------------------
(* The operations.                                                          *)

\* The corpus is finite, and growing it leaves GrowthIsMeasured true.
LEMMA CorpusGrows ==
  ASSUME EngineInv, corpus \subseteq corpus', corpus' \subseteq Tests,
         size_at_last_reset' = size_at_last_reset
  PROVE  GrowthIsMeasured'
<1>1. IsFiniteSet(corpus')
  BY TestsAssumption, FS_Subset
<1>2. Cardinality(corpus) =< Cardinality(corpus') /\ Cardinality(corpus) \in Nat
      /\ Cardinality(corpus') \in Nat
  BY <1>1, FS_Subset, FS_CardinalityType
<1> QED BY <1>2 DEF EngineInv, GrowthIsMeasured, TypeOK

\* The window after a test was tried: what it holds was there or is the test.
LEMMA TryInsertSet ==
  ASSUME EngineInv, NEW id \in Tests, NEW is_diverse \in BOOLEAN, TryInsert(id, is_diverse)
  PROVE  /\ diversity' \in Seq(Tests)
         /\ Len(diversity') =< MAX_DIVERSITY_WINDOW
         /\ DiverseIds' \subseteq DiverseIds \cup (IF is_diverse THEN {id} ELSE {})
<1>1. diversity \in Seq(Tests) /\ Len(diversity) =< MAX_DIVERSITY_WINDOW
      /\ Len(diversity) \in Nat /\ MAX_DIVERSITY_WINDOW \in Nat \ {0}
  BY LimitAssumption DEF EngineInv, TypeOK
<1>2. CASE ~is_diverse
  BY <1>1, <1>2 DEF TryInsert, DiverseIds
<1>3. CASE is_diverse /\ Len(diversity) >= MAX_DIVERSITY_WINDOW
  <2> DEFINE rest == Tail(diversity)
  <2>1. diversity # << >>
    BY <1>1, <1>3
  <2>2. rest \in Seq(Tests) /\ Len(rest) = Len(diversity) - 1
        /\ ToSet(rest) \subseteq ToSet(diversity)
    BY <1>1, <2>1, TailSubset
  <2>3. diversity' = Append(rest, id)
    BY <1>3 DEF TryInsert
  <2> HIDE DEF rest
  <2>4. /\ Append(rest, id) \in Seq(Tests) /\ Len(Append(rest, id)) = Len(rest) + 1
        /\ ToSet(Append(rest, id)) = ToSet(rest) \cup {id}
    BY <2>2, AppendSet
  <2> QED BY <1>1, <1>3, <2>2, <2>3, <2>4 DEF DiverseIds
<1>4. CASE is_diverse /\ Len(diversity) < MAX_DIVERSITY_WINDOW
  <2>1. diversity' = Append(diversity, id)
    BY <1>1, <1>4 DEF TryInsert
  <2>2. /\ Append(diversity, id) \in Seq(Tests)
        /\ Len(Append(diversity, id)) = Len(diversity) + 1
        /\ ToSet(Append(diversity, id)) = ToSet(diversity) \cup {id}
    BY <1>1, AppendSet
  <2> QED BY <1>1, <1>4, <2>1, <2>2 DEF DiverseIds
<1> QED BY <1>1, <1>2, <1>3, <1>4

LEMMA CommitStep ==
  ASSUME EngineInv, NEW id \in Tests, commit_test_result(id)
  PROVE  EngineInv' /\ (edge_map' # edge_map => id \in corpus')
<1>1. PICK edges \in SUBSET Edges, cost \in Scores, is_diverse \in BOOLEAN :
        /\ edge_map' = edge_map \cup edges
        /\ hits' = [hits EXCEPT ![id] = edges]
        /\ TryInsert(id, is_diverse)
        /\ UpdateIfBest(id, edges, cost)
        /\ CommitGeneration(IF Accepted(edges, cost, is_diverse) THEN {id} ELSE {})
  BY DEF commit_test_result
<1>2. /\ id \in running
      /\ running' = running \ {id}
      /\ UNCHANGED <<phase, issued, gc_rotation, size_at_last_reset>>
  BY DEF commit_test_result
<1> DEFINE better == Improved(edges, cost)
<1>3. /\ better \subseteq edges
      /\ \A e \in edges : best[e] = None => e \in better
  BY DEF Improved
<1>4. /\ best' = [e \in Edges |-> IF e \in better THEN id ELSE best[e]]
      /\ best_score' = [e \in Edges |-> IF e \in better THEN cost ELSE best_score[e]]
  BY <1>1 DEF UpdateIfBest
<1>5. /\ corpus' = corpus \cup (IF is_diverse \/ better # {} THEN {id} ELSE {})
      /\ scheduled' = scheduled \cup (IF is_diverse \/ better # {} THEN {id} ELSE {})
  BY <1>1 DEF CommitGeneration, Accepted
<1> HIDE DEF better
<1>6. /\ diversity' \in Seq(Tests)
      /\ Len(diversity') =< MAX_DIVERSITY_WINDOW
      /\ DiverseIds' \subseteq DiverseIds \cup (IF is_diverse THEN {id} ELSE {})
  BY <1>1, TryInsertSet
<1>7. hits[id] = {} /\ id # None
  BY <1>2, TestsAssumption DEF EngineInv, JudgedOnce
<1>8. TypeOK'
  BY <1>1, <1>2, <1>4, <1>5, <1>6 DEF EngineInv, TypeOK
<1>9. RecordsAreKept'
  <2>1. BestIds' \subseteq BestIds \cup (IF better # {} THEN {id} ELSE {})
    BY <1>4 DEF BestIds
  <2> QED BY <1>5, <1>6, <2>1 DEF EngineInv, RecordsAreKept
<1>10. BestIsRight'
  <2>1. ASSUME NEW e \in Edges, best'[e] # None
        PROVE  e \in hits'[best'[e]] /\ e \in edge_map'
    <3>1. CASE e \in better
      BY <1>1, <1>3, <1>4, <3>1 DEF EngineInv, TypeOK
    <3>2. CASE e \notin better
      <4>1. best'[e] = best[e] /\ best[e] # None /\ best[e] \in Tests
        BY <1>4, <2>1, <3>2 DEF EngineInv, TypeOK
      <4>2. e \in hits[best[e]] /\ e \in edge_map /\ best[e] # id
        BY <4>1, <1>7 DEF EngineInv, BestIsRight
      <4> QED BY <4>1, <4>2, <1>1 DEF EngineInv, TypeOK
    <3> QED BY <3>1, <3>2
  <2>2. ASSUME NEW j \in Tests, NEW e \in Edges, e \in hits'[j]
        PROVE  best'[e] # None
    <3>1. CASE j = id
      BY <1>1, <1>3, <1>4, <1>7, <2>2, <3>1 DEF EngineInv, TypeOK
    <3>2. CASE j # id
      BY <1>1, <1>4, <1>7, <2>2, <3>2 DEF EngineInv, TypeOK, BestIsRight
    <3> QED BY <3>1, <3>2
  <2> QED BY <2>1, <2>2 DEF BestIsRight
<1>11. JudgedOnce'
  <2>1. id \notin Children \ issued
    BY <1>2 DEF EngineInv, JudgedOnce
  <2> QED BY <1>1, <1>2, <2>1 DEF EngineInv, TypeOK, JudgedOnce
<1>12. GrowthIsMeasured'
  BY <1>2, <1>5, CorpusGrows DEF EngineInv, TypeOK
<1>13. edge_map' # edge_map => id \in corpus'
  <2> SUFFICES ASSUME edge_map' # edge_map PROVE better # {}
    BY <1>5
  <2>1. PICK e \in edges : e \notin edge_map
    BY <1>1
  <2> QED BY <2>1, <1>3 DEF EngineInv, BestIsRight
<1>14. QuietStart'
  BY <1>2, <1>5 DEF EngineInv, QuietStart
<1> QED BY <1>2, <1>5, <1>8, <1>9, <1>10, <1>11, <1>12, <1>13, <1>14
        DEF EngineInv, SchedulerFollowsCorpus, RotationFollowsCorpus

LEMMA DiscardStep ==
  ASSUME EngineInv, NEW id \in Tests, Discard(id)
  PROVE  EngineInv'
BY DEF Discard, stores, minimizer, EngineInv, TypeOK, RecordsAreKept, BestIds, DiverseIds,
       SchedulerFollowsCorpus, RotationFollowsCorpus, GrowthIsMeasured, BestIsRight,
       JudgedOnce, QuietStart

LEMMA MutateStep ==
  ASSUME EngineInv, mutate_batch
  PROVE  EngineInv'
<1>1. /\ phase = "loop" /\ phase' \in {"loop", "panicked"}
      /\ UNCHANGED <<corpus, scheduled, edge_map, best, best_score, diversity, gc_rotation,
                     size_at_last_reset, hits>>
      /\ \/ UNCHANGED <<running, issued>>
         \/ \E batch \in SUBSET (Children \ issued) :
              issued' = issued \cup batch /\ running' = running \cup batch
  BY DEF mutate_batch, stores, minimizer
<1>2. TypeOK'
  BY <1>1 DEF EngineInv, TypeOK, Tests
<1>3. JudgedOnce'
  BY <1>1 DEF EngineInv, JudgedOnce, Tests
<1> QED BY <1>1, <1>2, <1>3
        DEF EngineInv, RecordsAreKept, BestIds, DiverseIds, SchedulerFollowsCorpus,
            RotationFollowsCorpus, GrowthIsMeasured, BestIsRight, QuietStart

LEMMA ChoreStep ==
  ASSUME EngineInv, chore
  PROVE  EngineInv'
<1>1. /\ phase' = "loop"
      /\ UNCHANGED <<running, issued, edge_map, hits>>
      /\ GarbageCollect \/ UNCHANGED <<corpus, scheduled, minimizer, size_at_last_reset>>
  BY DEF chore, stores
<1>2. CASE UNCHANGED <<corpus, scheduled, minimizer, size_at_last_reset>>
  BY <1>1, <1>2
     DEF minimizer, EngineInv, TypeOK, RecordsAreKept, BestIds, DiverseIds,
         SchedulerFollowsCorpus, RotationFollowsCorpus, GrowthIsMeasured, BestIsRight,
         JudgedOnce, QuietStart
<1>3. CASE GarbageCollect
  <2>1. PICK protected \in SUBSET corpus : Minimize(protected)
    BY <1>3 DEF GarbageCollect
  <2> DEFINE bad == corpus \ Spared(protected)
             culled == {id \in bad : gc_rotation[id] + 1 >= CULL_AFTER}
  <2>2. /\ gc_rotation' = [id \in Tests |-> IF id \in culled THEN Unmarked
                                            ELSE IF id \in bad THEN gc_rotation[id] + 1
                                            ELSE gc_rotation[id]]
        /\ corpus' = corpus \ culled
        /\ scheduled' = scheduled \ culled
        /\ UNCHANGED <<best, best_score, diversity>>
    BY <2>1 DEF Minimize
  <2>3. /\ culled \subseteq bad /\ bad \subseteq corpus
        /\ bad \cap (BestIds \cup DiverseIds) = {}
        /\ \A id \in bad \ culled : ~(gc_rotation[id] + 1 >= CULL_AFTER)
    BY DEF Spared
  <2> HIDE DEF bad, culled
  <2>4. size_at_last_reset' = Cardinality(corpus')
    BY <1>3 DEF GarbageCollect
  <2>5. IsFiniteSet(corpus') /\ Cardinality(corpus') \in Nat
    <3>1. IsFiniteSet(corpus')
      BY <2>2, TestsAssumption, FS_Subset DEF EngineInv, TypeOK
    <3> QED BY <3>1, FS_CardinalityType
  <2>6. gc_rotation' \in [Tests -> Unmarked..(CULL_AFTER - 1)]
    <3>1. CULL_AFTER \in Nat \ {0} /\ gc_rotation \in [Tests -> Unmarked..(CULL_AFTER - 1)]
      BY LimitAssumption DEF EngineInv, TypeOK
    <3>2. ASSUME NEW id \in Tests
          PROVE  gc_rotation'[id] \in Unmarked..(CULL_AFTER - 1)
      <4>1. CASE id \in culled
        BY <2>2, <3>1, <4>1 DEF Unmarked
      <4>2. CASE id \in bad \ culled
        BY <2>2, <2>3, <3>1, <4>2 DEF Unmarked
      <4>3. CASE id \notin bad
        BY <2>2, <2>3, <3>1, <4>3
      <4> QED BY <4>1, <4>2, <4>3
    <3> QED BY <2>2, <3>2
  <2>7. TypeOK'
    BY <1>1, <2>2, <2>4, <2>5, <2>6 DEF EngineInv, TypeOK
  <2>8. RecordsAreKept'
    BY <2>2, <2>3 DEF EngineInv, RecordsAreKept, BestIds, DiverseIds
  <2>9. RotationFollowsCorpus'
    BY <2>2, <2>3 DEF EngineInv, RotationFollowsCorpus
  <2>10. GrowthIsMeasured'
    BY <2>4, <2>5 DEF GrowthIsMeasured
  <2> QED BY <1>1, <2>2, <2>7, <2>8, <2>9, <2>10
          DEF EngineInv, SchedulerFollowsCorpus, BestIsRight, JudgedOnce, QuietStart
<1> QED BY <1>1, <1>2, <1>3

LEMMA PopulateStep ==
  ASSUME EngineInv, populate
  PROVE  EngineInv'
<1>1. PICK ids \in {{Literal}, Seeds} :
        /\ phase \notin {"loop", "panicked"} /\ phase' \in {"literal", "populated"}
        /\ scheduled' = scheduled \cup ids
        /\ corpus' = corpus \cup ids
        /\ \/ running' = running
           \/ running' = {Literal} /\ \A id \in Tests : hits[id] = {}
        /\ UNCHANGED <<issued, edge_map, best, best_score, diversity, gc_rotation,
                       size_at_last_reset, hits>>
  BY DEF populate, CommitGeneration, minimizer, EngineInv, QuietStart
<1>2. /\ ids \subseteq Tests /\ ids \cap Children = {}
      /\ Literal \in Tests /\ Literal \notin Children
  BY TestsAssumption DEF Tests
<1>3. TypeOK'
  BY <1>1, <1>2 DEF EngineInv, TypeOK
<1>4. GrowthIsMeasured'
  BY <1>1, <1>2, <1>3, CorpusGrows DEF TypeOK
<1>5. JudgedOnce' /\ QuietStart'
  BY <1>1, <1>2 DEF EngineInv, JudgedOnce, QuietStart
<1> QED BY <1>1, <1>3, <1>4, <1>5
        DEF EngineInv, RecordsAreKept, BestIds, DiverseIds, SchedulerFollowsCorpus,
            RotationFollowsCorpus, BestIsRight

LEMMA ClearStep ==
  ASSUME EngineInv, clear
  PROVE  EngineInv'
<1>1. /\ phase \notin {"loop", "panicked"} /\ phase' \in {"cleared", "seeds"}
      /\ running' = running \/ running' = corpus
      /\ corpus' = {} /\ scheduled' = {}
      /\ best' = [e \in Edges |-> None]
      /\ best_score' = [e \in Edges |-> 0]
      /\ diversity' = << >>
      /\ hits' = [id \in Tests |-> {}]
      /\ UNCHANGED <<issued, edge_map, gc_rotation, size_at_last_reset>>
  BY DEF clear
<1>2. TypeOK'
  BY <1>1, LimitAssumption DEF EngineInv, TypeOK
<1>3. RecordsAreKept'
  BY <1>1 DEF RecordsAreKept, BestIds, DiverseIds, ToSet
<1>4. JudgedOnce' /\ QuietStart' /\ BestIsRight' /\ RotationFollowsCorpus'
  BY <1>1 DEF EngineInv, JudgedOnce, QuietStart, BestIsRight, RotationFollowsCorpus
<1>5. GrowthIsMeasured'
  BY <1>1, FS_EmptySet DEF EngineInv, QuietStart, GrowthIsMeasured
<1> QED BY <1>1, <1>2, <1>3, <1>4, <1>5 DEF EngineInv, SchedulerFollowsCorpus

-----------------------------------------------------------------------------
(* The invariant and the theorems.                                          *)

\* What NewCoverageIsKept says of a step.
KeepsNewCoverage == \A id \in running \ running' : edge_map' # edge_map => id \in corpus'

LEMMA EngineStep ==
  ASSUME EngineInv, [Next]_vars
  PROVE  EngineInv' /\ KeepsNewCoverage
<1>1. ASSUME NEW id \in Tests, commit_test_result(id)
      PROVE  EngineInv' /\ KeepsNewCoverage
  <2>1. running \ running' \subseteq {id}
    BY <1>1 DEF commit_test_result
  <2> QED BY <1>1, <2>1, CommitStep DEF KeepsNewCoverage
<1>2. CASE \E id \in Tests : Discard(id)
  BY <1>2, DiscardStep DEF Discard, KeepsNewCoverage
<1>3. CASE mutate_batch
  BY <1>3, MutateStep DEF mutate_batch, KeepsNewCoverage
<1>4. CASE chore
  BY <1>4, ChoreStep DEF chore, KeepsNewCoverage
<1>5. CASE populate
  BY <1>5, PopulateStep DEF populate, KeepsNewCoverage
<1>6. CASE clear
  BY <1>6, ClearStep DEF clear, KeepsNewCoverage
<1>7. CASE UNCHANGED vars
  BY <1>7 DEF vars, progress, stores, minimizer, EngineInv, TypeOK, RecordsAreKept, BestIds,
         DiverseIds, SchedulerFollowsCorpus, RotationFollowsCorpus, GrowthIsMeasured,
         BestIsRight, JudgedOnce, QuietStart, KeepsNewCoverage
<1> QED BY <1>1, <1>2, <1>3, <1>4, <1>5, <1>6, <1>7 DEF Next

LEMMA EngineInvariant == Spec => []EngineInv
<1>1. EngineInv /\ [Next]_vars => EngineInv'
  BY EngineStep
<1> QED BY <1>1, EngineInit, PTL DEF Spec

\* Every variable keeps its type; the window stays within its bound and no
\* rotation counter reaches CULL_AFTER.
THEOREM TypeCorrect == Spec => []TypeOK
<1>1. EngineInv => TypeOK
  BY DEF EngineInv
<1> QED BY <1>1, EngineInvariant, PTL

\* The best entry of an edge and the entries of the diversity window are in the
\* corpus: no order of commits, collections and clears leaves them dangling.
THEOREM NoRecordDangles == Spec => []RecordsAreKept
<1>1. EngineInv => RecordsAreKept
  BY DEF EngineInv
<1> QED BY <1>1, EngineInvariant, PTL

\* However often the corpus is collected, its entries hit every edge that was
\* hit since the last clear.
THEOREM CollectionKeepsCoverage == Spec => []CorpusSpansCoverage
<1>1. EngineInv => CorpusSpansCoverage
  <2> SUFFICES ASSUME EngineInv, NEW id \in Tests, NEW e \in Edges, e \in hits[id]
               PROVE  \E other \in corpus : e \in hits[other]
    BY DEF CorpusSpansCoverage
  <2>1. best[e] # None /\ e \in hits[best[e]]
    BY DEF EngineInv, BestIsRight
  <2>2. best[e] \in corpus
    BY <2>1 DEF EngineInv, RecordsAreKept, BestIds
  <2> QED BY <2>1, <2>2
<1> QED BY <1>1, EngineInvariant, PTL

\* The scheduler knows exactly the ids in the corpus.
THEOREM SchedulerAgrees == Spec => []SchedulerFollowsCorpus
<1>1. EngineInv => SchedulerFollowsCorpus
  BY DEF EngineInv
<1> QED BY <1>1, EngineInvariant, PTL

\* No rotation counter outlives its entry, not even in a clear.
THEOREM RotationsEndWithTheirEntry == Spec => []RotationFollowsCorpus
<1>1. EngineInv => RotationFollowsCorpus
  BY DEF EngineInv
<1> QED BY <1>1, EngineInvariant, PTL

\* The corpus is never smaller than it was after the last collection.
THEOREM GrowthNeverNegative == Spec => []GrowthIsMeasured
<1>1. EngineInv => GrowthIsMeasured
  BY DEF EngineInv
<1> QED BY <1>1, EngineInvariant, PTL

\* So all that is kept beside the corpus follows it.
THEOREM TheRestFollows == Spec => []OthersFollowCorpus
BY SchedulerAgrees, RotationsEndWithTheirEntry, GrowthNeverNegative, PTL DEF OthersFollowCorpus

\* A test that finds an edge nobody found before is never rejected.
THEOREM NewCoverageIsAccepted == Spec => NewCoverageIsKept
<1>1. EngineInv /\ [Next]_vars => [KeepsNewCoverage]_vars
  BY EngineStep
<1> QED BY <1>1, EngineInvariant, PTL DEF Spec, NewCoverageIsKept, KeepsNewCoverage

-----------------------------------------------------------------------------
(* When mutate_batch panics.  Nothing is near in an empty window, so the    *)
(* first test that is judged enters it, and a collection spares the window. *)

\* Once main fuzzes, an engine with entries has some in its window.
WindowIsFed == phase \in {"seeds", "loop", "panicked"} /\ corpus # {} => diversity # << >>

\* A step that judges a test leaves an entry, only clear removes the last one,
\* and mutate_batch panics for want of entries only.
Feeds ==
  /\ (\E id \in Tests : commit_test_result(id)) => corpus' # {}
  /\ corpus # {} /\ ~clear => corpus' # {}
  /\ phase # "panicked" /\ phase' = "panicked" => corpus = {}

\* A test that is judged enters an empty window, and none empties it.
LEMMA CommitFeeds ==
  ASSUME EngineInv, NEW id \in Tests, commit_test_result(id)
  PROVE  diversity' # << >>
<1>1. PICK is_diverse \in BOOLEAN : TryInsert(id, is_diverse)
  BY DEF commit_test_result
<1>2. diversity \in Seq(Tests) /\ MAX_DIVERSITY_WINDOW \in Nat \ {0}
  BY LimitAssumption DEF EngineInv, TypeOK
<1>3. CASE ~is_diverse
  BY <1>1, <1>3 DEF TryInsert
<1>4. CASE is_diverse /\ Len(diversity) >= MAX_DIVERSITY_WINDOW
  <2>1. diversity # << >>
    BY <1>2, <1>4
  <2>2. Tail(diversity) \in Seq(Tests)
    BY <1>2, <2>1, TailSubset
  <2>3. diversity' = Append(Tail(diversity), id)
    BY <1>1, <1>4 DEF TryInsert
  <2> QED BY <2>2, <2>3, AppendSet
<1>5. CASE is_diverse /\ ~(Len(diversity) >= MAX_DIVERSITY_WINDOW)
  <2>1. diversity' = Append(diversity, id)
    BY <1>1, <1>5 DEF TryInsert
  <2> QED BY <1>2, <2>1, AppendSet
<1> QED BY <1>3, <1>4, <1>5

\* Every step of the engine feeds it, or leaves it fed.
LEMMA FeedingStep ==
  ASSUME EngineInv, WindowIsFed, [Next]_vars
  PROVE  WindowIsFed' /\ Feeds
<1>1. diversity' # << >> => corpus' # {}
  <2>1. diversity' \in Seq(Tests) /\ ToSet(diversity') \subseteq corpus'
    BY EngineStep DEF EngineInv, TypeOK, RecordsAreKept, DiverseIds
  <2>2. diversity' # << >> => Head(diversity') \in ToSet(diversity')
    BY <2>1, TailSubset
  <2> QED BY <2>1, <2>2
<1> DEFINE Judges == \E id \in Tests : commit_test_result(id)
<1>2. CASE Judges
  <2>1. diversity' # << >> /\ phase' = phase
    BY <1>2, CommitFeeds DEF commit_test_result
  <2> QED BY <1>1, <2>1 DEF WindowIsFed, Feeds
<1>3. CASE chore /\ ~Judges
  <2>1. /\ phase \in {"seeds", "loop"} /\ phase' = "loop"
        /\ diversity' = diversity
        /\ corpus' \subseteq corpus
    BY <1>3 DEF chore, GarbageCollect, Minimize, stores, minimizer
  <2> HIDE DEF Judges
  <2> QED BY <1>1, <1>3, <2>1 DEF WindowIsFed, Feeds, Judges
<1>4. CASE clear /\ ~Judges
  <2>1. corpus' = {} /\ phase' # "panicked"
    BY <1>4 DEF clear
  <2> HIDE DEF Judges
  <2> QED BY <1>4, <2>1 DEF WindowIsFed, Feeds, Judges
<1>5. CASE populate /\ ~Judges
  BY <1>5 DEF populate, CommitGeneration, WindowIsFed, Feeds
<1>6. CASE mutate_batch /\ ~Judges
  BY <1>6 DEF mutate_batch, stores, minimizer, WindowIsFed, Feeds, EngineInv,
              SchedulerFollowsCorpus
<1>7. CASE ((\E id \in Tests : Discard(id)) \/ UNCHANGED vars) /\ ~Judges
  BY <1>7 DEF Discard, vars, progress, stores, minimizer, WindowIsFed, Feeds
<1> QED BY <1>2, <1>3, <1>4, <1>5, <1>6, <1>7 DEF Next

\* One test that is judged after the clear is enough: from then on the corpus is
\* never empty, whatever is rejected and collected, and mutate_batch, which
\* panics in an empty engine, does not.
THEOREM OneEntryFeedsTheEngine == Spec => [][Feeds]_vars
<1>1. Init => WindowIsFed
  BY DEF Init, WindowIsFed
<1>2. EngineInv /\ WindowIsFed /\ [Next]_vars => WindowIsFed' /\ [Feeds]_vars
  BY FeedingStep
<1> QED BY <1>1, <1>2, EngineInvariant, PTL DEF Spec
=============================================================================
