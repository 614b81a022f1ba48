---------------------------- MODULE CorpusHandler ----------------------------
(***************************************************************************)
(* What the engine may rely on when it talks to a corpus through the trait  *)
(* CorpusHandler: a map from the ids of the test cases it keeps to their    *)
(* scores, in which an entry stays until it is removed or all are cleared.  *)
(* Caching, eviction and resizing are invisible at this level.              *)
(***************************************************************************)
EXTENDS Integers

CONSTANTS
  Ids,     \* ids of test cases
  Scores   \* scores a scheduler may assign

VARIABLES
  kept,    \* the ids a get returns an entry for
  rank     \* the score of each kept id, NoScore for the others

NoScore == -1

vars == <<kept, rank>>

TypeOK ==
  /\ kept \subseteq Ids
  /\ rank \in [Ids -> Scores \cup {NoScore}]

Init ==
  /\ kept = {}
  /\ rank = [id \in Ids |-> NoScore]

insert(id, score) ==
  /\ kept' = kept \cup {id}
  /\ rank' = [rank EXCEPT ![id] = score]

update(id, score) ==
  /\ id \in kept
  /\ rank' = [rank EXCEPT ![id] = score]
  /\ UNCHANGED kept

remove(id) ==
  /\ kept' = kept \ {id}
  /\ rank' = [rank EXCEPT ![id] = NoScore]

clear ==
  /\ kept' = {}
  /\ rank' = [id \in Ids |-> NoScore]

Next ==
  \/ \E id \in Ids, score \in Scores : insert(id, score) \/ update(id, score)
  \/ \E id \in Ids : remove(id)
  \/ clear

Spec == Init /\ [][Next]_vars
=============================================================================
