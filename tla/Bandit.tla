------------------------------- MODULE Bandit -------------------------------
(***************************************************************************)
(* The statistics of the bandits, mab.rs of crates/lsf-feedback: a MABBody  *)
(* and its MABArms.                                                         *)
(*                                                                         *)
(* A count decays by DECAY_RATE at every tick.  Instead of decaying all     *)
(* counts, what is added grows: current_inflation is multiplied by          *)
(* 1/DECAY_RATE.  When it reaches RESCALE_FACTOR, the body is divided by    *)
(* that factor at once and an arm only when its score is asked for, by the  *)
(* normalization epochs it is behind.                                       *)
(*                                                                         *)
(* A number is the set of the credits it is the sum of, and a credit the    *)
(* power of 1/DECAY_RATE it was added with; how much was added is left out. *)
(***************************************************************************)
EXTENDS Integers, FiniteSets

CONSTANTS
  Arms,
  RESCALE,     \* RESCALE_FACTOR is this power of 1/DECAY_RATE
  MaxEpoch     \* bound: ticks

ASSUME BanditAssumption == RESCALE \in Nat \ {0} /\ MaxEpoch \in Nat

VARIABLES
  epoch,                \* MABBody
  current_inflation,    \* as a power of 1/DECAY_RATE
  normalization_epoch,
  total_attempts,
  created,              \* arms that exist
  attempts,             \* MABArm.attempts
  gains,                \* and its other counters, which are all treated alike
  local_epoch

body == <<epoch, current_inflation, normalization_epoch, total_attempts>>
arms == <<created, attempts, gains, local_epoch>>
vars == <<body, arms>>

\* given and behind are ghosts: the epoch of a credit and how many
\* normalizations the number it was added to had missed.
Credits == [power : Int, given : Nat, behind : Nat]

TypeOK ==
  /\ epoch \in Nat
  /\ current_inflation \in 0..(RESCALE - 1)
  /\ normalization_epoch \in Nat
  /\ total_attempts \in SUBSET Credits
  /\ created \subseteq Arms
  /\ attempts \in [Arms -> SUBSET Credits]
  /\ gains \in [Arms -> SUBSET Credits]
  /\ local_epoch \in [Arms -> Nat]

Init ==
  /\ epoch = 0
  /\ current_inflation = 0
  /\ normalization_epoch = 0
  /\ total_attempts = {}
  /\ created = {}
  /\ attempts = [a \in Arms |-> {}]
  /\ gains = [a \in Arms |-> {}]
  /\ local_epoch = [a \in Arms |-> 0]

-----------------------------------------------------------------------------

\* A number divided by RESCALE_FACTOR to the power n.
Divide(number, n) == {[c EXCEPT !.power = @ - n * RESCALE] : c \in number}

\* What is added to a number that has missed so many normalizations.
Credit(behind) == [power |-> current_inflation, given |-> epoch, behind |-> behind]

Behind(a) == normalization_epoch - local_epoch[a]

\* Mutant: the body is normalized a tick late.
tick_by_Late ==
  /\ epoch < MaxEpoch
  /\ epoch' = epoch + 1
  /\ \/ /\ current_inflation =< RESCALE
        /\ current_inflation' = current_inflation + 1
        /\ UNCHANGED <<normalization_epoch, total_attempts>>
     \/ /\ current_inflation > RESCALE
        /\ current_inflation' = current_inflation + 1 - RESCALE
        /\ total_attempts' = Divide(total_attempts, 1)
        /\ normalization_epoch' = normalization_epoch + 1
  /\ UNCHANGED arms

\* Mutant: the total is not divided with the inflation.
tick_by_KeepsTotal ==
  /\ epoch < MaxEpoch
  /\ epoch' = epoch + 1
  /\ \/ /\ current_inflation + 1 < RESCALE
        /\ current_inflation' = current_inflation + 1
        /\ UNCHANGED normalization_epoch
     \/ /\ current_inflation + 1 >= RESCALE
        /\ current_inflation' = current_inflation + 1 - RESCALE
        /\ normalization_epoch' = normalization_epoch + 1
  /\ UNCHANGED <<total_attempts, arms>>

\* tick_by(1), the end of mutate_batch, with MABBody.normalize.
tick_by ==
  /\ epoch < MaxEpoch
  /\ epoch' = epoch + 1
  /\ \/ /\ current_inflation + 1 < RESCALE
        /\ current_inflation' = current_inflation + 1
        /\ UNCHANGED <<normalization_epoch, total_attempts>>
     \/ /\ current_inflation + 1 >= RESCALE
        /\ current_inflation' = current_inflation + 1 - RESCALE
        /\ total_attempts' = Divide(total_attempts, 1)
        /\ normalization_epoch' = normalization_epoch + 1
  /\ UNCHANGED arms

\* MABBody.reset, from the clear of the engine.  main calls it before the first
\* batch, and the scheduler then drops the arms of its body.
reset ==
  /\ epoch = 0
  /\ current_inflation' = 0
  /\ normalization_epoch' = 0
  /\ total_attempts' = {}
  /\ created' = {}
  /\ attempts' = [a \in Arms |-> {}]
  /\ gains' = [a \in Arms |-> {}]
  /\ UNCHANGED <<epoch, local_epoch>>

\* An arm that was not used before: MABArm::new.
new(a) ==
  /\ a \notin created
  /\ created' = created \cup {a}
  /\ local_epoch' = [local_epoch EXCEPT ![a] = normalization_epoch]
  /\ UNCHANGED <<body, attempts, gains>>

\* new_with_prior: the arm of a new entry starts with what its test brought.
new_with_prior(a) ==
  /\ a \notin created
  /\ created' = created \cup {a}
  /\ local_epoch' = [local_epoch EXCEPT ![a] = normalization_epoch]
  /\ total_attempts' = total_attempts \cup {Credit(0)}
  /\ attempts' = [attempts EXCEPT ![a] = {Credit(0)}]
  /\ gains' = [gains EXCEPT ![a] = {Credit(0)}]
  /\ UNCHANGED <<epoch, current_inflation, normalization_epoch>>

\* on_mutate, of the parent of a child or of a rule.
on_mutate(a) ==
  /\ a \in created
  /\ total_attempts' = total_attempts \cup {Credit(0)}
  /\ attempts' = [attempts EXCEPT ![a] = @ \cup {Credit(Behind(a))}]
  /\ UNCHANGED <<epoch, current_inflation, normalization_epoch, created, gains, local_epoch>>

\* on_exec, when a test ends: any time after its mutation.
on_exec(a) ==
  /\ a \in created
  /\ gains' = [gains EXCEPT ![a] = @ \cup {Credit(Behind(a))}]
  /\ UNCHANGED <<body, created, attempts, local_epoch>>

\* MABArm.normalize.
normalize(a) ==
  /\ attempts' = [attempts EXCEPT ![a] = Divide(@, Behind(a))]
  /\ gains' = [gains EXCEPT ![a] = Divide(@, Behind(a))]
  /\ local_epoch' = [local_epoch EXCEPT ![a] = normalization_epoch]

\* calculate_score: what it reads is normalized first.
calculate_score(a) ==
  /\ a \in created
  /\ normalize(a)
  /\ UNCHANGED <<body, created>>

Next ==
  \/ tick_by
  \/ reset
  \/ \E a \in Arms : new(a) \/ new_with_prior(a) \/ on_mutate(a) \/ on_exec(a) \/ calculate_score(a)

Spec == Init /\ [][Next]_vars

-----------------------------------------------------------------------------
(* Properties.                                                              *)

\* What a credit is worth is its power without the current inflation; n more
\* divisions are due.
Worth(c, n) == c.power - n * RESCALE - current_inflation

\* What a decayed count would have: one power less for each tick since.
Due(c) == c.given - epoch

\* The total of a body, as all arms see it in their exploration term, has each
\* attempt decayed by its age, over any number of normalizations.
TotalDecaysByAge == \A c \in total_attempts : Worth(c, 0) = Due(c)

\* An arm has each credit decayed by its age, however long it was not asked and
\* whichever credits came before and after; but a credit that came while the arm
\* had missed normalizations is divided by those too, and all but lost.
ArmsDecayByAge ==
  \A a \in created : \A c \in attempts[a] \cup gains[a] :
    Worth(c, Behind(a)) = Due(c) - c.behind * RESCALE

\* Both terms of a score weigh evidence by its age.
DecaysByAge == TotalDecaysByAge /\ ArmsDecayByAge
=============================================================================
