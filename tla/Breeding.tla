------------------------------ MODULE Breeding ------------------------------
(***************************************************************************)
(* Engine::mutate_batch of crates/lsf-engine/src/engine.rs and the          *)
(* strategies of crates/lsf-mutate that call others: a child of each parent *)
(* of a batch goes through every strategy of the engine, and stays if one   *)
(* of them says that it mutated it.                                         *)
(*                                                                         *)
(* A strategy is named by the path that leads to it in the forest of the    *)
(* engine.  What a rule may make of an AST is given by Outcomes; the scores   *)
(* by which MABScheduler orders its rules are left out, any may be on top.  *)
(* No rule fails: the child's AST is never shared while it is bred.         *)
(***************************************************************************)
EXTENDS Naturals, Sequences, SequencesExt, FiniteSets, Bags

CONSTANTS
  Outcomes(_, _, _),  \* rule, AST, generation: what the rule may return
  Nodes,            \* the strategies that are built
  Forests,          \* Engine.strategies is one of them
  Batches           \* what the scheduler may draw: entries with id and AST

ASSUME BreedingAssumption ==
  /\ \A node \in Nodes :
       /\ node.kids \in Seq(Nodes)
       /\ node.kind \in {"adaptive", "randomly", "repeat"} => Len(node.kids) = 1
       /\ node.kind = "ucb1" => node.choose \in Nat
       /\ node.kind = "repeat" => node.up_to \in Nat
       /\ node.kind = "sampler" => node.min \in Nat /\ node.max \in Nat
       /\ node.kind # "engine"
  /\ Forests \subseteq Seq(Nodes)
  /\ \A batch \in Batches : batch \in Seq(ToSet(batch)) /\ batch # << >>

VARIABLES
  strategies,  \* of the engine
  next_batch,
  at,          \* the parent whose child is bred
  child,       \* its AST, parents and applied_rule_stats
  stack,       \* the calls of breed that have not returned
  popped,      \* rules that are not in the queue of their MABScheduler
  applied,     \* ghost: the paths of the rules that said Mutated of this child
  generation   \* the places of the parents whose children were kept

vars == <<strategies, next_batch, at, child, stack, popped, applied, generation>>

\* The strategy at a path; at the empty one, the loop of mutate_batch.
StrategyIn(forest, path) ==
  LET node[n \in 0..Len(path)] ==
        IF n = 0 THEN [kind |-> "engine", kids |-> forest] ELSE node[n - 1].kids[path[n]]
  IN node[Len(path)]

Strategy(path) == StrategyIn(strategies, path)

\* MABScheduler has an arm for each of its rules, AdaptiveStrategyScheduler one
\* for what it wraps.
HasArm(path) ==
  \/ Strategy(path).kind = "adaptive"
  \/ path # << >> /\ Strategy(Front(path)).kind = "ucb1"

\* A call: what it drew, what of that it has still to breed, what it will say.
Frame(path, drawn) == [path |-> path, drawn |-> drawn, todo |-> drawn, state |-> "Unchanged"]

\* An entry of its own with the AST of its parent.
Child(parent) == [ast |-> parent.ast, parents |-> {parent.id}, hooks |-> EmptyBag]

Top == Last(stack)
Callee == Append(Top.path, Head(Top.todo))
Kids(path, todo) == {Append(path, k) : k \in ToSet(todo)}

\* The rules that are out of their queue are those a scheduler breeds right now.
RulesComeBack ==
  popped = UNION {Kids(stack[i].path, stack[i].drawn) :
                    i \in {j \in 1..Len(stack) : Strategy(stack[j].path).kind = "ucb1"}}

TypeOK ==
  /\ strategies \in Forests /\ next_batch \in Batches
  /\ at \in 1..(Len(next_batch) + 1)
  /\ child.parents \subseteq {p.id : p \in ToSet(next_batch)}
  /\ \A path \in BagToSet(child.hooks) : HasArm(path)
  /\ \A i \in 1..Len(stack) :
       /\ stack[i].state \in {"Mutated", "Unchanged"}
       /\ ToSet(stack[i].drawn) \subseteq DOMAIN Strategy(stack[i].path).kids
       /\ \E n \in 0..Len(stack[i].drawn) :
            stack[i].todo = SubSeq(stack[i].drawn, n + 1, Len(stack[i].drawn))
  /\ RulesComeBack
  /\ generation \subseteq 1..(at - 1)

StartOf(batch, forest) ==
  /\ next_batch = batch
  /\ strategies = forest
  /\ at = 1
  /\ child = Child(batch[1])
  /\ stack = <<Frame(<< >>, [i \in DOMAIN forest |-> i])>>
  /\ popped = {} /\ applied = {} /\ generation = {}

Init == \E batch \in Batches, forest \in Forests : StartOf(batch, forest)

-----------------------------------------------------------------------------
(* A strategy is called.                                                    *)

Calls(kind) ==
  /\ at =< Len(next_batch)
  /\ Top.todo # << >>
  /\ Strategy(Callee).kind = kind

\* It draws which of its own it will breed, and in which order.
Enter(drawn) ==
  /\ stack' = Append([stack EXCEPT ![Len(stack)].todo = Tail(@)], Frame(Callee, drawn))
  /\ UNCHANGED <<strategies, next_batch, at, child, applied, generation>>

\* What pops out of the queue of a MABScheduler, which is locked until its
\* breed returns.
Drawn(path) ==
  LET queue == {k \in DOMAIN Strategy(path).kids : Append(path, k) \notin popped}
      n == Min({Strategy(path).choose, Cardinality(queue)})
  IN {s \in [1..n -> queue] : IsInjective(s)}

MABScheduler ==
  /\ Calls("ucb1")
  /\ \E drawn \in Drawn(Callee) :
       Enter(drawn) /\ popped' = popped \cup Kids(Callee, drawn)

\* With a probability that follows the score of its arm, or one that is given.
AdaptiveStrategyScheduler ==
  /\ Calls("adaptive")
  /\ \E drawn \in {<< >>, <<1>>} : Enter(drawn)
  /\ UNCHANGED popped

Randomly ==
  /\ Calls("randomly")
  /\ \E drawn \in {<< >>, <<1>>} : Enter(drawn)
  /\ UNCHANGED popped

Repeat ==
  /\ Calls("repeat")
  /\ \E n \in 1..Strategy(Callee).up_to : Enter([i \in 1..n |-> 1])
  /\ UNCHANGED popped

RandomMutationSampler ==
  /\ Calls("sampler")
  /\ \E n \in Strategy(Callee).min..Strategy(Callee).max :
       \E drawn \in [1..n -> DOMAIN Strategy(Callee).kids] : Enter(drawn)
  /\ UNCHANGED popped

-----------------------------------------------------------------------------
(* A strategy returns.                                                      *)

\* Mutant: no hook is attached, and no arm learns anything.
Attach_Not(hooks, path, state) == hooks

\* The hooks that are attached for the strategy at path: by the MABScheduler it
\* belongs to, or by itself.
Attach(hooks, path, state) ==
  IF state = "Mutated" /\ HasArm(path) THEN hooks (+) SetToBag({path}) ELSE hooks

\* Mutant: a later call that did nothing hides that an earlier one mutated.
Receive_Last(frame, state) == [frame EXCEPT !.state = state]

\* What the caller will say.
Receive(frame, state) == [frame EXCEPT !.state = IF state = "Mutated" THEN state ELSE @]

\* breed of a rule calls fire_parent_hooks with what it says.
Rule ==
  /\ Calls("rule")
  /\ \E r \in Outcomes(Strategy(Callee).rule, child.ast, next_batch) :
       /\ child' = [ast |-> r.ast, parents |-> child.parents \cup r.parents,
                    hooks |-> Attach(child.hooks, Callee, r.state)]
       /\ stack' = [stack EXCEPT ![Len(stack)] =
                      Receive([Top EXCEPT !.todo = Tail(@)], r.state)]
       /\ applied' = IF r.state = "Mutated" THEN applied \cup {Callee} ELSE applied
  /\ UNCHANGED <<strategies, next_batch, at, popped, generation>>

\* Mutant: the rules go back only when one of them mutated.
Extend_IfMutated(frame) ==
  IF frame.state = "Mutated" THEN popped \ Kids(frame.path, frame.drawn) ELSE popped

\* The rules that were popped go back into their queue.
Extend(frame) == popped \ Kids(frame.path, frame.drawn)

Return ==
  /\ at =< Len(next_batch)
  /\ Len(stack) > 1
  /\ Top.todo = << >>
  /\ stack' = [i \in 1..(Len(stack) - 1) |->
                 IF i = Len(stack) - 1 THEN Receive(stack[i], Top.state) ELSE stack[i]]
  /\ child' = [child EXCEPT !.hooks = Attach(@, Top.path, Top.state)]
  /\ popped' = IF Strategy(Top.path).kind = "ucb1" THEN Extend(Top) ELSE popped
  /\ UNCHANGED <<strategies, next_batch, at, applied, generation>>

-----------------------------------------------------------------------------
(* mutate_batch                                                             *)

\* The child of which some strategy said Mutated stays in the generation.
Finish ==
  /\ at =< Len(next_batch)
  /\ Len(stack) = 1 /\ Top.todo = << >>
  /\ generation' = IF Top.state = "Mutated" THEN generation \cup {at} ELSE generation
  /\ at' = at + 1
  /\ child' = Child(next_batch[IF at < Len(next_batch) THEN at + 1 ELSE at])
  /\ stack' = <<Frame(<< >>, [i \in DOMAIN strategies |-> i])>>
  /\ applied' = {}
  /\ UNCHANGED <<strategies, next_batch, popped>>

\* The next call of mutate_batch.
mutate_batch ==
  /\ at > Len(next_batch)
  /\ \E batch \in Batches : next_batch' = batch /\ child' = Child(batch[1])
  /\ at' = 1
  /\ generation' = {}
  /\ UNCHANGED <<strategies, stack, popped, applied>>

Next ==
  \/ MABScheduler \/ AdaptiveStrategyScheduler \/ Randomly \/ Repeat \/ RandomMutationSampler
  \/ Rule \/ Return \/ Finish \/ mutate_batch

Spec == Init /\ [][Next]_vars

-----------------------------------------------------------------------------
(* Properties.                                                              *)

Done == at =< Len(next_batch) /\ Len(stack) = 1 /\ Top.todo = << >>

\* A child is as its parent was unless a strategy that has not returned yet says
\* Mutated.
NoSilentChange ==
  (\A i \in 1..Len(stack) : stack[i].state = "Unchanged") =>
     child = Child(next_batch[IF at > Len(next_batch) THEN Len(next_batch) ELSE at])

\* The strategies on the way to a rule that said Mutated, with the rule.
OnTheWay == UNION {{SubSeq(path, 1, n) : n \in 1..Len(path)} : path \in applied}

\* What mutate_batch drops is a copy, and of what it keeps some rule said that it
\* mutated it: this is said all the way up, whatever is bred after it.  Each arm
\* on the way to such a rule gets to see the outcome of the test, and no other arm
\* does.
MutationsReachTheEngine ==
  /\ NoSilentChange
  /\ Done =>
       /\ applied # {} <=> Top.state = "Mutated"
       /\ BagToSet(child.hooks) = {path \in OnTheWay : HasArm(path)}

\* What the engine relies on when it calls a rule, whatever was bred before it: a
\* rule finds something to draw from, or it would panic with the queues above it
\* locked, and what it calls unchanged is the child it was given.
RulesKeepTheirWord ==
  Calls("rule") =>
    LET outcomes == Outcomes(Strategy(Callee).rule, child.ast, next_batch)
    IN /\ outcomes # {}
       /\ \A r \in outcomes :
            /\ r.state \in {"Mutated", "Unchanged"}
            /\ r.parents \subseteq {p.id : p \in ToSet(next_batch)}
            /\ r.state = "Unchanged" => r.ast = child.ast /\ r.parents = {}
=============================================================================
