------------------------------ MODULE Rulesets ------------------------------
(***************************************************************************)
(* The strategies main.py gives the engine: the builders of lsf-ffi and the *)
(* rule sets of rules.py, as trees.                                         *)
(***************************************************************************)
EXTENDS Naturals, Sequences

CONSTANTS
  CHOOSE_GROUPS,  \* how many groups of rules a child goes through, 2 in rules.py
  REPEATS         \* how often it may at most, <<1, 5, 15>> in rules.py

\* A leaf of the tree is one rule of Mutators.
Rule(name) == [kind |-> "rule", rule |-> name, kids |-> << >>]
ucb1(kids, choose) == [kind |-> "ucb1", kids |-> kids, choose |-> choose]
repeat(over, up_to) == [kind |-> "repeat", kids |-> <<over>>, up_to |-> up_to]
randomize(over) == [kind |-> "randomly", kids |-> <<over>>]
scheduled(over) == [kind |-> "adaptive", kids |-> <<over>>]
random_sampler(min, max, kids) == [kind |-> "sampler", kids |-> kids, min |-> min, max |-> max]

-----------------------------------------------------------------------------
(* rules.py                                                                 *)

make_ruleset_generate == ucb1(<<Rule("arbitrary_expr"), Rule("arbitrary_stmt")>>, 1)

make_ruleset_reduce ==
  ucb1(<<Rule("hoist_expr"), Rule("splice_out"), Rule("null_stmt"), Rule("null_expr")>>, 1)

make_ruleset_increase == ucb1(<<Rule("recursive_expand_expr"), Rule("splice_in")>>, 1)

make_ruleset_specific == ucb1(<<Rule("type_cast"), Rule("sub_query"), Rule("set_ops")>>, 1)

make_ruleset_semantic == ucb1(<<Rule("num_bounds"), Rule("op_flip")>>, 1)

make_ruleset_shuffle ==
  ucb1(<<Rule("mix_stmt"), Rule("mix_expr"), Rule("expr_shuffle"), Rule("relation_shuffle")>>, 1)

make_shortrunning_ruleset ==
  ucb1(<<make_ruleset_increase, make_ruleset_specific, make_ruleset_semantic,
         make_ruleset_shuffle>>, CHOOSE_GROUPS)

make_generic_ruleset ==
  ucb1(<<make_ruleset_reduce, make_ruleset_generate, make_ruleset_increase,
         make_ruleset_semantic, make_ruleset_shuffle, Rule("noop")>>, CHOOSE_GROUPS)

make_aggressive_ruleset ==
  ucb1([i \in 1..Len(REPEATS) |-> repeat(make_generic_ruleset, REPEATS[i])], 1)

-----------------------------------------------------------------------------
(* main.py                                                                  *)

\* What the engine starts with.
Populating == <<Rule("table_guard")>>

Loop(ruleset) ==
  <<ruleset, randomize(Rule("table_guard")), randomize(Rule("force_ident"))>>

LongRun == Loop(make_aggressive_ruleset)
ShortRun == Loop(make_shortrunning_ruleset)
=============================================================================
