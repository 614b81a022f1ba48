----------------------------- MODULE MCBreeding -----------------------------
(* Breeding for TLC, with the rules of Mutators and the forests of Rulesets. *)
EXTENDS Breeding, TLC

CONSTANTS SHORT, MAX_DEPTH, CHOOSE_GROUPS, REPEATS, MaxSize, MaxRules

Fresh == INSTANCE Mutators WITH FreshExprs <- {}, FreshStatements <- {}
M == INSTANCE Mutators WITH
       FreshExprs <- {Fresh!Null},
       FreshStatements <- {Fresh!Statement("query", FALSE, << >>)}
R == INSTANCE Rulesets

MCOutcomes(rule, ast, gen) == M!Mutate(rule, ast, gen)

MCRepeats == <<1, 2>>

MCForests ==
  {R!Populating, R!LongRun, R!ShortRun,
   <<R!random_sampler(0, 1, <<R!Rule("null_inject"), R!Rule("scramble"),
                              R!scheduled(R!Rule("shuffle_self"))>>),
     R!scheduled(R!Rule("null_inject"))>>}

(* CREATE TABLE t; SELECT .. FROM t WHERE (a IS NULL) = 1                       *)
Plain == <<M!Statement("create", FALSE, <<M!Part("t", M!NoExpr)>>),
           M!Statement("query", FALSE, <<M!Part("t", M!Binary("eq", M!IsNull(M!Ident), M!Number("one")))>>)>>
(* SELECT .. FROM u WHERE (SELECT .. FROM u)                                  *)
Nested == <<M!Statement("query", FALSE, <<M!Part("u", M!Subquery(M!Part("u", M!NoExpr)))>>)>>

RECURSIVE Below(_)
Below(node) == {node} \cup UNION {Below(kid) : kid \in {node.kids[i] : i \in 1..Len(node.kids)}}

MCNodes == UNION {UNION {Below(forest[i]) : i \in 1..Len(forest)} : forest \in MCForests}

Entry(id, ast) == [id |-> id, ast |-> ast]
MCBatches == {<<Entry(1, Plain), Entry(2, Nested)>>, <<Entry(3, << >>), Entry(1, Plain)>>}

(* A child that is longer, or mutated in more places of the forest, is bred no further. *)
SmallChild == Len(child.ast) =< MaxSize /\ Cardinality(applied) =< MaxRules
=============================================================================
