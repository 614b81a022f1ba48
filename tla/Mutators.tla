------------------------------ MODULE Mutators ------------------------------
(***************************************************************************)
(* The rewriting rules of crates/lsf-mutate as pure operators: for a query, *)
(* the set of what a rule may make of it.  Random choices are the elements  *)
(* of the set; a draw from an empty range, which panics, gives the empty    *)
(* set.                                                                     *)
(*                                                                         *)
(* A query is a sequence of statements, a statement has parts (what reads   *)
(* one relation under a condition), and of the expressions of SQL there is  *)
(* one of each sort that some rule tells apart.                             *)
(***************************************************************************)
EXTENDS Naturals, Sequences, FiniteSets, SequencesExt

CONSTANTS
  SHORT,       \* SpliceOut leaves queries of that many statements alone
  MAX_DEPTH,   \* how often RecursiveExpandExpr may nest a node
  FreshExprs,  \* what Arbitrary makes of random bytes
  FreshStatements

(***************************************************************************)
(* Syntax trees.                                                            *)
(***************************************************************************)
NoExpr == [k |-> "none"]
Null == [k |-> "null"]
\* A plain or a compound identifier, as the rule that looks at it needs it.
Ident == [k |-> "ident"]
Number(v) == [k |-> "number", v |-> v]
Binary(op, l, r) == [k |-> "binary", op |-> op, left |-> l, right |-> r]
Cast(e) == [k |-> "cast", of |-> e]
IsNull(e) == [k |-> "isnull", of |-> e]
Subquery(part) == [k |-> "subquery", of |-> part]

Part(t, e) == [table |-> t, where |-> e]
Statement(kind, guarded, parts) == [kind |-> kind, guarded |-> guarded, parts |-> parts]

\* An outcome: what became of a node, and how many nodes were rewritten.
Keep(x) == [of |-> x, hits |-> 0]
Hit(x) == [of |-> x, hits |-> 1]

-----------------------------------------------------------------------------
(* Visitors of sqlparser.                                                   *)

RECURSIVE ExprsOf(_)
ExprsOf(e) ==
  {e} \cup CASE e.k = "binary" -> ExprsOf(e.left) \cup ExprsOf(e.right)
             [] e.k \in {"cast", "isnull"} -> ExprsOf(e.of)
             [] e.k = "subquery" -> ExprsOf(e.of.where)
             [] OTHER -> {}

Parts(ast) == FlattenSeq([i \in 1..Len(ast) |-> ast[i].parts])

\* visit_expressions and visit_relations
Exprs(ast) == UNION {ExprsOf(p.where) : p \in ToSet(Parts(ast))} \ {NoExpr}
Tables(ast) ==
  {p.table : p \in ToSet(Parts(ast))}
    \cup {e.of.table : e \in {x \in Exprs(ast) : x.k = "subquery"}}

\* The expression visit_expressions comes to first, or NoExpr.
FirstExpr(ast) ==
  LET with == SelectSeq(Parts(ast), LAMBDA p : p.where # NoExpr)
  IN IF with = << >> THEN NoExpr ELSE Head(with).where

-----------------------------------------------------------------------------
(* Rules for one expression.  The closure is called on a node after it was  *)
(* called on what is below, so that it never meets what it just made.       *)

NumericBounds(e) ==
  {Keep(e)} \cup IF e.k = "number" THEN {Hit(Number("bound"))} ELSE {}

Flip(op) == CASE op = "eq" -> "noteq" [] op = "noteq" -> "eq" [] OTHER -> op

OperatorFlip(e) ==
  {Keep(e)} \cup IF e.k = "binary" /\ Flip(e.op) # e.op
                 THEN {Hit([e EXCEPT !.op = Flip(e.op)])} ELSE {}

NullInject(e) ==
  {Keep(e)} \cup IF e.k \in {"number", "null", "ident"} THEN {Hit(Null)} ELSE {}

TypeCast(e) ==
  {Keep(e)} \cup IF e.k # "cast" THEN {Hit(Cast(e))} ELSE {}

\* A value on the right becomes a subquery, if that is the first expression of
\* the donor.
SubQuery(e, donors) ==
  {Keep(e)} \cup
    IF e.k = "binary" /\ e.right.k \in {"number", "null"}
    THEN {Hit([e EXCEPT !.right = FirstExpr(donor)]) :
            donor \in {d \in donors : FirstExpr(d).k = "subquery"}}
    ELSE {}

\* An expression of the same sort, from the donor or the child.
ExprShuffle(e, pool) ==
  {Keep(e)} \cup {Hit(x) : x \in {y \in pool : y.k = e.k /\ y # e}}

\* One of the expressions in e, e included.
HoistExpr(e) == {Keep(e)} \cup {Hit(x) : x \in ExprsOf(e) \ {NoExpr}}

\* What prune_depth leaves as it was: a value has a span that is cut, a compound
\* identifier is an array and is not looked into.
RECURSIVE Shallow(_, _)
Shallow(e, depth) ==
  depth > 0 /\ (e.k = "ident" \/ (e.k = "isnull" /\ Shallow(e.of, depth - 1)))

RECURSIVE Nested(_, _)
Nested(root, levels) == IF levels = 0 THEN root ELSE IsNull(Nested(root, levels - 1))

\* Only where an expression is the direct child of another the whole can take
\* its place.  The node counts as rewritten also when no level was added.
RecursiveExpandExpr(e) ==
  {Keep(e)} \cup IF e.k = "isnull" /\ Shallow(e, MAX_DEPTH)
                 THEN {Hit(Nested(e, levels)) : levels \in 0..MAX_DEPTH} ELSE {}

\* swap_random_fields: a field is the one of the donor, its own, or a mixture.
RECURSIVE Mixtures(_, _)
Mixtures(e, d) ==
  {e, d} \cup
    CASE e.k # d.k -> {}
      [] e.k = "binary" ->
           {Binary(op, l, r) : op \in {e.op, d.op}, l \in Mixtures(e.left, d.left),
                               r \in Mixtures(e.right, d.right)}
      [] e.k \in {"cast", "isnull"} -> {[e EXCEPT !.of = x] : x \in Mixtures(e.of, d.of)}
      [] e.k = "subquery" ->
           {Subquery(Part(t, w)) : t \in {e.of.table, d.of.table},
                                   w \in Mixtures(e.of.where, d.of.where)}
      [] OTHER -> {}

MixtureExpr(e, pool) ==
  {Keep(e)} \cup UNION {{Hit(x) : x \in Mixtures(e, d)} : d \in {y \in pool : y.k = e.k}}

\* null_random_fields: of all fields below, only a condition may be missing.
RECURSIVE Nulled(_)
Nulled(e) ==
  CASE e.k = "binary" -> {Binary(e.op, l, r) : l \in Nulled(e.left), r \in Nulled(e.right)}
    [] e.k \in {"cast", "isnull"} -> {[e EXCEPT !.of = x] : x \in Nulled(e.of)}
    [] e.k = "subquery" ->
         {Subquery(Part(e.of.table, w)) : w \in {NoExpr} \cup Nulled(e.of.where)}
    [] OTHER -> {e}

\* The node counts as rewritten also when no field was.
NullRandomExpr(e) == {Keep(e)} \cup {Hit(x) : x \in Nulled(e)}

AtExpr(rule, from, e) ==
  CASE rule = "num_bounds" -> NumericBounds(e)
    [] rule = "op_flip" -> OperatorFlip(e)
    [] rule = "null_inject" -> NullInject(e)
    [] rule = "type_cast" -> TypeCast(e)
    [] rule = "sub_query" -> SubQuery(e, from.donors)
    [] rule = "expr_shuffle" -> ExprShuffle(e, from.pool)
    [] rule = "hoist_expr" -> HoistExpr(e)
    [] rule = "recursive_expand_expr" -> RecursiveExpandExpr(e)
    [] rule = "mix_expr" -> MixtureExpr(e, from.pool)
    [] rule = "null_expr" -> NullRandomExpr(e)
    [] rule = "arbitrary_expr" -> {Keep(e)} \cup {Hit(x) : x \in FreshExprs}
    [] OTHER -> {Keep(e)}

(***************************************************************************)
(* Rules for one relation.                                                  *)
(***************************************************************************)
AtRelation(rule, from, table) ==
  CASE rule = "relation_shuffle" ->
         {Keep(table)} \cup {Hit(t) : t \in from.tables \ {table}}
    [] rule \in {"force_ident", "scramble"} -> {Hit(t) : t \in from.tables}
    [] OTHER -> {Keep(table)}

(***************************************************************************)
(* Rules for one statement.                                                 *)
(***************************************************************************)
TableGuard(stmt) ==
  IF stmt.kind = "create" /\ ~stmt.guarded THEN {Hit([stmt EXCEPT !.guarded = TRUE])}
  ELSE {Keep(stmt)}

\* Arrays: each place draws an element of the donor's to take or to mix with.
MixedParts(own, others) ==
  {own, others} \cup
    IF Len(others) < Len(own) THEN {}
    ELSE LET Mixed(i) == UNION {{Part(t, w) : t \in {own[i].table, other.table},
                                             w \in Mixtures(own[i].where, other.where)} :
                                  other \in ToSet(others)}
         IN {q \in [1..Len(own) -> UNION {Mixed(i) : i \in 1..Len(own)}] :
               \A i \in 1..Len(own) : q[i] \in Mixed(i)}

MixtureStatement(stmt, pool) ==
  {Keep(stmt)} \cup
    UNION {{Hit(Statement(stmt.kind, g, q)) : g \in {stmt.guarded, d.guarded},
                                              q \in MixedParts(stmt.parts, d.parts)} :
             d \in {x \in pool : x.kind = stmt.kind}}

NullRandomStatement(stmt) ==
  LET Less(p) == {Part(p.table, w) : w \in {NoExpr} \cup Nulled(p.where)}
  IN {Keep(stmt)} \cup
       {Hit([stmt EXCEPT !.parts = q]) :
          q \in {q \in [1..Len(stmt.parts) -> UNION {Less(p) : p \in ToSet(stmt.parts)}] :
                    \A i \in 1..Len(stmt.parts) : q[i] \in Less(stmt.parts[i])}}

AtStatement(rule, from, stmt) ==
  CASE rule = "table_guard" -> TableGuard(stmt)
    [] rule = "mix_stmt" -> MixtureStatement(stmt, from.pool)
    [] rule = "null_stmt" -> NullRandomStatement(stmt)
    [] rule = "arbitrary_stmt" -> {Keep(stmt)} \cup {Hit(x) : x \in FreshStatements}
    [] OTHER -> {Keep(stmt)}

-----------------------------------------------------------------------------
(* The visitors that rewrite: visit_expressions_mut, visit_relations_mut,   *)
(* visit_statements_mut.                                                    *)

\* One outcome for each element of a sequence.
Rewrite(outcomes) ==
  FoldLeft(LAMBDA done, next : {[of |-> Append(d.of, n.of), hits |-> d.hits + n.hits] :
                                  d \in done, n \in next},
           {Keep(<< >>)}, outcomes)

RECURSIVE RewriteExpr(_, _, _), RewritePart(_, _, _)

RewritePart(rule, from, p) ==
  {[of |-> Part(t.of, w.of), hits |-> t.hits + w.hits] :
     t \in AtRelation(rule, from, p.table),
     w \in IF p.where = NoExpr THEN {Keep(NoExpr)} ELSE RewriteExpr(rule, from, p.where)}

RewriteBelow(rule, from, e) ==
  CASE e.k = "binary" ->
         {[of |-> Binary(e.op, l.of, r.of), hits |-> l.hits + r.hits] :
            l \in RewriteExpr(rule, from, e.left), r \in RewriteExpr(rule, from, e.right)}
    [] e.k \in {"cast", "isnull"} ->
         {[of |-> [e EXCEPT !.of = x.of], hits |-> x.hits] : x \in RewriteExpr(rule, from, e.of)}
    [] e.k = "subquery" ->
         {[of |-> Subquery(x.of), hits |-> x.hits] : x \in RewritePart(rule, from, e.of)}
    [] OTHER -> {Keep(e)}

RewriteExpr(rule, from, e) ==
  UNION {{[of |-> x.of, hits |-> x.hits + below.hits] : x \in AtExpr(rule, from, below.of)} :
           below \in RewriteBelow(rule, from, e)}

RewriteStatement(rule, from, stmt) ==
  UNION {{[of |-> x.of, hits |-> x.hits + below.hits] :
            x \in AtStatement(rule, from, [stmt EXCEPT !.parts = below.of])} :
           below \in Rewrite([i \in 1..Len(stmt.parts) |-> RewritePart(rule, from, stmt.parts[i])])}

RewriteQuery(rule, from, ast) ==
  Rewrite([i \in 1..Len(ast) |-> RewriteStatement(rule, from, ast[i])])

-----------------------------------------------------------------------------
(* breed_inner of each strategy: the AST, the entries that are added to the *)
(* parents, and what is reported.                                           *)

Result(ast, mutated, parents) ==
  [ast |-> ast, parents |-> IF mutated THEN parents ELSE {},
   state |-> IF mutated THEN "Mutated" ELSE "Unchanged"]

Unchanged(ast) == {Result(ast, FALSE, {})}

Report(outcomes, parents) == {Result(o.of, o.hits > 0, parents) : o \in outcomes}

\* The other entry is drawn from the generation.
Donors(gen) == {gen[i] : i \in 1..Len(gen)}

\* The statements start .. start + n - 1 of the donor are put in after place i.
SpliceIn(ast, gen) ==
  UNION {IF donor.ast = << >> THEN Unchanged(ast)
         ELSE {Result(SubSeq(ast, 1, i) \o SubSeq(donor.ast, first, last)
                        \o SubSeq(ast, i + 1, Len(ast)), TRUE, {donor.id}) :
                 <<i, first, last>> \in {<<i, f, l>> \in
                    (0..Len(ast)) \X (1..Len(donor.ast)) \X (1..Len(donor.ast)) : f =< l}} :
           donor \in Donors(gen)}

SpliceOut(ast) ==
  IF Len(ast) =< SHORT THEN Unchanged(ast)
  ELSE {Result(SubSeq(ast, 1, first - 1) \o SubSeq(ast, last + 1, Len(ast)), TRUE, {}) :
          <<first, last>> \in {<<f, l>> \in (1..Len(ast)) \X (1..Len(ast)) : f =< l}}

Queries(ast) == {i \in 1..Len(ast) : ast[i].kind = "query"}

\* A query of the child and one of the donor are combined and take the place
\* of any statement of the child.
SetOps(ast, gen) ==
  UNION {IF Queries(ast) = {} \/ Queries(donor.ast) = {} THEN Unchanged(ast)
         ELSE {Result([ast EXCEPT ![at] = Statement("query", FALSE,
                         ast[l].parts \o donor.ast[r].parts)], TRUE, {donor.id}) :
                 <<l, r, at>> \in Queries(ast) \X Queries(donor.ast) \X (1..Len(ast))} :
           donor \in Donors(gen)}

\* Mutant: the statements are renamed though the query creates no table.
TableNameScramble_Unguarded(ast) ==
  LET created == {p.table : p \in ToSet(Parts(SelectSeq(ast, LAMBDA s : s.kind = "create")))}
  IN Report(Rewrite([i \in 1..Len(ast) |->
       IF ast[i].kind = "create" THEN {Keep(ast[i])}
       ELSE RewriteStatement("scramble", [tables |-> created], ast[i])]), {})

\* Every relation outside of the CREATEs becomes one of the created tables.
TableNameScramble(ast) ==
  LET created == {p.table : p \in ToSet(Parts(SelectSeq(ast, LAMBDA s : s.kind = "create")))}
  IN IF created = {} THEN Unchanged(ast)
     ELSE Report(Rewrite([i \in 1..Len(ast) |->
            IF ast[i].kind = "create" THEN {Keep(ast[i])}
            ELSE RewriteStatement("scramble", [tables |-> created], ast[i])]), {})

\* Every relation gets the name of one of them.
ForceIdent(ast) ==
  IF Tables(ast) = {} THEN Unchanged(ast)
  ELSE UNION {Report(RewriteQuery("force_ident", [tables |-> {t}], ast), {}) : t \in Tables(ast)}

RelShuffle(ast) == Report(RewriteQuery("relation_shuffle", [tables |-> Tables(ast)], ast), {})

\* One node gets replaced, or the bytes do not make one.
ArbitraryGenerator(rule, ast) ==
  Report({o \in RewriteQuery(rule, {}, ast) : o.hits =< 1}, {})

\* Each node that is rewritten draws its own donor.
SubQueries(ast, gen) ==
  Report(RewriteQuery("sub_query", [donors |-> {d.ast : d \in Donors(gen)}], ast), {})

ExprShuffles(ast, gen) ==
  UNION {Report(RewriteQuery("expr_shuffle", [pool |-> Exprs(donor.ast) \cup Exprs(ast)], ast),
                {donor.id}) : donor \in Donors(gen)}

\* shuffle_across: the donor gives fields to the nodes of its sort.
ShuffleTwo(rule, ast, gen) ==
  UNION {Report(RewriteQuery(rule,
                  [pool |-> IF rule = "mix_expr" THEN Exprs(donor.ast) ELSE ToSet(donor.ast)],
                  ast), {donor.id}) : donor \in Donors(gen)}

\* FieldOperation::ShuffleSelf clones the child and with it the Arc of its AST,
\* which makes get_mut of it fail: nothing is ever changed.
ShuffleSelf(ast) == Unchanged(ast)

Mutate(rule, ast, gen) ==
  CASE rule = "splice_in" -> SpliceIn(ast, gen)
    [] rule = "splice_out" -> SpliceOut(ast)
    [] rule = "set_ops" -> SetOps(ast, gen)
    [] rule = "sub_query" -> SubQueries(ast, gen)
    [] rule = "scramble" -> TableNameScramble(ast)
    [] rule = "force_ident" -> ForceIdent(ast)
    [] rule = "relation_shuffle" -> RelShuffle(ast)
    [] rule = "expr_shuffle" -> ExprShuffles(ast, gen)
    [] rule \in {"mix_stmt", "mix_expr"} -> ShuffleTwo(rule, ast, gen)
    [] rule = "shuffle_self" -> ShuffleSelf(ast)
    [] rule \in {"arbitrary_expr", "arbitrary_stmt"} -> ArbitraryGenerator(rule, ast)
    [] rule = "noop" -> Unchanged(ast)
    [] OTHER -> Report(RewriteQuery(rule, {}, ast), {})
=============================================================================
