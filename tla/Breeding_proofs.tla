-------------------------- MODULE Breeding_proofs --------------------------
(***************************************************************************)
(* Proofs about Breeding for any forest of strategies, any batches and any  *)
(* rules that keep their word: what mutate_batch keeps and drops is right,  *)
(* and no rule is missing from its queue.                                   *)
(***************************************************************************)
EXTENDS Breeding, Integers, FiniteSetTheorems, SequenceTheorems, WellFoundedInduction, TLAPS

-----------------------------------------------------------------------------
(* Induction, as in Scheduling_proofs.                                      *)

\* A set of natural numbers has a least element: the intervals up to its
\* elements are finite, so one of them contains no other.
LEMMA LeastNat ==
  ASSUME NEW T, T \subseteq Nat, T # {}
  PROVE  \E n \in T : \A m \in T : n =< m
<1> DEFINE Upto == {0..n : n \in T}
           R == StrictSubsetOrdering(Nat)
<1>1. \A n \in T : 0..n \in FiniteSubsetsOf(Nat)
  BY FS_Interval DEF FiniteSubsetsOf
<1>2. Upto # {} /\ Upto \subseteq FiniteSubsetsOf(Nat)
  BY <1>1
<1>3. IsWellFoundedOn(R, FiniteSubsetsOf(Nat))
  BY FS_StrictSubsetOrderingWellFounded
<1> HIDE DEF Upto, R
<1>4. PICK x \in Upto : \A y \in Upto : ~(<<y, x>> \in R)
  BY <1>2, <1>3, WFMin
<1>5. PICK n \in T : x = 0..n
  BY DEF Upto
<1>6. ASSUME NEW m \in T, m < n
      PROVE  FALSE
  <2>1. 0..m \in Upto /\ 0..m \subseteq Nat /\ 0..n \subseteq Nat
    BY DEF Upto
  <2>2. 0..m \subseteq 0..n /\ n \in 0..n /\ n \notin 0..m
    BY <1>6
  <2>3. <<0..m, x>> \in R
    BY <2>1, <2>2, <1>5 DEF R, StrictSubsetOrdering
  <2> QED BY <2>1, <2>3, <1>4
<1> QED BY <1>6

\* Induction, for a set instead of an operator.
LEMMA Induction ==
  ASSUME NEW T, 0 \in T, \A n \in Nat : n \in T => n + 1 \in T
  PROVE  \A n \in Nat : n \in T
<1>1. SUFFICES ASSUME Nat \ T # {} PROVE FALSE
  OBVIOUS
<1>2. PICK n \in Nat \ T : \A m \in Nat \ T : n =< m
  <2> DEFINE U == Nat \ T
  <2>1. U \subseteq Nat /\ U # {}
    BY <1>1
  <2> HIDE DEF U
  <2>2. \E n \in U : \A m \in U : n =< m
    BY <2>1, LeastNat
  <2> QED BY <2>2 DEF U
<1>3. n # 0 /\ n - 1 \in Nat
  BY <1>2
<1>4. n - 1 \in T
  BY <1>2, <1>3
<1> QED BY <1>3, <1>4, <1>2

-----------------------------------------------------------------------------
(* The strategies at a path and at the one that goes on from it.            *)

\* The strategies on the way to one.
IsWay(f, forest, path) ==
  f = [n \in 0..Len(path) |->
         IF n = 0 THEN [kind |-> "engine", kids |-> forest] ELSE f[n - 1].kids[path[n]]]

LEMMA WayStep ==
  ASSUME NEW f, NEW forest, NEW path \in Seq(Nat), IsWay(f, forest, path)
  PROVE  /\ f[0] = [kind |-> "engine", kids |-> forest]
         /\ \A n \in 1..Len(path) : f[n] = f[n - 1].kids[path[n]]
<1>1. Len(path) \in Nat
  OBVIOUS
<1>2. \A n \in 1..Len(path) : n \in 0..Len(path) /\ n # 0
  BY <1>1
<1> QED BY <1>1, <1>2 DEF IsWay

LEMMA WayExists ==
  ASSUME NEW forest, NEW path \in Seq(Nat)
  PROVE  \E f : IsWay(f, forest, path)
<1> DEFINE root == [kind |-> "engine", kids |-> forest]
           Way(f, k) == f = [n \in 0..k |-> IF n = 0 THEN root ELSE f[n - 1].kids[path[n]]]
           T == {k \in Nat : \E f : Way(f, k)}
<1>1. 0 \in T
  <2> DEFINE f == [n \in 0..0 |-> root]
  <2>1. Way(f, 0)
    OBVIOUS
  <2> QED BY <2>1
<1>2. ASSUME NEW k \in Nat, k \in T
      PROVE  k + 1 \in T
  <2>1. PICK f : Way(f, k)
    BY <1>2
  <2> HIDE DEF root
  <2> DEFINE g == [n \in 0..(k + 1) |-> IF n = k + 1 THEN f[k].kids[path[k + 1]] ELSE f[n]]
  <2>2. \A n \in 0..k : g[n] = f[n] /\ f[n] = IF n = 0 THEN root ELSE f[n - 1].kids[path[n]]
    <3>1. \A n \in 0..k : f[n] = IF n = 0 THEN root ELSE f[n - 1].kids[path[n]]
      BY <2>1
    <3>2. \A n \in 0..k : n \in 0..(k + 1) /\ n # k + 1
      OBVIOUS
    <3>3. \A n \in 0..k : g[n] = f[n]
      BY <3>2
    <3> QED BY <3>1, <3>3
  <2>3. g[k + 1] = f[k].kids[path[k + 1]] /\ g = [n \in 0..(k + 1) |-> g[n]]
    OBVIOUS
  <2> HIDE DEF g
  <2>4. ASSUME NEW n \in 0..(k + 1)
        PROVE  g[n] = IF n = 0 THEN root ELSE g[n - 1].kids[path[n]]
    <3>1. CASE n = k + 1
      BY <3>1, <2>2, <2>3, n # 0, n - 1 = k, k \in 0..k
    <3>2. CASE n # k + 1
      <4>1. n \in 0..k /\ (n # 0 => n - 1 \in 0..k)
        BY <3>2
      <4> QED BY <4>1, <2>2
    <3> QED BY <3>1, <3>2
  <2>5. Way(g, k + 1)
    BY <2>3, <2>4
  <2> QED BY <2>5
<1> HIDE DEF T
<1>3. Len(path) \in T
  BY <1>1, <1>2, Induction
<1> QED BY <1>3 DEF T, IsWay

\* The first path is where the second begins.
Begins(s, t) == Len(s) =< Len(t) /\ \A n \in 1..Len(s) : s[n] = t[n]

\* There is one such function only.
LEMMA WayUnique ==
  ASSUME NEW forest, NEW s \in Seq(Nat), NEW t \in Seq(Nat), NEW f, NEW g,
         IsWay(f, forest, s), IsWay(g, forest, t), Begins(s, t)
  PROVE  \A n \in 0..Len(s) : f[n] = g[n]
<1> DEFINE T == {n \in Nat : n =< Len(s) => f[n] = g[n]}
<1>1. /\ f[0] = [kind |-> "engine", kids |-> forest]
      /\ \A n \in 1..Len(s) : f[n] = f[n - 1].kids[s[n]]
  BY WayStep
<1>2. /\ g[0] = [kind |-> "engine", kids |-> forest]
      /\ \A n \in 1..Len(t) : g[n] = g[n - 1].kids[t[n]]
  BY WayStep
<1>3. 0 \in T
  BY <1>1, <1>2
<1>4. ASSUME NEW n \in Nat, n \in T
      PROVE  n + 1 \in T
  <2>1. ASSUME n + 1 =< Len(s)
        PROVE  f[n + 1] = g[n + 1]
    <3>1. /\ n + 1 \in 1..Len(t) /\ (n + 1) - 1 = n
          /\ n + 1 \in 1..Len(s) /\ n =< Len(s)
      BY <2>1 DEF Begins
    <3>2. f[n + 1] = f[n].kids[s[n + 1]] /\ g[n + 1] = g[n].kids[t[n + 1]]
      BY <1>1, <1>2, <3>1
    <3>3. f[n] = g[n] /\ s[n + 1] = t[n + 1]
      BY <1>4, <3>1 DEF Begins
    <3> QED BY <3>2, <3>3
  <2>2. n + 1 \in Nat
    OBVIOUS
  <2> QED BY <2>1, <2>2
<1> HIDE DEF T
<1>5. \A n \in Nat : n \in T
  BY <1>3, <1>4, Induction
<1> QED BY <1>5 DEF T

LEMMA StrategyOf ==
  ASSUME NEW forest, NEW path \in Seq(Nat)
  PROVE  \E f : IsWay(f, forest, path) /\ StrategyIn(forest, path) = f[Len(path)]
<1> DEFINE F == CHOOSE f : IsWay(f, forest, path)
<1>1. IsWay(F, forest, path)
  BY WayExists
<1>2. StrategyIn(forest, path) = F[Len(path)]
  BY DEF StrategyIn, IsWay
<1> QED BY <1>1, <1>2

\* At the empty path is the loop of mutate_batch.
LEMMA StrategyRoot ==
  ASSUME NEW forest
  PROVE  StrategyIn(forest, << >>) = [kind |-> "engine", kids |-> forest]
<1>1. << >> \in Seq(Nat) /\ Len(<< >>) = 0
  OBVIOUS
<1>2. PICK f : IsWay(f, forest, << >>) /\ StrategyIn(forest, << >>) = f[0]
  BY <1>1, StrategyOf
<1> QED BY <1>1, <1>2 DEF IsWay

\* A path that goes on leads to one of the strategies below.
LEMMA StrategyStep ==
  ASSUME NEW forest, NEW path \in Seq(Nat), NEW k \in Nat
  PROVE  StrategyIn(forest, Append(path, k)) = StrategyIn(forest, path).kids[k]
<1>1. PICK longer \in Seq(Nat) : longer = Append(path, k)
  <2>1. Append(path, k) \in Seq(Nat)
    OBVIOUS
  <2> QED BY <2>1
<1>2. /\ Len(longer) = Len(path) + 1 /\ Len(path) \in Nat
      /\ longer[Len(path) + 1] = k
      /\ \A n \in 1..Len(path) : path[n] = longer[n]
  BY <1>1
<1>3. PICK f : IsWay(f, forest, path) /\ StrategyIn(forest, path) = f[Len(path)]
  BY StrategyOf
<1>4. PICK g : IsWay(g, forest, longer) /\ StrategyIn(forest, longer) = g[Len(longer)]
  BY StrategyOf
<1>5. f[Len(path)] = g[Len(path)]
  <2>1. Begins(path, longer)
    BY <1>2 DEF Begins
  <2>2. \A n \in 0..Len(path) : f[n] = g[n]
    BY <1>3, <1>4, <2>1, WayUnique
  <2> QED BY <1>2, <2>2, Len(path) \in 0..Len(path)
<1>6. g[Len(path) + 1] = g[Len(path)].kids[k]
  BY <1>2, <1>4, Len(path) + 1 \in 0..Len(longer), Len(path) + 1 # 0, (Len(path) + 1) - 1 = Len(path)
     DEF IsWay
<1> QED BY <1>1, <1>2, <1>3, <1>4, <1>5, <1>6

-----------------------------------------------------------------------------
(* The inductive invariant.                                                 *)

States == {"Mutated", "Unchanged"}

Frames == [path : Seq(Nat), drawn : Seq(Nat), todo : Seq(Nat), state : States]

\* A call has drawn of what is below its strategy, and goes through it in order.
FrameOK(forest, frame) ==
  /\ frame \in Frames
  /\ StrategyIn(forest, frame.path).kids \in Seq(Nodes)
  /\ ToSet(frame.drawn) \subseteq DOMAIN StrategyIn(forest, frame.path).kids
  /\ \E n \in 0..Len(frame.drawn) :
       frame.todo = SubSeq(frame.drawn, n + 1, Len(frame.drawn))

\* The calls on the stack are those on the way to the topmost.
StackOK(forest, calls) ==
  /\ calls \in Seq(Frames) /\ calls # << >>
  /\ \A i \in 1..Len(calls) :
       /\ FrameOK(forest, calls[i])
       /\ Len(calls[i].path) = i - 1
       /\ \A n \in 1..(i - 1) : SubSeq(calls[i].path, 1, n) = calls[n + 1].path

\* The call at depth n, or one below it, will say Mutated.
WillSayMutated(calls, n) == \E i \in n..Len(calls) : calls[i].state = "Mutated"

\* An arm on the way to a rule that mutated has its hook, or is on the stack and
\* will get it.
HooksOnTheWay ==
  \A path \in applied :
    /\ path \in Seq(Nat)
    /\ \A n \in 1..Len(path) : HasArm(SubSeq(path, 1, n)) =>
         \/ SubSeq(path, 1, n) \in BagToSet(child.hooks)
         \/ WillSayMutated(stack, n + 1) /\ stack[n + 1].path = SubSeq(path, 1, n)

\* No arm has one without such a rule.
HooksFromRules ==
  \A hook \in BagToSet(child.hooks) :
    \E path \in applied : \E n \in 1..Len(path) : hook = SubSeq(path, 1, n)

\* A call that says Mutated has it from such a rule below it.
SaidByARule ==
  \A i \in 1..Len(stack) : stack[i].state = "Mutated" =>
    \E path \in applied : i =< Len(path) /\ SubSeq(path, 1, i - 1) = stack[i].path

\* Nothing is remembered of the batch that is done.
Forgotten == at =< Len(next_batch) \/ applied = {}

ChildOK == child = [ast |-> child.ast, parents |-> child.parents, hooks |-> child.hooks]

BreedInv ==
  /\ TypeOK /\ StackOK(strategies, stack) /\ ChildOK
  /\ HooksOnTheWay /\ HooksFromRules /\ SaidByARule /\ Forgotten
  /\ applied # {} <=> WillSayMutated(stack, 1)
  /\ NoSilentChange

-----------------------------------------------------------------------------
(* One call.                                                                *)

LEMMA SuffixTail ==
  ASSUME NEW d \in Seq(Nat), NEW n \in 0..Len(d), NEW t, t = SubSeq(d, n + 1, Len(d)), t # << >>
  PROVE  /\ n + 1 \in 0..Len(d)
         /\ Tail(t) = SubSeq(d, (n + 1) + 1, Len(d))
         /\ Head(t) \in Nat /\ Head(t) \in ToSet(d)
<1>1. n # Len(d)
  <2>1. SubSeq(d, Len(d) + 1, Len(d)) = << >>
    OBVIOUS
  <2> QED BY <2>1
<1>2. n + 1 \in 0..Len(d) /\ n + 1 \in 1..Len(d) /\ DOMAIN d = 1..Len(d)
  BY <1>1
<1>3. Tail(t) = SubSeq(d, (n + 1) + 1, Len(d)) /\ Head(t) = d[n + 1]
  BY <1>2
<1>4. d[n + 1] \in Nat
  BY <1>2
<1>5. d[n + 1] \in ToSet(d)
  BY <1>2, n + 1 \in DOMAIN d DEF ToSet
<1> QED BY <1>2, <1>3, <1>4, <1>5

\* What is left to breed goes on being the end of what was drawn.
LEMMA TodoStep ==
  ASSUME NEW forest, NEW frame, FrameOK(forest, frame), frame.todo # << >>
  PROVE  /\ FrameOK(forest, [frame EXCEPT !.todo = Tail(@)])
         /\ Head(frame.todo) \in Nat
         /\ Head(frame.todo) \in DOMAIN StrategyIn(forest, frame.path).kids
<1>1. frame \in Frames /\ frame.drawn \in Seq(Nat) /\ frame.todo \in Seq(Nat)
  BY DEF FrameOK, Frames
<1>2. PICK n \in 0..Len(frame.drawn) : frame.todo = SubSeq(frame.drawn, n + 1, Len(frame.drawn))
  BY DEF FrameOK
<1>3. /\ n + 1 \in 0..Len(frame.drawn)
      /\ Tail(frame.todo) = SubSeq(frame.drawn, (n + 1) + 1, Len(frame.drawn))
      /\ Head(frame.todo) \in Nat /\ Head(frame.todo) \in ToSet(frame.drawn)
  BY <1>1, <1>2, SuffixTail
<1>4. Tail(frame.todo) \in Seq(Nat)
  BY <1>1
<1> DEFINE next == [frame EXCEPT !.todo = Tail(@)]
<1>5. /\ next \in Frames /\ next.path = frame.path /\ next.drawn = frame.drawn
      /\ next.todo = Tail(frame.todo)
  BY <1>1, <1>4 DEF Frames
<1> HIDE DEF next
<1>6. FrameOK(forest, next)
  BY <1>3, <1>5 DEF FrameOK
<1> QED BY <1>3, <1>6 DEF FrameOK, next

\* A call that has drawn and has bred nothing yet.
LEMMA NewFrame ==
  ASSUME NEW forest, NEW path \in Seq(Nat), NEW drawn \in Seq(Nat),
         StrategyIn(forest, path).kids \in Seq(Nodes),
         ToSet(drawn) \subseteq DOMAIN StrategyIn(forest, path).kids
  PROVE  FrameOK(forest, Frame(path, drawn))
<1>1. /\ Frame(path, drawn) \in Frames
      /\ Frame(path, drawn).path = path /\ Frame(path, drawn).drawn = drawn
      /\ Frame(path, drawn).todo = drawn
  BY DEF Frame, Frames, States
<1>2. drawn = SubSeq(drawn, 0 + 1, Len(drawn)) /\ 0 \in 0..Len(drawn)
  OBVIOUS
<1> QED BY <1>1, <1>2 DEF FrameOK

\* What a call is told changes nothing but what it will say.
LEMMA ReceiveStep ==
  ASSUME NEW forest, NEW frame, FrameOK(forest, frame), NEW state \in States
  PROVE  /\ FrameOK(forest, Receive(frame, state))
         /\ Receive(frame, state).path = frame.path /\ Receive(frame, state).drawn = frame.drawn
         /\ Receive(frame, state).state = IF state = "Mutated" THEN "Mutated" ELSE frame.state
<1>1. frame \in Frames
  BY DEF FrameOK
<1>2. /\ Receive(frame, state) \in Frames
      /\ Receive(frame, state).path = frame.path /\ Receive(frame, state).drawn = frame.drawn
      /\ Receive(frame, state).todo = frame.todo
      /\ Receive(frame, state).state = IF state = "Mutated" THEN "Mutated" ELSE frame.state
  BY <1>1 DEF Receive, Frames, States
<1> QED BY <1>2 DEF FrameOK

-----------------------------------------------------------------------------
(* The stack.                                                               *)

LEMMA TopFacts ==
  ASSUME StackOK(strategies, stack)
  PROVE  /\ Len(stack) \in Nat \ {0} /\ Top = stack[Len(stack)]
         /\ Top \in Frames /\ FrameOK(strategies, Top) /\ Len(Top.path) = Len(stack) - 1
         /\ \A i \in 1..Len(stack) : stack[i] \in Frames
<1>1. Len(stack) \in Nat \ {0} /\ Len(stack) \in 1..Len(stack)
  BY DEF StackOK
<1> QED BY <1>1 DEF StackOK, FrameOK, Top, Last

\* The strategy that is called is one, and its path goes along the stack.
LEMMA CalleeFacts ==
  ASSUME StackOK(strategies, stack), Top.todo # << >>
  PROVE  /\ Callee \in Seq(Nat) /\ Len(Callee) = Len(stack)
         /\ Strategy(Callee) \in Nodes /\ Strategy(Callee).kids \in Seq(Nodes)
         /\ SubSeq(Callee, 1, Len(stack)) = Callee
         /\ \A n \in 1..(Len(stack) - 1) : SubSeq(Callee, 1, n) = stack[n + 1].path
<1> DEFINE p == Top.path
           k == Head(Top.todo)
           L == Len(stack)
<1>1. /\ L \in Nat \ {0} /\ Top = stack[L] /\ Len(p) = L - 1
      /\ Top \in Frames /\ FrameOK(strategies, Top)
  BY TopFacts
<1>2. k \in Nat /\ k \in DOMAIN StrategyIn(strategies, p).kids
  BY <1>1, TodoStep
<1>3. p \in Seq(Nat) /\ StrategyIn(strategies, p).kids \in Seq(Nodes)
  BY <1>1 DEF FrameOK, Frames
<1> HIDE DEF p, k, L
<1>4. Callee = Append(p, k)
  BY DEF Callee, p, k
<1>5. Callee \in Seq(Nat) /\ Len(Callee) = L /\ SubSeq(Callee, 1, L) = Callee
  <2>1. Append(p, k) \in Seq(Nat) /\ Len(Append(p, k)) = Len(p) + 1
    BY <1>2, <1>3
  <2>2. SubSeq(Callee, 1, Len(Callee)) = Callee
    BY <1>4, <2>1
  <2> QED BY <1>1, <1>4, <2>1, <2>2
<1>6. Strategy(Callee) \in Nodes
  <2>1. Strategy(Callee) = StrategyIn(strategies, p).kids[k]
    BY <1>2, <1>3, <1>4, StrategyStep DEF Strategy
  <2> QED BY <1>2, <1>3, <2>1
<1>7. Strategy(Callee).kids \in Seq(Nodes)
  BY <1>6, BreedingAssumption
<1>8. ASSUME NEW n \in 1..(L - 1)
      PROVE  SubSeq(Callee, 1, n) = stack[n + 1].path
  <2>1. SubSeq(Append(p, k), 1, n) = SubSeq(p, 1, n)
    BY <1>1, <1>2, <1>3
  <2>2. CASE n = L - 1
    <3>1. SubSeq(p, 1, Len(p)) = p
      BY <1>3
    <3> QED BY <1>1, <1>4, <2>1, <2>2, <3>1 DEF p
  <2>3. CASE n # L - 1
    <3>1. L \in 1..Len(stack) /\ n \in 1..(L - 1) /\ L = Len(stack)
      BY <1>1 DEF L
    <3>2. SubSeq(stack[L].path, 1, n) = stack[n + 1].path
      BY <3>1 DEF StackOK
    <3> QED BY <1>1, <1>4, <2>1, <3>2 DEF p
  <2> QED BY <2>2, <2>3
<1> QED BY <1>5, <1>6, <1>7, <1>8 DEF L

\* A stack is right that is on the paths of one that was.
LEMMA SamePaths ==
  ASSUME NEW forest, NEW old, NEW new \in Seq(Frames), StackOK(forest, old),
         new # << >>, Len(new) =< Len(old),
         \A i \in 1..Len(new) : FrameOK(forest, new[i]) /\ new[i].path = old[i].path
  PROVE  StackOK(forest, new)
<1>1. Len(old) \in Nat /\ Len(new) \in Nat
  BY DEF StackOK
<1>2. ASSUME NEW i \in 1..Len(new)
      PROVE  /\ Len(new[i].path) = i - 1
             /\ \A n \in 1..(i - 1) : SubSeq(new[i].path, 1, n) = new[n + 1].path
  <2>1. i \in 1..Len(old) /\ new[i].path = old[i].path
    BY <1>1
  <2>2. \A n \in 1..(i - 1) : n + 1 \in 1..Len(new) /\ new[n + 1].path = old[n + 1].path
    BY <1>1
  <2>3. /\ Len(old[i].path) = i - 1
        /\ \A n \in 1..(i - 1) : SubSeq(old[i].path, 1, n) = old[n + 1].path
    BY <2>1 DEF StackOK
  <2> QED BY <2>1, <2>2, <2>3
<1> QED BY <1>2 DEF StackOK

\* What TypeOK says of the calls.
CallsOK(forest, calls) ==
  \A i \in 1..Len(calls) :
    /\ calls[i].state \in {"Mutated", "Unchanged"}
    /\ ToSet(calls[i].drawn) \subseteq DOMAIN StrategyIn(forest, calls[i].path).kids
    /\ \E n \in 0..Len(calls[i].drawn) :
         calls[i].todo = SubSeq(calls[i].drawn, n + 1, Len(calls[i].drawn))

\* It holds of every stack of the right shape.
LEMMA CallsTyped ==
  ASSUME NEW forest, NEW calls, StackOK(forest, calls)
  PROVE  CallsOK(forest, calls)
<1>1. ASSUME NEW i \in 1..Len(calls)
      PROVE  calls[i].state \in {"Mutated", "Unchanged"} /\ FrameOK(forest, calls[i])
  <2>1. FrameOK(forest, calls[i])
    BY DEF StackOK
  <2> QED BY <2>1 DEF FrameOK, Frames, States
<1> QED BY <1>1 DEF FrameOK, CallsOK

\* The forest of an engine does not change while it breeds.
LEMMA ForestStays ==
  ASSUME UNCHANGED strategies
  PROVE  \A path : /\ Strategy(path)' = Strategy(path)
                   /\ HasArm(path)' <=> HasArm(path)
BY DEF Strategy, HasArm

LEMMA AppendToChanged ==
  ASSUME NEW S, NEW s \in Seq(S), s # << >>, NEW x \in S, NEW y \in S
  PROVE  /\ Append([s EXCEPT ![Len(s)] = x], y) \in Seq(S)
         /\ Append([s EXCEPT ![Len(s)] = x], y) # << >>
         /\ Len(Append([s EXCEPT ![Len(s)] = x], y)) = Len(s) + 1
         /\ \A i \in 1..Len(s) :
              Append([s EXCEPT ![Len(s)] = x], y)[i] = IF i = Len(s) THEN x ELSE s[i]
         /\ Append([s EXCEPT ![Len(s)] = x], y)[Len(s) + 1] = y
<1>1. PICK t \in Seq(S) : t = [s EXCEPT ![Len(s)] = x]
  <2>1. [s EXCEPT ![Len(s)] = x] \in Seq(S)
    OBVIOUS
  <2> QED BY <2>1
<1>2. Len(t) = Len(s) /\ Len(s) \in Nat \ {0} /\ \A i \in 1..Len(s) : t[i] = IF i = Len(s) THEN x ELSE s[i]
  BY <1>1
<1>3. /\ Append(t, y) \in Seq(S) /\ Append(t, y) # << >>
      /\ Len(Append(t, y)) = Len(t) + 1
      /\ \A i \in 1..Len(t) : Append(t, y)[i] = t[i]
      /\ Append(t, y)[Len(t) + 1] = y
  OBVIOUS
<1> QED BY <1>1, <1>2, <1>3

-----------------------------------------------------------------------------
(* A strategy that breeds others is called.                                 *)

\* The stack it leaves: nothing but the work of the caller changes below.
LEMMA EnterStack ==
  ASSUME StackOK(strategies, stack), Top.todo # << >>, NEW drawn \in Seq(Nat),
         ToSet(drawn) \subseteq DOMAIN Strategy(Callee).kids, Enter(drawn)
  PROVE  /\ StackOK(strategies, stack')
         /\ Len(stack') = Len(stack) + 1
         /\ \A i \in 1..Len(stack) : /\ stack'[i].path = stack[i].path
                                     /\ stack'[i].drawn = stack[i].drawn
                                     /\ stack'[i].state = stack[i].state
         /\ stack'[Len(stack) + 1] = Frame(Callee, drawn)
<1> DEFINE L == Len(stack)
           top == [stack[L] EXCEPT !.todo = Tail(@)]
           new == Frame(Callee, drawn)
<1>1. /\ L \in Nat \ {0} /\ Top = stack[L] /\ FrameOK(strategies, stack[L])
      /\ stack \in Seq(Frames) /\ stack # << >>
      /\ \A i \in 1..L : stack[i] \in Frames
  BY TopFacts DEF StackOK
<1>2. /\ Callee \in Seq(Nat) /\ Len(Callee) = L
      /\ Strategy(Callee).kids \in Seq(Nodes)
      /\ SubSeq(Callee, 1, L) = Callee
      /\ \A n \in 1..(L - 1) : SubSeq(Callee, 1, n) = stack[n + 1].path
  BY CalleeFacts
<1>3. FrameOK(strategies, top)
  BY <1>1, TodoStep
<1>4. FrameOK(strategies, new)
  BY <1>2, NewFrame DEF Strategy
<1>5. stack' = Append([stack EXCEPT ![L] = top], new)
  BY DEF Enter
<1>6. /\ top \in Frames /\ new \in Frames
      /\ top.path = stack[L].path /\ top.drawn = stack[L].drawn /\ top.state = stack[L].state
  BY <1>1, <1>3, <1>4 DEF FrameOK, Frames
<1>7. new.path = Callee
  BY DEF Frame
<1> HIDE DEF L, top, new
<1>8. /\ stack' \in Seq(Frames) /\ stack' # << >> /\ Len(stack') = L + 1
      /\ \A i \in 1..L : stack'[i] = IF i = L THEN top ELSE stack[i]
      /\ stack'[L + 1] = new
  BY <1>1, <1>5, <1>6, AppendToChanged DEF L
<1>9. \A i \in 1..L : /\ stack'[i].path = stack[i].path
                      /\ stack'[i].drawn = stack[i].drawn
                      /\ stack'[i].state = stack[i].state
  BY <1>6, <1>8
<1>10. ASSUME NEW i \in 1..(L + 1)
       PROVE  /\ FrameOK(strategies, stack'[i])
              /\ Len(stack'[i].path) = i - 1
              /\ \A n \in 1..(i - 1) : SubSeq(stack'[i].path, 1, n) = stack'[n + 1].path
  <2>1. CASE i = L + 1
    <3>1. FrameOK(strategies, stack'[i]) /\ Len(stack'[i].path) = i - 1
      BY <1>1, <1>2, <1>4, <1>7, <1>8, <2>1
    <3>2. ASSUME NEW n \in 1..(i - 1)
          PROVE  SubSeq(stack'[i].path, 1, n) = stack'[n + 1].path
      <4>1. CASE n = L
        BY <1>2, <1>7, <1>8, <2>1, <4>1
      <4>2. CASE n # L
        <5>1. n \in 1..(L - 1) /\ n + 1 \in 1..L
          BY <1>1, <2>1, <4>2
        <5> QED BY <1>2, <1>7, <1>8, <1>9, <2>1, <5>1
      <4> QED BY <4>1, <4>2
    <3> QED BY <3>1, <3>2
  <2>2. CASE i # L + 1
    <3>1. i \in 1..L /\ \A n \in 1..(i - 1) : n + 1 \in 1..L
      BY <1>1, <2>2
    <3>2. /\ FrameOK(strategies, stack[i]) /\ Len(stack[i].path) = i - 1
          /\ \A n \in 1..(i - 1) : SubSeq(stack[i].path, 1, n) = stack[n + 1].path
      BY <3>1 DEF StackOK, L
    <3> QED BY <1>3, <1>8, <1>9, <3>1, <3>2
  <2> QED BY <2>1, <2>2
<1> QED BY <1>8, <1>9, <1>10 DEF StackOK, L, new

\* What any such call keeps, whatever it draws.
LEMMA EnterStep ==
  ASSUME BreedInv, at =< Len(next_batch), Top.todo # << >>, NEW drawn \in Seq(Nat),
         ToSet(drawn) \subseteq DOMAIN Strategy(Callee).kids, Enter(drawn),
         popped' = IF Strategy(Callee).kind = "ucb1" THEN popped \cup Kids(Callee, drawn)
                   ELSE popped
  PROVE  BreedInv'
<1> DEFINE L == Len(stack)
<1>1. StackOK(strategies, stack) /\ L \in Nat \ {0}
  BY TopFacts DEF BreedInv
<1>2. /\ StackOK(strategies, stack') /\ Len(stack') = L + 1
      /\ \A i \in 1..L : /\ stack'[i].path = stack[i].path
                         /\ stack'[i].drawn = stack[i].drawn
                         /\ stack'[i].state = stack[i].state
      /\ stack'[L + 1] = Frame(Callee, drawn)
  BY <1>1, EnterStack
<1>3. UNCHANGED <<strategies, next_batch, at, child, applied, generation>>
  BY DEF Enter
<1> HIDE DEF L
<1>4. /\ stack'[L + 1].path = Callee /\ stack'[L + 1].drawn = drawn
      /\ stack'[L + 1].state = "Unchanged"
  BY <1>2 DEF Frame
<1>5. RulesComeBack'
  <2> DEFINE Out(i) == Strategy(stack[i].path).kind = "ucb1"
             OutNow(i) == Strategy(stack'[i].path).kind = "ucb1"
  <2>1. popped = UNION {Kids(stack[i].path, stack[i].drawn) : i \in {j \in 1..L : Out(j)}}
    BY DEF BreedInv, TypeOK, RulesComeBack, L
  <2>2. 1..(L + 1) = 1..L \cup {L + 1}
    BY <1>1
  <2>3. \A i \in 1..L : (OutNow(i) <=> Out(i))
                        /\ Kids(stack'[i].path, stack'[i].drawn) = Kids(stack[i].path, stack[i].drawn)
    BY <1>2
  <2>4. /\ OutNow(L + 1) <=> Strategy(Callee).kind = "ucb1"
        /\ Kids(stack'[L + 1].path, stack'[L + 1].drawn) = Kids(Callee, drawn)
    BY <1>4
  <2> HIDE DEF Out, OutNow
  <2>5. popped' = UNION {Kids(stack'[i].path, stack'[i].drawn) : i \in {j \in 1..(L + 1) : OutNow(j)}}
    <3>1. CASE Strategy(Callee).kind = "ucb1"
      BY <2>1, <2>2, <2>3, <2>4, <3>1
    <3>2. CASE Strategy(Callee).kind # "ucb1"
      BY <2>1, <2>2, <2>3, <2>4, <3>2
    <3> QED BY <3>1, <3>2
  <2> QED BY <1>2, <1>3, <2>5, ForestStays DEF RulesComeBack, OutNow
<1>6. TypeOK'
  <2>1. \A i \in 1..Len(stack') :
          /\ stack'[i].state \in {"Mutated", "Unchanged"}
          /\ ToSet(stack'[i].drawn) \subseteq DOMAIN Strategy(stack'[i].path).kids
          /\ \E n \in 0..Len(stack'[i].drawn) :
               stack'[i].todo = SubSeq(stack'[i].drawn, n + 1, Len(stack'[i].drawn))
    <3>1. CallsOK(strategies, stack')
      BY <1>2, CallsTyped
    <3> QED BY <3>1 DEF CallsOK, Strategy
  <2> QED BY <1>3, <1>5, <2>1, ForestStays DEF BreedInv, TypeOK
<1>7. \A n \in 1..(L + 1) : WillSayMutated(stack', n) <=> n =< L /\ WillSayMutated(stack, n)
  <2>1. ASSUME NEW n \in 1..(L + 1)
        PROVE  WillSayMutated(stack', n) <=> n =< L /\ WillSayMutated(stack, n)
    <3>1. \A i \in n..(L + 1) : stack'[i].state = "Mutated" <=> i \in n..L /\ stack[i].state = "Mutated"
      BY <1>1, <1>2, <1>4
    <3>2. n..L \subseteq n..(L + 1) /\ (n..L # {} => n =< L)
      BY <1>1
    <3> QED BY <1>2, <3>1, <3>2 DEF WillSayMutated, L
  <2> QED BY <2>1
<1>8. applied' # {} <=> WillSayMutated(stack', 1)
  BY <1>1, <1>3, <1>7 DEF BreedInv
<1>9. HooksOnTheWay'
  <2>1. ASSUME NEW path \in applied
        PROVE  /\ path \in Seq(Nat)
               /\ \A n \in 1..Len(path) : HasArm(SubSeq(path, 1, n)) =>
                    \/ SubSeq(path, 1, n) \in BagToSet(child.hooks)
                    \/ WillSayMutated(stack', n + 1) /\ stack'[n + 1].path = SubSeq(path, 1, n)
    <3>1. path \in Seq(Nat)
      BY DEF BreedInv, HooksOnTheWay
    <3>2. ASSUME NEW n \in 1..Len(path), HasArm(SubSeq(path, 1, n)),
                 SubSeq(path, 1, n) \notin BagToSet(child.hooks)
          PROVE  WillSayMutated(stack', n + 1) /\ stack'[n + 1].path = SubSeq(path, 1, n)
      <4>1. WillSayMutated(stack, n + 1) /\ stack[n + 1].path = SubSeq(path, 1, n)
        BY <3>2 DEF BreedInv, HooksOnTheWay
      <4>2. n + 1 \in 1..L
        BY <1>1, <3>1, <4>1 DEF WillSayMutated, L
      <4>3. WillSayMutated(stack', n + 1)
        BY <1>1, <1>7, <4>1, <4>2
      <4> QED BY <1>2, <4>1, <4>2, <4>3
    <3> QED BY <3>1, <3>2
  <2> QED BY <1>3, <2>1, ForestStays DEF HooksOnTheWay
<1>10. NoSilentChange'
  <2>1. (\A i \in 1..Len(stack') : stack'[i].state = "Unchanged")
          => \A i \in 1..L : stack[i].state = "Unchanged"
    BY <1>1, <1>2
  <2> QED BY <1>3, <2>1 DEF BreedInv, NoSilentChange, L, Child
<1>11. HooksFromRules' /\ Forgotten'
  BY <1>3 DEF BreedInv, HooksFromRules, Forgotten
<1>12. SaidByARule'
  <2>1. ASSUME NEW i \in 1..(L + 1), stack'[i].state = "Mutated"
        PROVE  \E path \in applied : i =< Len(path) /\ SubSeq(path, 1, i - 1) = stack'[i].path
    <3>1. i \in 1..L
      BY <1>1, <1>4, <2>1
    <3> QED BY <1>2, <2>1, <3>1 DEF BreedInv, SaidByARule, L
  <2> QED BY <1>2, <1>3, <2>1 DEF SaidByARule
<1> QED BY <1>2, <1>3, <1>6, <1>8, <1>9, <1>10, <1>11, <1>12 DEF BreedInv, ChildOK

LEMMA DrawnFrom ==
  ASSUME NEW kids \in Seq(Nodes), NEW n \in Nat, NEW drawn \in [1..n -> DOMAIN kids]
  PROVE  drawn \in Seq(Nat) /\ ToSet(drawn) \subseteq DOMAIN kids
<1>1. DOMAIN kids = 1..Len(kids) /\ Len(kids) \in Nat
  OBVIOUS
<1>2. DOMAIN kids \subseteq Nat
  BY <1>1
<1>3. DOMAIN drawn = 1..n /\ \A i \in 1..n : drawn[i] \in DOMAIN kids
  OBVIOUS
<1>4. drawn \in [1..n -> Nat]
  BY <1>2, <1>3
<1>5. drawn \in Seq(Nat)
  BY <1>4
<1> QED BY <1>3, <1>5 DEF ToSet

\* The rules that are free are so many that a number of them can be drawn.
LEMMA DrawnQueue ==
  ASSUME NEW path, Strategy(path) \in Nodes, Strategy(path).kind = "ucb1",
         NEW drawn \in Drawn(path)
  PROVE  drawn \in Seq(Nat) /\ ToSet(drawn) \subseteq DOMAIN Strategy(path).kids
<1> DEFINE kids == Strategy(path).kids
           queue == {k \in DOMAIN kids : Append(path, k) \notin popped}
           n == Min({Strategy(path).choose, Cardinality(queue)})
<1>1. kids \in Seq(Nodes) /\ Strategy(path).choose \in Nat
  BY BreedingAssumption
<1>2. Cardinality(queue) \in Nat
  <2>1. DOMAIN kids = 1..Len(kids) /\ Len(kids) \in Nat
    BY <1>1
  <2>2. IsFiniteSet(DOMAIN kids)
    BY <2>1, FS_Interval
  <2>3. IsFiniteSet(queue)
    BY <2>2, FS_Subset
  <2> QED BY <2>3, FS_CardinalityType
<1>3. drawn \in [1..n -> queue]
  BY DEF Drawn
<1> HIDE DEF kids
<1>4. n \in Nat
  <2> DEFINE c == Cardinality(queue)
             b == Strategy(path).choose
  <2>1. b \in Nat /\ c \in Nat
    BY <1>1, <1>2
  <2> HIDE DEF c, b
  <2>2. \E x \in {b, c} : \A y \in {b, c} : x =< y
    BY <2>1
  <2>3. Min({b, c}) \in {b, c}
    BY <2>2 DEF Min
  <2> QED BY <2>1, <2>3 DEF c, b
<1> HIDE DEF n
<1>5. drawn \in [1..n -> DOMAIN kids]
  BY <1>3
<1> QED BY <1>1, <1>4, <1>5, DrawnFrom DEF kids

LEMMA ScheduledStep ==
  ASSUME BreedInv, MABScheduler
  PROVE  BreedInv'
<1>1. PICK drawn \in Drawn(Callee) : Enter(drawn) /\ popped' = popped \cup Kids(Callee, drawn)
  BY DEF MABScheduler
<1>2. at =< Len(next_batch) /\ Top.todo # << >> /\ Strategy(Callee).kind = "ucb1"
  BY DEF MABScheduler, Calls
<1>3. Strategy(Callee) \in Nodes
  BY <1>2, CalleeFacts DEF BreedInv
<1>4. drawn \in Seq(Nat) /\ ToSet(drawn) \subseteq DOMAIN Strategy(Callee).kids
  BY <1>2, <1>3, DrawnQueue
<1> QED BY <1>1, <1>2, <1>4, EnterStep

\* The others keep no queue: it is enough to know what they draw.
LEMMA OtherStep ==
  ASSUME BreedInv, NEW kind \in {"adaptive", "randomly", "repeat", "sampler"}, Calls(kind),
         NEW n \in Nat, NEW drawn \in [1..n -> DOMAIN Strategy(Callee).kids],
         Enter(drawn), UNCHANGED popped
  PROVE  BreedInv'
<1>1. at =< Len(next_batch) /\ Top.todo # << >> /\ Strategy(Callee).kind = kind
  BY DEF Calls
<1>2. Strategy(Callee).kids \in Seq(Nodes)
  BY <1>1, CalleeFacts DEF BreedInv
<1>3. drawn \in Seq(Nat) /\ ToSet(drawn) \subseteq DOMAIN Strategy(Callee).kids
  BY <1>2, DrawnFrom
<1>4. Strategy(Callee).kind # "ucb1"
  BY <1>1
<1> QED BY <1>1, <1>3, <1>4, EnterStep

\* One strategy is wrapped by these.
LEMMA OnlyKid ==
  ASSUME BreedInv, NEW kind \in {"adaptive", "randomly", "repeat"}, Calls(kind)
  PROVE  /\ 1 \in DOMAIN Strategy(Callee).kids
         /\ Strategy(Callee) \in Nodes /\ Strategy(Callee).kind = kind
<1>1. Strategy(Callee) \in Nodes /\ Strategy(Callee).kind = kind
  BY CalleeFacts DEF BreedInv, Calls
<1>2. Strategy(Callee).kids \in Seq(Nodes) /\ Len(Strategy(Callee).kids) = 1
  BY <1>1, BreedingAssumption
<1> QED BY <1>1, <1>2

LEMMA PassOnStep ==
  ASSUME BreedInv, AdaptiveStrategyScheduler \/ Randomly
  PROVE  BreedInv'
<1>1. PICK kind \in {"adaptive", "randomly"}, drawn \in {<< >>, <<1>>} :
        Calls(kind) /\ Enter(drawn) /\ UNCHANGED popped
  BY DEF AdaptiveStrategyScheduler, Randomly
<1>2. 1 \in DOMAIN Strategy(Callee).kids
  BY <1>1, OnlyKid
<1>3. \E n \in Nat : drawn \in [1..n -> DOMAIN Strategy(Callee).kids]
  <2> DEFINE D == DOMAIN Strategy(Callee).kids
  <2> HIDE DEF D
  <2>1. << >> \in [1..0 -> D]
    OBVIOUS
  <2>2. 1 \in D => <<1>> \in [1..1 -> D]
    OBVIOUS
  <2> QED BY <1>2, <2>1, <2>2, 0 \in Nat, 1 \in Nat DEF D
<1> QED BY <1>1, <1>3, OtherStep

LEMMA RepeatStep ==
  ASSUME BreedInv, Repeat
  PROVE  BreedInv'
<1>1. Calls("repeat") /\ UNCHANGED popped
  BY DEF Repeat
<1>2. /\ 1 \in DOMAIN Strategy(Callee).kids /\ Strategy(Callee) \in Nodes
      /\ Strategy(Callee).kind = "repeat"
  BY <1>1, OnlyKid
<1>3. Strategy(Callee).up_to \in Nat
  BY <1>2, BreedingAssumption
<1>4. PICK n \in 1..Strategy(Callee).up_to : Enter([i \in 1..n |-> 1])
  BY DEF Repeat
<1>5. n \in Nat
  BY <1>3
<1>6. [i \in 1..n |-> 1] \in [1..n -> DOMAIN Strategy(Callee).kids]
  BY <1>2
<1> QED BY <1>1, <1>4, <1>5, <1>6, OtherStep

LEMMA SampleStep ==
  ASSUME BreedInv, RandomMutationSampler
  PROVE  BreedInv'
<1>1. Calls("sampler") /\ UNCHANGED popped
  BY DEF RandomMutationSampler
<1>2. PICK n \in Strategy(Callee).min..Strategy(Callee).max :
        \E drawn \in [1..n -> DOMAIN Strategy(Callee).kids] : Enter(drawn)
  BY DEF RandomMutationSampler
<1>3. Strategy(Callee) \in Nodes /\ Strategy(Callee).kind = "sampler"
  BY <1>1, CalleeFacts DEF BreedInv, Calls
<1>4. n \in Nat
  BY <1>3, BreedingAssumption
<1> QED BY <1>1, <1>2, <1>4, OtherStep

-----------------------------------------------------------------------------
(* A strategy returns.                                                      *)

\* The bag of hooks holds what was attached.
LEMMA Attached ==
  ASSUME NEW hooks, NEW path, NEW state
  PROVE  BagToSet(Attach(hooks, path, state))
           = BagToSet(hooks) \cup IF state = "Mutated" /\ HasArm(path) THEN {path} ELSE {}
<1>1. BagToSet(hooks (+) SetToBag({path})) = BagToSet(hooks) \cup {path}
  BY DEF BagToSet, SetToBag, (+)
<1> QED BY <1>1 DEF Attach

LEMMA LastChanged ==
  ASSUME NEW S, NEW s \in Seq(S), s # << >>, NEW x \in S
  PROVE  /\ [s EXCEPT ![Len(s)] = x] \in Seq(S)
         /\ Len([s EXCEPT ![Len(s)] = x]) = Len(s)
         /\ \A i \in 1..Len(s) : [s EXCEPT ![Len(s)] = x][i] = IF i = Len(s) THEN x ELSE s[i]
OBVIOUS

\* A topmost call may take the place of another of the same strategy.
LEMMA TopReplaced ==
  ASSUME NEW forest, NEW calls, StackOK(forest, calls), NEW new, FrameOK(forest, new),
         new.path = calls[Len(calls)].path
  PROVE  /\ StackOK(forest, [calls EXCEPT ![Len(calls)] = new])
         /\ Len([calls EXCEPT ![Len(calls)] = new]) = Len(calls)
         /\ \A i \in 1..Len(calls) :
              [calls EXCEPT ![Len(calls)] = new][i] = IF i = Len(calls) THEN new ELSE calls[i]
<1>1. calls \in Seq(Frames) /\ calls # << >> /\ new \in Frames
  BY DEF StackOK, FrameOK
<1>2. PICK next \in Seq(Frames) :
        /\ next = [calls EXCEPT ![Len(calls)] = new]
        /\ Len(next) = Len(calls)
        /\ \A i \in 1..Len(calls) : next[i] = IF i = Len(calls) THEN new ELSE calls[i]
  <2>1. /\ [calls EXCEPT ![Len(calls)] = new] \in Seq(Frames)
        /\ Len([calls EXCEPT ![Len(calls)] = new]) = Len(calls)
        /\ \A i \in 1..Len(calls) :
             [calls EXCEPT ![Len(calls)] = new][i] = IF i = Len(calls) THEN new ELSE calls[i]
    BY <1>1, LastChanged
  <2> QED BY <2>1
<1>3. Len(calls) \in Nat \ {0} /\ next # << >> /\ Len(next) =< Len(calls)
  BY <1>1, <1>2
<1>4. ASSUME NEW i \in 1..Len(next)
      PROVE  FrameOK(forest, next[i]) /\ next[i].path = calls[i].path
  <2>1. FrameOK(forest, calls[i])
    BY <1>2 DEF StackOK
  <2>2. CASE i = Len(calls)
    BY <1>2, <2>2
  <2>3. CASE i # Len(calls)
    BY <1>2, <2>1, <2>3
  <2> QED BY <2>2, <2>3
<1>5. StackOK(forest, next)
  BY <1>3, <1>4, SamePaths
<1> QED BY <1>2, <1>5

\* What a rule does to the stack.
LEMMA RuleStack ==
  ASSUME StackOK(strategies, stack), Top.todo # << >>, NEW state \in States
  PROVE  LET new == Receive([stack[Len(stack)] EXCEPT !.todo = Tail(@)], state)
             next == [stack EXCEPT ![Len(stack)] = new]
         IN /\ StackOK(strategies, next) /\ Len(next) = Len(stack)
            /\ \A i \in 1..Len(stack) :
                 /\ next[i].path = stack[i].path /\ next[i].drawn = stack[i].drawn
                 /\ next[i].state = IF i = Len(stack) /\ state = "Mutated" THEN "Mutated"
                                    ELSE stack[i].state
<1> DEFINE top == [stack[Len(stack)] EXCEPT !.todo = Tail(@)]
           new == Receive(top, state)
           next == [stack EXCEPT ![Len(stack)] = new]
<1>1. /\ Top = stack[Len(stack)] /\ FrameOK(strategies, Top) /\ Top \in Frames
  BY TopFacts
<1>2. FrameOK(strategies, top)
  BY <1>1, TodoStep
<1>3. top.path = Top.path /\ top.drawn = Top.drawn /\ top.state = Top.state
  BY <1>1 DEF Frames
<1> HIDE DEF top
<1>4. /\ FrameOK(strategies, new) /\ new.path = Top.path /\ new.drawn = Top.drawn
      /\ new.state = IF state = "Mutated" THEN "Mutated" ELSE Top.state
  BY <1>2, <1>3, ReceiveStep
<1> HIDE DEF new
<1>5. /\ StackOK(strategies, next) /\ Len(next) = Len(stack)
      /\ \A i \in 1..Len(stack) : next[i] = IF i = Len(stack) THEN new ELSE stack[i]
  BY <1>1, <1>4, TopReplaced
<1> HIDE DEF next
<1>6. ASSUME NEW i \in 1..Len(stack)
      PROVE  /\ next[i].path = stack[i].path /\ next[i].drawn = stack[i].drawn
             /\ next[i].state = IF i = Len(stack) /\ state = "Mutated" THEN "Mutated"
                                ELSE stack[i].state
  <2>1. CASE i = Len(stack)
    BY <1>1, <1>4, <1>5, <2>1
  <2>2. CASE i # Len(stack)
    BY <1>5, <2>2
  <2> QED BY <2>1, <2>2
<1> QED BY <1>5, <1>6 DEF next, new, top

LEMMA RuleStep ==
  ASSUME BreedInv, RulesKeepTheirWord, Rule
  PROVE  BreedInv'
<1> DEFINE L == Len(stack)
<1>1. /\ StackOK(strategies, stack) /\ L \in Nat \ {0}
      /\ Calls("rule") /\ Top.todo # << >>
      /\ UNCHANGED <<strategies, next_batch, at, popped, generation>>
  BY TopFacts DEF BreedInv, Rule, Calls
<1>2. PICK r \in Outcomes(Strategy(Callee).rule, child.ast, next_batch) :
        /\ child' = [ast |-> r.ast, parents |-> child.parents \cup r.parents,
                     hooks |-> Attach(child.hooks, Callee, r.state)]
        /\ stack' = [stack EXCEPT ![Len(stack)] = Receive([Top EXCEPT !.todo = Tail(@)], r.state)]
        /\ applied' = IF r.state = "Mutated" THEN applied \cup {Callee} ELSE applied
  BY DEF Rule
<1>3. /\ r.state \in States
      /\ r.parents \subseteq {p.id : p \in ToSet(next_batch)}
      /\ r.state = "Unchanged" => r.ast = child.ast /\ r.parents = {}
  BY <1>1, <1>2 DEF RulesKeepTheirWord, States
<1>4. /\ Callee \in Seq(Nat) /\ Len(Callee) = L /\ SubSeq(Callee, 1, L) = Callee
      /\ \A n \in 1..(L - 1) : SubSeq(Callee, 1, n) = stack[n + 1].path
  BY <1>1, CalleeFacts
<1>5. /\ StackOK(strategies, stack') /\ Len(stack') = L
      /\ \A i \in 1..L :
           /\ stack'[i].path = stack[i].path /\ stack'[i].drawn = stack[i].drawn
           /\ stack'[i].state = IF i = L /\ r.state = "Mutated" THEN "Mutated" ELSE stack[i].state
  <2>1. stack' = [stack EXCEPT ![Len(stack)] =
                    Receive([stack[Len(stack)] EXCEPT !.todo = Tail(@)], r.state)]
    BY <1>1, <1>2, TopFacts
  <2> QED BY <1>1, <1>3, <2>1, RuleStack
<1>6. /\ child'.ast = r.ast /\ child'.parents = child.parents \cup r.parents
      /\ child'.hooks = Attach(child.hooks, Callee, r.state)
      /\ ChildOK'
  BY <1>2 DEF ChildOK
<1>7. BagToSet(child'.hooks)
        = BagToSet(child.hooks) \cup IF r.state = "Mutated" /\ HasArm(Callee) THEN {Callee} ELSE {}
  BY <1>6, Attached
<1>8. RulesComeBack'
  <2>1. RulesComeBack /\ Len(stack) = L
    BY DEF BreedInv, TypeOK
  <2>2. \A i \in 1..L : /\ (Strategy(stack'[i].path).kind = "ucb1" <=> Strategy(stack[i].path).kind = "ucb1")
                        /\ Kids(stack'[i].path, stack'[i].drawn) = Kids(stack[i].path, stack[i].drawn)
    BY <1>5
  <2> HIDE DEF L
  <2>3. popped = UNION {Kids(stack'[i].path, stack'[i].drawn) :
                          i \in {j \in 1..L : Strategy(stack'[j].path).kind = "ucb1"}}
    BY <2>1, <2>2 DEF RulesComeBack
  <2> QED BY <1>1, <1>5, <2>3, ForestStays DEF RulesComeBack
<1> HIDE DEF L
<1>9. TypeOK'
  <2>1. \A i \in 1..Len(stack') :
          /\ stack'[i].state \in {"Mutated", "Unchanged"}
          /\ ToSet(stack'[i].drawn) \subseteq DOMAIN Strategy(stack'[i].path).kids
          /\ \E n \in 0..Len(stack'[i].drawn) :
               stack'[i].todo = SubSeq(stack'[i].drawn, n + 1, Len(stack'[i].drawn))
    <3>1. CallsOK(strategies, stack')
      BY <1>5, CallsTyped
    <3> QED BY <3>1 DEF CallsOK, Strategy
  <2>2. child'.parents \subseteq {p.id : p \in ToSet(next_batch)}
    BY <1>3, <1>6 DEF BreedInv, TypeOK
  <2>3. \A path \in BagToSet(child'.hooks) : HasArm(path)
    BY <1>7 DEF BreedInv, TypeOK
  <2> QED BY <1>1, <1>8, <2>1, <2>2, <2>3, ForestStays DEF BreedInv, TypeOK
<1>10. \A n \in 1..L : WillSayMutated(stack', n) <=> r.state = "Mutated" \/ WillSayMutated(stack, n)
  <2>1. ASSUME NEW n \in 1..L
        PROVE  WillSayMutated(stack', n) <=> r.state = "Mutated" \/ WillSayMutated(stack, n)
    <3>1. L \in n..L /\ n..L \subseteq 1..L
      BY <1>1
    <3> QED BY <1>5, <3>1 DEF WillSayMutated, L
  <2> QED BY <2>1
<1>11. applied' # {} <=> WillSayMutated(stack', 1)
  <2>1. applied' # {} <=> r.state = "Mutated" \/ applied # {}
    BY <1>2
  <2>2. 1 \in 1..L
    BY <1>1
  <2> QED BY <1>10, <2>1, <2>2 DEF BreedInv
<1>12. HooksOnTheWay'
  <2>1. ASSUME NEW path \in applied'
        PROVE  /\ path \in Seq(Nat)
               /\ \A n \in 1..Len(path) : HasArm(SubSeq(path, 1, n)) =>
                    \/ SubSeq(path, 1, n) \in BagToSet(child'.hooks)
                    \/ WillSayMutated(stack', n + 1) /\ stack'[n + 1].path = SubSeq(path, 1, n)
    <3>1. CASE path \in applied
      <4>1. path \in Seq(Nat)
        BY <3>1 DEF BreedInv, HooksOnTheWay
      <4>2. ASSUME NEW n \in 1..Len(path), HasArm(SubSeq(path, 1, n)),
                   SubSeq(path, 1, n) \notin BagToSet(child.hooks)
            PROVE  WillSayMutated(stack', n + 1) /\ stack'[n + 1].path = SubSeq(path, 1, n)
        <5>1. WillSayMutated(stack, n + 1) /\ stack[n + 1].path = SubSeq(path, 1, n)
          BY <3>1, <4>2 DEF BreedInv, HooksOnTheWay
        <5>2. n + 1 \in 1..L
          BY <1>1, <4>1, <5>1 DEF WillSayMutated, L
        <5> QED BY <1>5, <1>10, <5>1, <5>2
      <4> QED BY <1>7, <4>1, <4>2
    <3>2. CASE path \notin applied
      <4>1. path = Callee /\ r.state = "Mutated" /\ Len(path) = L /\ path \in Seq(Nat)
        BY <1>2, <1>4, <2>1, <3>2
      <4>2. ASSUME NEW n \in 1..L, n # L
            PROVE  WillSayMutated(stack', n + 1) /\ stack'[n + 1].path = SubSeq(path, 1, n)
        <5>1. n \in 1..(L - 1) /\ n + 1 \in 1..L
          BY <1>1, <4>2
        <5> QED BY <1>4, <1>5, <1>10, <4>1, <5>1
      <4> QED BY <1>4, <1>7, <4>1, <4>2
    <3> QED BY <3>1, <3>2
  <2> QED BY <1>1, <2>1, ForestStays DEF HooksOnTheWay
<1>13. NoSilentChange'
  <2>1. SUFFICES ASSUME \A i \in 1..L : stack'[i].state = "Unchanged"
                 PROVE  child' = Child(next_batch[IF at > Len(next_batch) THEN Len(next_batch) ELSE at])
    BY <1>1, <1>5 DEF NoSilentChange, Child
  <2>2. r.state = "Unchanged" /\ \A i \in 1..L : stack[i].state = "Unchanged"
    BY <1>1, <1>3, <1>5, <2>1 DEF States
  <2>3. child = Child(next_batch[IF at > Len(next_batch) THEN Len(next_batch) ELSE at])
    BY <2>2 DEF BreedInv, NoSilentChange, L
  <2>4. child' = [ast |-> child.ast, parents |-> child.parents, hooks |-> child.hooks]
    BY <1>2, <1>3, <2>2 DEF Attach
  <2> QED BY <2>3, <2>4 DEF BreedInv, ChildOK
<1>14. HooksFromRules'
  <2>1. ASSUME NEW hook \in BagToSet(child'.hooks)
        PROVE  \E path \in applied' : \E n \in 1..Len(path) : hook = SubSeq(path, 1, n)
    <3>1. CASE hook \in BagToSet(child.hooks)
      <4>1. \E path \in applied : \E n \in 1..Len(path) : hook = SubSeq(path, 1, n)
        BY <3>1 DEF BreedInv, HooksFromRules
      <4> QED BY <1>2, <4>1
    <3>2. CASE hook \notin BagToSet(child.hooks)
      <4>1. hook = Callee /\ Callee \in applied'
        BY <1>2, <1>7, <2>1, <3>2
      <4>2. L \in 1..Len(Callee) /\ hook = SubSeq(Callee, 1, L)
        BY <1>1, <1>4, <4>1
      <4> QED BY <4>1, <4>2
    <3> QED BY <3>1, <3>2
  <2> QED BY <2>1 DEF HooksFromRules
<1>15. SaidByARule'
  <2>1. ASSUME NEW i \in 1..L, stack'[i].state = "Mutated"
        PROVE  \E path \in applied' : i =< Len(path) /\ SubSeq(path, 1, i - 1) = stack[i].path
    <3>1. CASE stack[i].state = "Mutated"
      <4>1. \E path \in applied : i =< Len(path) /\ SubSeq(path, 1, i - 1) = stack[i].path
        BY <3>1 DEF BreedInv, SaidByARule, L
      <4> QED BY <1>2, <4>1
    <3>2. CASE stack[i].state # "Mutated"
      <4>1. i = L /\ Callee \in applied'
        BY <1>2, <1>5, <2>1, <3>2
      <4>2. SubSeq(Callee, 1, i - 1) = stack[i].path
        <5>1. CASE i = 1
          <6>1. SubSeq(Callee, 1, 0) = << >> /\ Len(stack[1].path) = 0 /\ stack[1].path \in Seq(Nat)
            BY <1>1, <1>4, <5>1 DEF StackOK, FrameOK, Frames, L
          <6> QED BY <5>1, <6>1
        <5>2. CASE i # 1
          <6>1. i - 1 \in 1..(L - 1) /\ (i - 1) + 1 = i
            BY <1>1, <4>1, <5>2
          <6> QED BY <1>4, <6>1
        <5> QED BY <5>1, <5>2
      <4> QED BY <1>1, <1>4, <4>1, <4>2
    <3> QED BY <3>1, <3>2
  <2> QED BY <1>5, <2>1 DEF SaidByARule
<1>16. Forgotten'
  BY <1>1 DEF Forgotten, Calls
<1> QED BY <1>1, <1>5, <1>6, <1>9, <1>11, <1>12, <1>13, <1>14, <1>15, <1>16 DEF BreedInv

LEMMA ListIsSeq ==
  ASSUME NEW S, NEW n \in Nat, NEW f, f = [i \in 1..n |-> f[i]], \A i \in 1..n : f[i] \in S
  PROVE  f \in Seq(S) /\ Len(f) = n
<1>1. f \in [1..n -> S]
  OBVIOUS
<1> QED BY <1>1

\* The first calls, of which the last has been told what one below it says.
Told(calls, m, state) == [i \in 1..m |-> IF i = m THEN Receive(calls[i], state) ELSE calls[i]]

\* The stack without the call that returns.
LEMMA ReturnStack ==
  ASSUME NEW forest, NEW calls, StackOK(forest, calls), NEW m, m = Len(calls) - 1, m > 0,
         NEW state \in States, NEW next, next = Told(calls, m, state)
  PROVE  /\ StackOK(forest, next) /\ Len(next) = m
         /\ \A i \in 1..m :
              /\ next[i].path = calls[i].path /\ next[i].drawn = calls[i].drawn
              /\ next[i].state = IF i = m /\ state = "Mutated" THEN "Mutated"
                                 ELSE calls[i].state
<1>1. m \in Nat \ {0} /\ Len(calls) = m + 1 /\ \A i \in 1..m : FrameOK(forest, calls[i])
  <2>1. Len(calls) \in Nat /\ \A i \in 1..Len(calls) : FrameOK(forest, calls[i])
    BY DEF StackOK
  <2>2. m \in Nat \ {0} /\ Len(calls) = m + 1 /\ 1..m \subseteq 1..Len(calls)
    BY <2>1
  <2> QED BY <2>1, <2>2
<1>2. ASSUME NEW i \in 1..m
      PROVE  /\ FrameOK(forest, next[i])
             /\ next[i].path = calls[i].path /\ next[i].drawn = calls[i].drawn
             /\ next[i].state = IF i = m /\ state = "Mutated" THEN "Mutated" ELSE calls[i].state
  <2>1. FrameOK(forest, calls[i])
    BY <1>1
  <2>2. next[i] = IF i = m THEN Receive(calls[i], state) ELSE calls[i]
    BY DEF Told
  <2>3. CASE i = m
    BY <2>1, <2>2, <2>3, ReceiveStep
  <2>4. CASE i # m
    BY <2>1, <2>2, <2>4
  <2> QED BY <2>3, <2>4
<1>3. next \in Seq(Frames) /\ Len(next) = m /\ next # << >>
  <2>1. \A i \in 1..m : next[i] \in Frames
    BY <1>2 DEF FrameOK
  <2>2. next = [i \in 1..m |-> next[i]]
    BY DEF Told
  <2>3. m \in Nat /\ m # 0
    BY <1>1
  <2>4. next \in Seq(Frames) /\ Len(next) = m
    BY <2>1, <2>2, <2>3, ListIsSeq
  <2>5. next # << >>
    BY <2>3, <2>4
  <2> QED BY <2>4, <2>5
<1>4. StackOK(forest, next)
  <2>1. Len(next) =< Len(calls) /\ \A i \in 1..Len(next) : FrameOK(forest, next[i]) /\ next[i].path = calls[i].path
    BY <1>1, <1>2, <1>3
  <2> QED BY <1>3, <2>1, SamePaths
<1> QED BY <1>2, <1>3, <1>4

\* The rules of different calls are different ones.
LEMMA KidsApart ==
  ASSUME NEW p \in Seq(Nat), NEW q \in Seq(Nat), Len(p) # Len(q),
         NEW d \in Seq(Nat), NEW e \in Seq(Nat)
  PROVE  Kids(p, d) \cap Kids(q, e) = {}
<1>1. ToSet(d) \subseteq Nat /\ ToSet(e) \subseteq Nat
  BY DEF ToSet
<1>2. \A k \in Nat : Len(Append(p, k)) = Len(p) + 1 /\ Len(Append(q, k)) = Len(q) + 1
  OBVIOUS
<1>3. Len(p) + 1 # Len(q) + 1
  OBVIOUS
<1> QED BY <1>1, <1>2, <1>3 DEF Kids

LEMMA ReturnStep ==
  ASSUME BreedInv, Return
  PROVE  BreedInv'
<1> DEFINE L == Len(stack)
           m == L - 1
           state == Top.state
           Out(i) == Strategy(stack[i].path).kind = "ucb1"
<1>1. /\ StackOK(strategies, stack) /\ L \in Nat \ {0} /\ L > 1
      /\ m \in Nat \ {0} /\ L = m + 1
      /\ Top = stack[L] /\ state \in States
      /\ \A i \in 1..L : stack[i] \in Frames /\ Len(stack[i].path) = i - 1
      /\ UNCHANGED <<strategies, next_batch, at, applied, generation>>
  <2>1. StackOK(strategies, stack) /\ L > 1
    BY DEF BreedInv, Return
  <2>2. L \in Nat \ {0} /\ Top = stack[L] /\ Top \in Frames
        /\ \A i \in 1..L : stack[i] \in Frames /\ Len(stack[i].path) = i - 1
    BY <2>1, TopFacts DEF StackOK
  <2> QED BY <2>1, <2>2 DEF Return, Frames
<1>2. /\ StackOK(strategies, stack') /\ Len(stack') = m
      /\ \A i \in 1..m :
           /\ stack'[i].path = stack[i].path /\ stack'[i].drawn = stack[i].drawn
           /\ stack'[i].state = IF i = m /\ state = "Mutated" THEN "Mutated" ELSE stack[i].state
  <2>1. PICK next : next = stack'
    OBVIOUS
  <2>2. next = Told(stack, m, state)
    BY <2>1 DEF Return, Told
  <2> HIDE DEF L, m, state
  <2>3. /\ StackOK(strategies, stack) /\ state \in States /\ m > 0
        /\ m = Len(stack) - 1
    BY <1>1 DEF L, m
  <2>4. /\ StackOK(strategies, next) /\ Len(next) = m
        /\ \A i \in 1..m :
             /\ next[i].path = stack[i].path /\ next[i].drawn = stack[i].drawn
             /\ next[i].state = IF i = m /\ state = "Mutated" THEN "Mutated" ELSE stack[i].state
    BY <2>2, <2>3, ReturnStack
  <2> QED BY <2>1, <2>4
<1>3. /\ child'.ast = child.ast /\ child'.parents = child.parents
      /\ child'.hooks = Attach(child.hooks, Top.path, state)
      /\ ChildOK'
  BY DEF Return, BreedInv, ChildOK
<1>4. BagToSet(child'.hooks)
        = BagToSet(child.hooks) \cup IF state = "Mutated" /\ HasArm(Top.path) THEN {Top.path} ELSE {}
  BY <1>3, Attached
<1>5. RulesComeBack'
  <2>1. popped = UNION {Kids(stack[i].path, stack[i].drawn) : i \in {j \in 1..L : Out(j)}}
    BY DEF BreedInv, TypeOK, RulesComeBack
  <2>2. popped' = IF Out(L) THEN popped \ Kids(stack[L].path, stack[L].drawn) ELSE popped
    BY <1>1 DEF Return, Extend
  <2>3. \A i \in 1..m : Kids(stack[i].path, stack[i].drawn) \cap Kids(stack[L].path, stack[L].drawn) = {}
    <3> HIDE DEF L, m, state, Out
    <3>1. \A i \in 1..m : /\ i \in 1..L /\ L \in 1..L
                          /\ Len(stack[i].path) # Len(stack[L].path)
      <4>1. m \in Nat \ {0} /\ L = m + 1
        BY <1>1
      <4>2. \A i \in 1..m : i \in 1..L /\ L \in 1..L /\ i - 1 # L - 1
        BY <4>1
      <4>3. \A i \in 1..L : Len(stack[i].path) = i - 1
        BY <1>1
      <4> QED BY <4>2, <4>3
    <3>2. \A i \in 1..L : stack[i].path \in Seq(Nat) /\ stack[i].drawn \in Seq(Nat)
      BY <1>1 DEF Frames
    <3> QED BY <3>1, <3>2, KidsApart
  <2>4. 1..L = 1..m \cup {L}
    BY <1>1
  <2> HIDE DEF Out
  <2>5. popped' = UNION {Kids(stack[i].path, stack[i].drawn) : i \in {j \in 1..m : Out(j)}}
    <3>1. CASE Out(L)
      BY <2>1, <2>2, <2>3, <2>4, <3>1
    <3>2. CASE ~Out(L)
      BY <2>1, <2>2, <2>4, <3>2
    <3> QED BY <3>1, <3>2
  <2>6. popped' = UNION {Kids(stack'[i].path, stack'[i].drawn) :
                           i \in {j \in 1..m : Strategy(stack'[j].path).kind = "ucb1"}}
    BY <1>2, <2>5 DEF Out
  <2> HIDE DEF L, m, state
  <2> QED BY <1>1, <1>2, <2>6, ForestStays DEF RulesComeBack
<1> HIDE DEF L, m, state, Out
<1>6. TypeOK'
  <2>1. \A i \in 1..Len(stack') :
          /\ stack'[i].state \in {"Mutated", "Unchanged"}
          /\ ToSet(stack'[i].drawn) \subseteq DOMAIN Strategy(stack'[i].path).kids
          /\ \E n \in 0..Len(stack'[i].drawn) :
               stack'[i].todo = SubSeq(stack'[i].drawn, n + 1, Len(stack'[i].drawn))
    <3>1. CallsOK(strategies, stack')
      BY <1>2, CallsTyped
    <3> QED BY <3>1 DEF CallsOK, Strategy
  <2>2. \A path \in BagToSet(child'.hooks) : HasArm(path)
    BY <1>4 DEF BreedInv, TypeOK
  <2> QED BY <1>1, <1>3, <1>5, <2>1, <2>2, ForestStays DEF BreedInv, TypeOK
<1>7. \A n \in 1..m : WillSayMutated(stack', n) <=> WillSayMutated(stack, n)
  <2>1. ASSUME NEW n \in 1..m
        PROVE  WillSayMutated(stack', n) <=> WillSayMutated(stack, n)
    <3>1. /\ m \in n..m /\ n..m \subseteq 1..m /\ n..L = n..m \cup {L}
      BY <1>1
    <3>2. stack[L].state = "Mutated" <=> state = "Mutated"
      BY <1>1 DEF state
    <3> QED BY <1>2, <3>1, <3>2 DEF WillSayMutated, L
  <2> QED BY <2>1
<1>8. applied' # {} <=> WillSayMutated(stack', 1)
  BY <1>1, <1>7, 1 \in 1..m DEF BreedInv
<1>9. HooksOnTheWay'
  <2>1. ASSUME NEW path \in applied
        PROVE  /\ path \in Seq(Nat)
               /\ \A n \in 1..Len(path) : HasArm(SubSeq(path, 1, n)) =>
                    \/ SubSeq(path, 1, n) \in BagToSet(child'.hooks)
                    \/ WillSayMutated(stack', n + 1) /\ stack'[n + 1].path = SubSeq(path, 1, n)
    <3>1. path \in Seq(Nat)
      BY DEF BreedInv, HooksOnTheWay
    <3>2. ASSUME NEW n \in 1..Len(path), HasArm(SubSeq(path, 1, n)),
                 SubSeq(path, 1, n) \notin BagToSet(child'.hooks)
          PROVE  WillSayMutated(stack', n + 1) /\ stack'[n + 1].path = SubSeq(path, 1, n)
      <4>1. WillSayMutated(stack, n + 1) /\ stack[n + 1].path = SubSeq(path, 1, n)
        BY <1>4, <3>2 DEF BreedInv, HooksOnTheWay
      <4>2. n + 1 \in 1..L
        BY <1>1, <3>1, <4>1 DEF WillSayMutated, L
      \* The call that returns would have got its hook.
      <4>3. n + 1 # L
        <5>1. SUFFICES ASSUME n + 1 = L PROVE FALSE
          OBVIOUS
        <5>2. L..L = {L}
          BY <1>1
        <5>3. state = "Mutated"
          BY <1>1, <4>1, <5>1, <5>2 DEF WillSayMutated, L, state
        <5> QED BY <1>1, <1>4, <3>2, <4>1, <5>1, <5>3
      <4>4. n + 1 \in 1..m
        BY <1>1, <4>2, <4>3
      <4> QED BY <1>2, <1>7, <4>1, <4>4
    <3> QED BY <3>1, <3>2
  <2> QED BY <1>1, <2>1, ForestStays DEF HooksOnTheWay
<1>10. NoSilentChange'
  <2>1. SUFFICES ASSUME \A i \in 1..m : stack'[i].state = "Unchanged"
                 PROVE  child' = Child(next_batch[IF at > Len(next_batch) THEN Len(next_batch) ELSE at])
    BY <1>1, <1>2 DEF NoSilentChange, Child
  <2>2. ~WillSayMutated(stack', 1)
    BY <1>2, <2>1 DEF WillSayMutated
  <2>3. ~WillSayMutated(stack, 1)
    BY <1>1, <1>7, <2>2, 1 \in 1..m
  <2>4. \A i \in 1..L : stack[i].state = "Unchanged"
    BY <1>1, <2>3 DEF WillSayMutated, L, Frames, States
  <2>5. child = Child(next_batch[IF at > Len(next_batch) THEN Len(next_batch) ELSE at])
    BY <2>4 DEF BreedInv, NoSilentChange, L
  <2>6. state = "Unchanged"
    BY <1>1, <2>4, L \in 1..L DEF state
  <2>7. child'.hooks = child.hooks
    BY <1>3, <2>6 DEF Attach
  <2> QED BY <1>3, <2>5, <2>7 DEF BreedInv, ChildOK
<1>11. HooksFromRules'
  <2>1. ASSUME NEW hook \in BagToSet(child'.hooks)
        PROVE  \E path \in applied : \E n \in 1..Len(path) : hook = SubSeq(path, 1, n)
    <3>1. CASE hook \in BagToSet(child.hooks)
      BY <3>1 DEF BreedInv, HooksFromRules
    <3>2. CASE hook \notin BagToSet(child.hooks)
      <4>1. hook = stack[L].path /\ stack[L].state = "Mutated" /\ L \in 1..L
        BY <1>1, <1>4, <2>1, <3>2 DEF state
      <4>2. PICK path \in applied : L =< Len(path) /\ SubSeq(path, 1, L - 1) = stack[L].path
        BY <4>1 DEF BreedInv, SaidByARule, L
      <4>3. Len(path) \in Nat
        BY DEF BreedInv, HooksOnTheWay
      <4>4. m \in 1..Len(path) /\ m = L - 1
        BY <1>1, <4>2, <4>3
      <4> QED BY <4>1, <4>2, <4>4
    <3> QED BY <3>1, <3>2
  <2> QED BY <1>1, <2>1 DEF HooksFromRules
<1>12. SaidByARule'
  <2>1. ASSUME NEW i \in 1..m, stack'[i].state = "Mutated"
        PROVE  \E path \in applied : i =< Len(path) /\ SubSeq(path, 1, i - 1) = stack[i].path
    <3>1. CASE stack[i].state = "Mutated"
      <4>1. i \in 1..Len(stack)
        BY <1>1 DEF L
      <4> QED BY <3>1, <4>1 DEF BreedInv, SaidByARule
    <3>2. CASE stack[i].state # "Mutated"
      <4>1. i = m /\ stack[L].state = "Mutated" /\ L \in 1..L
        <5>1. i = m /\ state = "Mutated"
          BY <1>2, <2>1, <3>2
        <5> QED BY <1>1, <5>1 DEF state
      <4>2. PICK path \in applied : L =< Len(path) /\ SubSeq(path, 1, L - 1) = stack[L].path
        BY <4>1 DEF BreedInv, SaidByARule, L
      <4>3. path \in Seq(Nat) /\ Len(path) \in Nat
        BY DEF BreedInv, HooksOnTheWay
      <4>4. SubSeq(path, 1, i - 1) = stack[i].path
        <5>1. CASE i = 1
          <6>1. SubSeq(path, 1, 0) = << >>
            BY <4>3
          <6>2. Len(stack[1].path) = 0 /\ stack[1].path \in Seq(Nat)
            BY <1>1, 1 \in 1..L DEF Frames
          <6> QED BY <5>1, <6>1, <6>2
        <5>2. CASE i # 1
          <6>1. i - 1 \in 1..(L - 1) /\ (i - 1) + 1 = i /\ i = L - 1 /\ L \in 1..L
            BY <1>1, <4>1, <5>2
          <6>2. SubSeq(stack[L].path, 1, i - 1) = stack[i].path
            BY <1>1, <6>1 DEF StackOK, L
          <6>3. SubSeq(SubSeq(path, 1, i), 1, i - 1) = SubSeq(path, 1, i - 1)
            BY <1>1, <4>2, <4>3, <6>1
          <6> QED BY <4>2, <6>1, <6>2, <6>3
        <5> QED BY <5>1, <5>2
      <4>5. i =< Len(path)
        BY <1>1, <4>1, <4>2, <4>3
      <4> QED BY <4>4, <4>5
    <3> QED BY <3>1, <3>2
  <2> QED BY <1>1, <1>2, <2>1 DEF SaidByARule
<1>13. Forgotten'
  BY <1>1 DEF Forgotten, Return
<1> QED BY <1>1, <1>2, <1>3, <1>6, <1>8, <1>9, <1>10, <1>11, <1>12, <1>13 DEF BreedInv

-----------------------------------------------------------------------------
(* mutate_batch goes on to the next child.                                  *)

\* The loop of mutate_batch goes through all strategies of the engine.
LEMMA RootStack ==
  ASSUME NEW forest \in Forests
  PROVE  LET calls == <<Frame(<< >>, [i \in DOMAIN forest |-> i])>>
         IN /\ StackOK(forest, calls) /\ Len(calls) = 1
            /\ calls[1].path = << >> /\ calls[1].state = "Unchanged"
<1> DEFINE drawn == [i \in DOMAIN forest |-> i]
           root == Frame(<< >>, drawn)
           calls == <<root>>
<1>1. forest \in Seq(Nodes) /\ DOMAIN forest = 1..Len(forest) /\ Len(forest) \in Nat
  BY BreedingAssumption
<1>2. drawn \in Seq(Nat) /\ ToSet(drawn) \subseteq DOMAIN forest
  BY <1>1 DEF ToSet
<1>3. StrategyIn(forest, << >>).kids = forest
  BY StrategyRoot
<1>4. << >> \in Seq(Nat) /\ Len(<< >>) = 0
  OBVIOUS
<1>5. root.path = << >> /\ root.state = "Unchanged"
  BY DEF Frame
<1> HIDE DEF drawn
<1>6. FrameOK(forest, root)
  BY <1>1, <1>2, <1>3, <1>4, NewFrame
<1>7. root \in Frames
  BY <1>6 DEF FrameOK
<1> HIDE DEF root
<1>8. calls \in Seq(Frames) /\ calls # << >> /\ Len(calls) = 1 /\ calls[1] = root
  BY <1>7
<1> HIDE DEF calls
<1>9. ASSUME NEW i \in 1..Len(calls)
      PROVE  /\ FrameOK(forest, calls[i]) /\ Len(calls[i].path) = i - 1
             /\ \A n \in 1..(i - 1) : SubSeq(calls[i].path, 1, n) = calls[n + 1].path
  <2>1. i = 1
    BY <1>8
  <2> QED BY <1>4, <1>5, <1>6, <1>8, <2>1
<1> QED BY <1>5, <1>8, <1>9 DEF StackOK, calls, root, drawn

\* A child has no hooks yet.
LEMMA NewChild ==
  ASSUME NEW parent
  PROVE  /\ Child(parent) = [ast |-> Child(parent).ast, parents |-> Child(parent).parents,
                             hooks |-> Child(parent).hooks]
         /\ Child(parent).parents = {parent.id}
         /\ BagToSet(Child(parent).hooks) = {}
BY DEF Child, BagToSet, EmptyBag, SetToBag

LEMMA BatchTyped ==
  ASSUME NEW batch \in Batches
  PROVE  /\ Len(batch) \in Nat \ {0}
         /\ \A i \in 1..Len(batch) : batch[i].id \in {p.id : p \in ToSet(batch)}
<1>1. batch \in Seq(ToSet(batch)) /\ batch # << >>
  BY BreedingAssumption
<1> DEFINE S == ToSet(batch)
<1>2. batch \in Seq(S)
  BY <1>1
<1> HIDE DEF S
<1>3. Len(batch) \in Nat \ {0} /\ \A i \in 1..Len(batch) : batch[i] \in S
  BY <1>1, <1>2
<1> QED BY <1>3 DEF S

\* No queue lacks a rule when only the loop of mutate_batch is on the stack.
LEMMA QueuesComplete ==
  ASSUME StackOK(strategies, stack), Len(stack) = 1, RulesComeBack
  PROVE  popped = {}
<1>1. Len(stack[1].path) = 0 /\ stack[1].path \in Seq(Nat)
  BY DEF StackOK, FrameOK, Frames
<1>2. stack[1].path = << >>
  BY <1>1
<1>3. Strategy(stack[1].path).kind = "engine"
  BY <1>2, StrategyRoot DEF Strategy
<1> QED BY <1>3 DEF RulesComeBack

\* And so it is when the loop begins.
LEMMA QueuesStart ==
  ASSUME Len(stack) = 1, stack[1].path = << >>, popped = {}
  PROVE  RulesComeBack
BY StrategyRoot DEF Strategy, RulesComeBack

LEMMA FinishStep ==
  ASSUME BreedInv, Finish
  PROVE  BreedInv'
<1> DEFINE i == IF at < Len(next_batch) THEN at + 1 ELSE at
           p == next_batch[i]
<1>1. /\ at =< Len(next_batch) /\ Len(stack) = 1
      /\ at' = at + 1 /\ child' = Child(p) /\ applied' = {}
      /\ stack' = <<Frame(<< >>, [j \in DOMAIN strategies |-> j])>>
      /\ UNCHANGED <<strategies, next_batch, popped>>
      /\ generation' \subseteq generation \cup {at}
  BY DEF Finish
<1>2. /\ strategies \in Forests /\ next_batch \in Batches /\ at \in 1..(Len(next_batch) + 1)
      /\ StackOK(strategies, stack) /\ RulesComeBack /\ generation \subseteq 1..(at - 1)
  BY DEF BreedInv, TypeOK
<1>3. /\ Len(next_batch) \in Nat \ {0} /\ i \in 1..Len(next_batch)
      /\ at' \in 1..(Len(next_batch) + 1)
      /\ i = IF at' > Len(next_batch) THEN Len(next_batch) ELSE at'
  BY <1>1, <1>2, BatchTyped
<1>4. p.id \in {q.id : q \in ToSet(next_batch)}
  BY <1>2, <1>3, BatchTyped
<1>5. /\ StackOK(strategies, stack') /\ Len(stack') = 1
      /\ stack'[1].path = << >> /\ stack'[1].state = "Unchanged"
  BY <1>1, <1>2, RootStack
<1>6. popped' = {}
  BY <1>1, <1>2, QueuesComplete
<1> HIDE DEF i, p
<1>7. ChildOK' /\ child'.parents = {p.id} /\ BagToSet(child'.hooks) = {}
  BY <1>1, NewChild DEF ChildOK
<1>8. RulesComeBack'
  <2>1. UNION {Kids(stack'[j].path, stack'[j].drawn) :
                 j \in {k \in 1..1 : Strategy(stack'[k].path).kind = "ucb1"}} = {}
    BY <1>5, StrategyRoot DEF Strategy
  <2>2. \A path : Strategy(path)' = Strategy(path)
    BY <1>1, ForestStays
  <2> QED BY <1>5, <1>6, <2>1, <2>2 DEF RulesComeBack
<1>9. TypeOK'
  <2>1. \A j \in 1..Len(stack') :
          /\ stack'[j].state \in {"Mutated", "Unchanged"}
          /\ ToSet(stack'[j].drawn) \subseteq DOMAIN Strategy(stack'[j].path).kids
          /\ \E n \in 0..Len(stack'[j].drawn) :
               stack'[j].todo = SubSeq(stack'[j].drawn, n + 1, Len(stack'[j].drawn))
    <3>1. CallsOK(strategies, stack')
      BY <1>5, CallsTyped
    <3> QED BY <3>1 DEF CallsOK, Strategy
  <2>2. generation' \subseteq 1..(at' - 1)
    BY <1>1, <1>2
  <2> QED BY <1>1, <1>2, <1>3, <1>4, <1>7, <1>8, <2>1, <2>2, ForestStays DEF TypeOK
<1>10. ~WillSayMutated(stack', 1)
  BY <1>5 DEF WillSayMutated
<1>11. HooksOnTheWay' /\ HooksFromRules' /\ SaidByARule' /\ Forgotten'
  BY <1>1, <1>5, <1>7 DEF HooksOnTheWay, HooksFromRules, SaidByARule, Forgotten
<1>12. NoSilentChange'
  BY <1>1, <1>3 DEF NoSilentChange, p, Child
<1> QED BY <1>1, <1>5, <1>7, <1>9, <1>10, <1>11, <1>12 DEF BreedInv

LEMMA BatchStep ==
  ASSUME BreedInv, mutate_batch
  PROVE  BreedInv'
<1>1. PICK batch \in Batches : next_batch' = batch /\ child' = Child(batch[1])
  BY DEF mutate_batch
<1>2. at' = 1 /\ generation' = {} /\ UNCHANGED <<strategies, stack, popped, applied>>
  BY DEF mutate_batch
<1>3. Len(batch) \in Nat \ {0} /\ batch[1].id \in {p.id : p \in ToSet(batch)}
  BY BatchTyped
<1>4. ChildOK' /\ child'.parents = {batch[1].id} /\ BagToSet(child'.hooks) = {}
  BY <1>1, NewChild DEF ChildOK
<1>5. RulesComeBack'
  BY <1>2, ForestStays DEF BreedInv, TypeOK, RulesComeBack
<1>6. TypeOK'
  <2>1. strategies' \in Forests /\ next_batch' \in Batches
    BY <1>1, <1>2 DEF BreedInv, TypeOK
  <2>2. at' \in 1..(Len(next_batch') + 1) /\ generation' \subseteq 1..(at' - 1)
    BY <1>1, <1>2, <1>3
  <2>3. child'.parents \subseteq {p.id : p \in ToSet(next_batch')}
    BY <1>1, <1>3, <1>4
  <2>4. \A path \in BagToSet(child'.hooks) : HasArm(path)'
    BY <1>4
  <2>5. \A i \in 1..Len(stack) :
          /\ stack[i].state \in {"Mutated", "Unchanged"}
          /\ ToSet(stack[i].drawn) \subseteq DOMAIN Strategy(stack[i].path).kids
          /\ \E n \in 0..Len(stack[i].drawn) :
               stack[i].todo = SubSeq(stack[i].drawn, n + 1, Len(stack[i].drawn))
    BY DEF BreedInv, TypeOK
  <2>6. \A i \in 1..Len(stack') :
          /\ stack'[i].state \in {"Mutated", "Unchanged"}
          /\ ToSet(stack'[i].drawn) \subseteq DOMAIN Strategy(stack[i].path)'.kids
          /\ \E n \in 0..Len(stack'[i].drawn) :
               stack'[i].todo = SubSeq(stack'[i].drawn, n + 1, Len(stack'[i].drawn))
    BY <1>2, <2>5 DEF Strategy
  <2> QED BY <1>5, <2>1, <2>2, <2>3, <2>4, <2>6 DEF TypeOK
<1>7. HooksOnTheWay' /\ HooksFromRules' /\ SaidByARule' /\ Forgotten'
  <2>1. applied' = {}
    <3>1. at > Len(next_batch) /\ at \in Nat /\ Len(next_batch) \in Nat
      BY BatchTyped DEF mutate_batch, BreedInv, TypeOK
    <3> QED BY <1>2, <3>1 DEF BreedInv, Forgotten
  <2>2. \A i \in 1..Len(stack') : stack'[i].state # "Mutated"
    BY <1>2, <2>1 DEF BreedInv, WillSayMutated
  <2> QED BY <1>4, <2>1, <2>2 DEF HooksOnTheWay, HooksFromRules, SaidByARule, Forgotten
<1>8. NoSilentChange'
  <2>1. (IF at' > Len(next_batch') THEN Len(next_batch') ELSE at') = 1
    BY <1>1, <1>2, <1>3
  <2>2. child' = Child(next_batch'[1])
    BY <1>1
  <2> QED BY <2>1, <2>2 DEF NoSilentChange, Child
<1>9. applied' # {} <=> WillSayMutated(stack', 1)
  BY <1>2 DEF BreedInv
<1> QED BY <1>2, <1>4, <1>6, <1>7, <1>8, <1>9 DEF BreedInv

LEMMA StutterStep ==
  ASSUME BreedInv, UNCHANGED vars
  PROVE  BreedInv'
<1>1. UNCHANGED <<strategies, next_batch, at, child, stack, popped, applied, generation>>
  BY DEF vars
<1>2. RulesComeBack'
  BY <1>1, ForestStays DEF BreedInv, TypeOK, RulesComeBack
<1>3. TypeOK'
  BY <1>1, <1>2, ForestStays DEF BreedInv, TypeOK
<1>4. HooksOnTheWay' /\ HooksFromRules' /\ SaidByARule' /\ Forgotten'
  BY <1>1, ForestStays DEF BreedInv, HooksOnTheWay, HooksFromRules, SaidByARule, Forgotten
<1>5. NoSilentChange'
  BY <1>1 DEF BreedInv, NoSilentChange, Child
<1> QED BY <1>1, <1>3, <1>4, <1>5 DEF BreedInv, ChildOK

-----------------------------------------------------------------------------
(* Theorems.                                                                *)

LEMMA BreedStart == Init => BreedInv
<1> SUFFICES ASSUME NEW batch \in Batches, NEW forest \in Forests, StartOf(batch, forest)
             PROVE  BreedInv
  BY DEF Init
<1>1. /\ next_batch = batch /\ strategies = forest /\ at = 1 /\ child = Child(batch[1])
      /\ stack = <<Frame(<< >>, [i \in DOMAIN forest |-> i])>>
      /\ popped = {} /\ applied = {} /\ generation = {}
  BY DEF StartOf
<1>2. Len(batch) \in Nat \ {0} /\ batch[1].id \in {p.id : p \in ToSet(batch)}
  BY BatchTyped
<1>3. ChildOK /\ child.parents = {batch[1].id} /\ BagToSet(child.hooks) = {}
  BY <1>1, NewChild DEF ChildOK
<1>4. /\ StackOK(strategies, stack) /\ Len(stack) = 1
      /\ stack[1].path = << >> /\ stack[1].state = "Unchanged"
  BY <1>1, RootStack
<1>5. RulesComeBack
  BY <1>1, <1>4, QueuesStart
<1>6. TypeOK
  <2>1. \A i \in 1..Len(stack) :
          /\ stack[i].state \in {"Mutated", "Unchanged"}
          /\ ToSet(stack[i].drawn) \subseteq DOMAIN Strategy(stack[i].path).kids
          /\ \E n \in 0..Len(stack[i].drawn) :
               stack[i].todo = SubSeq(stack[i].drawn, n + 1, Len(stack[i].drawn))
    <3>1. CallsOK(strategies, stack)
      BY <1>4, CallsTyped
    <3> QED BY <3>1 DEF CallsOK, Strategy
  <2>2. at \in 1..(Len(next_batch) + 1) /\ generation \subseteq 1..(at - 1)
    BY <1>1, <1>2
  <2>3. child.parents \subseteq {p.id : p \in ToSet(next_batch)}
    BY <1>1, <1>2, <1>3
  <2>4. \A path \in BagToSet(child.hooks) : HasArm(path)
    BY <1>3
  <2> QED BY <1>1, <1>5, <2>1, <2>2, <2>3, <2>4 DEF TypeOK
<1>7. ~WillSayMutated(stack, 1)
  BY <1>4 DEF WillSayMutated
<1>8. NoSilentChange
  BY <1>1, <1>2 DEF NoSilentChange
<1>9. HooksOnTheWay /\ HooksFromRules /\ SaidByARule /\ Forgotten
  BY <1>1, <1>3, <1>4 DEF HooksOnTheWay, HooksFromRules, SaidByARule, Forgotten
<1> QED BY <1>1, <1>3, <1>4, <1>6, <1>7, <1>8, <1>9 DEF BreedInv

LEMMA BreedStep ==
  ASSUME BreedInv, RulesKeepTheirWord, [Next]_vars
  PROVE  BreedInv'
<1>1. CASE MABScheduler
  BY <1>1, ScheduledStep
<1>2. CASE AdaptiveStrategyScheduler \/ Randomly
  BY <1>2, PassOnStep
<1>3. CASE Repeat
  BY <1>3, RepeatStep
<1>4. CASE RandomMutationSampler
  BY <1>4, SampleStep
<1>5. CASE Rule
  BY <1>5, RuleStep
<1>6. CASE Return
  BY <1>6, ReturnStep
<1>7. CASE Finish
  BY <1>7, FinishStep
<1>8. CASE mutate_batch
  BY <1>8, BatchStep
<1>9. CASE UNCHANGED vars
  BY <1>9, StutterStep
<1> QED BY <1>1, <1>2, <1>3, <1>4, <1>5, <1>6, <1>7, <1>8, <1>9 DEF Next

LEMMA BreedingIsCorrect == Spec /\ []RulesKeepTheirWord => []BreedInv
<1>1. BreedInv /\ RulesKeepTheirWord /\ [Next]_vars => BreedInv'
  BY BreedStep
<1> QED BY <1>1, BreedStart, PTL DEF Spec

\* For any forest and any rules that keep their word, the queues of the
\* schedulers lack exactly the rules that are being bred, and a child names
\* parents of its batch and hooks of arms that exist only.
THEOREM TypeCorrect == Spec /\ []RulesKeepTheirWord => []TypeOK
<1>1. BreedInv => TypeOK
  BY DEF BreedInv
<1> QED BY <1>1, BreedingIsCorrect, PTL

\* And mutate_batch keeps exactly the children of which some rule said that it
\* mutated them, what it drops is as its parent was, and the arms with a hook of
\* the child are exactly those on the way to such a rule.
THEOREM MutationsAreKept == Spec /\ []RulesKeepTheirWord => []MutationsReachTheEngine
<1>1. ASSUME BreedInv
      PROVE  MutationsReachTheEngine
  <2>1. ASSUME Done
        PROVE  /\ applied # {} <=> Top.state = "Mutated"
               /\ BagToSet(child.hooks) = {path \in OnTheWay : HasArm(path)}
    <3>1. Len(stack) = 1 /\ Top = stack[1]
      BY <1>1, <2>1, TopFacts DEF BreedInv, Done
    <3>2. WillSayMutated(stack, 1) <=> Top.state = "Mutated"
      BY <3>1 DEF WillSayMutated
    <3>3. ASSUME NEW path \in applied, NEW n \in 1..Len(path), HasArm(SubSeq(path, 1, n))
          PROVE  SubSeq(path, 1, n) \in BagToSet(child.hooks)
      <4>1. path \in Seq(Nat)
        BY <1>1 DEF BreedInv, HooksOnTheWay
      \* No call above the loop is left that could still attach it.
      <4>2. ~WillSayMutated(stack, n + 1)
        BY <3>1, <4>1 DEF WillSayMutated
      <4> QED BY <1>1, <3>3, <4>2 DEF BreedInv, HooksOnTheWay
    <3>4. ASSUME NEW hook \in BagToSet(child.hooks)
          PROVE  hook \in OnTheWay /\ HasArm(hook)
      <4>1. hook \in OnTheWay
        BY <1>1 DEF BreedInv, HooksFromRules, OnTheWay
      <4> QED BY <1>1, <4>1 DEF BreedInv, TypeOK
    <3>5. {path \in OnTheWay : HasArm(path)} \subseteq BagToSet(child.hooks)
      <4>1. ASSUME NEW hook \in OnTheWay, HasArm(hook)
            PROVE  hook \in BagToSet(child.hooks)
        <5>1. PICK path \in applied : \E n \in 1..Len(path) : hook = SubSeq(path, 1, n)
          BY <4>1 DEF OnTheWay
        <5> QED BY <3>3, <4>1, <5>1
      <4> QED BY <4>1
    <3> QED BY <1>1, <3>2, <3>4, <3>5 DEF BreedInv
  <2> QED BY <1>1, <2>1 DEF BreedInv, MutationsReachTheEngine
<1>2. BreedInv => MutationsReachTheEngine
  BY <1>1
<1> QED BY <1>2, BreedingIsCorrect, PTL
=============================================================================
