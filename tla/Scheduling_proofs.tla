-------------------------- MODULE Scheduling_proofs --------------------------
(***************************************************************************)
(* Proofs about the scheduler main.py builds: about the statistics it draws *)
(* by (Bandit), for any number of arms and ticks and any rescale factor,    *)
(* and about the batches it prepares (BatchScheduler), for any entries,     *)
(* energies and sizes.                                                      *)
(***************************************************************************)
EXTENDS Bandit, BatchScheduler, FiniteSetTheorems, SequenceTheorems, WellFoundedInduction, TLAPS

-----------------------------------------------------------------------------
(* Induction.                                                               *)

\* A set of natural numbers has a least element: the intervals up to its
\* elements are finite, so one of them contains no other.
LEMMA LeastNat ==
  ASSUME NEW T, T \subseteq Nat, T # {}
  PROVE  \E n \in T : \A m \in T : n =< m
<1> DEFINE Upto == {0..n : n \in T}
           R == StrictSubsetOrdering(Nat)
<1>1. \A n \in T : 0..n \in FiniteSubsetsOf(Nat)
  BY FS_Interval DEF FiniteSubsetsOf
<1>2. Upto # {} /\ Upto \subseteq FiniteSubsetsOf(Nat)
  BY <1>1
<1>3. IsWellFoundedOn(R, FiniteSubsetsOf(Nat))
  BY FS_StrictSubsetOrderingWellFounded
<1> HIDE DEF Upto, R
<1>4. PICK x \in Upto : \A y \in Upto : ~(<<y, x>> \in R)
  BY <1>2, <1>3, WFMin
<1>5. PICK n \in T : x = 0..n
  BY DEF Upto
<1>6. ASSUME NEW m \in T, m < n
      PROVE  FALSE
  <2>1. 0..m \in Upto /\ 0..m \subseteq Nat /\ 0..n \subseteq Nat
    BY DEF Upto
  <2>2. 0..m \subseteq 0..n /\ n \in 0..n /\ n \notin 0..m
    BY <1>6
  <2>3. <<0..m, x>> \in R
    BY <2>1, <2>2, <1>5 DEF R, StrictSubsetOrdering
  <2> QED BY <2>1, <2>3, <1>4
<1> QED BY <1>6

\* Induction, for a set instead of an operator.
LEMMA Induction ==
  ASSUME NEW T, 0 \in T, \A n \in Nat : n \in T => n + 1 \in T
  PROVE  \A n \in Nat : n \in T
<1>1. SUFFICES ASSUME Nat \ T # {} PROVE FALSE
  OBVIOUS
<1>2. PICK n \in Nat \ T : \A m \in Nat \ T : n =< m
  <2> DEFINE U == Nat \ T
  <2>1. U \subseteq Nat /\ U # {}
    BY <1>1
  <2> HIDE DEF U
  <2>2. \E n \in U : \A m \in U : n =< m
    BY <2>1, LeastNat
  <2> QED BY <2>2 DEF U
<1>3. n # 0 /\ n - 1 \in Nat
  BY <1>2
<1>4. n - 1 \in T
  BY <1>2, <1>3
<1> QED BY <1>3, <1>4, <1>2

-----------------------------------------------------------------------------
(* The statistics.                                                          *)

\* Arms that do not exist yet are empty.
NewArmsAreEmpty == \A a \in Arms \ created : attempts[a] = {} /\ gains[a] = {}

\* No arm is ahead of its body: that is what makes Behind a number of missed
\* normalizations, and why reset must drop the arms.
NoArmIsAhead == \A a \in created : local_epoch[a] =< normalization_epoch

BanditInv == TypeOK /\ NewArmsAreEmpty /\ NoArmIsAhead /\ TotalDecaysByAge /\ ArmsDecayByAge

\* Dividing once more is subtracting RESCALE once more.
LEMMA OneMore == \A n, r \in Int : (n + 1) * r = n * r + r
  BY SMT

\* What Divide does to a number.
LEMMA Divided ==
  ASSUME NEW number \in SUBSET Credits, NEW n \in Int
  PROVE  /\ Divide(number, n) \in SUBSET Credits
         /\ \A d \in Divide(number, n) : \E c \in number :
              /\ d.power = c.power - n * RESCALE
              /\ d.given = c.given
              /\ d.behind = c.behind
<1>1. n * RESCALE \in Int
  BY BanditAssumption
<1>2. ASSUME NEW c \in number
      PROVE  LET d == [c EXCEPT !.power = @ - n * RESCALE]
             IN d \in Credits /\ d.power = c.power - n * RESCALE /\ d.given = c.given /\ d.behind = c.behind
  BY <1>1 DEF Credits
<1> QED
  BY <1>2 DEF Divide

\* A credit that is added to the total or to a gain is worth its due.
LEMMA NewCredit ==
  ASSUME TypeOK, NEW n \in Nat
  PROVE  /\ Credit(n) \in Credits
         /\ Due(Credit(n)) = 0
         /\ Worth(Credit(n), n) = -(n * RESCALE)
         /\ Credit(n).behind = n
<1>1. n * RESCALE \in Int
  BY BanditAssumption
<1> QED
  BY <1>1, BanditAssumption DEF TypeOK, Credit, Credits, Due, Worth

LEMMA InitBandit == Init => BanditInv
  BY BanditAssumption DEF Init, BanditInv, TypeOK, NewArmsAreEmpty, NoArmIsAhead, TotalDecaysByAge,
     ArmsDecayByAge

\* A tick, with or without a normalization.
LEMMA TickStep == BanditInv /\ tick_by => BanditInv'
<1> SUFFICES ASSUME BanditInv, tick_by PROVE BanditInv'
  OBVIOUS
<1> USE DEF BanditInv, tick_by, arms
<1>1. CASE current_inflation + 1 < RESCALE
  <2>0. /\ current_inflation' = current_inflation + 1
        /\ UNCHANGED <<normalization_epoch, total_attempts>>
    BY <1>1, BanditAssumption DEF TypeOK
  <2>1. TypeOK'
    BY <1>1, <2>0, BanditAssumption DEF TypeOK
  <2>2. NewArmsAreEmpty' /\ NoArmIsAhead'
    BY <2>0 DEF NewArmsAreEmpty, NoArmIsAhead
  <2>3. TotalDecaysByAge'
    <3> SUFFICES ASSUME NEW c \in total_attempts PROVE (Worth(c, 0) = Due(c))'
      BY <2>0 DEF TotalDecaysByAge
    <3>1. c.power \in Int /\ c.given \in Nat /\ 0 * RESCALE = 0
      BY BanditAssumption DEF TypeOK, Credits
    <3> QED
      BY <2>0, <3>1 DEF TypeOK, TotalDecaysByAge, Worth, Due
  <2>4. ArmsDecayByAge'
    <3> SUFFICES ASSUME NEW a \in created, NEW c \in attempts[a] \cup gains[a]
                 PROVE  (Worth(c, Behind(a)) = Due(c) - c.behind * RESCALE)'
      BY DEF ArmsDecayByAge
    <3>1. c \in Credits /\ a \in Arms
      BY DEF TypeOK
    <3>2. /\ c.power \in Int /\ c.given \in Nat
          /\ c.behind * RESCALE \in Int /\ Behind(a) * RESCALE \in Int
      BY <3>1, BanditAssumption DEF TypeOK, Credits, Behind
    <3>3. Behind(a)' = Behind(a)
      BY <2>0 DEF Behind
    <3> QED
      BY <2>0, <3>2, <3>3 DEF TypeOK, ArmsDecayByAge, Worth, Due
  <2> QED
    BY <2>1, <2>2, <2>3, <2>4
<1>2. CASE current_inflation + 1 >= RESCALE
  <2>0. /\ current_inflation' = current_inflation + 1 - RESCALE
        /\ total_attempts' = Divide(total_attempts, 1)
        /\ normalization_epoch' = normalization_epoch + 1
    BY <1>2, BanditAssumption DEF TypeOK
  <2>1. TypeOK'
    <3>1. total_attempts' \in SUBSET Credits
      BY <2>0, Divided DEF TypeOK
    <3> QED
      BY <1>2, <2>0, <3>1, BanditAssumption DEF TypeOK
  <2>2. NewArmsAreEmpty' /\ NoArmIsAhead'
    BY <2>0 DEF NewArmsAreEmpty, NoArmIsAhead, TypeOK
  <2>3. TotalDecaysByAge'
    <3> SUFFICES ASSUME NEW d \in total_attempts' PROVE (Worth(d, 0) = Due(d))'
      BY DEF TotalDecaysByAge
    <3>1. PICK c \in total_attempts : d.power = c.power - 1 * RESCALE /\ d.given = c.given
      BY <2>0, Divided DEF TypeOK
    <3>2. c.power \in Int /\ c.given \in Nat /\ 0 * RESCALE = 0 /\ 1 * RESCALE = RESCALE
      BY BanditAssumption DEF TypeOK, Credits
    <3>3. Worth(c, 0) = Due(c)
      BY DEF TotalDecaysByAge
    <3> QED
      BY <2>0, <3>1, <3>2, <3>3, BanditAssumption DEF TypeOK, Worth, Due
  <2>4. ArmsDecayByAge'
    <3> SUFFICES ASSUME NEW a \in created, NEW c \in attempts[a] \cup gains[a]
                 PROVE  (Worth(c, Behind(a)) = Due(c) - c.behind * RESCALE)'
      BY DEF ArmsDecayByAge
    <3>1. c \in Credits /\ a \in Arms
      BY DEF TypeOK
    <3>2. /\ c.power \in Int /\ c.given \in Nat
          /\ c.behind * RESCALE \in Int /\ Behind(a) \in Int /\ Behind(a) * RESCALE \in Int
      BY <3>1, BanditAssumption DEF TypeOK, Credits, Behind
    <3>3. Behind(a)' = Behind(a) + 1
      BY <2>0, <3>1 DEF Behind, TypeOK
    <3>4. Behind(a)' * RESCALE = Behind(a) * RESCALE + RESCALE
      BY <3>2, <3>3, OneMore, BanditAssumption
    <3>5. c.power - Behind(a) * RESCALE - current_inflation = c.given - epoch - c.behind * RESCALE
      BY DEF ArmsDecayByAge, Worth, Due
    <3>6. c.power - Behind(a)' * RESCALE - current_inflation' = c.given - epoch' - c.behind * RESCALE
      <4> DEFINE now == Behind(a) * RESCALE
                 then == Behind(a)' * RESCALE
                 lost == c.behind * RESCALE
      <4>1. now \in Int /\ lost \in Int /\ then = now + RESCALE
        BY <3>2, <3>4
      <4>2. c.power - now - current_inflation = c.given - epoch - lost
        BY <3>5
      <4>3. current_inflation' = current_inflation + 1 - RESCALE /\ epoch' = epoch + 1
        BY <2>0
      <4>4. epoch \in Int /\ current_inflation \in Int /\ RESCALE \in Int
        BY BanditAssumption DEF TypeOK
      <4> HIDE DEF now, then, lost
      <4>5. c.power - then - current_inflation' = c.given - epoch' - lost
        BY <3>2, <4>1, <4>2, <4>3, <4>4
      <4> QED
        BY <4>5 DEF then, lost
    <3> QED
      BY <3>6 DEF Worth, Due
  <2> QED
    BY <2>1, <2>2, <2>3, <2>4
<1> QED
  BY <1>1, <1>2, BanditAssumption DEF TypeOK

\* reset drops everything; of the arms only what no arm exists for stays.
LEMMA ResetStep == BanditInv /\ reset => BanditInv'
<1> SUFFICES ASSUME BanditInv, reset PROVE BanditInv'
  OBVIOUS
<1> QED
  BY BanditAssumption DEF BanditInv, reset, TypeOK, NewArmsAreEmpty, NoArmIsAhead, TotalDecaysByAge,
     ArmsDecayByAge

\* A new arm, with or without a prior, is in step with its body.
LEMMA NewStep ==
  ASSUME BanditInv, NEW a \in Arms, new(a) \/ new_with_prior(a)
  PROVE  BanditInv'
<1> USE DEF BanditInv
<1>1. /\ a \notin created
      /\ created' = created \cup {a}
      /\ local_epoch' = [local_epoch EXCEPT ![a] = normalization_epoch]
      /\ epoch' = epoch /\ current_inflation' = current_inflation
      /\ normalization_epoch' = normalization_epoch
      /\ total_attempts' \in {total_attempts, total_attempts \cup {Credit(0)}}
      /\ \/ attempts' = attempts /\ gains' = gains
         \/ /\ attempts' = [attempts EXCEPT ![a] = {Credit(0)}]
            /\ gains' = [gains EXCEPT ![a] = {Credit(0)}]
  BY DEF new, new_with_prior, body
<1>2. /\ Credit(0) \in Credits
      /\ Worth(Credit(0), 0) = Due(Credit(0))
      /\ Due(Credit(0)) = 0 /\ Credit(0).behind = 0
  <2>1. 0 * RESCALE = 0
    BY BanditAssumption
  <2> QED
    BY <2>1, NewCredit
<1>3. TypeOK'
  BY <1>1, <1>2 DEF TypeOK
<1>4. NewArmsAreEmpty' /\ NoArmIsAhead'
  BY <1>1 DEF NewArmsAreEmpty, NoArmIsAhead, TypeOK
<1>5. \A c, n : Worth(c, n)' = Worth(c, n) /\ Due(c)' = Due(c)
  BY <1>1 DEF Worth, Due
<1>6. TotalDecaysByAge'
  BY <1>1, <1>2, <1>5 DEF TotalDecaysByAge
<1>7. ArmsDecayByAge'
  <2> SUFFICES ASSUME NEW b \in created', NEW c \in (attempts[b] \cup gains[b])'
               PROVE  (Worth(c, Behind(b)) = Due(c) - c.behind * RESCALE)'
    BY DEF ArmsDecayByAge
  <2>1. CASE b # a
    <3>1. b \in created /\ c \in attempts[b] \cup gains[b] /\ Behind(b)' = Behind(b)
      BY <1>1, <2>1 DEF TypeOK, Behind
    <3> QED
      BY <1>5, <3>1 DEF ArmsDecayByAge
  <2>2. CASE b = a
    <3>1. c = Credit(0)
      BY <1>1, <2>2 DEF TypeOK, NewArmsAreEmpty
    <3>2. Behind(b)' = 0
      BY <1>1, <2>2 DEF TypeOK, Behind
    <3>3. 0 * RESCALE = 0
      BY BanditAssumption
    <3> QED
      BY <1>2, <1>5, <3>1, <3>2, <3>3
  <2> QED
    BY <2>1, <2>2
<1> QED
  BY <1>3, <1>4, <1>6, <1>7

\* A credit for a child that was made or for a test that ended.
LEMMA CreditStep ==
  ASSUME BanditInv, NEW a \in Arms, on_mutate(a) \/ on_exec(a)
  PROVE  BanditInv'
<1> USE DEF BanditInv
<1>1. /\ a \in created /\ created' = created /\ local_epoch' = local_epoch
      /\ epoch' = epoch /\ current_inflation' = current_inflation
      /\ normalization_epoch' = normalization_epoch
      /\ total_attempts' \in {total_attempts, total_attempts \cup {Credit(0)}}
      /\ \/ attempts' = [attempts EXCEPT ![a] = @ \cup {Credit(Behind(a))}] /\ gains' = gains
         \/ gains' = [gains EXCEPT ![a] = @ \cup {Credit(Behind(a))}] /\ attempts' = attempts
  BY DEF on_mutate, on_exec, body
<1>2. Behind(a) \in Nat
  BY <1>1 DEF TypeOK, NoArmIsAhead, Behind
<1>3. Credit(0) \in Credits /\ Worth(Credit(0), 0) = Due(Credit(0))
  <2>1. 0 * RESCALE = 0
    BY BanditAssumption
  <2> QED
    BY <2>1, NewCredit
<1>4. /\ Credit(Behind(a)) \in Credits
      /\ Worth(Credit(Behind(a)), Behind(a)) =
           Due(Credit(Behind(a))) - Credit(Behind(a)).behind * RESCALE
  <2>1. Behind(a) * RESCALE \in Int
    BY <1>2, BanditAssumption
  <2> QED
    BY <1>2, <2>1, NewCredit
<1>5. TypeOK'
  BY <1>1, <1>3, <1>4 DEF TypeOK
<1>6. NewArmsAreEmpty' /\ NoArmIsAhead'
  BY <1>1 DEF NewArmsAreEmpty, NoArmIsAhead, TypeOK
<1>7. \A c, n : Worth(c, n)' = Worth(c, n) /\ Due(c)' = Due(c)
  BY <1>1 DEF Worth, Due
<1>8. TotalDecaysByAge'
  BY <1>1, <1>3, <1>7 DEF TotalDecaysByAge
<1>9. ArmsDecayByAge'
  <2> SUFFICES ASSUME NEW b \in created, NEW c \in (attempts[b] \cup gains[b])'
               PROVE  (Worth(c, Behind(b)) = Due(c) - c.behind * RESCALE)'
    BY <1>1 DEF ArmsDecayByAge
  <2>1. Behind(b)' = Behind(b)
    BY <1>1 DEF Behind
  <2>2. c \in attempts[b] \cup gains[b] \/ (b = a /\ c = Credit(Behind(a)))
    BY <1>1 DEF TypeOK
  <2> QED
    BY <1>4, <1>7, <2>1, <2>2 DEF ArmsDecayByAge
<1> QED
  BY <1>5, <1>6, <1>8, <1>9

\* A score is asked for: the arm catches up.
LEMMA ScoreStep ==
  ASSUME BanditInv, NEW a \in Arms, calculate_score(a)
  PROVE  BanditInv'
<1> USE DEF BanditInv, calculate_score, normalize, body
<1>1. Behind(a) \in Int
  BY DEF TypeOK, Behind
<1>2. /\ Divide(attempts[a], Behind(a)) \in SUBSET Credits
      /\ Divide(gains[a], Behind(a)) \in SUBSET Credits
  BY <1>1, Divided DEF TypeOK
<1>3. TypeOK'
  BY <1>2 DEF TypeOK
<1>4. NewArmsAreEmpty' /\ NoArmIsAhead'
  BY DEF NewArmsAreEmpty, NoArmIsAhead, TypeOK
<1>5. \A c, n : Worth(c, n)' = Worth(c, n) /\ Due(c)' = Due(c)
  BY DEF Worth, Due
<1>6. TotalDecaysByAge'
  BY <1>5 DEF TotalDecaysByAge
<1>7. ArmsDecayByAge'
  <2> SUFFICES ASSUME NEW b \in created, NEW c \in (attempts[b] \cup gains[b])'
               PROVE  (Worth(c, Behind(b)) = Due(c) - c.behind * RESCALE)'
    BY DEF ArmsDecayByAge
  <2>1. CASE b # a
    <3>1. c \in attempts[b] \cup gains[b] /\ Behind(b)' = Behind(b)
      BY <2>1 DEF TypeOK, Behind
    <3> QED
      BY <1>5, <3>1 DEF ArmsDecayByAge
  <2>2. CASE b = a
    <3>1. c \in Divide(attempts[a], Behind(a)) \cup Divide(gains[a], Behind(a))
      BY <2>2 DEF TypeOK
    <3>2. PICK d \in attempts[a] \cup gains[a] :
            c.power = d.power - Behind(a) * RESCALE /\ c.given = d.given /\ c.behind = d.behind
      BY <1>1, <3>1, Divided DEF TypeOK
    <3>3. Behind(b)' = 0 /\ 0 * RESCALE = 0
      BY <2>2, BanditAssumption DEF Behind, TypeOK
    <3>4. Worth(d, Behind(a)) = Due(d) - d.behind * RESCALE
      BY DEF ArmsDecayByAge
    <3>5. /\ d.power \in Int /\ d.given \in Nat /\ d.behind * RESCALE \in Int
          /\ Behind(a) * RESCALE \in Int
      BY <1>1, BanditAssumption DEF TypeOK, Credits
    <3> QED
      BY <3>2, <3>3, <3>4, <3>5 DEF Worth, Due, TypeOK
  <2> QED
    BY <2>1, <2>2
<1> QED
  BY <1>3, <1>4, <1>6, <1>7

LEMMA Stutter == BanditInv /\ UNCHANGED vars => BanditInv'
  BY DEF BanditInv, vars, body, arms, TypeOK, NewArmsAreEmpty, NoArmIsAhead, TotalDecaysByAge,
     ArmsDecayByAge, Worth, Due, Behind

LEMMA InductiveStep == BanditInv /\ [Next]_vars => BanditInv'
  BY TickStep, ResetStep, NewStep, CreditStep, ScoreStep, Stutter DEF Next

THEOREM Correct == Spec => []BanditInv
  BY InitBandit, InductiveStep, PTL DEF Spec

\* The inflation stays below the rescale factor after every tick, and all
\* numbers keep their types.
THEOREM TypeCorrect == Spec => []TypeOK
<1>1. BanditInv => TypeOK
  BY DEF BanditInv
<1> QED
  BY <1>1, Correct, PTL

\* For any factor and any number of ticks, each attempt in the total of a body
\* has decayed by its age.
THEOREM TotalIsEager == Spec => []TotalDecaysByAge
<1>1. BanditInv => TotalDecaysByAge
  BY DEF BanditInv
<1> QED
  BY <1>1, Correct, PTL

\* For any arms, asked as late as may be, lazy normalization amounts to decay
\* by age, but for what was added while the arm was behind.
THEOREM ArmsAreLazyButRight == Spec => []ArmsDecayByAge
<1>1. BanditInv => ArmsDecayByAge
  BY DEF BanditInv
<1> QED
  BY <1>1, Correct, PTL

\* So both terms of a score weigh evidence by its age.
THEOREM EvidenceDecays == Spec => []DecaysByAge
BY TotalIsEager, ArmsAreLazyButRight, PTL DEF DecaysByAge

-----------------------------------------------------------------------------
(* The energy that is prepared.                                             *)

\* No energy of a prepared parent is zero, or would run below it.
Item == [id : Ids, energy : Nat \ {0}]

\* The sums of which EnergyOf takes the last.
IsSum(f, id, items) ==
  f = [n \in 0..Len(items) |-> IF n = 0 THEN 0 ELSE f[n - 1] + EnergyAt(id, items[n])]

LEMMA EnergyIsNat ==
  ASSUME NEW id, NEW item \in Item
  PROVE  EnergyAt(id, item) \in Nat
BY DEF EnergyAt, Item

\* There is such a function, by induction on its domain.
LEMMA SumExists ==
  ASSUME NEW id, NEW items \in Seq(Item)
  PROVE  \E f \in [0..Len(items) -> Nat] : IsSum(f, id, items)
<1> DEFINE w(n) == EnergyAt(id, items[n])
           Sums(f, k) == \A n \in 0..k : f[n] = IF n = 0 THEN 0 ELSE f[n - 1] + w(n)
           T == {k \in Nat : k =< Len(items) => \E f \in [0..k -> Nat] : Sums(f, k)}
<1>1. \A n \in 1..Len(items) : w(n) \in Nat
  BY EnergyIsNat
<1> HIDE DEF w
<1>2. 0 \in T
  <2>1. [n \in 0..0 |-> 0] \in [0..0 -> Nat] /\ Sums([n \in 0..0 |-> 0], 0)
    OBVIOUS
  <2> QED BY <2>1
<1>3. ASSUME NEW k \in Nat, k \in T
      PROVE  k + 1 \in T
  <2>1. ASSUME k + 1 =< Len(items)
        PROVE  \E f \in [0..(k + 1) -> Nat] : Sums(f, k + 1)
    <3>1. PICK f \in [0..k -> Nat] : Sums(f, k)
      BY <1>3, <2>1
    <3> DEFINE g == [n \in 0..(k + 1) |-> IF n = k + 1 THEN f[k] + w(n) ELSE f[n]]
    <3>2. w(k + 1) \in Nat
      BY <1>1, <2>1
    <3>3. g \in [0..(k + 1) -> Nat]
      BY <3>1, <3>2
    <3>4. \A n \in 0..k : g[n] = f[n]
      OBVIOUS
    <3>5. g[k + 1] = f[k] + w(k + 1)
      OBVIOUS
    <3> HIDE DEF g
    <3>6. \A n \in 0..(k + 1) : n = k + 1 \/ (n \in 0..k /\ (n # 0 => n - 1 \in 0..k))
      OBVIOUS
    <3>7. ASSUME NEW n \in 0..(k + 1)
          PROVE  g[n] = IF n = 0 THEN 0 ELSE g[n - 1] + w(n)
      <4>1. CASE n = k + 1
        BY <4>1, <3>4, <3>5, n # 0, n - 1 = k, k \in 0..k
      <4>2. CASE n \in 0..k
        BY <4>2, <3>1, <3>4, <3>6
      <4> QED BY <4>1, <4>2, <3>6
    <3> QED BY <3>3, <3>7
  <2>2. k + 1 \in Nat
    OBVIOUS
  <2> QED BY <2>1, <2>2
<1> HIDE DEF T
<1>4. Len(items) \in T
  BY <1>2, <1>3, Induction
<1>5. PICK f \in [0..Len(items) -> Nat] : Sums(f, Len(items))
  BY <1>4 DEF T
<1>6. f = [n \in 0..Len(items) |-> IF n = 0 THEN 0 ELSE f[n - 1] + w(n)]
  BY <1>5
<1> QED BY <1>5, <1>6 DEF IsSum, w

\* The first sequence is where the second begins.
Begins(s, t) == Len(s) =< Len(t) /\ \A n \in 1..Len(s) : s[n] = t[n]

\* There is one such function only.
LEMMA SumUnique ==
  ASSUME NEW id, NEW s \in Seq(Item), NEW t \in Seq(Item), NEW f, NEW g,
         IsSum(f, id, s), IsSum(g, id, t), Begins(s, t)
  PROVE  \A n \in 0..Len(s) : f[n] = g[n]
<1> DEFINE T == {n \in Nat : n =< Len(s) => f[n] = g[n]}
<1>1. 0 \in T
  BY DEF IsSum
<1>2. ASSUME NEW n \in Nat, n \in T
      PROVE  n + 1 \in T
  <2>1. ASSUME n + 1 =< Len(s)
        PROVE  f[n + 1] = g[n + 1]
    <3>1. /\ n + 1 \in 0..Len(s) /\ n + 1 \in 0..Len(t) /\ n + 1 # 0 /\ (n + 1) - 1 = n
          /\ s[n + 1] = t[n + 1] /\ n =< Len(s)
      BY <2>1 DEF Begins
    <3>2. f[n + 1] = f[n] + EnergyAt(id, s[n + 1])
      BY <3>1 DEF IsSum
    <3>3. g[n + 1] = g[n] + EnergyAt(id, t[n + 1])
      BY <3>1 DEF IsSum
    <3> QED BY <1>2, <3>1, <3>2, <3>3
  <2> HIDE DEF T
  <2>2. n + 1 \in Nat
    BY <1>2
  <2> QED BY <2>1, <2>2 DEF T
<1> HIDE DEF T
<1>3. \A n \in Nat : n \in T
  BY <1>1, <1>2, Induction
<1> QED BY <1>3 DEF T

\* So EnergyOf is what its definition says.
LEMMA EnergySum ==
  ASSUME NEW id, NEW items \in Seq(Item)
  PROVE  \E f \in [0..Len(items) -> Nat] : IsSum(f, id, items) /\ EnergyOf(id, items) = f[Len(items)]
<1> DEFINE F == CHOOSE f : IsSum(f, id, items)
<1>1. PICK f \in [0..Len(items) -> Nat] : IsSum(f, id, items)
  BY SumExists
<1>2. IsSum(F, id, items)
  BY <1>1
<1>3. EnergyOf(id, items) = F[Len(items)]
  BY DEF EnergyOf, IsSum
<1> HIDE DEF F
<1>4. F \in [0..Len(items) -> Nat]
  <2>1. \A n \in 0..Len(items) : F[n] = f[n]
    <3>1. Begins(items, items)
      BY DEF Begins
    <3> QED BY <1>1, <1>2, <3>1, SumUnique
  <2>2. F = [n \in 0..Len(items) |-> IF n = 0 THEN 0 ELSE F[n - 1] + EnergyAt(id, items[n])]
    BY <1>2 DEF IsSum
  <2>3. DOMAIN F = 0..Len(items) /\ F = [n \in DOMAIN F |-> F[n]]
    BY <2>2
  <2> QED BY <2>1, <2>3
<1> QED BY <1>2, <1>3, <1>4

LEMMA EmptyEnergy ==
  ASSUME NEW id
  PROVE  EnergyOf(id, << >>) = 0
<1>1. << >> \in Seq(Item) /\ Len(<< >>) = 0
  OBVIOUS
<1>2. PICK f \in [0..0 -> Nat] : IsSum(f, id, << >>) /\ EnergyOf(id, << >>) = f[0]
  BY <1>1, EnergySum
<1> QED BY <1>1, <1>2 DEF IsSum

LEMMA EnergyType ==
  ASSUME NEW id, NEW items \in Seq(Item)
  PROVE  EnergyOf(id, items) \in Nat
BY EnergySum

\* What comes behind is added.
LEMMA EnergyConcat ==
  ASSUME NEW id, NEW s \in Seq(Item), NEW t \in Seq(Item)
  PROVE  EnergyOf(id, s \o t) = EnergyOf(id, s) + EnergyOf(id, t)
<1>1. /\ s \o t \in Seq(Item) /\ Len(s \o t) = Len(s) + Len(t)
      /\ Len(s) \in Nat /\ Len(t) \in Nat
      /\ \A n \in 1..Len(s) : (s \o t)[n] = s[n]
      /\ \A n \in 1..Len(t) : (s \o t)[Len(s) + n] = t[n]
  OBVIOUS
<1>u. PICK u \in Seq(Item) : u = s \o t
  BY <1>1
<1>2. PICK f \in [0..Len(u) -> Nat] : IsSum(f, id, u) /\ EnergyOf(id, u) = f[Len(u)]
  BY EnergySum
<1>3. PICK g \in [0..Len(s) -> Nat] : IsSum(g, id, s) /\ EnergyOf(id, s) = g[Len(s)]
  BY EnergySum
<1>4. PICK h \in [0..Len(t) -> Nat] : IsSum(h, id, t) /\ EnergyOf(id, t) = h[Len(t)]
  BY EnergySum
<1>5. f[Len(s)] = g[Len(s)]
  <2>1. Begins(s, u)
    BY <1>1, <1>u DEF Begins
  <2>2. IsSum(g, id, s) /\ IsSum(f, id, u)
    BY <1>2, <1>3
  <2>3. \A n \in 0..Len(s) : g[n] = f[n]
    BY <2>1, <2>2, SumUnique
  <2> QED BY <1>1, <2>3, Len(s) \in 0..Len(s)
<1> DEFINE T == {n \in Nat : n =< Len(t) => f[Len(s) + n] = g[Len(s)] + h[n]}
<1>6. 0 \in T
  <2>1. h[0] = 0 /\ g[Len(s)] \in Nat
    BY <1>1, <1>3, <1>4, 0 \in 0..Len(t), Len(s) \in 0..Len(s) DEF IsSum
  <2> QED BY <1>1, <1>5, <2>1
<1>7. ASSUME NEW n \in Nat, n \in T, n + 1 =< Len(t)
      PROVE  f[Len(s) + (n + 1)] = g[Len(s)] + h[n + 1]
  <2>1. f[Len(s) + n] = g[Len(s)] + h[n]
    BY <1>7
  <2>2. h[n + 1] = h[n] + EnergyAt(id, t[n + 1])
    BY <1>1, <1>4, <1>7, n + 1 \in 0..Len(t), n + 1 # 0, (n + 1) - 1 = n DEF IsSum
  <2> DEFINE m == Len(s) + (n + 1)
  <2>3. m \in 0..Len(u) /\ m # 0 /\ m - 1 = Len(s) + n
    BY <1>1, <1>7, <1>u
  <2>4. u[m] = t[n + 1]
    BY <1>1, <1>7, n + 1 \in 1..Len(t), <1>u
  <2> HIDE DEF m
  <2>5. f[m] = f[m - 1] + EnergyAt(id, u[m])
    BY <1>2, <2>3 DEF IsSum
  <2>6. t[n + 1] \in Item
    BY <1>1, <1>7, n + 1 \in 1..Len(t)
  <2>7. EnergyAt(id, t[n + 1]) \in Nat
    BY <2>6, EnergyIsNat
  <2>8. g[Len(s)] \in Nat /\ h[n] \in Nat
    BY <1>1, <1>3, <1>4, <1>7, n \in 0..Len(t), Len(s) \in 0..Len(s)
  <2> QED BY <2>1, <2>2, <2>3, <2>4, <2>5, <2>7, <2>8 DEF m
<1>8. ASSUME NEW n \in Nat, n \in T
      PROVE  n + 1 \in T
  <2>1. n + 1 \in Nat
    OBVIOUS
  <2> QED BY <1>7, <1>8, <2>1
<1> HIDE DEF T
<1>9. Len(t) \in T
  BY <1>1, <1>6, <1>8, Induction
<1> QED BY <1>1, <1>2, <1>3, <1>4, <1>9, <1>u DEF T

\* One parent in place of another.
LEMMA EnergyReplace ==
  ASSUME NEW id, NEW s \in Seq(Item), NEW k \in 1..Len(s), NEW x \in Item
  PROVE  EnergyOf(id, [s EXCEPT ![k] = x]) = EnergyOf(id, s) - EnergyAt(id, s[k]) + EnergyAt(id, x)
<1> DEFINE t == [s EXCEPT ![k] = x]
           a == EnergyAt(id, s[k])
           b == EnergyAt(id, x)
<1>1. /\ t \in Seq(Item) /\ Len(t) = Len(s) /\ Len(s) \in Nat /\ k \in Nat \ {0}
      /\ \A n \in 1..Len(s) : t[n] = IF n = k THEN x ELSE s[n]
  OBVIOUS
<1>2. \A n \in 1..Len(s) : EnergyAt(id, s[n]) \in Nat
  BY EnergyIsNat
<1>3. a \in Nat /\ b \in Nat
  BY <1>2, EnergyIsNat
<1> HIDE DEF t, b
<1>4. PICK f \in [0..Len(s) -> Nat] : IsSum(f, id, s) /\ EnergyOf(id, s) = f[Len(s)]
  BY EnergySum
<1>5. PICK g \in [0..Len(s) -> Nat] : IsSum(g, id, t) /\ EnergyOf(id, t) = g[Len(s)]
  BY <1>1, EnergySum
<1> DEFINE T == {n \in Nat : n =< Len(s) => g[n] = IF n < k THEN f[n] ELSE f[n] - a + b}
<1>6. 0 \in T
  BY <1>1, <1>4, <1>5 DEF IsSum
<1>7. ASSUME NEW n \in Nat, n \in T, n + 1 =< Len(s)
      PROVE  g[n + 1] = IF n + 1 < k THEN f[n + 1] ELSE f[n + 1] - a + b
  <2> HIDE DEF T
  <2>1. n + 1 \in 0..Len(s) /\ n + 1 # 0 /\ (n + 1) - 1 = n /\ n \in 0..Len(s) /\ n + 1 \in 1..Len(s)
    BY <1>1, <1>7
  <2> USE DEF T
  <2>2. f[n + 1] = f[n] + EnergyAt(id, s[n + 1])
    BY <1>4, <2>1 DEF IsSum
  <2>3. g[n + 1] = g[n] + EnergyAt(id, t[n + 1])
    BY <1>1, <1>5, <2>1 DEF IsSum
  <2>4. f[n] \in Nat /\ g[n] \in Nat /\ EnergyAt(id, s[n + 1]) \in Nat
    BY <1>2, <1>4, <1>5, <2>1
  <2>5. CASE n + 1 = k
    <3>1. EnergyAt(id, t[n + 1]) = b /\ EnergyAt(id, s[n + 1]) = a /\ n < k /\ ~(n + 1 < k)
      BY <1>1, <2>1, <2>5 DEF b
    <3>2. g[n] = f[n]
      BY <1>7, <2>1, <3>1
    <3> HIDE DEF a
    <3> QED BY <1>3, <2>2, <2>3, <2>4, <3>1, <3>2
  <2>6. CASE n + 1 # k
    <3>1. t[n + 1] = s[n + 1] /\ (n < k <=> n + 1 < k)
      BY <1>1, <2>1, <2>6
    <3>2. g[n] = IF n < k THEN f[n] ELSE f[n] - a + b
      BY <1>7, <2>1
    <3> HIDE DEF a
    <3> QED BY <1>3, <2>2, <2>3, <2>4, <3>1, <3>2
  <2> QED BY <2>5, <2>6
<1>8. ASSUME NEW n \in Nat, n \in T
      PROVE  n + 1 \in T
  <2> HIDE DEF T
  <2>1. n + 1 \in Nat
    BY <1>8
  <2>2. n + 1 =< Len(s) => g[n + 1] = IF n + 1 < k THEN f[n + 1] ELSE f[n + 1] - a + b
    BY <1>7, <1>8
  <2> QED BY <2>1, <2>2 DEF T
<1> HIDE DEF T
<1>9. Len(s) \in T
  BY <1>1, <1>6, <1>8, Induction
<1>10. ~(Len(s) < k)
  BY <1>1
<1> QED BY <1>1, <1>4, <1>5, <1>9, <1>10 DEF T, t, b

\* The first n elements of a sequence are what they were.
LEMMA FirstOnes ==
  ASSUME NEW S, NEW s \in Seq(S), NEW n \in 0..Len(s)
  PROVE  /\ SubSeq(s, 1, n) \in Seq(S) /\ Len(SubSeq(s, 1, n)) = n
         /\ \A k \in 1..n : SubSeq(s, 1, n)[k] = s[k]
<1>1. SubSeq(s, 1, n) \in Seq(S) /\ Len(SubSeq(s, 1, n)) = n
  OBVIOUS
<1>2. \A k \in 1..n : SubSeq(s, 1, n)[k] = s[k]
  OBVIOUS
<1> QED BY <1>1, <1>2

LEMMA EnergyFront ==
  ASSUME NEW id, NEW s \in Seq(Item), s # << >>
  PROVE  /\ Front(s) \in Seq(Item)
         /\ EnergyOf(id, Front(s)) = EnergyOf(id, s) - EnergyAt(id, s[Len(s)])
<1> DEFINE t == SubSeq(s, 1, Len(s) - 1)
<1>1. /\ Len(s) \in Nat \ {0} /\ t \in Seq(Item) /\ Len(t) = Len(s) - 1
      /\ \A n \in 1..Len(t) : t[n] = s[n]
  <2>1. Len(s) \in Nat \ {0} /\ Len(s) - 1 \in Nat
    OBVIOUS
  <2>2. Len(s) - 1 \in 0..Len(s)
    BY <2>1
  <2>3. /\ t \in Seq(Item) /\ Len(t) = Len(s) - 1
        /\ \A n \in 1..(Len(s) - 1) : t[n] = s[n]
    BY <2>2, FirstOnes
  <2> HIDE DEF t
  <2> QED BY <2>1, <2>3
<1>2. Front(s) = t
  BY DEF Front
<1> HIDE DEF t
<1>3. PICK f \in [0..Len(s) -> Nat] : IsSum(f, id, s) /\ EnergyOf(id, s) = f[Len(s)]
  BY EnergySum
<1>4. PICK g \in [0..Len(t) -> Nat] : IsSum(g, id, t) /\ EnergyOf(id, t) = g[Len(t)]
  BY <1>1, EnergySum
<1>5. g[Len(t)] = f[Len(t)]
  <2>1. Begins(t, s) /\ Len(t) \in 0..Len(t)
    BY <1>1 DEF Begins
  <2>2. \A n \in 0..Len(t) : g[n] = f[n]
    <3>1. IsSum(g, id, t) /\ IsSum(f, id, s) /\ t \in Seq(Item)
      BY <1>1, <1>3, <1>4
    <3> QED BY <2>1, <3>1, SumUnique
  <2> QED BY <2>1, <2>2
<1>6. f[Len(s)] = f[Len(s) - 1] + EnergyAt(id, s[Len(s)]) /\ f[Len(s) - 1] \in Nat
  BY <1>1, <1>3, Len(s) \in 0..Len(s), Len(s) # 0, Len(s) - 1 \in 0..Len(s) DEF IsSum
<1>7. s[Len(s)] \in Item
  BY <1>1
<1>8. EnergyAt(id, s[Len(s)]) \in Nat
  BY <1>7, EnergyIsNat
<1> QED BY <1>1, <1>2, <1>3, <1>4, <1>5, <1>6, <1>8

\* Who is not among the prepared parents has no energy there.
LEMMA NoEnergy ==
  ASSUME NEW id, NEW s \in Seq(Item), \A n \in 1..Len(s) : s[n].id # id
  PROVE  EnergyOf(id, s) = 0
<1>1. PICK f \in [0..Len(s) -> Nat] : IsSum(f, id, s) /\ EnergyOf(id, s) = f[Len(s)]
  BY EnergySum
<1> DEFINE T == {n \in Nat : n =< Len(s) => f[n] = 0}
<1>2. 0 \in T
  BY <1>1 DEF IsSum
<1>3. ASSUME NEW n \in Nat, n \in T, n + 1 =< Len(s)
      PROVE  f[n + 1] = 0
  <2>1. n + 1 \in 0..Len(s) /\ n + 1 # 0 /\ (n + 1) - 1 = n /\ n + 1 \in 1..Len(s)
    BY <1>3
  <2>2. f[n + 1] = f[n] + EnergyAt(id, s[n + 1])
    BY <1>1, <2>1 DEF IsSum
  <2> QED BY <1>3, <2>1, <2>2 DEF EnergyAt
<1>4. ASSUME NEW n \in Nat, n \in T
      PROVE  n + 1 \in T
  <2>1. n + 1 \in Nat
    OBVIOUS
  <2> QED BY <1>3, <1>4, <2>1
<1> HIDE DEF T
<1>5. Len(s) \in T
  BY <1>2, <1>4, Induction
<1> QED BY <1>1, <1>5 DEF T

-----------------------------------------------------------------------------
(* The batches.                                                             *)

\* What the proofs carry from state to state: no entry is also culled, and
\* between two calls nothing has been handed out.
BatchInv ==
  /\ BatchOK
  /\ batch \in Seq(Item)
  /\ asked = 0 => handed = 0
  /\ entries \cap retired = {}
  /\ PreparedSuffices
  /\ EnergyIsConserved

\* A refill is worth at least one call and never more than MAX_REFILL.
LEMMA RefillIsEnough ==
  ASSUME NEW size \in 1..MaxSize
  PROVE  /\ RefillSize(size) \in Nat
         /\ size =< RefillSize(size)
         /\ RefillSize(size) =< MAX_REFILL
<1> DEFINE wanted == size * BATCH_MULTIPLICATOR
<1>1. /\ size \in Nat \ {0} /\ MaxSize \in Nat /\ size =< MaxSize /\ MaxSize =< MAX_REFILL
      /\ MIN_REFILL \in Nat /\ MAX_REFILL \in Nat /\ MIN_REFILL =< MAX_REFILL
      /\ BATCH_MULTIPLICATOR \in Nat \ {0}
  BY RefillAssumption
<1>2. wanted \in Nat /\ size =< wanted
  <2>1. \A m \in Nat, n \in Nat \ {0} : m * n \in Nat /\ m =< m * n
    BY SMT
  <2> QED BY <1>1, <2>1
<1> HIDE DEF wanted
<1>3. RefillSize(size) = IF wanted < MIN_REFILL THEN MIN_REFILL
                               ELSE IF wanted > MAX_REFILL THEN MAX_REFILL ELSE wanted
  BY DEF RefillSize, wanted
<1> QED
  <2>1. CASE wanted < MIN_REFILL
    BY <1>1, <1>2, <1>3, <2>1
  <2>2. CASE ~(wanted < MIN_REFILL) /\ wanted > MAX_REFILL
    BY <1>1, <1>2, <1>3, <2>2
  <2>3. CASE ~(wanted < MIN_REFILL) /\ ~(wanted > MAX_REFILL)
    BY <1>1, <1>2, <1>3, <2>3
  <2> QED BY <2>1, <2>2, <2>3

\* What is prepared are entries with some energy.
LEMMA PreparedItems ==
  ASSUME entries \subseteq Ids, NEW n \in Nat,
         NEW ids \in [1..n -> entries], NEW energies \in [1..n -> Energies]
  PROVE  /\ Prepared(ids, energies) \in Seq(Item)
         /\ Len(Prepared(ids, energies)) = n
         /\ \A k \in 1..n : Prepared(ids, energies)[k].id \in entries
<1>1. Energies \subseteq Nat \ {0}
  <2>1. \A k, m \in Nat \ {0} : k * m \in Nat \ {0}
    BY SMT
  <2> QED BY <2>1, RefillAssumption DEF Energies, Magnitudes
<1>2. /\ DOMAIN ids = 1..n
      /\ \A k \in 1..n : ids[k] \in entries /\ ids[k] \in Ids /\ energies[k] \in Nat \ {0}
  BY <1>1
<1>3. Prepared(ids, energies) = [k \in 1..n |-> [id |-> ids[k], energy |-> energies[k]]]
  BY <1>2 DEF Prepared
<1>4. \A k \in 1..n : [id |-> ids[k], energy |-> energies[k]] \in Item
  BY <1>2 DEF Item
<1> QED BY <1>2, <1>3, <1>4

\* A refill adds the energy it owes, and none to a culled entry.
LEMMA BatchRefill ==
  ASSUME BatchInv, NEW size \in 1..MaxSize, NeedsRefill(size), Refill(size)
  PROVE  /\ batch' \in Seq(Item)
         /\ size =< Len(batch') /\ Len(batch') < MaxSize + MAX_REFILL
         /\ due' \in [Ids -> Nat]
         /\ \A id \in Ids : EnergyOf(id, batch') = due'[id]
         /\ \A id \in retired : due'[id] = due[id]
<1> DEFINE n == RefillSize(size)
<1>1. PICK ids \in [1..n -> entries], energies \in [1..n -> Energies] :
        /\ batch' = batch \o Prepared(ids, energies)
        /\ due' = [id \in Ids |-> due[id] + EnergyOf(id, Prepared(ids, energies))]
  BY DEF Refill
<1>2. n \in Nat /\ size =< n /\ n =< MAX_REFILL
  BY RefillIsEnough
<1> HIDE DEF n
<1>3. /\ entries \subseteq Ids /\ retired \subseteq Ids /\ entries \cap retired = {}
      /\ due \in [Ids -> Nat] /\ batch \in Seq(Item)
      /\ \A id \in Ids : EnergyOf(id, batch) = due[id]
  BY DEF BatchInv, BatchOK, EnergyIsConserved
<1>4. PICK p \in Seq(Item) : /\ p = Prepared(ids, energies) /\ Len(p) = n
                             /\ \A k \in 1..n : p[k].id \in entries
  BY <1>2, <1>3, PreparedItems
<1>5. Len(batch) \in Nat /\ Len(batch) < size
  BY <1>3 DEF NeedsRefill
<1>6. batch' \in Seq(Item) /\ Len(batch') = Len(batch) + n
  BY <1>1, <1>3, <1>4
<1>7. \A id \in Ids : due'[id] = due[id] + EnergyOf(id, p) /\ EnergyOf(id, p) \in Nat
  BY <1>1, <1>4, EnergyType
<1>8. due' \in [Ids -> Nat]
  BY <1>1, <1>3, <1>4, <1>7
<1>9. ASSUME NEW id \in Ids
      PROVE  EnergyOf(id, batch') = due'[id]
  BY <1>1, <1>3, <1>4, <1>7, EnergyConcat
<1>10. ASSUME NEW id \in retired
       PROVE  due'[id] = due[id]
  <2>1. \A k \in 1..Len(p) : p[k].id # id
    BY <1>3, <1>4
  <2>2. EnergyOf(id, p) = 0
    BY <1>4, <2>1, NoEnergy
  <2> QED BY <1>3, <1>7, <2>2
<1> QED BY <1>2, <1>5, <1>6, <1>8, <1>9, <1>10, RefillAssumption

\* One unit of energy is spent, of the parent that was drawn.
LEMMA BatchSpend ==
  ASSUME BatchInv, NEW k \in DOMAIN batch, Spend(k)
  PROVE  /\ batch' \in Seq(Item) /\ Len(batch') \in {Len(batch), Len(batch) - 1}
         /\ \A id \in Ids : EnergyOf(id, batch')
                              = EnergyOf(id, batch) - IF id = batch[k].id THEN 1 ELSE 0
<1>1. /\ batch \in Seq(Item) /\ Len(batch) \in Nat \ {0} /\ k \in 1..Len(batch)
      /\ batch[k] \in Item /\ batch[Len(batch)] \in Item
  BY DEF BatchInv
<1>2. CASE batch[k].energy = 1
  <2> DEFINE swapped == [batch EXCEPT ![k] = batch[Len(batch)]]
  <2>1. swapped \in Seq(Item) /\ Len(swapped) = Len(batch) /\ swapped[Len(batch)] = batch[Len(batch)]
    BY <1>1
  <2>2. batch' = Front(swapped)
    BY <1>2 DEF Spend, SwapRemove, Last
  <2>3. batch' = SubSeq(swapped, 1, Len(swapped) - 1)
    BY <2>2 DEF Front
  <2> HIDE DEF swapped
  <2>4. batch' \in Seq(Item) /\ Len(batch') = Len(batch) - 1
    BY <1>1, <2>1, <2>3
  <2>5. ASSUME NEW id \in Ids
        PROVE  EnergyOf(id, batch') = EnergyOf(id, batch) - IF id = batch[k].id THEN 1 ELSE 0
    <3>1. EnergyOf(id, swapped)
            = EnergyOf(id, batch) - EnergyAt(id, batch[k]) + EnergyAt(id, batch[Len(batch)])
      BY <1>1, EnergyReplace DEF swapped
    <3>2. EnergyOf(id, batch') = EnergyOf(id, swapped) - EnergyAt(id, batch[Len(batch)])
      <4>1. swapped # << >>
        BY <1>1, <2>1
      <4> QED BY <2>1, <2>2, <4>1, EnergyFront
    <3>3. EnergyAt(id, batch[k]) = IF id = batch[k].id THEN 1 ELSE 0
      BY <1>2 DEF EnergyAt
    <3>4. EnergyOf(id, batch) \in Nat /\ EnergyAt(id, batch[Len(batch)]) \in Nat
      BY <1>1, EnergyType, EnergyIsNat
    <3> QED BY <3>1, <3>2, <3>3, <3>4
  <2> QED BY <2>4, <2>5
<1>3. CASE batch[k].energy # 1
  <2> DEFINE x == [batch[k] EXCEPT !.energy = @ - 1]
  <2>1. x \in Item
    BY <1>1, <1>3 DEF Item
  <2>2. x.id = batch[k].id /\ x.energy = batch[k].energy - 1 /\ batch[k].energy \in Nat
    BY <1>1 DEF Item
  <2>3. batch' = [batch EXCEPT ![k] = x]
    BY <1>3 DEF Spend
  <2> HIDE DEF x
  <2>4. batch' \in Seq(Item) /\ Len(batch') = Len(batch)
    BY <1>1, <2>1, <2>3
  <2>5. ASSUME NEW id \in Ids
        PROVE  EnergyOf(id, batch') = EnergyOf(id, batch) - IF id = batch[k].id THEN 1 ELSE 0
    <3>1. EnergyOf(id, batch') = EnergyOf(id, batch) - EnergyAt(id, batch[k]) + EnergyAt(id, x)
      BY <1>1, <2>1, <2>3, EnergyReplace
    <3>2. EnergyAt(id, batch[k]) - EnergyAt(id, x) = IF id = batch[k].id THEN 1 ELSE 0
      BY <2>2 DEF EnergyAt
    <3>3. EnergyOf(id, batch) \in Nat /\ EnergyAt(id, batch[k]) \in Nat /\ EnergyAt(id, x) \in Nat
      BY <1>1, <2>1, EnergyType, EnergyIsNat
    <3> QED BY <3>1, <3>2, <3>3
  <2> QED BY <2>4, <2>5
<1> QED BY <1>2, <1>3

\* The rest of BatchOK follows from the type of the batch.
LEMMA BatchTyped ==
  ASSUME NEW b \in Seq(Item)
  PROVE  \A k \in DOMAIN b : b[k].id \in Ids /\ b[k].energy > 0
<1>1. \A k \in DOMAIN b : b[k] \in Item
  OBVIOUS
<1> QED BY <1>1 DEF Item

LEMMA NextBatchStep ==
  ASSUME BatchInv, NEW size \in 1..MaxSize, next_batch(size)
  PROVE  BatchInv' /\ \A id \in retired : due'[id] =< due[id]
<1>1. asked' = size /\ handed' = 0 /\ UNCHANGED <<entries, retired>>
  BY DEF next_batch
<1>2. Len(batch) \in Nat /\ due \in [Ids -> Nat] /\ retired \subseteq Ids
  BY DEF BatchInv, BatchOK
<1>3. /\ batch' \in Seq(Item)
      /\ size =< Len(batch') /\ Len(batch') < MaxSize + MAX_REFILL
      /\ due' \in [Ids -> Nat]
      /\ \A id \in Ids : EnergyOf(id, batch') = due'[id]
      /\ \A id \in retired : due'[id] = due[id]
  <2>1. CASE NeedsRefill(size) /\ Refill(size)
    BY <2>1, BatchRefill
  <2>2. CASE ~NeedsRefill(size) /\ UNCHANGED <<batch, due>>
    <3>1. size =< Len(batch) /\ Len(batch) < MaxSize + MAX_REFILL
      BY <1>2, <2>2 DEF NeedsRefill, BatchInv, PreparedSuffices, BatchIsBounded
    <3> QED BY <1>2, <2>2, <3>1 DEF BatchInv, BatchOK, EnergyIsConserved
  <2> QED BY <2>1, <2>2 DEF next_batch
<1>4. size \in Nat \ {0} /\ 0 \in 0..MaxSize /\ size \in 0..MaxSize
  BY RefillAssumption
<1>5. BatchOK'
  BY <1>1, <1>3, <1>4, BatchTyped DEF BatchInv, BatchOK
<1>6. PreparedSuffices'
  BY <1>1, <1>3, <1>4 DEF PreparedSuffices, EnoughPrepared, BatchIsBounded
<1>7. EnergyIsConserved'
  BY <1>3 DEF EnergyIsConserved
<1>8. \A id \in retired : due'[id] =< due[id]
  BY <1>2, <1>3
<1> QED BY <1>1, <1>3, <1>4, <1>5, <1>6, <1>7, <1>8 DEF BatchInv

LEMMA DrawStep ==
  ASSUME BatchInv, Draw
  PROVE  BatchInv' /\ \A id \in retired : due'[id] =< due[id]
<1>1. PICK k \in DOMAIN batch : Spend(k) /\ due' = [due EXCEPT ![batch[k].id] = @ - 1]
  BY DEF Draw
<1>2. /\ batch' \in Seq(Item) /\ Len(batch') \in {Len(batch), Len(batch) - 1}
      /\ \A id \in Ids : EnergyOf(id, batch')
                           = EnergyOf(id, batch) - IF id = batch[k].id THEN 1 ELSE 0
  BY <1>1, BatchSpend
<1>3. /\ asked > 0 /\ UNCHANGED <<entries, retired>>
      /\ \/ handed + 1 < asked /\ handed' = handed + 1 /\ UNCHANGED asked
         \/ handed + 1 = asked /\ handed' = 0 /\ asked' = 0
  BY DEF Draw
<1>4. /\ asked \in 0..MaxSize /\ handed \in 0..MaxSize /\ MaxSize \in Nat /\ MAX_REFILL \in Nat
      /\ Len(batch) \in Nat /\ Len(batch') \in Nat /\ batch[k].id \in Ids
      /\ due \in [Ids -> Nat] /\ retired \subseteq Ids
      /\ \A id \in Ids : EnergyOf(id, batch) = due[id]
  BY <1>2, RefillAssumption DEF BatchInv, BatchOK, EnergyIsConserved
<1>5. /\ asked' \in 0..MaxSize /\ handed' \in 0..MaxSize /\ (asked' > 0 => handed' < asked')
      /\ asked' = 0 => handed' = 0
  BY <1>3, <1>4
<1>6. \A id \in Ids : due'[id] = due[id] - IF id = batch[k].id THEN 1 ELSE 0
  BY <1>1, <1>4
<1>7. \A id \in Ids : EnergyOf(id, batch') = due'[id]
  BY <1>2, <1>4, <1>6
<1>8. due' \in [Ids -> Nat]
  <2>1. \A id \in Ids : due'[id] \in Nat
    BY <1>2, <1>7, EnergyType
  <2> QED BY <1>1, <1>4, <2>1
<1>9. BatchOK'
  BY <1>2, <1>3, <1>5, <1>8, BatchTyped DEF BatchInv, BatchOK
<1>10. PreparedSuffices'
  BY <1>2, <1>3, <1>4 DEF BatchInv, PreparedSuffices, EnoughPrepared, BatchIsBounded
<1>11. \A id \in retired : due'[id] =< due[id]
  BY <1>4, <1>6
<1> QED BY <1>2, <1>3, <1>5, <1>7, <1>9, <1>10, <1>11 DEF BatchInv, EnergyIsConserved

LEMMA EntryStep ==
  ASSUME BatchInv, NEW id \in Ids, on_add(id) \/ on_remove(id)
  PROVE  BatchInv' /\ UNCHANGED due
<1>1. UNCHANGED <<batch, asked, handed, due>>
  BY DEF on_add, on_remove
<1>2. entries' \subseteq Ids /\ retired' \subseteq Ids /\ entries' \cap retired' = {}
  BY DEF on_add, on_remove, BatchInv, BatchOK
<1>3. BatchOK'
  BY <1>1, <1>2 DEF BatchInv, BatchOK
<1>4. PreparedSuffices' /\ EnergyIsConserved'
  BY <1>1 DEF BatchInv, PreparedSuffices, EnoughPrepared, BatchIsBounded, EnergyIsConserved
<1> QED BY <1>1, <1>2, <1>3, <1>4 DEF BatchInv

LEMMA BatchResetStep ==
  ASSUME BatchInv, batch_reset
  PROVE  BatchInv' /\ \A id \in retired : due'[id] =< due[id]
<1>1. /\ asked = 0 /\ entries' = {} /\ batch' = << >> /\ due' = [id \in Ids |-> 0]
      /\ UNCHANGED <<asked, handed, retired>>
  BY DEF batch_reset
<1>2. << >> \in Seq(Item) /\ Len(<< >>) = 0
  OBVIOUS
<1>3. /\ due' \in [Ids -> Nat] /\ due \in [Ids -> Nat] /\ retired \subseteq Ids
      /\ \A id \in Ids : due'[id] = 0
  BY <1>1 DEF BatchInv, BatchOK
<1>4. EnergyIsConserved'
  BY <1>1, <1>3, EmptyEnergy DEF EnergyIsConserved
<1>5. BatchOK'
  BY <1>1, <1>2, <1>3, BatchTyped DEF BatchInv, BatchOK
<1>6. PreparedSuffices'
  BY <1>1, <1>2, RefillAssumption DEF BatchInv, PreparedSuffices, EnoughPrepared, BatchIsBounded
<1>7. \A id \in retired : due'[id] =< due[id]
  BY <1>3
<1> QED BY <1>1, <1>2, <1>4, <1>5, <1>6, <1>7 DEF BatchInv

LEMMA BatchStart == BatchInit => BatchInv
<1> SUFFICES ASSUME BatchInit PROVE BatchInv
  OBVIOUS
<1>1. << >> \in Seq(Item) /\ Len(<< >>) = 0
  OBVIOUS
<1>2. EnergyIsConserved
  BY EmptyEnergy DEF BatchInit, EnergyIsConserved
<1>3. BatchOK /\ PreparedSuffices
  BY <1>1, BatchTyped, RefillAssumption
     DEF BatchInit, BatchOK, PreparedSuffices, EnoughPrepared, BatchIsBounded
<1> QED BY <1>1, <1>2, <1>3 DEF BatchInit, BatchInv

LEMMA BatchStep ==
  ASSUME BatchInv, [BatchNext]_batch_vars
  PROVE  BatchInv' /\ \A id \in retired : due'[id] =< due[id]
<1>1. due \in [Ids -> Nat] /\ retired \subseteq Ids
  BY DEF BatchInv, BatchOK
<1>2. ASSUME NEW size \in 1..MaxSize, next_batch(size)
      PROVE  BatchInv' /\ \A id \in retired : due'[id] =< due[id]
  BY <1>2, NextBatchStep
<1>3. CASE Draw
  BY <1>3, DrawStep
<1>4. ASSUME NEW id \in Ids, on_add(id) \/ on_remove(id)
      PROVE  BatchInv' /\ \A i \in retired : due'[i] =< due[i]
  <2>1. BatchInv' /\ UNCHANGED due
    BY <1>4, EntryStep
  <2> QED BY <1>1, <2>1
<1>5. CASE batch_reset
  BY <1>5, BatchResetStep
<1>6. CASE UNCHANGED batch_vars
  BY <1>1, <1>6 DEF batch_vars, BatchInv, BatchOK, PreparedSuffices, EnoughPrepared,
                    BatchIsBounded, EnergyIsConserved
<1> QED BY <1>2, <1>3, <1>4, <1>5, <1>6 DEF BatchNext

LEMMA BatchesAreCorrect == BatchSpec => []BatchInv
<1>1. BatchInv /\ [BatchNext]_batch_vars => BatchInv'
  BY BatchStep
<1> QED BY <1>1, BatchStart, PTL DEF BatchSpec

\* No prepared parent is out of energy, and a call never hands out more than it
\* was asked for.
THEOREM BatchesAreTyped == BatchSpec => []BatchOK
<1>1. BatchInv => BatchOK
  BY DEF BatchInv
<1> QED BY <1>1, BatchesAreCorrect, PTL

\* A call that was begun never finds its window empty, though a refill is cut
\* off at MAX_REFILL, and leftovers do not pile up from call to call.
THEOREM EnoughIsPrepared == BatchSpec => []PreparedSuffices
<1>1. BatchInv => PreparedSuffices
  BY DEF BatchInv
<1> QED BY <1>1, BatchesAreCorrect, PTL

\* Whatever is drawn and whatever is swapped to where, an entry is handed out
\* as often as its energy says: the sums over what is prepared follow.
THEOREM EnergyIsHandedOut == BatchSpec => []EnergyIsConserved
<1>1. BatchInv => EnergyIsConserved
  BY DEF BatchInv
<1> QED BY <1>1, BatchesAreCorrect, PTL

\* No call, refill or reset gives a culled entry more turns than it had left.
THEOREM CulledEntriesFadeOut == BatchSpec => CulledFadeOut
<1>1. BatchInv /\ [BatchNext]_batch_vars => [\A id \in retired : due'[id] =< due[id]]_batch_vars
  BY BatchStep
<1> QED BY <1>1, BatchesAreCorrect, PTL DEF BatchSpec, CulledFadeOut
=============================================================================
