--------------------------- MODULE ExecLoop_proofs ---------------------------
(***************************************************************************)
(* Proofs about ExecLoop for any number of tests, tokens and oracles.       *)
(***************************************************************************)
EXTENDS ExecLoop, FiniteSetTheorems, TLAPS

-----------------------------------------------------------------------------
(* What taking from and adding to a queue does to the set of its elements.  *)

\* Taking the head of a queue without duplicates removes exactly that element.
LEMMA TailSet ==
  ASSUME NEW S, NEW s \in Seq(S), s # << >>, IsInjective(s)
  PROVE  /\ Tail(s) \in Seq(S)
         /\ Head(s) \in S
         /\ Len(Tail(s)) = Len(s) - 1
         /\ IsInjective(Tail(s))
         /\ Head(s) \in ToSet(s)
         /\ ToSet(Tail(s)) = ToSet(s) \ {Head(s)}
<1>1. /\ Len(s) \in Nat \ {0}
      /\ Tail(s) \in Seq(S)
      /\ Len(Tail(s)) = Len(s) - 1
      /\ \A i \in 1..(Len(s) - 1) : Tail(s)[i] = s[i + 1]
      /\ DOMAIN s = 1..Len(s) /\ DOMAIN Tail(s) = 1..(Len(s) - 1)
      /\ Head(s) = s[1] /\ Head(s) \in S
  OBVIOUS
<1>2. IsInjective(Tail(s))
  BY <1>1 DEF IsInjective
<1>3. Head(s) \in ToSet(s)
  BY <1>1 DEF ToSet
<1>4. ASSUME NEW i \in DOMAIN Tail(s)
      PROVE  Tail(s)[i] \in ToSet(s) \ {Head(s)}
  BY <1>1, i + 1 \in DOMAIN s, i + 1 # 1 DEF ToSet, IsInjective
<1>5. ASSUME NEW i \in DOMAIN s, s[i] # Head(s)
      PROVE  s[i] \in ToSet(Tail(s))
  <2>1. i - 1 \in DOMAIN Tail(s) /\ Tail(s)[i - 1] = s[i]
    BY <1>1, <1>5, i # 1
  <2> QED BY <2>1 DEF ToSet
<1> QED BY <1>1, <1>2, <1>3, <1>4, <1>5 DEF ToSet

\* The same for any queue: what is left was in it before.
LEMMA TailSubset ==
  ASSUME NEW S, NEW s \in Seq(S), s # << >>
  PROVE  /\ Tail(s) \in Seq(S)
         /\ Head(s) \in S
         /\ Len(Tail(s)) = Len(s) - 1
         /\ Head(s) \in ToSet(s)
         /\ ToSet(Tail(s)) \subseteq ToSet(s)
<1>1. /\ Len(s) \in Nat \ {0}
      /\ \A i \in 1..(Len(s) - 1) : Tail(s)[i] = s[i + 1] /\ i + 1 \in 1..Len(s)
      /\ DOMAIN s = 1..Len(s) /\ DOMAIN Tail(s) = 1..(Len(s) - 1)
      /\ Head(s) = s[1]
  OBVIOUS
<1> QED BY <1>1 DEF ToSet

\* Appending adds the element; there is no duplicate when it is new.
LEMMA AppendSet ==
  ASSUME NEW S, NEW s \in Seq(S), NEW e \in S
  PROVE  /\ Append(s, e) \in Seq(S)
         /\ Append(s, e) # << >>
         /\ Len(Append(s, e)) = Len(s) + 1
         /\ ToSet(Append(s, e)) = ToSet(s) \cup {e}
         /\ IsInjective(s) /\ e \notin ToSet(s) => IsInjective(Append(s, e))
<1>1. /\ Len(s) \in Nat
      /\ Append(s, e) \in Seq(S)
      /\ Len(Append(s, e)) = Len(s) + 1
      /\ DOMAIN s = 1..Len(s) /\ DOMAIN Append(s, e) = 1..(Len(s) + 1)
      /\ \A i \in 1..Len(s) : Append(s, e)[i] = s[i]
      /\ Append(s, e)[Len(s) + 1] = e
  OBVIOUS
<1>2. \A i \in 1..(Len(s) + 1) : i \in 1..Len(s) \/ i = Len(s) + 1
  BY <1>1
<1>3. ToSet(Append(s, e)) = ToSet(s) \cup {e}
  BY <1>1, <1>2 DEF ToSet
<1>4. IsInjective(s) /\ e \notin ToSet(s) => IsInjective(Append(s, e))
  BY <1>1, <1>2 DEF ToSet, IsInjective
<1> QED BY <1>1, <1>3, <1>4

\* Concatenation adds up the lengths.
LEMMA ConcatLen ==
  ASSUME NEW S, NEW s \in Seq(S), NEW t \in Seq(S)
  PROVE  /\ s \o t \in Seq(S)
         /\ Len(s \o t) = Len(s) + Len(t)
         /\ s = << >> => s \o t = t
OBVIOUS

-----------------------------------------------------------------------------
(* Type correctness.  unfinished stays a natural number only because        *)
(* task_done is called for what was put and taken before.                   *)

Counted == unfinished = Len(incoming) + Cardinality(Busy)

\* The number of busy oracles when one of them takes a capture or ends it.
LEMMA BusyCount ==
  ASSUME TypeOK
  PROVE  /\ IsFiniteSet(Busy)
         /\ Cardinality(Busy) \in Nat
         /\ \A o \in Busy : /\ Cardinality(Busy) > 0
                            /\ Cardinality(Busy \ {o}) = Cardinality(Busy) - 1
         /\ \A o \in Oracles \ Busy : Cardinality(Busy \cup {o}) = Cardinality(Busy) + 1
<1>1. IsFiniteSet(Busy)
  BY FS_Subset, ExecAssumption DEF Busy
<1>2. Cardinality(Busy) \in Nat
  BY <1>1, FS_CardinalityType
<1>3. ASSUME NEW o \in Busy
      PROVE  Cardinality(Busy) > 0 /\ Cardinality(Busy \ {o}) = Cardinality(Busy) - 1
  BY <1>1, <1>2, FS_RemoveElement, FS_EmptySet
<1>4. ASSUME NEW o \in Oracles \ Busy
      PROVE  Cardinality(Busy \cup {o}) = Cardinality(Busy) + 1
  BY <1>1, FS_AddElement
<1> QED BY <1>1, <1>2, <1>3, <1>4

\* The channel of tokens is full at first.
LEMMA InitFree ==
  ASSUME Init
  PROVE  free \in Seq(Tokens) /\ IsInjective(free) /\ ToSet(free) = Tokens
<1>1. Cardinality(Tokens) \in Nat
  BY FS_CardinalityType, ExecAssumption
<1> QED BY <1>1 DEF Init

LEMMA TypeInit == Init => TypeOK /\ Counted
<1> SUFFICES ASSUME Init PROVE TypeOK /\ Counted
  OBVIOUS
<1>1. free \in Seq(Tokens)
  BY InitFree
<1>2. RESET_EVERY \in Nat \ {0}
  BY ExecAssumption
<1>3. TypeOK
  <2>1. 0 \in 0..(RESET_EVERY - 1)
    BY <1>2
  <2>2. resets \in [Tokens -> 0..(RESET_EVERY - 1)]
    BY <2>1 DEF Init
  <2>3. incoming \in Seq(Tests \cup {None})
    BY DEF Init
  <2> QED BY <1>1, <2>2, <2>3 DEF Init, TypeOK
<1>4. Busy = {}
  BY NamesAssumption DEF Init, Busy
<1> QED BY <1>3, <1>4, FS_EmptySet DEF Init, Counted

-----------------------------------------------------------------------------
(* Tokens.                                                                  *)

LEMMA TokensInit == Init => TokensConserved
<1> SUFFICES ASSUME Init PROVE TokensConserved
  OBVIOUS
<1>1. \A t \in Tests : ~Holds(t) /\ token[t] = None
  BY DEF Init, Holds
<1>2. None \notin Tokens
  BY ExecAssumption
<1> QED BY <1>1, <1>2, InitFree DEF TokensConserved

\* A test that takes the oldest token from the channel holds it alone.
LEMMA TakeToken ==
  ASSUME TypeOK, TokensConserved, NEW t \in Tests, Recv(t)
  PROVE  /\ token' \in [Tests -> Tokens \cup {None}]
         /\ free' \in Seq(Tokens)
         /\ TokensConserved'
<1> DEFINE k == Head(free)
<1>1. /\ free \in Seq(Tokens) /\ free # << >> /\ IsInjective(free)
      /\ free' = Tail(free)
      /\ token' = [token EXCEPT ![t] = k]
      /\ task' = [task EXCEPT ![t] = "exec"]
  BY DEF TypeOK, TokensConserved, Recv, Goto
<1>2. /\ free' \in Seq(Tokens) /\ IsInjective(free') /\ k \in Tokens
      /\ k \in ToSet(free) /\ ToSet(free') = ToSet(free) \ {k}
  BY <1>1, TailSet
<1>3. k # None /\ \A u \in Tests : token[u] # k
  BY <1>2, ExecAssumption DEF TokensConserved
<1> HIDE DEF k
<1>4. token' \in [Tests -> Tokens \cup {None}] /\ task \in [Tests -> {"new", "recv", "exec", "run", "put", "done"}]
      /\ token \in [Tests -> Tokens \cup {None}]
  BY <1>1, <1>2 DEF TypeOK
<1>5. \A u \in Tests : Holds(u)' <=> token'[u] # None
  BY <1>1, <1>3, <1>4 DEF TokensConserved, Holds
<1>6. \A u, w \in Tests : token'[u] = token'[w] /\ token'[u] # None => u = w
  BY <1>1, <1>3, <1>4 DEF TokensConserved
<1>7. \A j \in Tokens : j \in ToSet(free') <=> \A u \in Tests : token'[u] # j
  <2>1. token[t] = None /\ None \notin Tokens
    BY ExecAssumption DEF TokensConserved, Recv, Holds
  <2>2. ASSUME NEW j \in Tokens, j # k
        PROVE  j \in ToSet(free') <=> \A u \in Tests : token'[u] # j
    <3>1. \A u \in Tests : token'[u] = j <=> token[u] = j
      BY <2>1, <2>2, <1>1, <1>4
    <3> QED BY <3>1, <2>2, <1>2 DEF TokensConserved
  <2>3. k \notin ToSet(free') /\ token'[t] = k
    BY <1>1, <1>2, <1>4
  <2> QED BY <2>2, <2>3
<1> QED BY <1>2, <1>4, <1>5, <1>6, <1>7 DEF TokensConserved

\* A test that gives its token back holds none, and the channel has it once.
LEMMA GiveToken ==
  ASSUME TypeOK, TokensConserved, NEW t \in Tests, Holds(t),
         ReturnToken(t), NEW place \in {"put", "done"}, Goto(t, place)
  PROVE  /\ token[t] \in Tokens
         /\ token' \in [Tests -> Tokens \cup {None}]
         /\ free' \in Seq(Tokens)
         /\ shmem' \in [Tokens -> SUBSET (Tests \cup {Shell})]
         /\ ToSet(free') = ToSet(free) \cup {token[t]}
         /\ TokensConserved'
<1> DEFINE k == token[t]
<1>1. /\ task \in [Tests -> {"new", "recv", "exec", "run", "put", "done"}]
      /\ token \in [Tests -> Tokens \cup {None}]
      /\ free \in Seq(Tokens) /\ IsInjective(free)
      /\ shmem \in [Tokens -> SUBSET (Tests \cup {Shell})]
      /\ k \in Tokens /\ k # None /\ None \notin Tokens
  BY ExecAssumption DEF TypeOK, TokensConserved
<1>2. /\ free' = Append(free, k)
      /\ token' = [token EXCEPT ![t] = None]
      /\ shmem' = [shmem EXCEPT ![k] = {}]
      /\ task' = [task EXCEPT ![t] = place]
  BY DEF ReturnToken, Goto
<1>3. k \notin ToSet(free)
  BY <1>1 DEF TokensConserved
<1> HIDE DEF k
<1>4. /\ free' \in Seq(Tokens) /\ IsInjective(free')
      /\ ToSet(free') = ToSet(free) \cup {k}
  BY <1>1, <1>2, <1>3, AppendSet
<1>5. /\ token' \in [Tests -> Tokens \cup {None}]
      /\ shmem' \in [Tokens -> SUBSET (Tests \cup {Shell})]
  BY <1>1, <1>2
<1>6. \A u \in Tests : Holds(u)' <=> token'[u] # None
  BY <1>1, <1>2 DEF TokensConserved, Holds
<1>7. \A u, w \in Tests : token'[u] = token'[w] /\ token'[u] # None => u = w
  BY <1>1, <1>2 DEF TokensConserved
<1>8. \A j \in Tokens : j \in ToSet(free') <=> \A u \in Tests : token'[u] # j
  BY <1>1, <1>2, <1>4 DEF TokensConserved, k
<1> QED BY <1>1, <1>4, <1>5, <1>6, <1>7, <1>8 DEF TokensConserved, k

-----------------------------------------------------------------------------
(* The steps of a test and of an oracle.                                    *)

Places == {"recv", "exec", "run", "put", "done"}

\* A step of a test moves only that test, which was started and is not over,
\* and leaves the loop alone.
LEMMA TestStep ==
  ASSUME NEW t \in Tests, run_single_mutation(t)
  PROVE  /\ task[t] \in {"recv", "exec", "run", "put"}
         /\ UNCHANGED loopVars
         /\ \E place \in Places : task' = [task EXCEPT ![t] = place]
BY DEF run_single_mutation, Recv, Execute, Succeed, SyntaxError, CrashOrHang,
       Fail, Put, Conclude, Goto, Holds, Places

\* A step of an oracle moves no test and leaves the loop alone.
LEMMA OracleStep ==
  ASSUME NEW o \in Oracles, oracle_worker(o)
  PROVE  UNCHANGED <<loopVars, task, engineVars>>
BY DEF oracle_worker, Get, TaskDone

\* No seed is started before the first query is over.
SeedsWait == phase = "literal" => \A t \in Seeds : task[t] = "new"

LEMMA SeedsWaitStep ==
  ASSUME TypeOK, SeedsWait, [Next]_vars
  PROVE  SeedsWait'
<1>1. ASSUME NEW t \in Tests, run_single_mutation(t) PROVE SeedsWait'
  <2>1. PICK place \in Places : task' = [task EXCEPT ![t] = place]
    BY <1>1, TestStep
  <2>2. task[t] # "new" /\ phase' = phase
    BY <1>1, TestStep DEF loopVars
  <2> QED BY <2>1, <2>2 DEF SeedsWait, TypeOK, Tests
<1>2. ASSUME NEW o \in Oracles, oracle_worker(o) PROVE SeedsWait'
  BY <1>2, OracleStep DEF SeedsWait, loopVars
<1>3. CASE LiteralDone \/ SeedsDone \/ Spawn \/ FirstCompleted \/ Drain \/ Join
  BY <1>3 DEF SeedsWait, LiteralDone, SeedsDone, Spawn, FirstCompleted, Drain, Join
<1>4. CASE Stop \/ UNCHANGED vars \/ \E k \in Tokens : CommandLoop(k)
  BY <1>4 DEF SeedsWait, Stop, CommandLoop, vars, loopVars
<1> QED BY <1>1, <1>2, <1>3, <1>4 DEF Next

-----------------------------------------------------------------------------
(* These invariants are inductive together: giving a token back relies on   *)
(* holding one, and counting task_done calls on what is in the queue.       *)

Basics == TypeOK /\ Counted /\ TokensConserved /\ SeedsWait

\* The state of a worker keeps its type when its process is reset or dies.
LEMMA WorkerType ==
  ASSUME TypeOK, NEW k \in Tokens, Reset(k) \/ Died(k) \/ UNCHANGED <<proc, resets>>
  PROVE  /\ proc' \in [Tokens -> BOOLEAN]
         /\ resets' \in [Tokens -> 0..(RESET_EVERY - 1)]
<1>1. /\ proc \in [Tokens -> BOOLEAN]
      /\ resets \in [Tokens -> 0..(RESET_EVERY - 1)]
      /\ RESET_EVERY \in Nat \ {0}
  BY ExecAssumption DEF TypeOK
<1>2. (resets[k] + 1) % RESET_EVERY \in 0..(RESET_EVERY - 1)
  BY <1>1
<1> QED BY <1>1, <1>2 DEF Reset, Died

\* Every way out of an execution keeps the basic invariants.
LEMMA ConcludeBasics ==
  ASSUME Basics, SeedsWait', NEW t \in Tests, Holds(t),
         Reset(token[t]) \/ Died(token[t]) \/ UNCHANGED <<proc, resets>>,
         NEW place \in {"put", "done"}, Conclude(t, place)
  PROVE  Basics'
<1>1. /\ token[t] \in Tokens
      /\ token' \in [Tests -> Tokens \cup {None}]
      /\ free' \in Seq(Tokens)
      /\ shmem' \in [Tokens -> SUBSET (Tests \cup {Shell})]
      /\ TokensConserved'
  BY GiveToken DEF Basics, Conclude
<1>2. /\ proc' \in [Tokens -> BOOLEAN]
      /\ resets' \in [Tokens -> 0..(RESET_EVERY - 1)]
  BY <1>1, WorkerType DEF Basics
<1>3. /\ fired' \in [Tests -> Nat]
      /\ task' \in [Tests -> {"new", "recv", "exec", "run", "put", "done"}]
  BY DEF Basics, TypeOK, Conclude, Goto
<1>4. TypeOK'
  BY <1>1, <1>2, <1>3 DEF Basics, TypeOK, Conclude, loopVars, oracleVars
<1>5. Counted'
  BY DEF Basics, Counted, Busy, Conclude, oracleVars
<1> QED BY <1>1, <1>4, <1>5 DEF Basics

\* TokensConserved only reads the channel, the tokens held and who holds one.
LEMMA TokensUnchanged ==
  ASSUME TokensConserved, UNCHANGED <<free, token>>,
         \A t \in Tests : Holds(t)' <=> Holds(t)
  PROVE  TokensConserved'
BY DEF TokensConserved

\* Closing the workers keeps the types of their state.
LEMMA CloseType ==
  ASSUME TypeOK, CloseWorkers
  PROVE  /\ shmem' \in [Tokens -> SUBSET (Tests \cup {Shell})]
         /\ proc' \in [Tokens -> BOOLEAN]
         /\ resets' \in [Tokens -> 0..(RESET_EVERY - 1)]
<1>1. 0 \in 0..(RESET_EVERY - 1)
  BY ExecAssumption
<1> QED BY <1>1 DEF TypeOK, CloseWorkers

\* The queue once the pills were put.
LEMMA PillsAppended ==
  ASSUME TypeOK, Join
  PROVE  /\ incoming' \in Seq(Tests \cup {None})
         /\ Cardinality(Oracles) \in Nat
         /\ Len(incoming') = Len(incoming) + Cardinality(Oracles)
         /\ incoming = << >> => \A i \in DOMAIN incoming' : incoming'[i] = None
<1> DEFINE pills == [i \in 1..Cardinality(Oracles) |-> None]
<1>1. Cardinality(Oracles) \in Nat
  BY FS_CardinalityType, ExecAssumption
<1>2. pills \in Seq(Tests \cup {None}) /\ Len(pills) = Cardinality(Oracles)
  BY <1>1
<1>3. \A i \in 1..Cardinality(Oracles) : pills[i] = None
  BY <1>1
<1>4. incoming' = incoming \o pills
  BY DEF Join
<1>5. incoming \in Seq(Tests \cup {None})
  BY DEF TypeOK
<1> HIDE DEF pills
<1>6. /\ incoming' \in Seq(Tests \cup {None})
      /\ Len(incoming') = Len(incoming) + Cardinality(Oracles)
  BY <1>2, <1>4, <1>5, ConcatLen
<1>7. ASSUME incoming = << >>
      PROVE  \A i \in DOMAIN incoming' : incoming'[i] = None
  <2>1. incoming' = pills
    BY <1>2, <1>4, <1>5, <1>7, ConcatLen
  <2> QED BY <2>1, <1>1, <1>2, <1>3
<1> QED BY <1>1, <1>6, <1>7

LEMMA BasicsStep ==
  ASSUME Basics, [Next]_vars
  PROVE  Basics'
<1> USE DEF Basics
<1> SeedsWait'
  BY SeedsWaitStep
<1>1. ASSUME NEW t \in Tests, Recv(t) PROVE Basics'
  <2>1. TypeOK'
    BY <1>1, TakeToken DEF TypeOK, Recv, Goto, loopVars, oracleVars
  <2>2. Counted'
    BY <1>1 DEF Counted, Busy, Recv, oracleVars
  <2> QED BY <1>1, <2>1, <2>2, TakeToken
<1>2. ASSUME NEW t \in Tests, Execute(t) PROVE Basics'
  <2>1. token[t] \in Tokens
    BY <1>2 DEF TypeOK, TokensConserved, Execute, Holds
  <2>2. /\ proc' \in [Tokens -> BOOLEAN]
        /\ shmem' \in [Tokens -> SUBSET (Tests \cup {Shell})]
        /\ task' \in [Tests -> {"new", "recv", "exec", "run", "put", "done"}]
    BY <1>2, <2>1 DEF TypeOK, Execute, Goto
  <2>3. TypeOK'
    BY <1>2, <2>2 DEF TypeOK, Execute, loopVars, oracleVars
  <2>4. Counted'
    BY <1>2 DEF Counted, Busy, Execute, oracleVars
  <2>5. TokensConserved'
    BY <1>2, TokensUnchanged DEF TypeOK, Execute, Goto, Holds
  <2> QED BY <2>3, <2>4, <2>5
<1>3. ASSUME NEW t \in Tests, Succeed(t) PROVE Basics'
  BY <1>3, ConcludeBasics DEF Succeed, Holds
<1>4. ASSUME NEW t \in Tests, SyntaxError(t) PROVE Basics'
  BY <1>4, ConcludeBasics DEF SyntaxError, Holds
<1>5. ASSUME NEW t \in Tests, CrashOrHang(t) PROVE Basics'
  BY <1>5, ConcludeBasics DEF CrashOrHang, Holds
<1>6. ASSUME NEW t \in Tests, Fail(t) PROVE Basics'
  BY <1>6, ConcludeBasics DEF Fail
<1>7. ASSUME NEW t \in Tests, Put(t) PROVE Basics'
  <2>1. /\ incoming' \in Seq(Tests \cup {None})
        /\ Len(incoming') = Len(incoming) + 1
    BY <1>7, AppendSet, t \in Tests \cup {None} DEF TypeOK, Put
  <2>2. TypeOK'
    BY <1>7, <2>1 DEF TypeOK, Put, Goto, loopVars, engineVars
  <2>3. Counted'
    BY <1>7, <2>1, BusyCount DEF TypeOK, Counted, Busy, Put
  <2>4. TokensConserved'
    BY <1>7, TokensUnchanged DEF TypeOK, Put, Goto, Holds, engineVars
  <2> QED BY <2>2, <2>3, <2>4
<1>8. ASSUME NEW o \in Oracles, Get(o) PROVE Basics'
  <2> DEFINE item == Head(incoming)
  <2>1. /\ incoming' \in Seq(Tests \cup {None})
        /\ item \in Tests \cup {None}
        /\ Len(incoming') = Len(incoming) - 1
        /\ Len(incoming) \in Nat \ {0}
    BY <1>8, TailSubset DEF TypeOK, Get
  <2> HIDE DEF item
  <2>2. o \notin Busy
    BY <1>8, NamesAssumption DEF Get, Busy
  <2>3. CASE item = None
    <3>1. oracle' = [oracle EXCEPT ![o] = "exited"] /\ unfinished' = unfinished - 1
      BY <1>8, <2>3 DEF Get, item
    <3>2. Busy' = Busy
      BY <3>1, <2>2, NamesAssumption DEF Busy, TypeOK
    <3>3. unfinished' \in Nat /\ Counted'
      BY <3>1, <3>2, <2>1, BusyCount DEF Counted, TypeOK
    <3> QED BY <1>8, <2>1, <3>1, <3>3, TokensUnchanged
         DEF TypeOK, Get, loopVars, engineVars, Holds
  <2>4. CASE item # None
    <3>1. oracle' = [oracle EXCEPT ![o] = item] /\ unfinished' = unfinished
      BY <1>8, <2>4 DEF Get, item
    <3>2. Busy' = Busy \cup {o}
      BY <3>1, <2>1, <2>4 DEF Busy, TypeOK
    <3>3. Cardinality(Busy') = Cardinality(Busy) + 1 /\ Cardinality(Busy) \in Nat
      BY <3>2, <2>2, BusyCount
    <3>4. Counted'
      BY <3>1, <3>3, <2>1 DEF Counted, TypeOK
    <3> QED BY <1>8, <2>1, <2>4, <3>1, <3>4, TokensUnchanged
         DEF TypeOK, Get, loopVars, engineVars, Holds
  <2> QED BY <2>3, <2>4
<1>9. ASSUME NEW o \in Oracles, TaskDone(o) PROVE Basics'
  <2>1. o \in Busy /\ Busy' = Busy \ {o}
    BY <1>9, NamesAssumption DEF TaskDone, Busy, TypeOK
  <2>2. unfinished' \in Nat /\ Counted'
    <3>1. /\ Cardinality(Busy) \in Nat \ {0}
          /\ Cardinality(Busy') = Cardinality(Busy) - 1
      BY <2>1, BusyCount
    <3>2. /\ unfinished' = unfinished - 1 /\ unfinished \in Nat
          /\ incoming' = incoming /\ Len(incoming) \in Nat
      BY <1>9 DEF TaskDone, TypeOK
    <3> QED BY <3>1, <3>2 DEF Counted
  <2>3. TypeOK'
    BY <1>9, <2>2 DEF TypeOK, TaskDone, loopVars, engineVars
  <2>4. TokensConserved'
    BY <1>9, TokensUnchanged DEF TaskDone, engineVars, Holds
  <2> QED BY <2>2, <2>3, <2>4
<1>10. ASSUME LiteralDone PROVE Basics'
  <2>1. \A t \in Tests : Holds(t)' <=> Holds(t)
    BY <1>10 DEF LiteralDone, SeedsWait, Holds
  <2> QED BY <1>10, <2>1, TokensUnchanged, SeedsWaitStep
          DEF LiteralDone, TypeOK, Counted, Busy, engineVars, oracleVars, Next
<1>11. ASSUME SeedsDone PROVE Basics'
  BY <1>11, CloseType, TokensUnchanged
     DEF SeedsDone, TypeOK, Counted, Busy, Holds, oracleVars
<1>12. ASSUME Spawn PROVE Basics'
  <2>1. TypeOK'
    BY <1>12 DEF Spawn, TypeOK, engineVars, oracleVars
  <2> QED BY <1>12, <2>1, TokensUnchanged
          DEF Spawn, TypeOK, Counted, Busy, Holds, engineVars, oracleVars
<1>13. ASSUME FirstCompleted PROVE Basics'
  BY <1>13, TokensUnchanged
     DEF FirstCompleted, TypeOK, Counted, Busy, Holds, engineVars, oracleVars
<1>14. ASSUME Stop PROVE Basics'
  BY <1>14, TokensUnchanged
     DEF Stop, TypeOK, Counted, Busy, Holds, engineVars, oracleVars
<1>15. ASSUME Drain PROVE Basics'
  BY <1>15, CloseType, TokensUnchanged
     DEF Drain, TypeOK, Counted, Busy, Holds, oracleVars
<1>16. ASSUME Join PROVE Basics'
  <2>1. /\ incoming' \in Seq(Tests \cup {None})
        /\ Len(incoming') = Len(incoming) + Cardinality(Oracles)
        /\ unfinished' = unfinished + Cardinality(Oracles)
        /\ Cardinality(Oracles) \in Nat
    BY <1>16, PillsAppended DEF TypeOK, Join
  <2>2. Counted'
    BY <1>16, <2>1, BusyCount DEF Counted, Busy, Join, TypeOK
  <2> QED BY <1>16, <2>1, <2>2, TokensUnchanged
          DEF Join, TypeOK, Holds, engineVars
<1>17. ASSUME NEW k \in Tokens, CommandLoop(k) PROVE Basics'
  <2>1. shmem' \in [Tokens -> SUBSET (Tests \cup {Shell})]
    BY <1>17 DEF CommandLoop, TypeOK
  <2> QED BY <1>17, <2>1, TokensUnchanged
          DEF CommandLoop, TypeOK, Counted, Busy, Holds, loopVars, oracleVars
<1>18. ASSUME UNCHANGED vars PROVE Basics'
  BY <1>18, TokensUnchanged
     DEF vars, TypeOK, Counted, Busy, Holds, loopVars, engineVars, oracleVars
<1> QED BY <1>1, <1>2, <1>3, <1>4, <1>5, <1>6, <1>7, <1>8, <1>9, <1>10, <1>11,
           <1>12, <1>13, <1>14, <1>15, <1>16, <1>17, <1>18
        DEF Next, run_single_mutation, oracle_worker

LEMMA BasicsAlways == Spec => []Basics
<1>1. Init => Basics
  <2>1. Init => SeedsWait
    BY ExecAssumption DEF SeedsWait, Init, Tests
  <2> QED BY <2>1, TypeInit, TokensInit DEF Basics
<1>2. Basics /\ [Next]_vars => Basics'
  BY BasicsStep
<1> QED BY <1>1, <1>2, PTL DEF Spec

\* No run of main.py, with any number of tests, tokens and oracles, leaves the
\* types: above all, task_done is never called more often than put.
THEOREM TypeCorrect == Spec => []TypeOK
BY BasicsAlways, PTL DEF Basics

\* For every interleaving of the tests and every way an execution may end, a
\* token is in the channel once or held by one test: none leaks, none is twice
\* in use.
THEOREM TokensAreConserved == Spec => []TokensConserved
BY BasicsAlways, PTL DEF Basics

-----------------------------------------------------------------------------
(* Coverage is credited to the test that was run, and its hooks fire once.  *)

LEMMA CreditInit == Init => OwnCoverage /\ HooksFiredOnce
<1> SUFFICES ASSUME Init PROVE OwnCoverage /\ HooksFiredOnce
  OBVIOUS
<1>1. \A t \in Tests : ~Holds(t)
  BY DEF Init, Holds
<1>2. ToSet(free) = Tokens /\ \A k \in Tokens : shmem[k] = {}
  BY InitFree DEF Init
<1>3. OwnCoverage
  BY <1>1, <1>2 DEF OwnCoverage
<1>4. HooksFiredOnce
  BY DEF Init, HooksFiredOnce
<1> QED BY <1>3, <1>4

\* Taking a token changes no map: the channel holds zeroed ones only.
LEMMA RecvCredit ==
  ASSUME Basics, OwnCoverage, NEW t \in Tests, Recv(t)
  PROVE  OwnCoverage'
<1> DEFINE k == Head(free)
<1>1. /\ free \in Seq(Tokens) /\ free # << >> /\ IsInjective(free)
      /\ free' = Tail(free)
      /\ token' = [token EXCEPT ![t] = k]
      /\ task' = [task EXCEPT ![t] = "exec"]
      /\ shmem' = shmem
  BY DEF Basics, TypeOK, TokensConserved, Recv, Goto
<1>2. k \in ToSet(free) /\ ToSet(free') \subseteq ToSet(free)
  BY <1>1, TailSet
<1> HIDE DEF k
<1>3. ASSUME NEW u \in Tests, Holds(u)'
      PROVE  shmem'[token'[u]] \subseteq {u, Shell}
  <2>1. CASE u = t
    BY <1>1, <1>2, <2>1 DEF OwnCoverage, Basics, TypeOK
  <2>2. CASE u # t
    BY <1>1, <1>3, <2>2 DEF OwnCoverage, Holds, Basics, TypeOK
  <2> QED BY <2>1, <2>2
<1> QED BY <1>1, <1>2, <1>3 DEF OwnCoverage

\* The map goes back zeroed, and no other test looks at it.
LEMMA ConcludeCredit ==
  ASSUME Basics, OwnCoverage, HooksFiredOnce, NEW t \in Tests, Holds(t),
         NEW place \in {"put", "done"}, Conclude(t, place)
  PROVE  OwnCoverage' /\ HooksFiredOnce'
<1>1. /\ token[t] \in Tokens
      /\ ToSet(free') = ToSet(free) \cup {token[t]}
  BY GiveToken DEF Basics, Conclude
<1>2. /\ shmem' = [shmem EXCEPT ![token[t]] = {}]
      /\ token' = [token EXCEPT ![t] = None]
      /\ task' = [task EXCEPT ![t] = place]
      /\ fired' = [fired EXCEPT ![t] = @ + 1]
  BY DEF Conclude, ReturnToken, Goto
<1>3. /\ shmem \in [Tokens -> SUBSET (Tests \cup {Shell})]
      /\ token \in [Tests -> Tokens \cup {None}]
      /\ task \in [Tests -> {"new", "recv", "exec", "run", "put", "done"}]
      /\ fired \in [Tests -> Nat]
  BY DEF Basics, TypeOK
<1>4. ASSUME NEW u \in Tests, Holds(u)'
      PROVE  shmem'[token'[u]] \subseteq {u, Shell}
  <2>1. u # t /\ Holds(u)
    BY <1>2, <1>3, <1>4 DEF Holds
  <2>2. token'[u] = token[u] /\ token[u] \in Tokens /\ token[u] # token[t]
    BY <1>1, <1>2, <1>3, <2>1, ExecAssumption DEF Basics, TokensConserved
  <2> QED BY <1>2, <1>3, <2>1, <2>2 DEF OwnCoverage
<1>5. \A k \in ToSet(free') : shmem'[k] \subseteq {Shell}
  <2>1. \A k \in ToSet(free) : k \in Tokens
    BY DEF Basics, TypeOK, ToSet
  <2> QED BY <1>1, <1>2, <1>3, <2>1 DEF OwnCoverage
<1>6. HooksFiredOnce'
  BY <1>2, <1>3 DEF HooksFiredOnce, Holds
<1> QED BY <1>4, <1>5, <1>6 DEF OwnCoverage

\* A process outside of the queries records nothing but its command loop.
LEMMA ShellCredit ==
  ASSUME Basics, OwnCoverage, UNCHANGED <<task, token, free>>,
         CloseWorkers \/ \E k \in Tokens : CommandLoop(k)
  PROVE  OwnCoverage'
<1>1. \A k \in Tokens : shmem'[k] \subseteq shmem[k] \cup {Shell}
  <2>1. DOMAIN shmem = Tokens
    BY DEF Basics, TypeOK
  <2> QED BY <2>1 DEF CloseWorkers, CommandLoop
<1>2. \A t \in Tests : Holds(t) => token[t] \in Tokens
  BY DEF Basics, TypeOK, TokensConserved
<1>3. \A k \in ToSet(free) : k \in Tokens
  BY DEF Basics, TypeOK, ToSet
<1> QED BY <1>1, <1>2, <1>3 DEF OwnCoverage, Holds

LEMMA CreditStep ==
  ASSUME Basics, OwnCoverage, HooksFiredOnce, [Next]_vars
  PROVE  OwnCoverage' /\ HooksFiredOnce'
<1> DEFINE Credit == OwnCoverage /\ HooksFiredOnce
<1> task \in [Tests -> {"new", "recv", "exec", "run", "put", "done"}]
  BY DEF Basics, TypeOK
<1>1. ASSUME NEW t \in Tests, Recv(t) PROVE Credit'
  <2>1. HooksFiredOnce'
    BY <1>1 DEF Recv, Goto, HooksFiredOnce
  <2> QED BY <1>1, <2>1, RecvCredit
<1>2. ASSUME NEW t \in Tests, Execute(t) PROVE Credit'
  <2> DEFINE k == token[t]
  <2>1. k \in Tokens /\ \A u \in Tests : u # t => token[u] # k
    BY <1>2 DEF Execute, Holds, Basics, TypeOK, TokensConserved
  <2>2. k \notin ToSet(free) /\ \A j \in ToSet(free) : j \in Tokens
    <3>1. k \notin ToSet(free)
      BY <2>1 DEF Basics, TokensConserved
    <3>2. \A j \in ToSet(free) : j \in Tokens
      BY DEF Basics, TypeOK, ToSet
    <3> QED BY <3>1, <3>2
  <2>3. /\ shmem' = [shmem EXCEPT ![k] = @ \cup {t}]
        /\ shmem \in [Tokens -> SUBSET (Tests \cup {Shell})]
        /\ task' = [task EXCEPT ![t] = "run"]
        /\ task[t] = "exec"
        /\ UNCHANGED <<token, free, fired>>
    BY <1>2 DEF Execute, Goto, Basics, TypeOK
  <2> HIDE DEF k
  <2>4. ASSUME NEW u \in Tests, Holds(u)'
        PROVE  Holds(u) /\ token[u] \in Tokens
    BY <2>3, <2>4 DEF Holds, Basics, TypeOK, TokensConserved
  <2>5. ASSUME NEW u \in Tests, Holds(u)'
        PROVE  shmem'[token'[u]] \subseteq {u, Shell}
    <3>1. CASE u = t
      BY <2>1, <2>3, <2>4, <2>5, <3>1 DEF OwnCoverage, k
    <3>2. CASE u # t
      BY <2>1, <2>3, <2>4, <2>5, <3>2 DEF OwnCoverage
    <3> QED BY <3>1, <3>2
  <2>6. OwnCoverage'
    BY <2>2, <2>3, <2>5 DEF OwnCoverage
  <2>7. HooksFiredOnce'
    BY <2>3 DEF HooksFiredOnce
  <2> QED BY <2>6, <2>7
<1>3. ASSUME NEW t \in Tests, Succeed(t) \/ SyntaxError(t) \/ CrashOrHang(t) \/ Fail(t)
      PROVE  Credit'
  BY <1>3, ConcludeCredit DEF Succeed, SyntaxError, CrashOrHang, Fail, Holds
<1>4. ASSUME NEW t \in Tests, Put(t) PROVE Credit'
  BY <1>4 DEF Put, Goto, engineVars, OwnCoverage, HooksFiredOnce, Holds
<1>5. ASSUME NEW o \in Oracles, oracle_worker(o) PROVE Credit'
  BY <1>5, OracleStep DEF engineVars, OwnCoverage, HooksFiredOnce, Holds
<1>6. CASE LiteralDone \/ Spawn
  <2>1. /\ UNCHANGED engineVars
        /\ \A u \in Tests : Holds(u)' <=> Holds(u)
        /\ \A u \in Tests : task'[u] \in {"put", "done"} <=> task[u] \in {"put", "done"}
    BY <1>6 DEF LiteralDone, Spawn, Holds, Basics, SeedsWait
  <2> QED BY <2>1 DEF engineVars, OwnCoverage, HooksFiredOnce
<1>7. CASE SeedsDone \/ Drain \/ \E k \in Tokens : CommandLoop(k)
  BY <1>7, ShellCredit DEF SeedsDone, Drain, CommandLoop, HooksFiredOnce
<1>8. CASE FirstCompleted \/ Stop \/ Join \/ UNCHANGED vars
  BY <1>8 DEF FirstCompleted, Stop, Join, vars, engineVars, OwnCoverage, HooksFiredOnce, Holds
<1> QED BY <1>1, <1>2, <1>3, <1>4, <1>5, <1>6, <1>7, <1>8
        DEF Next, run_single_mutation

\* The engine never credits a test with edges that another test hit.
THEOREM CoverageIsOwn == Spec => []OwnCoverage
<1>1. Basics /\ OwnCoverage /\ HooksFiredOnce /\ [Next]_vars
        => OwnCoverage' /\ HooksFiredOnce'
  BY CreditStep
<1> QED BY <1>1, CreditInit, BasicsAlways, PTL DEF Spec

\* Whatever path run_single_mutation takes, the hooks of a test are fired once.
THEOREM HooksFireOnce == Spec => []HooksFiredOnce
<1>1. Basics /\ OwnCoverage /\ HooksFiredOnce /\ [Next]_vars
        => OwnCoverage' /\ HooksFiredOnce'
  BY CreditStep
<1> QED BY <1>1, CreditInit, BasicsAlways, PTL DEF Spec

-----------------------------------------------------------------------------
(* The shutdown.  What join() waits for and what the pills find follows     *)
(* from where the tests are in each phase, and from where a capture can be. *)

\* Only active children run in the loop, and none after the drain.
Phases ==
  /\ phase = "seeds" => task[Literal] = "done"
  /\ phase \notin {"literal", "seeds"} => \A t \in {Literal} \cup Seeds : task[t] = "done"
  /\ \A c \in Children : task[c] \in {"new", "done"} \/ c \in active
  /\ phase \in {"join", "end"} => \A t \in Tests : task[t] \in {"new", "done"}

\* The capture of a test that is not over is nowhere, no capture is at two
\* places, and the pills come when nothing else is left.
Captures ==
  /\ \A t \in Tests : task[t] # "done" =>
       /\ t \notin ToSet(incoming) \cup judged
       /\ \A o \in Oracles : oracle[o] # t
  /\ \A o, p \in Busy : oracle[o] = oracle[p] => o = p
  /\ \A o \in Busy : oracle[o] \notin judged \cup ToSet(incoming)
  /\ judged \cap ToSet(incoming) = {}
  /\ phase # "end" =>
       /\ IsInjective(incoming)
       /\ None \notin ToSet(incoming)
       /\ \A o \in Oracles : oracle[o] # "exited"

Working == {o \in Oracles : oracle[o] # "exited"}

Pills ==
  phase = "end" =>
    /\ ToSet(incoming) \subseteq {None}
    /\ Busy = {}
    /\ Len(incoming) = Cardinality(Working)

Shutdown == Phases /\ Captures /\ Pills

LEMMA ShutdownInit == Init => Shutdown
<1> SUFFICES ASSUME Init PROVE Shutdown
  OBVIOUS
<1>1. ToSet(incoming) = {} /\ IsInjective(incoming)
  BY DEF Init, ToSet, IsInjective
<1>2. Busy = {} /\ \A o \in Oracles : oracle[o] = "idle"
  BY NamesAssumption DEF Init, Busy
<1>3. Phases
  BY ExecAssumption DEF Init, Phases, Tests
<1>4. Captures
  BY <1>1, <1>2, NamesAssumption DEF Init, Captures
<1> QED BY <1>3, <1>4 DEF Init, Shutdown, Pills

LEMMA PhasesStep ==
  ASSUME Basics, Phases, [Next]_vars
  PROVE  Phases'
<1> task \in [Tests -> {"new", "recv", "exec", "run", "put", "done"}]
  BY DEF Basics, TypeOK
<1>1. ASSUME NEW t \in Tests, run_single_mutation(t) PROVE Phases'
  <2>1. PICK place \in Places : task' = [task EXCEPT ![t] = place]
    BY <1>1, TestStep
  <2>2. task[t] \notin {"new", "done"} /\ UNCHANGED <<phase, active>>
    BY <1>1, TestStep DEF loopVars
  <2>3. \A u \in Tests : u # t => task'[u] = task[u]
    BY <2>1
  <2> QED BY <2>2, <2>3 DEF Phases, Tests
<1>2. ASSUME NEW o \in Oracles, oracle_worker(o) PROVE Phases'
  BY <1>2, OracleStep DEF Phases, loopVars
<1>3. CASE LiteralDone
  BY <1>3, ExecAssumption DEF LiteralDone, Phases, Tests
<1>4. CASE SeedsDone
  BY <1>4 DEF SeedsDone, Phases
<1>5. CASE Spawn
  <2>1. PICK batch \in SUBSET {t \in Children : task[t] = "new"} :
           /\ active' = active \cup batch
           /\ task' = [t \in Tests |-> IF t \in batch THEN "recv" ELSE task[t]]
    BY <1>5 DEF Spawn
  <2> QED BY <1>5, <2>1, ExecAssumption DEF Spawn, Phases, Tests
<1>6. CASE FirstCompleted
  BY <1>6 DEF FirstCompleted, Phases
<1>7. CASE Drain
  BY <1>7 DEF Drain, Phases, Tests
<1>8. CASE Stop \/ Join \/ UNCHANGED vars \/ \E k \in Tokens : CommandLoop(k)
  BY <1>8 DEF Stop, Join, CommandLoop, Phases, vars, loopVars
<1> QED BY <1>1, <1>2, <1>3, <1>4, <1>5, <1>6, <1>7, <1>8 DEF Next

\* Steps that move no test to or from "done" and touch neither queue nor oracles.
LEMMA CapturesKept ==
  ASSUME Captures, Pills, UNCHANGED oracleVars,
         \A t \in Tests : task'[t] # "done" => task[t] # "done",
         phase = "end" <=> phase' = "end"
  PROVE  Captures' /\ Pills'
BY DEF Captures, Pills, Busy, Working, oracleVars

\* The capture of a test joins the queue: it was nowhere before.
LEMMA PutCaptures ==
  ASSUME Basics, Shutdown, NEW t \in Tests, Put(t)
  PROVE  Captures' /\ Pills'
<1>1. /\ incoming \in Seq(Tests \cup {None})
      /\ incoming' = Append(incoming, t)
      /\ task[t] = "put"
      /\ task' = [task EXCEPT ![t] = "done"]
      /\ UNCHANGED <<phase, oracle, judged>>
      /\ task \in [Tests -> {"new", "recv", "exec", "run", "put", "done"}]
      /\ t # None
  BY ExecAssumption DEF Basics, TypeOK, Put, Goto, loopVars
<1>2. phase # "end"
  BY <1>1 DEF Shutdown, Phases
<1>3. t \notin ToSet(incoming) \cup judged /\ \A o \in Oracles : oracle[o] # t
  BY <1>1 DEF Shutdown, Captures
<1>4. /\ ToSet(incoming') = ToSet(incoming) \cup {t}
      /\ IsInjective(incoming) => IsInjective(incoming')
  BY <1>1, <1>3, AppendSet, t \in Tests \cup {None}
<1>5. Busy' = Busy
  BY <1>1 DEF Busy
<1>6. Captures'
  BY <1>1, <1>2, <1>3, <1>4, <1>5 DEF Shutdown, Captures, Busy
<1> QED BY <1>1, <1>2, <1>6 DEF Pills

\* An oracle takes a capture before the end, and a pill at the end.
LEMMA GetCaptures ==
  ASSUME Basics, Shutdown, NEW o \in Oracles, Get(o)
  PROVE  Captures' /\ Pills'
<1> DEFINE item == Head(incoming)
<1>1. /\ incoming \in Seq(Tests \cup {None}) /\ incoming # << >>
      /\ incoming' = Tail(incoming)
      /\ oracle \in [Oracles -> Tests \cup {"idle", "exited"}]
      /\ oracle[o] = "idle"
      /\ oracle' = [oracle EXCEPT ![o] = IF item = None THEN "exited" ELSE item]
      /\ UNCHANGED <<phase, task, judged>>
  BY DEF Basics, TypeOK, Get, loopVars
<1>2. /\ item \in Tests \cup {None}
      /\ item \in ToSet(incoming)
      /\ ToSet(incoming') \subseteq ToSet(incoming)
      /\ Len(incoming') = Len(incoming) - 1
  BY <1>1, TailSubset
<1>3. IsInjective(incoming) => /\ IsInjective(incoming')
                               /\ item \notin ToSet(incoming')
  BY <1>1, TailSet
<1> HIDE DEF item
<1>4. CASE phase = "end"
  <2>1. item = None
    BY <1>2, <1>4 DEF Shutdown, Pills
  <2>2. oracle' = [oracle EXCEPT ![o] = "exited"]
    BY <1>1, <2>1
  <2>3. Busy' = Busy /\ Busy = {}
    BY <1>1, <2>2, <1>4, NamesAssumption DEF Busy, Shutdown, Pills
  <2>4. Working' = Working \ {o} /\ o \in Working
    BY <1>1, <2>2 DEF Working
  <2>5. Cardinality(Working \ {o}) = Cardinality(Working) - 1
    <3>1. IsFiniteSet(Working)
      BY FS_Subset, ExecAssumption DEF Working
    <3> QED BY <3>1, <2>4, FS_RemoveElement
  <2>6. Pills'
    BY <1>1, <1>2, <1>4, <2>3, <2>4, <2>5 DEF Shutdown, Pills
  <2>7. \A t \in Tests : t # "exited"
    BY NamesAssumption
  <2>8. Captures'
    BY <1>1, <1>2, <1>4, <2>2, <2>3, <2>7 DEF Shutdown, Captures
  <2> QED BY <2>6, <2>8
<1>5. CASE phase # "end"
  <2>1. IsInjective(incoming) /\ item # None /\ item \in Tests
    BY <1>2, <1>5 DEF Shutdown, Captures
  <2>2. oracle' = [oracle EXCEPT ![o] = item]
    BY <1>1, <2>1
  <2>3. Busy' = Busy \cup {o} /\ item # "exited"
    BY <1>1, <2>1, <2>2, NamesAssumption DEF Busy
  <2>4. item \notin judged /\ \A p \in Busy : oracle[p] # item
    BY <1>2 DEF Shutdown, Captures
  <2>5. item \notin ToSet(incoming')
    BY <1>3, <2>1
  <2>6. task[item] = "done"
    BY <1>2, <2>1 DEF Shutdown, Captures
  <2>7. \A p \in Oracles : p # o => oracle'[p] = oracle[p]
    BY <1>1, <2>2
  <2>8. oracle'[o] = item
    BY <1>1, <2>2
  <2>9. \A t \in Tests : task'[t] # "done" =>
          /\ t \notin ToSet(incoming') \cup judged'
          /\ \A p \in Oracles : oracle'[p] # t
    BY <1>1, <1>2, <2>6, <2>7, <2>8 DEF Shutdown, Captures
  <2>10. \A p, q \in Busy' : oracle'[p] = oracle'[q] => p = q
    BY <2>3, <2>4, <2>7, <2>8 DEF Shutdown, Captures, Busy
  <2>11. \A p \in Busy' : oracle'[p] \notin judged' \cup ToSet(incoming')
    BY <1>1, <1>2, <2>3, <2>4, <2>5, <2>7, <2>8 DEF Shutdown, Captures, Busy
  <2>12. Captures'
    BY <1>1, <1>2, <1>3, <1>5, <2>1, <2>3, <2>7, <2>8, <2>9, <2>10, <2>11
       DEF Shutdown, Captures
  <2> QED BY <1>1, <1>5, <2>12 DEF Pills
<1> QED BY <1>4, <1>5

\* A capture is judged by the only oracle that has it.
LEMMA TaskDoneCaptures ==
  ASSUME Basics, Shutdown, NEW o \in Oracles, TaskDone(o)
  PROVE  Captures' /\ Pills'
<1>1. /\ o \in Busy
      /\ oracle' = [oracle EXCEPT ![o] = "idle"]
      /\ judged' = judged \cup {oracle[o]}
      /\ oracle \in [Oracles -> Tests \cup {"idle", "exited"}]
      /\ UNCHANGED <<phase, task, incoming>>
  BY DEF Basics, TypeOK, TaskDone, loopVars, Busy
<1>2. phase # "end"
  BY <1>1 DEF Shutdown, Pills
<1>3. Busy' = Busy \ {o} /\ \A p \in Oracles : p # o => oracle'[p] = oracle[p]
  BY <1>1, NamesAssumption DEF Busy
<1>4. \A t \in Tests : t # "idle"
  BY NamesAssumption
<1>5. oracle'[o] = "idle"
  BY <1>1
<1>6. \A t \in Tests : task'[t] # "done" =>
        /\ t \notin ToSet(incoming') \cup judged'
        /\ \A p \in Oracles : oracle'[p] # t
  BY <1>1, <1>3, <1>4, <1>5 DEF Shutdown, Captures
<1>7. \A p \in Busy' : oracle'[p] \notin judged' \cup ToSet(incoming')
  BY <1>1, <1>3 DEF Shutdown, Captures, Busy
<1>8. judged' \cap ToSet(incoming') = {}
  BY <1>1 DEF Shutdown, Captures
<1>9. Captures'
  BY <1>1, <1>2, <1>3, <1>5, <1>6, <1>7, <1>8 DEF Shutdown, Captures, Busy
<1> QED BY <1>1, <1>2, <1>9 DEF Pills

\* join() returned: the queue is empty, no oracle is busy, none has exited.
LEMMA JoinCaptures ==
  ASSUME Basics, Shutdown, Join
  PROVE  Captures' /\ Pills'
<1>1. Len(incoming) = 0 /\ Cardinality(Busy) = 0
  BY BusyCount DEF Basics, Counted, TypeOK, Join
<1>2. incoming = << >> /\ Busy = {}
  BY <1>1, BusyCount, FS_EmptySet DEF Basics, TypeOK
<1>3. /\ Len(incoming') = Cardinality(Oracles)
      /\ \A i \in DOMAIN incoming' : incoming'[i] = None
  BY <1>1, <1>2, PillsAppended DEF Basics
<1>4. ToSet(incoming') \subseteq {None}
  BY <1>3 DEF ToSet
<1>5. UNCHANGED <<task, oracle, judged>> /\ phase = "join" /\ phase' = "end"
  BY DEF Join
<1>6. Working = Oracles /\ Working' = Working /\ Busy' = Busy
  BY <1>5 DEF Shutdown, Captures, Working, Busy
<1>7. Pills'
  BY <1>2, <1>3, <1>4, <1>6 DEF Pills
<1>8. None \notin judged /\ None \notin Tests
  BY ExecAssumption DEF Basics, TypeOK
<1>9. Captures'
  BY <1>2, <1>4, <1>5, <1>6, <1>8 DEF Shutdown, Captures
<1> QED BY <1>7, <1>9

LEMMA ShutdownStep ==
  ASSUME Basics, Shutdown, [Next]_vars
  PROVE  Shutdown'
<1> Phases'
  BY PhasesStep DEF Shutdown
<1> SUFFICES Captures' /\ Pills'
  BY DEF Shutdown
<1> task \in [Tests -> {"new", "recv", "exec", "run", "put", "done"}]
  BY DEF Basics, TypeOK
<1>1. ASSUME NEW t \in Tests,
             Recv(t) \/ Execute(t) \/ Succeed(t) \/ SyntaxError(t) \/ CrashOrHang(t) \/ Fail(t)
      PROVE  Captures' /\ Pills'
  <2>1. task[t] # "done" /\ UNCHANGED <<oracleVars, loopVars>>
    BY <1>1 DEF Recv, Execute, Succeed, SyntaxError, CrashOrHang, Fail, Conclude, Holds
  <2>2. PICK place \in Places : task' = [task EXCEPT ![t] = place]
    BY <1>1, TestStep DEF run_single_mutation
  <2>3. \A u \in Tests : task'[u] # "done" => task[u] # "done"
    BY <2>1, <2>2
  <2> QED BY <2>1, <2>3, CapturesKept DEF Shutdown, loopVars
<1>2. ASSUME NEW t \in Tests, Put(t) PROVE Captures' /\ Pills'
  BY <1>2, PutCaptures
<1>3. ASSUME NEW o \in Oracles, oracle_worker(o) PROVE Captures' /\ Pills'
  BY <1>3, GetCaptures, TaskDoneCaptures DEF oracle_worker
<1>4. CASE \/ LiteralDone \/ SeedsDone \/ Spawn \/ FirstCompleted \/ Stop \/ Drain
           \/ UNCHANGED vars \/ \E k \in Tokens : CommandLoop(k)
  <2>1. /\ UNCHANGED oracleVars
        /\ phase = "end" <=> phase' = "end"
    BY <1>4 DEF LiteralDone, SeedsDone, Spawn, FirstCompleted, Stop, Drain, CommandLoop,
                vars, loopVars
  <2>2. \A t \in Tests : task'[t] # "done" => task[t] # "done"
    BY <1>4 DEF LiteralDone, SeedsDone, Spawn, FirstCompleted, Stop, Drain, CommandLoop,
                vars, Basics, SeedsWait
  <2> QED BY <2>1, <2>2, CapturesKept DEF Shutdown
<1>5. CASE Join
  BY <1>5, JoinCaptures
<1> QED BY <1>1, <1>2, <1>3, <1>4, <1>5 DEF Next, run_single_mutation

LEMMA ShutdownAlways == Spec => [](Basics /\ Shutdown)
<1>1. Basics /\ Shutdown /\ [Next]_vars => Shutdown'
  BY ShutdownStep
<1> QED BY <1>1, ShutdownInit, BasicsAlways, PTL DEF Spec

\* join() waits for exactly the captures that were put and are not judged yet,
\* and none is judged twice.
THEOREM CapturesAreAccounted == Spec => []CapturesAccounted
<1>1. Basics /\ Shutdown => CapturesAccounted
  BY DEF Basics, Counted, Shutdown, Captures, CapturesAccounted
<1> QED BY <1>1, ShutdownAlways, PTL

\* An oracle exits only after every reported capture was judged, and every
\* oracle finds its pill.
THEOREM PillsAreLast == Spec => []PillsComeLast
<1>1. Basics /\ Shutdown => PillsComeLast
  BY DEF Shutdown, Phases, Captures, Pills, Working, PillsComeLast
<1> QED BY <1>1, ShutdownAlways, PTL
-----------------------------------------------------------------------------
(* The program ends.  In any state somebody can go on, if the oracle queue  *)
(* has room for what is put before the oracles start; and once a stop       *)
(* condition holds, every step but those of the command loop uses up some   *)
(* of what is left to do.                                                   *)

\* The guards of the steps that Fairness asks for.
TestMoves(t) ==
  \/ task[t] = "recv" /\ free # << >>
  \/ Holds(t)
  \/ task[t] = "put" /\ Len(incoming) < QUEUE_SIZE

OracleMoves(o) ==
  \/ phase \notin {"literal", "seeds"} /\ oracle[o] = "idle" /\ incoming # << >>
  \/ oracle[o] \in Tests

LoopMoves ==
  \/ phase = "literal" /\ task[Literal] = "done"
  \/ phase = "seeds" /\ \A t \in Seeds : task[t] = "done"
  \/ phase = "spawn"
  \/ phase = "wait" /\ (active = {} \/ \E t \in active : task[t] = "done")
  \/ phase = "drain" /\ \A t \in active : task[t] = "done"
  \/ phase = "join" /\ unfinished = 0

\* A test or an oracle can go on.
SomeoneMoves ==
  \/ \E t \in Tests : TestMoves(t)
  \/ \E o \in Oracles : OracleMoves(o)

\* Until the program has ended, main or fuzzing_loop, a test or an oracle can go on.
NobodyIsStuck == Terminated \/ LoopMoves \/ SomeoneMoves

\* No oracle takes anything before the loop: the queue must hold the captures
\* of the literal and of all seeds.
RoomForSeeds ==
  /\ Tokens # {} /\ Oracles # {}
  /\ Cardinality(Seeds) < QUEUE_SIZE

\* Who has been started in which phase.
Started ==
  /\ task[Literal] # "new"
  /\ phase \in {"literal", "seeds"} => \A c \in Children : task[c] = "new"
  /\ phase # "literal" => \A s \in Seeds : task[s] # "new"
  /\ \A t \in active : task[t] # "new"

\* Every step keeps it: only main starts tests.
LEMMA StartedStep ==
  ASSUME Basics, Started, [Next]_vars
  PROVE  Started'
<1> /\ task \in [Tests -> {"new", "recv", "exec", "run", "put", "done"}]
    /\ active \subseteq Children
  BY DEF Basics, TypeOK
<1>1. ASSUME NEW t \in Tests, run_single_mutation(t) PROVE Started'
  <2>1. PICK place \in Places : task' = [task EXCEPT ![t] = place]
    BY <1>1, TestStep
  <2>2. task[t] # "new" /\ UNCHANGED <<phase, active>>
    BY <1>1, TestStep DEF loopVars
  <2>3. \A u \in Tests : task'[u] = "new" <=> task[u] = "new"
    BY <2>1, <2>2 DEF Places
  <2> QED BY <2>2, <2>3 DEF Started, Tests
<1>2. ASSUME NEW o \in Oracles, oracle_worker(o) PROVE Started'
  BY <1>2, OracleStep DEF Started, loopVars
<1>3. CASE LiteralDone
  BY <1>3, ExecAssumption DEF LiteralDone, Started, Tests
<1>4. CASE SeedsDone
  BY <1>4 DEF SeedsDone, Started
<1>5. CASE Spawn
  <2>1. PICK batch \in SUBSET {t \in Children : task[t] = "new"} :
           /\ active' = active \cup batch
           /\ task' = [t \in Tests |-> IF t \in batch THEN "recv" ELSE task[t]]
    BY <1>5 DEF Spawn
  <2> QED BY <1>5, <2>1, ExecAssumption DEF Spawn, Started, Tests
<1>6. CASE FirstCompleted
  BY <1>6 DEF FirstCompleted, Started
<1>7. CASE Drain
  BY <1>7 DEF Drain, Started
<1>8. CASE Stop \/ Join \/ UNCHANGED vars \/ \E k \in Tokens : CommandLoop(k)
  BY <1>8 DEF Stop, Join, CommandLoop, Started, vars, loopVars
<1> QED BY <1>1, <1>2, <1>3, <1>4, <1>5, <1>6, <1>7, <1>8 DEF Next

\* A test waits for a token only while another test has one.
LEMMA TokenIsHeld ==
  ASSUME Basics, Tokens # {}, free = << >>
  PROVE  \E t \in Tests : Holds(t)
<1>1. PICK k \in Tokens : TRUE
  OBVIOUS
<1>2. k \notin ToSet(free) /\ k # None
  BY ExecAssumption DEF ToSet
<1> QED BY <1>2 DEF Basics, TokensConserved

\* Before the loop only tests that are over are in the queue, which has room
\* for one more.
LEMMA QueueHasRoom ==
  ASSUME Basics, Shutdown, Started, RoomForSeeds, phase \in {"literal", "seeds"},
         NEW t \in Tests, task[t] = "put"
  PROVE  Len(incoming) < QUEUE_SIZE
<1> DEFINE First == {Literal} \cup Seeds
           others == First \ {t}
<1>1. t \in First
  BY DEF Started, Tests
<1>2. incoming \in Seq(Tests \cup {None}) /\ IsInjective(incoming)
  BY DEF Basics, TypeOK, Shutdown, Captures
<1>3. ToSet(incoming) \subseteq others
  <2>1. \A u \in ToSet(incoming) : u \in Tests /\ task[u] = "done"
    BY <1>2 DEF Shutdown, Captures, ToSet
  <2> QED BY <2>1 DEF Started, Tests
<1>4. /\ IsFiniteSet(others)
      /\ Cardinality(others) = Cardinality(Seeds)
      /\ Cardinality(Seeds) \in Nat
  <2>1. IsFiniteSet(Seeds) /\ IsFiniteSet(First)
    BY ExecAssumption, FS_Subset DEF Tests
  <2>2. Cardinality(First) = Cardinality(Seeds) + 1
    BY <2>1, FS_AddElement, ExecAssumption
  <2>3. Cardinality(others) = Cardinality(First) - 1 /\ IsFiniteSet(others)
    BY <1>1, <2>1, FS_RemoveElement
  <2> QED BY <2>1, <2>2, <2>3, FS_CardinalityType
<1>5. incoming \in Injection(1..Len(incoming), others)
  <2>1. /\ incoming \in [1..Len(incoming) -> Tests \cup {None}]
        /\ DOMAIN incoming = 1..Len(incoming)
    BY <1>2
  <2>2. \A i \in 1..Len(incoming) : incoming[i] \in others
    BY <1>3, <2>1 DEF ToSet
  <2>3. incoming \in [1..Len(incoming) -> others]
    BY <2>1, <2>2
  <2>4. \A i, j \in 1..Len(incoming) : incoming[i] = incoming[j] => i = j
    BY <1>2, <2>1 DEF IsInjective
  <2> QED BY <1>2, <2>3, <2>4, Zenon DEF Injection
<1> HIDE DEF others
<1>6. Len(incoming) \in Nat /\ Cardinality(1..Len(incoming)) = Len(incoming)
  <2> DEFINE n == Len(incoming)
  <2>1. n \in Nat
    BY <1>2
  <2> HIDE DEF n
  <2>2. 1 \in Int /\ n \in Int
    BY <2>1
  <2>3. Cardinality(1..n) = IF 1 > n THEN 0 ELSE n - 1 + 1
    BY <2>2, FS_Interval
  <2>4. Cardinality(1..n) = n
    BY <2>1, <2>3
  <2> QED BY <2>1, <2>4 DEF n
<1>7. Cardinality(1..Len(incoming)) =< Cardinality(others)
  BY <1>4, <1>5, FS_Injection
<1> QED BY <1>4, <1>6, <1>7, ExecAssumption DEF RoomForSeeds

\* A queue that is not empty has an oracle that takes from it, or that is busy.
LEMMA SomeoneTakes ==
  ASSUME Basics, Shutdown, Oracles # {}, incoming # << >>,
         phase \notin {"literal", "seeds", "end"}
  PROVE  SomeoneMoves
<1>1. PICK o \in Oracles : oracle[o] \in Tests \cup {"idle", "exited"}
  BY DEF Basics, TypeOK
<1>2. oracle[o] # "exited"
  BY DEF Shutdown, Captures
<1>3. OracleMoves(o)
  BY <1>1, <1>2 DEF OracleMoves
<1> QED BY <1>3 DEF SomeoneMoves

\* A test that was started and is not over is not stuck.
LEMMA TestIsNotStuck ==
  ASSUME Basics, Shutdown, Started, RoomForSeeds,
         NEW t \in Tests, task[t] \notin {"new", "done"}
  PROVE  SomeoneMoves
<1>1. CASE task[t] = "recv"
  BY <1>1, TokenIsHeld DEF RoomForSeeds, SomeoneMoves, TestMoves
<1>2. CASE Holds(t)
  BY <1>2 DEF SomeoneMoves, TestMoves
<1>3. CASE task[t] = "put" /\ phase \in {"literal", "seeds"}
  BY <1>3, QueueHasRoom DEF SomeoneMoves, TestMoves
<1>4. CASE task[t] = "put" /\ phase \notin {"literal", "seeds"}
  <2>1. phase # "end"
    BY <1>4 DEF Shutdown, Phases
  <2>2. CASE Len(incoming) < QUEUE_SIZE
    BY <1>4, <2>2 DEF SomeoneMoves, TestMoves
  <2>3. CASE incoming # << >>
    BY <1>4, <2>1, <2>3, SomeoneTakes DEF RoomForSeeds
  <2> QED BY <2>2, <2>3, ExecAssumption
<1> QED BY <1>1, <1>2, <1>3, <1>4 DEF Basics, TypeOK, Holds

\* join() returns, or an oracle has something to do.
LEMMA JoinIsNotStuck ==
  ASSUME Basics, Shutdown, RoomForSeeds, phase = "join", unfinished # 0
  PROVE  SomeoneMoves
<1>1. CASE Busy # {}
  BY <1>1 DEF Busy, SomeoneMoves, OracleMoves
<1>2. CASE Busy = {}
  <2>1. Cardinality(Busy) = 0
    BY <1>2, FS_EmptySet
  <2>2. incoming # << >>
    BY <2>1 DEF Basics, Counted, TypeOK
  <2> QED BY <2>2, SomeoneTakes DEF RoomForSeeds
<1> QED BY <1>1, <1>2

\* An oracle that has not exited finds its pill.
LEMMA EndIsNotStuck ==
  ASSUME Basics, Shutdown, phase = "end", ~Terminated
  PROVE  SomeoneMoves
<1>1. PICK o \in Working : oracle[o] # "exited" /\ o \in Oracles
  BY DEF Terminated, Working
<1>2. oracle[o] = "idle"
  BY <1>1 DEF Basics, TypeOK, Shutdown, Pills, Busy
<1>3. IsFiniteSet(Working) /\ Cardinality(Working) # 0
  <2>1. IsFiniteSet(Working)
    BY FS_Subset, ExecAssumption DEF Working
  <2> QED BY <1>1, <2>1, FS_EmptySet
<1>4. incoming # << >>
  BY <1>3 DEF Shutdown, Pills
<1> QED BY <1>1, <1>2, <1>4 DEF SomeoneMoves, OracleMoves

\* As long as the program has not ended, a task can go on: no test, no oracle and
\* no phase of main waits for something that will not come, provided the
\* captures of all seeds fit in the queue (in `exec_many_seeds' they do not).
THEOREM NobodyWaitsForEver ==
  ASSUME RoomForSeeds
  PROVE  Spec => []NobodyIsStuck
<1>1. Init => Started
  BY ExecAssumption DEF Init, Started, Tests
<1>2. Basics /\ Started /\ [Next]_vars => Started'
  BY StartedStep
<1>3. Basics /\ Shutdown /\ Started => NobodyIsStuck
  <2> SUFFICES ASSUME Basics, Shutdown, Started, ~LoopMoves, ~Terminated
               PROVE  SomeoneMoves
    BY DEF NobodyIsStuck
  <2> phase \in {"literal", "seeds", "spawn", "wait", "drain", "join", "end"}
      /\ active \subseteq Children
    BY DEF Basics, TypeOK
  <2>1. CASE phase = "literal"
    BY <2>1, TestIsNotStuck DEF LoopMoves, Started, Tests
  <2>2. CASE phase = "seeds"
    BY <2>2, TestIsNotStuck DEF LoopMoves, Started, Tests
  <2>3. CASE phase \in {"wait", "drain"}
    BY <2>3, TestIsNotStuck DEF LoopMoves, Started, Tests
  <2>4. CASE phase = "join"
    BY <2>4, JoinIsNotStuck DEF LoopMoves
  <2>5. CASE phase = "end"
    BY <2>5, EndIsNotStuck
  <2> QED BY <2>1, <2>2, <2>3, <2>4, <2>5 DEF LoopMoves
<1>4. Spec => []Started
  BY <1>1, <1>2, BasicsAlways, PTL DEF Spec
<1> QED BY <1>3, <1>4, ShutdownAlways, PTL

-----------------------------------------------------------------------------
(* What is left to do once a stop condition holds.                          *)

\* The places a test, and the phases main, still has to go through.
PlacesAhead(place) ==
  CASE place = "new" -> {"recv", "exec", "run", "put", "done"}
    [] place = "recv" -> {"exec", "run", "put", "done"}
    [] place = "exec" -> {"run", "put", "done"}
    [] place = "run" -> {"put", "done"}
    [] place = "put" -> {"done"}
    [] OTHER -> {}

PhasesAhead ==
  CASE phase = "literal" -> {"seeds", "spawn", "wait", "drain", "join", "end"}
    [] phase = "seeds" -> {"spawn", "wait", "drain", "join", "end"}
    [] phase = "spawn" -> {"wait", "drain", "join", "end"}
    [] phase = "wait" -> {"drain", "join", "end"}
    [] phase = "drain" -> {"join", "end"}
    [] phase = "join" -> {"end"}
    [] OTHER -> {}

TestsAhead == {p \in Tests \X Places : p[2] \in PlacesAhead(task[p[1]])}

\* Tests whose capture may still be taken, or judged, by an oracle.
Untaken == {t \in Tests : task[t] # "done" \/ t \in ToSet(incoming)}
Unjudged == Untaken \cup {t \in Tests : \E o \in Oracles : oracle[o] = t}

\* What is left to do.
Left == <<TestsAhead, PhasesAhead, Untaken, Unjudged, Working>>

\* Nothing is added to what is left, and something goes.
Shrinks ==
  /\ TestsAhead' \subseteq TestsAhead
  /\ PhasesAhead' \subseteq PhasesAhead
  /\ Untaken' \subseteq Untaken
  /\ Unjudged' \subseteq Unjudged
  /\ Working' \subseteq Working
  /\ Left' # Left

\* Once a stop condition holds, steps that are not of a command loop use it up.
WindsDown == stopping /\ ~(\E k \in Tokens : CommandLoop(k)) => Shrinks

\* Tests that move on have less before them.
LEMMA TestsMoveOn ==
  ASSUME TypeOK, \A t \in Tests : task'[t] = task[t] \/ task'[t] \in PlacesAhead(task[t])
  PROVE  /\ TestsAhead' \subseteq TestsAhead
         /\ \A t \in Tests : task'[t] # task[t] => TestsAhead' # TestsAhead
<1>1. \A t \in Tests : task[t] \in {"new", "recv", "exec", "run", "put", "done"}
  BY DEF TypeOK
<1>2. \A t \in Tests : PlacesAhead(task'[t]) \subseteq PlacesAhead(task[t])
  BY <1>1 DEF PlacesAhead
<1>3. TestsAhead' \subseteq TestsAhead
  BY <1>2 DEF TestsAhead
<1>4. ASSUME NEW t \in Tests, task'[t] # task[t]
      PROVE  TestsAhead' # TestsAhead
  <2>1. /\ task'[t] \in Places /\ task'[t] \in PlacesAhead(task[t])
        /\ task'[t] \notin PlacesAhead(task'[t])
    BY <1>1, <1>4 DEF PlacesAhead, Places
  <2>2. <<t, task'[t]>> \in TestsAhead /\ <<t, task'[t]>> \notin TestsAhead'
    BY <2>1 DEF TestsAhead
  <2> QED BY <2>2
<1> QED BY <1>3, <1>4

\* A step of a test.
LEMMA TestWinds ==
  ASSUME Basics, NEW t \in Tests, run_single_mutation(t)
  PROVE  Shrinks
<1> /\ task \in [Tests -> {"new", "recv", "exec", "run", "put", "done"}]
    /\ incoming \in Seq(Tests \cup {None})
    /\ t \in Tests \cup {None}
  BY DEF Basics, TypeOK
<1>1. PICK place \in PlacesAhead(task[t]) :
        /\ task' = [task EXCEPT ![t] = place]
        /\ place # task[t]
  <2>1. CASE Recv(t) \/ Execute(t)
    BY <2>1 DEF Recv, Execute, Goto, PlacesAhead
  <2>2. CASE Succeed(t) \/ SyntaxError(t) \/ CrashOrHang(t) \/ Fail(t)
    BY <2>2 DEF Succeed, SyntaxError, CrashOrHang, Fail, Conclude, Holds, Goto, PlacesAhead
  <2>3. CASE Put(t)
    BY <2>3 DEF Put, Goto, PlacesAhead
  <2> QED BY <2>1, <2>2, <2>3 DEF run_single_mutation
<1>2. TestsAhead' \subseteq TestsAhead /\ TestsAhead' # TestsAhead
  BY <1>1, TestsMoveOn DEF Basics
<1>3. /\ task[t] # "done" /\ UNCHANGED <<phase, oracle>>
      /\ incoming' = incoming \/ incoming' = Append(incoming, t)
  <2>1. CASE Recv(t) \/ Execute(t)
    BY <2>1 DEF Recv, Execute, oracleVars, loopVars
  <2>2. CASE Succeed(t) \/ SyntaxError(t) \/ CrashOrHang(t) \/ Fail(t)
    BY <2>2 DEF Succeed, SyntaxError, CrashOrHang, Fail, Conclude, Holds, oracleVars, loopVars
  <2>3. CASE Put(t)
    BY <2>3 DEF Put, oracleVars, loopVars
  <2> QED BY <2>1, <2>2, <2>3 DEF run_single_mutation
<1>4. ToSet(incoming') \subseteq ToSet(incoming) \cup {t}
  <2>1. ToSet(Append(incoming, t)) = ToSet(incoming) \cup {t}
    BY AppendSet
  <2> QED BY <1>3, <2>1
<1>5. Untaken' \subseteq Untaken
  BY <1>1, <1>3, <1>4 DEF Untaken
<1>6. Unjudged' \subseteq Unjudged
  BY <1>3, <1>5 DEF Unjudged
<1> QED BY <1>2, <1>3, <1>5, <1>6 DEF Shrinks, Left, PhasesAhead, Working

\* An oracle takes a capture, or its pill.
LEMMA GetWinds ==
  ASSUME Basics, Shutdown, NEW o \in Oracles, Get(o)
  PROVE  Shrinks
<1> DEFINE item == Head(incoming)
<1>1. /\ incoming \in Seq(Tests \cup {None}) /\ incoming # << >>
      /\ incoming' = Tail(incoming)
      /\ oracle \in [Oracles -> Tests \cup {"idle", "exited"}]
      /\ oracle[o] = "idle"
      /\ oracle' = [oracle EXCEPT ![o] = IF item = None THEN "exited" ELSE item]
      /\ UNCHANGED <<phase, task, judged>>
  BY DEF Basics, TypeOK, Get, loopVars
<1>2. /\ item \in Tests \cup {None}
      /\ item \in ToSet(incoming)
      /\ ToSet(incoming') \subseteq ToSet(incoming)
  BY <1>1, TailSubset
<1>3. IsInjective(incoming) => item \notin ToSet(incoming')
  BY <1>1, TailSet
<1> HIDE DEF item
<1>4. TestsAhead' = TestsAhead /\ PhasesAhead' = PhasesAhead
  BY <1>1 DEF TestsAhead, PhasesAhead
<1>5. Untaken' \subseteq Untaken
  BY <1>1, <1>2 DEF Untaken
<1>6. \A p \in Oracles : p # o => oracle'[p] = oracle[p]
  BY <1>1
<1>7. CASE item = None
  <2>1. oracle'[o] = "exited"
    BY <1>1, <1>7
  <2>2. Working' = Working \ {o} /\ o \in Working
    BY <1>1, <1>6, <2>1 DEF Working
  <2>3. Unjudged' \subseteq Unjudged
    BY <1>5, <1>6, <2>1, NamesAssumption DEF Unjudged
  <2> QED BY <1>4, <1>5, <2>2, <2>3 DEF Shrinks, Left
<1>8. CASE item # None
  <2>1. item \in Tests /\ oracle'[o] = item /\ item # "exited"
    BY <1>1, <1>2, <1>8, NamesAssumption
  <2>2. phase # "end"
    BY <1>2, <1>8 DEF Shutdown, Pills
  <2>3. item \notin ToSet(incoming') /\ task[item] = "done"
    BY <1>2, <1>3, <2>1, <2>2 DEF Shutdown, Captures
  <2>4. item \in Untaken /\ item \notin Untaken'
    BY <1>1, <1>2, <2>1, <2>3 DEF Untaken
  <2>5. Unjudged' \subseteq Unjudged
    BY <1>5, <1>6, <2>1, <2>4 DEF Unjudged
  <2>6. Working' \subseteq Working
    BY <1>1, <1>6 DEF Working
  <2> QED BY <1>4, <1>5, <2>4, <2>5, <2>6 DEF Shrinks, Left
<1> QED BY <1>7, <1>8

\* An oracle is done with a capture.
LEMMA TaskDoneWinds ==
  ASSUME Basics, Shutdown, NEW o \in Oracles, TaskDone(o)
  PROVE  Shrinks
<1> DEFINE capture == oracle[o]
<1>1. /\ capture \in Tests /\ o \in Busy
      /\ oracle' = [oracle EXCEPT ![o] = "idle"]
      /\ oracle \in [Oracles -> Tests \cup {"idle", "exited"}]
      /\ UNCHANGED <<phase, task, incoming>>
      /\ capture # "exited" /\ \A t \in Tests : t # "idle"
  BY NamesAssumption DEF Basics, TypeOK, TaskDone, loopVars, Busy
<1>2. capture \notin ToSet(incoming) /\ task[capture] = "done"
  BY <1>1 DEF Shutdown, Captures, Busy
<1>3. \A p \in Oracles : p # o => oracle[p] # capture /\ oracle'[p] = oracle[p]
  BY <1>1 DEF Shutdown, Captures, Busy
<1> HIDE DEF capture
<1>4. oracle'[o] = "idle" /\ oracle[o] = capture
  BY <1>1 DEF capture
<1>5. /\ TestsAhead' = TestsAhead /\ PhasesAhead' = PhasesAhead
      /\ Untaken' = Untaken /\ capture \notin Untaken
  BY <1>1, <1>2 DEF TestsAhead, PhasesAhead, Untaken
<1>6. Unjudged' \subseteq Unjudged
  BY <1>1, <1>3, <1>4, <1>5 DEF Unjudged
<1>7. capture \in Unjudged /\ capture \notin Unjudged'
  BY <1>1, <1>3, <1>4, <1>5 DEF Unjudged
<1>8. Working' \subseteq Working
  BY <1>3, <1>4, <1>1 DEF Working
<1> QED BY <1>5, <1>6, <1>7, <1>8 DEF Shrinks, Left

\* main goes on to the next phase.
LEMMA PhaseWinds ==
  ASSUME Basics, Shutdown, stopping,
         LiteralDone \/ SeedsDone \/ Spawn \/ FirstCompleted \/ Drain \/ Join
  PROVE  Shrinks
<1> /\ task \in [Tests -> {"new", "recv", "exec", "run", "put", "done"}]
    /\ incoming \in Seq(Tests \cup {None})
    /\ None \notin Tests
  BY ExecAssumption DEF Basics, TypeOK
<1>1. /\ PhasesAhead' \subseteq PhasesAhead
      /\ PhasesAhead' # PhasesAhead
  BY DEF LiteralDone, SeedsDone, Spawn, FirstCompleted, Drain, Join, PhasesAhead
<1>2. \A t \in Tests : task'[t] = task[t] \/ (task[t] = "new" /\ task'[t] = "recv")
  <2>1. CASE LiteralDone
    BY <2>1 DEF LiteralDone, Basics, SeedsWait
  <2>2. CASE Spawn
    BY <2>2 DEF Spawn
  <2>3. CASE SeedsDone \/ FirstCompleted \/ Drain \/ Join
    BY <2>3 DEF SeedsDone, FirstCompleted, Drain, Join
  <2> QED BY <2>1, <2>2, <2>3
<1>3. TestsAhead' \subseteq TestsAhead
  BY <1>2, TestsMoveOn DEF Basics, PlacesAhead
<1>4. ToSet(incoming') \subseteq ToSet(incoming) \cup {None} /\ oracle' = oracle
  <2>1. CASE Join
    <3>1. /\ Len(incoming) = 0 /\ UNCHANGED oracle
      BY <2>1, BusyCount DEF Basics, Counted, TypeOK, Join
    <3>2. \A i \in DOMAIN incoming' : incoming'[i] = None
      BY <2>1, <3>1, PillsAppended DEF Basics
    <3> QED BY <3>1, <3>2 DEF ToSet
  <2>2. CASE ~Join
    BY <2>2 DEF LiteralDone, SeedsDone, Spawn, FirstCompleted, Drain, oracleVars
  <2> QED BY <2>1, <2>2
<1>5. Untaken' \subseteq Untaken
  BY <1>2, <1>4 DEF Untaken
<1>6. Unjudged' \subseteq Unjudged /\ Working' = Working
  BY <1>4, <1>5 DEF Unjudged, Working
<1> QED BY <1>1, <1>3, <1>5, <1>6 DEF Shrinks, Left

\* Any six things are finitely many.
LEMMA SixAreFinite ==
  ASSUME NEW a, NEW b, NEW c, NEW d, NEW e, NEW f
  PROVE  IsFiniteSet({a, b, c, d, e, f})
<1>1. IsFiniteSet({a} \cup {b}) /\ IsFiniteSet({c} \cup {d}) /\ IsFiniteSet({e} \cup {f})
  BY FS_Singleton, FS_Union
<1>2. IsFiniteSet(({a} \cup {b}) \cup ({c} \cup {d}))
  BY <1>1, FS_Union
<1>3. IsFiniteSet((({a} \cup {b}) \cup ({c} \cup {d})) \cup ({e} \cup {f}))
  BY <1>1, <1>2, FS_Union
<1>4. {a, b, c, d, e, f} = (({a} \cup {b}) \cup ({c} \cup {d})) \cup ({e} \cup {f})
  OBVIOUS
<1> QED BY <1>3, <1>4

\* There is only so much to do.
LEMMA LeftIsFinite == \A i \in 1..5 : IsFiniteSet(Left[i])
<1>1. IsFiniteSet(Places)
  BY SixAreFinite, Places = {"recv", "recv", "exec", "run", "put", "done"} DEF Places
<1>2. IsFiniteSet(Tests \X Places)
  BY <1>1, FS_Product, ExecAssumption
<1>3. TestsAhead \subseteq Tests \X Places
  BY DEF TestsAhead
<1>4. PhasesAhead \subseteq {"seeds", "spawn", "wait", "drain", "join", "end"}
  BY DEF PhasesAhead
<1>5. Untaken \subseteq Tests /\ Unjudged \subseteq Tests /\ Working \subseteq Oracles
  BY DEF Untaken, Unjudged, Working
<1>6. /\ IsFiniteSet(TestsAhead) /\ IsFiniteSet(PhasesAhead) /\ IsFiniteSet(Untaken)
      /\ IsFiniteSet(Unjudged) /\ IsFiniteSet(Working)
  BY <1>2, <1>3, <1>4, <1>5, SixAreFinite, FS_Subset, ExecAssumption
<1> QED BY <1>6 DEF Left

\* Once a stop condition holds, every step but those of the command loop of some
\* process takes something off what is left to do, which is finite, and none
\* adds to it: nothing goes round in circles on the way to the end.
THEOREM TheRunWindsDown ==
  Spec => [](\A i \in 1..5 : IsFiniteSet(Left[i])) /\ [][WindsDown]_vars
<1>1. Basics /\ Shutdown /\ [Next]_vars => [WindsDown]_vars
  <2> SUFFICES ASSUME Basics, Shutdown, Next, stopping, vars' # vars,
                      ~\E k \in Tokens : CommandLoop(k)
               PROVE  Shrinks
    BY DEF WindsDown
  <2>1. CASE \E t \in Tests : run_single_mutation(t)
    BY <2>1, TestWinds
  <2>2. CASE \E o \in Oracles : oracle_worker(o)
    BY <2>2, GetWinds, TaskDoneWinds DEF oracle_worker
  <2>3. CASE LiteralDone \/ SeedsDone \/ Spawn \/ FirstCompleted \/ Drain \/ Join
    BY <2>3, PhaseWinds
  <2> QED BY <2>1, <2>2, <2>3 DEF Next, Stop
<1> QED BY <1>1, LeftIsFinite, ShutdownAlways, PTL DEF Spec
=============================================================================
