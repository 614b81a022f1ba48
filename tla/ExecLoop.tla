------------------------------ MODULE ExecLoop ------------------------------
(***************************************************************************)
(* One run of python/tester/main.py: a first query and then the seeds are   *)
(* executed, the event loop keeps up to CONCURRENCY_LIMIT tests in flight   *)
(* until a stop condition holds, and everything is shut down.               *)
(*                                                                         *)
(* A test borrows one of the engine's IPC tokens (a shared memory map in    *)
(* which the SQLite process of that token records the edges it hits), runs  *)
(* its query, gives the token back and reports its capture to the oracles   *)
(* through a bounded asyncio queue.  Python code runs in one thread: a step *)
(* is what a task does between two awaits.                                  *)
(***************************************************************************)
EXTENDS Integers, Sequences, FiniteSets, SequencesExt

CONSTANTS
  Literal,            \* the query main.py runs first, on its own
  Seeds,              \* test cases main.py runs before the loop
  Children,           \* bound: test cases the engine breeds in the loop
  Tokens,             \* IPC tokens
  Oracles,            \* oracle workers
  CONCURRENCY_LIMIT,  \* tests the loop has in flight
  QUEUE_SIZE,         \* capacity of the oracle queue
  RESET_EVERY,        \* resets of a worker between two hard resets
  None                \* no token, no capture, the pill for an oracle

Tests == {Literal} \cup Seeds \cup Children

ASSUME ExecAssumption ==
  /\ Seeds \cap Children = {} /\ Literal \notin Seeds \cup Children
  /\ None \notin Tests \cup Tokens
  /\ IsFiniteSet(Tests) /\ IsFiniteSet(Tokens) /\ IsFiniteSet(Oracles)
  /\ CONCURRENCY_LIMIT \in Nat \ {0}
  /\ RESET_EVERY \in Nat \ {0}
  \* put_nowait (event_loop.py:90) must find room for every pill
  /\ QUEUE_SIZE \in Nat \ {0} /\ QUEUE_SIZE >= Cardinality(Oracles)

VARIABLES
  phase,       \* where main and, from "spawn" on, fuzzing_loop are
  stopping,    \* a stop condition of fuzzing_loop holds
  active,      \* active_tasks of fuzzing_loop
  task,        \* where run_single_mutation is for a test
  token,       \* the token the task of a test holds
  free,        \* the channel of tokens
  shmem,       \* what was recorded in the map of a token since it was zeroed
  proc,        \* the worker of a token has a live process
  resets,      \* _reset_counter of that worker, modulo RESET_EVERY
  fired,       \* how often the hooks of a test were fired
  incoming,    \* the oracle queue
  unfinished,  \* its count of unfinished tasks
  oracle,      \* the capture an oracle works on, "idle" or "exited"
  judged       \* captures some oracle is done with

engineVars == <<token, free, shmem, proc, resets, fired>>
oracleVars == <<incoming, unfinished, oracle, judged>>
loopVars == <<phase, stopping, active>>
vars == <<loopVars, task, engineVars, oracleVars>>

Shell == "shell"   \* what a process records outside of the queries

ASSUME NamesAssumption == {Shell, "idle", "exited"} \cap (Tests \cup {None}) = {}

TypeOK ==
  /\ phase \in {"literal", "seeds", "spawn", "wait", "drain", "join", "end"}
  /\ stopping \in BOOLEAN
  /\ active \subseteq Children
  /\ task \in [Tests -> {"new", "recv", "exec", "run", "put", "done"}]
  /\ token \in [Tests -> Tokens \cup {None}]
  /\ free \in Seq(Tokens)
  /\ shmem \in [Tokens -> SUBSET (Tests \cup {Shell})]
  /\ proc \in [Tokens -> BOOLEAN]
  /\ resets \in [Tokens -> 0..(RESET_EVERY - 1)]
  /\ fired \in [Tests -> Nat]
  /\ incoming \in Seq(Tests \cup {None})
  /\ unfinished \in Nat
  /\ oracle \in [Oracles -> Tests \cup {"idle", "exited"}]
  /\ judged \subseteq Tests

\* The token channel starts full; main awaits the run of the literal query.
Init ==
  /\ phase = "literal"
  /\ stopping = FALSE
  /\ active = {}
  /\ task = [t \in Tests |-> IF t = Literal THEN "recv" ELSE "new"]
  /\ token = [t \in Tests |-> None]
  /\ free \in {s \in [1..Cardinality(Tokens) -> Tokens] : ToSet(s) = Tokens /\ IsInjective(s)}
  /\ shmem = [k \in Tokens |-> {}]
  /\ proc = [k \in Tokens |-> FALSE]
  /\ resets = [k \in Tokens |-> 0]
  /\ fired = [t \in Tests |-> 0]
  /\ incoming = << >>
  /\ unfinished = 0
  /\ oracle = [o \in Oracles |-> "idle"]
  /\ judged = {}

Goto(t, place) == task' = [task EXCEPT ![t] = place]

-----------------------------------------------------------------------------
(* run_single_mutation.                                                     *)

\* t has a token: it was received and not given back yet.
Holds(t) == task[t] \in {"exec", "run"}

\* await ipc_queue.recv()
Recv(t) ==
  /\ task[t] = "recv"
  /\ free # << >>
  /\ token' = [token EXCEPT ![t] = Head(free)]
  /\ free' = Tail(free)
  /\ Goto(t, "exec")
  /\ UNCHANGED <<loopVars, shmem, proc, resets, fired, oracleVars>>

\* worker.execute up to the wait for the sentinels: the process of the token,
\* started if there is none, runs the query and records its edges.
Execute(t) ==
  LET k == token[t]
  IN /\ task[t] = "exec"
     /\ proc' = [proc EXCEPT ![k] = TRUE]
     /\ shmem' = [shmem EXCEPT ![k] = @ \cup {t}]
     /\ Goto(t, "run")
     /\ UNCHANGED <<loopVars, token, free, resets, fired, oracleVars>>

\* Between two queries a live process sits in the shell's command loop.  That
\* is instrumented as well: it records edges after it answered a reset.
CommandLoop(k) ==
  /\ proc[k]
  /\ shmem' = [shmem EXCEPT ![k] = @ \cup {Shell}]
  /\ UNCHANGED <<loopVars, task, token, free, proc, resets, fired, oracleVars>>

\* Mutant: the map is not zeroed.
ReturnToken_NotZeroed(t) ==
  /\ free' = Append(free, token[t])
  /\ token' = [token EXCEPT ![t] = None]
  /\ UNCHANGED shmem

\* SharedMemHandle::send of the token of t: the map is zeroed first.
ReturnToken(t) ==
  /\ shmem' = [shmem EXCEPT ![token[t]] = {}]
  /\ free' = Append(free, token[t])
  /\ token' = [token EXCEPT ![t] = None]

\* reset() of a live process: every RESET_EVERY-th is a hard reset, the others
\* reopen the database and turn into a hard reset when that times out.
Reset(k) ==
  /\ resets' = [resets EXCEPT ![k] = (@ + 1) % RESET_EVERY]
  /\ \/ proc' = [proc EXCEPT ![k] = FALSE]
     \/ resets[k] # 0 /\ UNCHANGED proc

\* execute ends with the process gone: it crashed or was killed after a timeout.
Died(k) ==
  /\ proc' = [proc EXCEPT ![k] = FALSE]
  /\ UNCHANGED resets

\* The hooks are fired and the token goes back, by the task itself or by
\* commit_test_result.
Conclude(t, place) ==
  /\ fired' = [fired EXCEPT ![t] = @ + 1]
  /\ ReturnToken(t)
  /\ Goto(t, place)
  /\ UNCHANGED <<loopVars, oracleVars>>

\* The query ran: success, or an unconditional bug seen on stderr.
Succeed(t) ==
  /\ task[t] = "run"
  /\ Reset(token[t])
  /\ Conclude(t, "put")

\* Mutant: the hooks of a test with a syntax error are not fired.
SyntaxError_NoHooks(t) ==
  /\ task[t] = "run"
  /\ Reset(token[t])
  /\ ReturnToken(t)
  /\ Goto(t, "done")
  /\ UNCHANGED <<loopVars, fired, oracleVars>>

\* A syntax or runtime error: no oracle hears of it.
SyntaxError(t) ==
  /\ task[t] = "run"
  /\ Reset(token[t])
  /\ Conclude(t, "done")

\* A crash or a hang.  The process survives when only Python failed to talk
\* to it (the capture with exit code -1).
CrashOrHang(t) ==
  /\ task[t] = "run"
  /\ Died(token[t]) \/ Reset(token[t])
  /\ Conclude(t, "put")

\* Mutant: the exception handler does not send the token back.
Fail_LeaksToken(t) ==
  /\ Holds(t)
  /\ fired' = [fired EXCEPT ![t] = @ + 1]
  /\ token' = [token EXCEPT ![t] = None]
  /\ Goto(t, "done")
  /\ UNCHANGED <<loopVars, free, shmem, proc, resets, oracleVars>>

\* except Exception: the worker cannot be created or started, reset() raises on
\* a broken pipe, or an execution time beyond u32 is refused by TestResult.
Fail(t) ==
  /\ Holds(t)
  /\ \/ Reset(token[t])
     \/ Died(token[t])
     \/ UNCHANGED <<proc, resets>>
  /\ Conclude(t, "done")

\* await oracle_queue.put(capture)
Put(t) ==
  /\ task[t] = "put"
  /\ Len(incoming) < QUEUE_SIZE
  /\ incoming' = Append(incoming, t)
  /\ unfinished' = unfinished + 1
  /\ Goto(t, "done")
  /\ UNCHANGED <<loopVars, engineVars, oracle, judged>>

run_single_mutation(t) ==
  \/ Recv(t)
  \/ Execute(t)
  \/ Succeed(t)
  \/ SyntaxError(t)
  \/ CrashOrHang(t)
  \/ Fail(t)
  \/ Put(t)

-----------------------------------------------------------------------------
(* oracle_worker: the coroutines start with fuzzing_loop (main.py:196).     *)

\* Mutant: task_done is called when the capture is taken.
Get_DoneAtOnce(o) ==
  /\ phase \notin {"literal", "seeds"}
  /\ oracle[o] = "idle"
  /\ incoming # << >>
  /\ incoming' = Tail(incoming)
  /\ oracle' = [oracle EXCEPT ![o] = IF Head(incoming) = None THEN "exited"
                                     ELSE Head(incoming)]
  /\ unfinished' = unfinished - 1
  /\ UNCHANGED <<loopVars, task, engineVars, judged>>

Get(o) ==
  /\ phase \notin {"literal", "seeds"}
  /\ oracle[o] = "idle"
  /\ incoming # << >>
  /\ incoming' = Tail(incoming)
  /\ IF Head(incoming) = None
     THEN /\ oracle' = [oracle EXCEPT ![o] = "exited"]
          /\ unfinished' = unfinished - 1
     ELSE /\ oracle' = [oracle EXCEPT ![o] = Head(incoming)]
          /\ UNCHANGED unfinished
  /\ UNCHANGED <<loopVars, task, engineVars, judged>>

\* Mutant: task_done is called twice.
TaskDone_Twice(o) ==
  /\ oracle[o] \in Tests
  /\ judged' = judged \cup {oracle[o]}
  /\ oracle' = [oracle EXCEPT ![o] = "idle"]
  /\ unfinished' = unfinished - 2
  /\ UNCHANGED <<loopVars, task, engineVars, incoming>>

\* The finally clause: whatever became of the capture, task_done is called.
TaskDone(o) ==
  /\ oracle[o] \in Tests
  /\ judged' = judged \cup {oracle[o]}
  /\ oracle' = [oracle EXCEPT ![o] = "idle"]
  /\ unfinished' = unfinished - 1
  /\ UNCHANGED <<loopVars, task, engineVars, incoming>>

oracle_worker(o) == Get(o) \/ TaskDone(o)

-----------------------------------------------------------------------------
(* main and fuzzing_loop.                                                   *)

\* close() of every worker: a live process is told to quit, and records what
\* it does until then.  The next dictionary of workers starts empty.
CloseWorkers ==
  /\ shmem' = [k \in Tokens |-> IF proc[k] THEN shmem[k] \cup {Shell} ELSE shmem[k]]
  /\ proc' = [k \in Tokens |-> FALSE]
  /\ resets' = [k \in Tokens |-> 0]

\* The literal query is over; the seeds are read and each gets a task.
LiteralDone ==
  /\ phase = "literal"
  /\ task[Literal] = "done"
  /\ task' = [t \in Tests |-> IF t \in Seeds THEN "recv" ELSE task[t]]
  /\ phase' = "seeds"
  /\ UNCHANGED <<stopping, active, engineVars, oracleVars>>

\* gather(*tasks) of the seeds is over.
SeedsDone ==
  /\ phase = "seeds"
  /\ \A t \in Seeds : task[t] = "done"
  /\ CloseWorkers
  /\ phase' = "spawn"
  /\ UNCHANGED <<stopping, active, task, token, free, fired, oracleVars>>

\* The body of the loop up to asyncio.wait.  The engine may breed fewer
\* children than there is room for.
Spawn ==
  /\ phase = "spawn"
  /\ \E batch \in SUBSET {t \in Children : task[t] = "new"} :
       /\ Cardinality(batch) =< CONCURRENCY_LIMIT - Cardinality(active)
       /\ active' = active \cup batch
       /\ task' = [t \in Tests |-> IF t \in batch THEN "recv" ELSE task[t]]
  /\ phase' = "wait"
  /\ UNCHANGED <<stopping, engineVars, oracleVars>>

\* asyncio.wait(FIRST_COMPLETED) returns; with no active task it raises at once.
FirstCompleted ==
  /\ phase = "wait"
  /\ active = {} \/ \E t \in active : task[t] = "done"
  /\ active' = {t \in active : task[t] # "done"}
  /\ phase' = IF stopping THEN "drain" ELSE "spawn"
  /\ UNCHANGED <<stopping, task, engineVars, oracleVars>>

\* The time is up, or the corpus or the number of queries has its size.
Stop ==
  /\ ~stopping
  /\ stopping' = TRUE
  /\ UNCHANGED <<phase, active, task, engineVars, oracleVars>>

\* gather(*active_tasks), then the workers are closed.
Drain ==
  /\ phase = "drain"
  /\ \A t \in active : task[t] = "done"
  /\ CloseWorkers
  /\ phase' = "join"
  /\ UNCHANGED <<stopping, active, task, token, free, fired, oracleVars>>

\* Mutant: the pills do not wait for join().
Join_NoWait ==
  /\ phase = "join"
  /\ incoming' = incoming \o [i \in 1..Cardinality(Oracles) |-> None]
  /\ unfinished' = unfinished + Cardinality(Oracles)
  /\ phase' = "end"
  /\ UNCHANGED <<stopping, active, task, engineVars, oracle, judged>>

\* Mutant: one pill is missing.
Join_PillMissing ==
  /\ phase = "join"
  /\ unfinished = 0
  /\ incoming' = incoming \o [i \in 1..(Cardinality(Oracles) - 1) |-> None]
  /\ unfinished' = unfinished + Cardinality(Oracles) - 1
  /\ phase' = "end"
  /\ UNCHANGED <<stopping, active, task, engineVars, oracle, judged>>

\* oracle_queue.join(), then one pill for every oracle.
Join ==
  /\ phase = "join"
  /\ unfinished = 0
  /\ incoming' = incoming \o [i \in 1..Cardinality(Oracles) |-> None]
  /\ unfinished' = unfinished + Cardinality(Oracles)
  /\ phase' = "end"
  /\ UNCHANGED <<stopping, active, task, engineVars, oracle, judged>>

Terminated == phase = "end" /\ \A o \in Oracles : oracle[o] = "exited"

Next ==
  \/ \E t \in Tests : run_single_mutation(t)
  \/ \E o \in Oracles : oracle_worker(o)
  \/ \E k \in Tokens : CommandLoop(k)
  \/ LiteralDone
  \/ SeedsDone
  \/ Spawn
  \/ FirstCompleted
  \/ Stop
  \/ Drain
  \/ Join
  \/ Terminated /\ UNCHANGED vars

\* Every ready task of the asyncio loop is run, every execution ends (it has a
\* timeout), and a stop condition holds one day.
Fairness ==
  /\ \A t \in Tests : WF_vars(run_single_mutation(t))
  /\ \A o \in Oracles : WF_vars(oracle_worker(o))
  /\ WF_vars(LiteralDone \/ SeedsDone \/ Spawn \/ FirstCompleted \/ Drain \/ Join)
  /\ WF_vars(Stop)

Spec == Init /\ [][Next]_vars /\ Fairness

-----------------------------------------------------------------------------
(* Properties.                                                              *)

\* `Each token must be returned exactly once per cycle' (ARCHITECTURE.md): at
\* any time a token is either once in the channel or held by exactly one test,
\* and a test that waits for the oracle queue or is over holds none.
TokensConserved ==
  /\ IsInjective(free)
  /\ \A t \in Tests : Holds(t) <=> token[t] # None
  /\ \A t, u \in Tests : token[t] = token[u] /\ token[t] # None => t = u
  /\ \A k \in Tokens : k \in ToSet(free) <=> \A t \in Tests : token[t] # k

\* No test is credited with edges another query hit: what the engine finds in
\* the map of a running test was recorded by that test, or by the command loop
\* of a process that uses the same token.
OwnCoverage ==
  /\ \A t \in Tests : Holds(t) => shmem[token[t]] \subseteq {t, Shell}
  /\ \A k \in ToSet(free) : shmem[k] \subseteq {Shell}

\* The hooks of a test that is over were fired exactly once, on every path of
\* run_single_mutation, and never before.
HooksFiredOnce ==
  \A t \in Tests : fired[t] = IF task[t] \in {"put", "done"} THEN 1 ELSE 0

Busy == {o \in Oracles : oracle[o] \in Tests}

\* Queue.join() waits for exactly what was put and is not yet judged, and no
\* capture is judged twice.
CapturesAccounted ==
  /\ unfinished = Len(incoming) + Cardinality(Busy)
  /\ \A o \in Busy : oracle[o] \notin judged \cup ToSet(incoming)
  /\ judged \cap ToSet(incoming) = {}
  /\ phase # "end" => IsInjective(incoming)

\* An oracle exits only when every test is over and all that was reported has
\* been judged, and there is a pill left for each oracle that has not.
PillsComeLast ==
  /\ (\E o \in Oracles : oracle[o] = "exited") => phase = "end"
  /\ phase = "end" =>
       /\ Busy = {}
       /\ \A t \in Tests : task[t] \in {"new", "done"}
       /\ ToSet(incoming) \subseteq {None}
       /\ Len(incoming) = Cardinality({o \in Oracles : oracle[o] # "exited"})

\* The program ends: no task is left waiting for a token, for room in the
\* oracle queue or for the oracles.
Terminates == <>Terminated

\* The queue of results `is regularily polled and emptied by the event loop'
\* (ARCHITECTURE.md): no test waits for ever to report its capture.
CapturesAreTaken == \A t \in Tests : task[t] = "put" ~> task[t] = "done"
=============================================================================
