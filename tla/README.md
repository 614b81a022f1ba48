# A verification project for lsf, the AST-based SQLite fuzzer

The repository is a coverage-guided fuzzer for SQLite: Rust crates that keep a
corpus of parsed queries, choose and mutate them and rate the results
(`crates/`), and a Python asyncio harness that runs them in instrumented
`sqlite3` processes and compares them with a reference build (`python/tester/`).
This directory models its stateful core in TLA+, checks the models with TLC and
proves the main invariants with TLAPS.

## 1. Inventory

| Component | Source | State it keeps | Operations | What is hard about it |
|---|---|---|---|---|
| Corpus | `lsf-engine/src/corpus.rs`, `dynamic_corpus.rs` | index (tier and score of each entry), in-flight queue, hot cache, eviction queue, storage backend, capacity and miss counters | `get update insert remove resize protected_ids clear` | entries move between tiers on almost every call; writes and reads may fail half-way; the eviction queue outlives `remove` and `clear` |
| Engine | `lsf-engine/src/engine.rs` | corpus, scheduler, minimizer, global edge map, size at the last GC | `mutate_batch commit_test_result populate snapshot chore clear` | keeps four stores of ids in step; some survive `clear` |
| Minimizer | `lsf-engine/src/minimizer.rs` | best entry of each edge, diversity window, GC rotation counters | `on_add minimize reset` | records ids before they are accepted, never forgets culled ones |
| Coverage | `lsf-cov/src/bitmap.rs`, `ipc.rs` | global hit map, best entries, shared maps | `update update_if_best recv send` | shared memory written by another process |
| Schedulers | `lsf-engine/src/schedule.rs`, `probabilisitic_mab.rs`, `mab_scheduler.rs` | prepared batch with energies, block sums over weights | `next_batch on_add on_remove chore reset` | duplicates and removals in an index with positional sums |
| Feedback | `lsf-feedback/src`, `lsf-hooks/src` | bandit bodies and arms, hooks of a test | `on_exec on_mutate tick_by calculate_score fire_hooks` | lazily scaled counters |
| Mutation strategies | `lsf-mutate/src`, `rules.py`, the builders of `lsf-ffi` | the queue of rules of each `MABScheduler`, locked while it breeds | `breed` of each rule and of each strategy that calls others | a tree of strategies that rewrite one AST in turn; what they report decides whether the child is kept and which arms learn of it |
| Bindings | `lsf-ffi/src` | token and result handles | `recv send commit_test_result fire_hooks` | moves out of shared handles |
| Execution loop | `python/tester/main.py`, `event_loop.py`, `exec.py` | active tasks, token channel, oracle queue | `run_single_mutation`, `fuzzing_loop`, shutdown | every await is an interleaving point; crashes, hangs and Python exceptions; shutdown |
| Worker protocol | `python/tester/persistent_worker.py` | process handle, pipes, working directory, reset counter | `SQLiteWorker.execute`, `reset`, `hard_reset`, `close` | answers end with sentinels the shell is told to print; the end of a pipe, the exit code and the timeout arrive in any order |
| Oracles | `python/tester/oracle.py` | seen signatures, number of bugs | `oracle_worker` | deduplication across workers and awaits |
| Evaluation | `keyword_*.py`, `rules.py`, `perf/` | none | offline | - |

How they interact: `fuzzing_loop` asks the engine for a batch (scheduler →
corpus → strategies), spawns a task for each child; the task borrows a token,
has the query executed by the worker of that token, and either fires the hooks
itself or commits the result to the engine, which reads the map of the token,
sends it back, lets the minimizer decide, and inserts the entry into scheduler
and corpus. The capture goes to the oracles through a bounded queue. All engine
calls run under one mutex; Python code runs in one thread.

What makes each component correct:

* Corpus: an indexed entry is in exactly one tier and can be retrieved; tiers
  stay within their capacities; only a worst entry is evicted, and only for a
  better one; seen through `CorpusHandler` it is a map.
* Execution loop: tokens are conserved; a test is credited with its own edges
  only; hooks fire once per test; every test ends; the shutdown loses no capture
  and reaches every oracle.
* Engine and minimizer: the best entry of an edge is neither culled nor dangling;
  scheduler and corpus hold the same ids; the GC culls only what was bad often
  enough; `clear` leaves nothing behind that matters.
* Schedulers: a prepared parent is drawn as often as its energy says; culled ones
  fade out; weights and block sums agree.
* Oracles: one report per distinct bug, and no bug lost to an exception.
* Worker protocol: one reply to every call, of that call alone, and a clean database
  for the next.
* Mutation strategies: what a rule says it mutated is kept and credited along its path, what did
  not is a copy, and no rule draws from nothing while queues are locked.

The hazards, each at its line, are listed in `PROJECT.json`.

## 2. Plan

Done, in this order:

1. `CorpusHandler` (abstract map) and `DynamicCorpus` (three tiers), with
   `MCDynamicCorpus` and `DynamicCorpus_proofs`.
2. `ExecLoop` with `ExecLoop_proofs`.
3. `Engine` (engine, minimizer, coverage) with `MCEngine` and `Engine_proofs`. Its
   corpus is the set of ids that `CorpusHandler` keeps, so that it stands on step 1.
4. `Oracle` with `MCOracle` and `Oracle_proofs`.
5. `BlobStore` and `SqlSaver`, composed in `Storage`, with `MCStorage` and
   `Storage_proofs`.
6. `BatchScheduler` and `Bandit`, with `Scheduling_proofs`.
7. `QueryExecutor` (abstract) and `WorkerProtocol` (sentinels, timeouts, resets), with
   `WorkerProtocol_proofs`.
8. `Mutators` (the rules), `Rulesets` (the trees of strategies) and `Breeding` (one
   child after the other through such a tree), with `MCBreeding` and `Breeding_proofs`.

Left, in this order:

9. `BlockSumTable` with `ProbabilisticMABScheduler`, which `main.py` does not use:
   positions in an index whose keys are rewritten, sums over blocks.
10. `ShardedDiskCache` as an implementation of the backend of its own, with the
    directories it shares between entries.

## 3. Modules

* `CorpusHandler`: what the engine may rely on: a map from kept ids to scores.
* `DynamicCorpus`: `dynamic_corpus.rs`. A tier is the set of ids it holds an
  AST for (an AST never changes once its id is issued). `cached`, `round` and
  `score` are the fields of `EntryData`, as total functions; `in_flight`, `hot`,
  `hot_eviction`, `hot_cap`, `requests`, `cache_misses` are the fields of the
  struct; `disk` and `lost_dirs` are the backend. `get`, `update`, `insert`,
  `remove`, `resize`, `clear` are the handlers of the same name, each one step
  because the engine's mutex makes it one. `EvictCachedIf`, `MoveToCache`,
  `MoveToDisk` and `Settle` are its helpers; the heap may yield any of several
  entries of equal score, so the victim is chosen by `\E`. `f64` scores are a few
  natural numbers: only their order is used. `MayBeCulled` is the test the GC
  makes with `protected_ids` before it removes an entry. `retired` and `requests
  < MaxRequests` are bounds: ids are never reissued, and counters stay finite.
* `ExecLoop`: the Python side. `task` is the await at which a run of
  `run_single_mutation` stands, `phase` the one of `main` and `fuzzing_loop`.
  `free` is the token channel, `shmem` what was recorded in the map of a token
  since it was zeroed. The SQLite process is external: it may run the query,
  crash, hang or make Python raise, and its command loop may record edges at any
  time it lives (`CommandLoop`).
* `Engine`: `engine.rs` with the minimizer and the coverage maps. `phase` is how far
  `main` is, since it decides which call may come next: the literal, a clear, the
  seeds, a clear, the loop. `commit_test_result`, `mutate_batch`, `chore`, `populate`,
  `clear` are the methods; `Minimize`, `TryInsert`, `UpdateIfBest`, `Spared` their
  helpers. An edge map is the set of its edges, the score of a best entry a number
  that is compared. Open are: which edges a test hits, whether its hash is near one
  in the window, and which entries the corpus protects. The rotation counter of
  an entry starts at 0 when it is first found bad, so it goes at the pass
  `CULL_AFTER + 1`. `hits` is a ghost.
* `Oracle`: `oracle.py`. A step is what a worker does between two awaits: `Take`
  (a capture is dropped, reported or sent to the reference), `Judge`, `Raise`.
  `seen_signatures` and `total_bugs` are the shared variables, `files` the reports on
  disk, which `Rerun` leaves. Which captures there are is a constant; the verdict on
  one is open within what its kind allows. A form is assumed to differ from every
  query text (it is in lower case) and the stderr of a hang to be that of hangs
  only (`SQLiteWorker` makes it up).
* `QueryExecutor`: what `run_single_mutation` relies on when it awaits a worker: one
  call at a time and one reply, which speaks of that call only.
* `WorkerProtocol`: `SQLiteWorker` and the `sqlite3` shell. `pc` is the await at which
  `execute`, `reset` or `close` stands; `known` is "`self.proc` is there and its
  `returncode` is None", `alive` the process itself; between the two is `Reap`, the child
  watcher. `stdin` and `pipe` are the pipes, item by item: a row of a query, the
  end-of-query sentinel, a reset marker with its number. `ReadUntil` is
  `_read_until_sentinel` with its three outcomes (found, too much, end of file), the two
  streams being read in any order. `db`, `ran` and `files` are what a query leaves in
  the process and in the working directory. The shell is external: it may be slow,
  print any number of rows, write a file, or die at any point (`Process`).
* `BlobStore`: `BinaryBlob`. A byte is the entry it belongs to and its place there. A
  write may stop half-way; `new` opens whatever an earlier run left.
* `SqlSaver`: `SQLSaver` and its thread: channel, buffer and file. The thread formats a
  query by many small writes into a `BufWriter` that spills wherever it is full, so what
  is counted are pieces: a piece is a stretch of text that nothing tears, and a query
  has `PARTS` of them. `channel` stands for the queue of commands and for the rest of the
  command the thread has in hand; an exit loses both. A write may fail part-way
  (`PutFails`), and so may the two calls of a clear and the last flush; the code drops
  the errors and goes on with what is left in the buffer. `intact` is a ghost: nothing
  has failed since the last clear. A thread that cannot open the file has `panicked`,
  and what is sent to it is ignored (`SendIgnored`). The saver and the thread may be at
  any point when the program exits.
* `Storage`: the two as `main.py` builds them, one around the other: a write goes to
  both, a clear and a new run reach both, the thread runs on its own.
* `BatchScheduler`: `SchedulerBatcher` over `FastProbabilisticMABScheduler`. `next_batch`
  begins a call and `Draw` is one turn of its loop; nothing else happens until the
  call has what it `asked` for. The refill inside the loop is left out: by
  `PreparedSuffices` it never comes about, since a call asks for at most
  `QUERY_STASH` = 128 parents and `MAX_REFILL` is 128 too (`RefillAssumption`). The inner
  scheduler accepts by chance, so a refill is any choice of entries.
* `Bandit`: `MABBody` and `MABArm`. A number is the set of the credits it is the sum of,
  a credit the power of `1 / DECAY_RATE` it was added with; dividing by
  `RESCALE_FACTOR` lowers the powers. `reset` happens before the first tick, as in `main`.
* `Mutators`: the rules of `lsf-mutate/src` and the helpers they share, as pure
  operators: for an AST, the set of what a rule may make of it, with what it reports
  and which entries become parents. A random choice is an element of the set, a draw
  from an empty range (a panic) the empty set. A query is a sequence of statements
  with relations and conditions, and of the expressions of SQL there is one of each
  sort a rule tells apart; "ident" stands for a plain identifier where `NullInject` looks
  at it and for a compound one where `prune_depth` does (`Shallow`), on which no property
  depends. Rules that report a mutation though nothing may have
  changed do so here too.
* `Rulesets`: the builders of `lsf-ffi` and the rule sets of `rules.py` as trees, and the
  three lists of strategies `main.py` gives the engine.
* `Breeding`: `Engine::mutate_batch` and the strategies that call others
  (`MABScheduler`, `AdaptiveStrategyScheduler`, `Randomly`, `Repeat`,
  `RandomMutationSampler`) as a machine with a `stack` of calls of `breed`. `popped` are
  the rules that are out of their queue, `hooks` of the child the arms that will
  learn of its test. `applied` is a ghost: the paths of the rules that said `Mutated` of
  this child, so that each arm on such a path can be asked for (`OnTheWay`). Scores are open: any rule may be on top of its queue. What a
  rule makes of an AST is the constant `Outcomes`, which `MCBreeding` takes from
  `Mutators`; `RulesKeepTheirWord` is what `mutate_batch` needs of it.
* `DynamicCorpus_proofs`, `ExecLoop_proofs`, `Engine_proofs`, `Oracle_proofs`,
  `Storage_proofs`, `Scheduling_proofs`, `WorkerProtocol_proofs`, `Breeding_proofs`:
  theorems. `Scheduling_proofs` is about `Bandit` and `BatchScheduler`.

How the modules fit together: `DynamicCorpus` implements `CorpusHandler`; `Engine` uses
of a corpus only which ids it keeps. `DynamicCorpus` takes of a backend that a write
or a read may fail; `Storage` shows when the bytes read are those written and what is
in `queries.sql`. `ExecLoop` awaits the execution of a query and takes what comes back
for one reply to that query; `WorkerProtocol` implements that (`QueryExecutor`).
`ExecLoop` hands tests to `Engine` (`Conclude`, `commit_test_result`) and captures to
`Oracle` (`Report`, `Take`); `Engine` tells `BatchScheduler` what comes and goes
(`CommitGeneration`, `Minimize`, `clear`), ticks `Bandit` once for each batch, and has
the children of a batch made by `Breeding`, whose hooks `ExecLoop` fires.

Operators named `X_Something` before a definition `X` are variants of it with a
plausible bug; `PROJECT.json` names the property each of them violates, which
shows that the property is sensitive to the code.

## 4. Runs

| Run | Question | Bounds |
|---|---|---|
| `corpus_blob` | With a backend that keeps what it is given: is the corpus a map, and is no entry lost? | 4 ids, 2 scores, hot cache of 2 that grows to 3, 2 in flight, grace period 1 as in the code |
| `corpus_faulty` | With a backend that refuses second writes and may fail: are tiers, capacities and the eviction order kept? | 3 ids, 3 scores, hot cache of 2 that grows to 3, 1 in flight |
| `exec_loop` | Tokens, coverage, hooks, accounting and shutdown under every interleaving, and does everything that was started end? | first query, 2 seeds, 2 children, 1 token, 2 oracles, a queue of 3, a hard reset every second time |
| `exec_many_seeds` | The same with more seeds than the queue holds | a queue of 2 |
| `engine_gc` | Do minimizer, corpus, scheduler and counters stay in step, and is no coverage culled? | literal, 1 seed, 4 children, 2 edges, 2 costs, a window of 1, culled at the third bad pass |
| `engine_empty` | Is an engine without entries harmless? | 1 seed that may be discarded |
| `oracle_reports` | Is every bug reported, and once? | 2 workers, 3 queries of 2 forms, 6 captures, 2 runs of the program |
| `storage` | Is what is read what was written, over torn writes, old files and clears; does `queries.sql` keep the order of what was sent, without a gap unless a write failed, whenever the program exits? | entries of 1, 2 and 3 bytes, a blob of 7; queries of 2 pieces, 5 pieces between two clears, 1 clear in each run, a buffer of 2 |
| `worker_protocol` | Does every call get one reply, of that call alone, whatever the shell does, and does every query start clean? | 4 calls, 2 rows per stream, a limit of 1, every third reset hard |
| `breeding` | Do rules come back to their queues, do mutations reach the engine, do rules keep their word? | batches of 2 parents of up to 2 statements; the three lists of `main.py` and one with a sampler; children of up to 2 statements that up to 2 rules mutated are bred further |
| `batch_scheduler` | Are energies kept, does the prepared batch suffice and stay bounded, do culled entries fade out? | 3 ids, batches up to 3, refills of 3 to 4, energies 1 and 2 |
| `bandit` | Does lazy scaling amount to decay at every tick? | 1 arm, 5 ticks, a rescaling every second tick |

Why the bounds are enough. The corpus has three tiers, and the interesting steps
involve a newcomer, a victim and a bystander: four ids fill both bounded tiers, or
one of them with entries left on disk. Growth is exercised once (2 to 3 is the code's
`* 3 / 2`). Scores are compared, never added: two suffice for ties and strictness,
three for an order in which best, worst and newcomer differ. `U8` is 3 or 4 instead of
256 so that the counter wraps. `corpus_faulty` checks what is proved for any backend,
`corpus_blob` what needs a good one.

In `ExecLoop`, two tests contend for the token before and in the loop, the queue is
full when both oracles are busy, and either oracle may be the last: every wait of
the code comes about. Tests, tokens and oracles are interchangeable, and the safety
properties are proved for every number of them. The run uses no symmetry because it
checks liveness.

In `engine_gc` four children suffice for an entry that was best, is overtaken on every
edge, leaves the window and is found bad in three collections, with another that
keeps the coverage. `oracle_reports` has two queries of one form, one of another,
a hang, a sanitizer's complaint and captures that differ in stderr only, so each
signature can clash with each other. In `storage` a torn write may
leave any number of bytes and full entries may follow, over an old file or a new one;
the buffer of queries spills in each generation, in the middle of a query too, since a torn
one may be before it; a second clear or a longer queue repeats what the first meets, and
the proofs are for any number. A batch of 1, 2 or 3 has its refill
raised to the minimum, as it is, and cut to the maximum; two energies bring both
branches of a draw about. In `bandit` an arm may miss one rescaling or both; arms touch no state of each other.

In `worker_protocol` a live process can meet a hard reset at the first and at the fourth
reset and soft ones between; a later call follows the first hard one and every soft one. Two
rows exceed the limit, one does not. The proofs drop these bounds. In `breeding` two groups of rules are drawn, up
to twice each. The entries are a query that creates a table and one that reads it, a
parent without statements and a donor with a subquery, so that every rule takes
each of its branches, with and without something to work on. `SmallChild` stops at
children that grow or that many rules have mutated: a further rule
meets nothing but more of the same.

`exec_many_seeds` shows a disagreement with `ARCHITECTURE.md:48`, by which the queue
of results is emptied regularly: `main.py:92` only creates the coroutines of the
oracles, `main.py:180` awaits all seeds, `main.py:196` starts the oracles. A set of
seeds with more than 4096 reported captures never gets past line 180.

`engine_empty` shows that the scheduler `main.py` chooses panics where a test expects
an empty generation (`engine.rs:393`): `probabilisitic_mab.rs:295` draws from the empty
range when every seed was discarded.

## 5. Fairness

`exec_loop` assumes that each test, each oracle and the main coroutine eventually
take a step they can take (asyncio serves ready tasks in FIFO order; `execute`
has a timeout, and so has each phase of a reset), and that a stop condition holds
one day (`stop_time` or `stop_at`, checked on every turn of the loop). Nothing
is assumed about which way an execution ends. `worker_protocol` assumes that the event loop runs
coroutines that can go on and timers that expire (`Python`), that the child watcher
hears of a death (`Reap`), and that a shell which has been told to quit does
(`QuitShell`): `close` waits for that without a timeout. Nothing else is asked of
the shell, which may hang at any point. `execute` has one more await outside every
`wait_for`, the `drain()` at `persistent_worker.py:88`; `Send` leaves it out. It returns at
once unless the query is larger than the pipe and the write buffer of the transport,
and waits for ever only if moreover the shell has stopped reading: of that case
`EveryCallReturns` says nothing. `storage` assumes that the operating
system schedules the saver's thread as long as the program runs (`Handle`, `Finish`),
and nothing about when the program exits. The other modules have no liveness
property: they only act when they are called.

## 6. Proofs

`ExecLoop_proofs` proves, for any number of tests, tokens and oracles, every safety
property `exec_loop` checks. Assumed are `ExecAssumption` (finite sets, a queue
with room for a pill per oracle) and `NamesAssumption`.

* `Basics` = `TypeOK`, `Counted`, `TokensConserved` and `SeedsWait` are inductive
  only together: giving a token back is well typed because the test holds one,
  `unfinished` stays natural because it counts what is queued and what oracles
  work on, and starting the seeds disturbs no holder because they all wait.
* `OwnCoverage` and `HooksFiredOnce` follow with `Basics`: the map of a token
  given back is empty, and by `TokensConserved` nobody else looks at it.
* `Shutdown` = `Phases`, `Captures`, `Pills` strengthens `CapturesAccounted` and
  `PillsComeLast`: where the tests are in each phase, that a capture is in one place
  only, and that nothing but pills is left at the end.

Two more theorems are what `Terminates` rests on, for any numbers:

* `NobodyWaitsForEver`: until the program has ended, main or fuzzing_loop, a test or an
  oracle can go on. Its hypothesis `RoomForSeeds` asks for a token, an oracle, and fewer seeds
  than `QUEUE_SIZE`: no oracle takes anything before the loop, so the literal and all seeds
  must fit into the queue. With one seed more they need not, which is the deadlock of
  `exec_many_seeds`, so the bound is tight. Nobody waits for a token that nobody holds
  (`TokenIsHeld`), and a capture waits for room only while an oracle can make some.
* `TheRunWindsDown`: once the loop is stopping, `Left` names what is left to do in five finite
  sets; every step but `CommandLoop`, which changes nothing that matters here, takes
  something from one of them and adds to none.

`DynamicCorpus_proofs` proves, for any ids, scores, capacities and any backend,
faulty or not, the type invariant, `TiersAgree` (which is `TiersFollowIndex` and
`HotIsQueued`), `WithinCapacity` and `EvictsTheWorst`. Assumed are `CapAssumption` (capacities
are positive and `INIT_CACHE_CAP` is at most `CACHE_CAP`), `CounterAssumption`,
`ValueAssumption` (scores are natural numbers) and `OutcomeAssumption` (ids differ
from the two names for "no victim").

* `CoreInv` is their conjunction, with the finiteness of the hot cache and the
  fact that an indexed entry has a score. They are inductive only together:
  `WithinCapacity` needs that the entry popped from the queue is a hot one
  (`EvictOutcome`), which needs `HotIsQueued`: hot entries are queued, so a queue
  that is not empty yields a worst entry which, when it is evicted, was hot.
* `Settled` is what the four ways into the hot cache or to disk (`get`, a
  downgrade, a prefetch, an eviction from the in-flight tier) have in common;
  `SettledCore` derives the invariant and `EvictsTheWorst` from it once.

If moreover the backend accepts rewrites and never fails (`Reliable`), the same
module proves `NoEntryLost` and that the corpus implements `CorpusHandler`.
`KeptInv` adds to `CoreInv` that every indexed entry is on disk from its
insertion on, which is why no eviction depends on a write that might be refused.

`Engine_proofs` proves all that `engine_gc` checks, for any tests, edges, costs, window
and thresholds. Assumed are `TestsAssumption` and `LimitAssumption`.

* `EngineInv` adds to the properties `BestIsRight` (the best entry of an edge is an
  entry that hits it, and every edge that was hit has one), `JudgedOnce` (a test is
  judged once between two clears: one that runs, or that was not issued, has no hits) and `QuietStart` (what is empty before
  the second clear). `CorpusSpansCoverage` needs the first: what is culled is no
  best entry, so the best entries alone span the coverage. `RotationFollowsCorpus`
  needs the last, since `clear` does not touch the counters.
* `OneEntryFeedsTheEngine` is the reverse of `engine_empty`: `WindowIsFed` says that an
  engine that has entries has a diverse one, so a test that is judged leaves an entry, only
  `clear` removes the last, and `mutate_batch` panics only if the corpus is empty.

`Oracle_proofs` proves all that `oracle_reports` checks, for any workers and captures
and any number of runs. Assumed are that forms are no query texts and that the
stderr of a hang is that of hangs only.

* `OracleInv` adds `SeenIsRecorded` (a signature that was reported or is being judged was
  recorded before), `JudgedAlone` (no two workers judge captures of one signature),
  `FormsAreReported` (a form is in `seen_signatures` only because of a report or a
  hang) and `NumbersGrow` (numbers of this run are below `total_bugs`). The first two
  carry `OneReportPerBug` across the await, the third `NoBugForgotten`.

`Storage_proofs` proves the safety properties `storage` checks, for entries and queries of
any size, any buffer, and any number of clears and runs. A step of `StorageSpec` is one of the blob and one of the saver (`StepOfBoth`),
so each has an invariant of its own.

* `BlobInv` adds `CountsTheFile`: while file and offsets are in step, `current_offset` is the
  length of the file, which is why an appended entry is found at the offset it was
  given.
* `SaverInv` says that file and buffer together are a `Line` of pieces in the order they were
  sent (`Ascending`), and that what is still in the channel comes after it. A `Route`
  gives each item of the channel the generation and the number it has there, from behind
  the last piece handled to the last one sent; a clear is the entry into the next
  generation. Everything in the line is `Until` the start of the route, which is why a
  rest that a failed write leaves in the buffer cannot overtake anything; and as long as
  nothing fails the line `Holds` all that was handled of one generation. An exit cuts
  the route and the end of the line, so that what is lost is lost from the end.
* `TheRestIsSaved`: when the thread is done the route is over, and the file holds all that was
  sent since the last clear unless a write failed; after the drop, each step takes a command from the channel
  or ends the thread or the program.

`Scheduling_proofs` proves all that `bandit` checks, for any number of arms, ticks and any
rescale factor. `BanditInv` adds `NewArmsAreEmpty` and `NoArmIsAhead`: an arm ahead of its body
would be multiplied instead of divided, which is why `reset` must drop the arms.

The same module proves all that `batch_scheduler` checks, for any ids, energies, batch
and refill sizes. Assumed is that no call asks for more than `MAX_REFILL`, and that refills
and energies are positive (`RefillAssumption`).

* `BatchInv` is `BatchOK`, `PreparedSuffices` and `EnergyIsConserved` with two facts: an id
  that was culled is no entry any more, and nothing was handed out between two calls. A
  prepared energy is positive, so a draw hands out a turn that is due. `CulledFadeOut` holds
  of every step from there: only a refill gives out energy, and it refills with entries.
* The energy of an id is a sum over the prepared sequence, written as a recursive function
  (`EnergyAt`). `IsSum` says what the partial sums of a sequence are; they exist and are unique
  (`SumExists`, `SumUnique`), which gives what appending, replacing and dropping an element
  do to a sum, and with it what `swap_remove` does (`EnergyReplace`, `EnergyFront`). The
  induction theorems of the library take an operator and cannot be used; `Induction` is for
  sets of numbers and follows from `LeastNat`, and this from the well-foundedness of
  the strict subsets of finite sets.

`Breeding_proofs` proves `TypeOK` (with `RulesComeBack`) and `MutationsReachTheEngine`,
for any trees of strategies, batches and rules (`BreedingAssumption` says that a wrapper wraps
one strategy), on condition that the rules keep their word: the theorems have
`[]RulesKeepTheirWord` as a hypothesis, which `breeding` checks for the rules of `Mutators`.

* `BreedInv` adds to `TypeOK` what the stack of calls looks like (`StackOK`): the path
  of a call is one step longer than that of the call below it, and goes on from it. So
  different calls breed different rules (`KidsApart`), and what `Extend` puts back is
  exactly what its own call has popped.
* `WillSayMutated` says that a call on the stack, or one above it, already says `Mutated`; the
  engine's own does exactly if some rule mutated. `HooksOnTheWay` says of each arm
  on the way to a rule that mutated where its hook is: it is there, or the call it waits
  for will say `Mutated` and attach it; when only the engine's call is left, it is there.
  `SaidByARule` and `HooksFromRules` are the converse: a call says `Mutated` because of a rule
  below it that said so, so no arm has a hook without such a rule.
* `StrategyOf` and `StrategyStep` unfold the recursive function by which a path leads to a
  strategy, again by `Induction`.

`WorkerProtocol_proofs` proves `TypeOK`, `StartsClean` and `ImplementsExecutor`, for any
number of calls and rows, any limit and any period of hard resets
(`WorkerAssumption`). `WorkerInv` says of each await what can be in the pipes:

* `During` and `Resetting`: what `stdin` still holds is a rest of what Python sent
  (`Remains`), so a sentinel that was found tells that its command is done, and both
  tell that `stdin` is empty. `Answer` and `Cleared` are what may have become of
  the two streams; a read that went wrong leaves a rest, and the process is then dead
  before it could be used again (`Life`).
* `Before`: a process that lives when a query is sent has empty pipes, an empty
  database, and no files unless nothing has run in it yet.
* `Result`: what is about to be returned is what the shell printed, a part of it if
  it died, nothing if it hung.

Printing, dying and returning are the steps of `QueryExecutor`; every other step is a
stutter.

`NothingIsAwaitedInVain` and `CallsComeToAnEnd` are what `EveryCallReturns` rests on. Within a
call a step that fairness asks for is always due: the coroutine's, the watcher's report of a
death, or the `.quit` that is still in `stdin` (`QuitIsDue`). And `Left`, at most 38,
falls with each of them and rises with no step of the shell.

Only model-checked: `Terminates`, `EveryCallReturns` and `AllSavedInTheEnd`. Their safety
halves are the theorems above: something is always due, with `RoomForSeeds` and within a call, and
there is only so much of it. That a weakly fair action which stays enabled is taken needs
ENABLED, which is out of the prover's reach: the guards in the theorems (`LoopMoves`,
`TestMoves`, `OracleMoves`, `PythonMoves`, `ReapMoves`) are written after the actions and
stand for their being enabled. The two counterexamples stay with TLC too, and
`RulesKeepTheirWord`: the rules walk over syntax trees by recursive operators, for which
the prover has no backend. Every other property of a run is a theorem for all values of the
constants.

## 7. Not modelled

* Coverage hooks: they run inside the `sqlite3` process and write one byte of the shared
  map; `ExecLoop` has them as its external command loop.
* Core data types and the bindings of the SQL parser: plain data and glue.
* Evaluation scripts and benchmarks: offline, without state that outlives a call.
* Floating-point scores, weights and chances: which entry a scheduler draws, which rule
  comes first and whether a node is mutated is open in every model.
* Schedulers and backends that `main.py` does not build: `ShardedDiskCache` is in
  `DynamicCorpus` as a backend that refuses second writes (`WriteOnce`, `lost_dirs`);
  `ProbabilisticMABScheduler` with its `BlockSumTable` is planned.

Known limits that the models make visible and that no property states:

* After a torn write of the blob all later entries are read at the wrong place until
  the next clear (`RetrieveIsRight` stops at the tear); `DynamicCorpus` has reads that
  fail, not reads that return other bytes.
* Before the first clear of a run the offsets are wrong when an old blob exists. Only
  the literal is in the corpus then, and it is in flight, so nothing is read.
* A culled id with a low score stays at the head of the eviction queue and keeps a
  full hot cache from replacing anything, until it is cleared.
* An `OSError` of opening or writing a report, other than that the file exists, is printed
  (`oracle.py:229`) after `total_bugs` and `seen_signatures` have been updated: the bug has
  no report. `Oracle` has no such failure.
* The signature of a capture whose reference run raised stays in `seen_signatures`: the
  bug is not looked at again in this run.
* `calculate_score` compares inflated attempts with 1: after a rescaling, an arm that was
  tried long ago gets the greatest weight, like one that was never tried.
* What is added to an arm that has missed a rescaling is divided by
  `RESCALE_FACTOR` and lost (`behind` in `DecaysByAge`).
* The program exits without waiting for the thread behind `SQLSaver`, so `queries.sql` normally
  ends in the middle of a query, and the next run appends its first query to that
  rest. What the thread still had in its channel and buffer is lost.
* Errors of writing, flushing and truncating `queries.sql` are dropped: pieces are then
  missing in the middle, or those of before a clear stay before those of after it.
  `FileInOrder` asks only for the order then. When the file cannot be opened the
  thread panics, and nothing is saved in this run.
* `queries.sql` gets an entry twice when it is evicted to disk after its insertion: the
  saver does not know that it has it.
* `update_if_best` multiplies by the number of statements, so a query that lost all of
  them becomes the best entry of every edge it hits.
* The end of a pipe or a death during a reset is reported by nobody: the
  next query starts a new process, or, when the watcher is late, is blamed for the crash.
* A periodic hard reset (`persistent_worker.py:222`) and a reset that raises skip
  `clear_workdir_contents`: files of a query remain, for a new process (`StartsClean`
  allows that). After a reset that raises, `execute` has no result.
* A query that prints more than the limit of the `StreamReader` is reported as a hang.
* A report is dropped when an earlier run left a file of the same number: `oracle.py:226`
  takes it for one that "another worker" of this run has just written, which
  `OnlyEarlierRunsCollide` shows cannot be.
* `FieldOperation::ShuffleSelf` (`json_tree.rs:56`) never mutates: the clone it makes
  shares the AST, which therefore cannot be changed.
* `HoistExpr`, `NullRandom`, `ForceIdent`, `NumericBounds`, the scrambling rules and
  `RecursiveExpandExpr` may report a mutation though nothing changed; `SubQuery` names
  no parent for what it takes from a donor.
* `AdaptiveWeightedRandomScheduler` (unused by `main.py`) pairs weights with entries it lists in a
  different order.
