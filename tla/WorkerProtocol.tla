-------------------------- MODULE WorkerProtocol ---------------------------
(***************************************************************************)
(* SQLiteWorker of python/tester/persistent_worker.py and the sqlite3 shell *)
(* it talks to.  Queries go down one pipe, two pipes come back, and the end *)
(* of an answer is a sentinel that the shell is told to print.  The shell   *)
(* may be slow, print too much, or die at any point; Python hears of its    *)
(* death by the ends of the pipes and, separately, by the child watcher.    *)
(* A step of Python is what the coroutine does between two awaits.          *)
(***************************************************************************)
EXTENDS Naturals, Sequences, SequencesExt

CONSTANTS
  MaxCalls,     \* bound: calls of execute; they are numbered
  MaxRows,      \* bound: what a query prints on one stream
  LIMIT,        \* what a StreamReader holds without finding the sentinel
  RESET_EVERY   \* resets of a live process between two hard resets

ASSUME WorkerAssumption ==
  /\ MaxCalls \in Nat
  /\ MaxRows \in Nat
  /\ LIMIT \in Nat
  /\ RESET_EVERY \in Nat \ {0}

Streams == {"out", "err"}
Calls == 1..MaxCalls
None == 0

VARIABLES
  pc,       \* where the coroutine is
  call,     \* the latest call
  known,    \* self.proc is a process and its returncode is None
  alive,    \* the process runs
  stdin,    \* commands the process has not taken yet
  pipe,     \* what it printed and Python has not read yet, per stream
  db,       \* queries that ran since the database was opened
  ran,      \* queries that ran in this process
  files,    \* queries whose files are in the working directory
  printed,  \* what the process printed for the latest call
  read,     \* what each read_until_sentinel returned
  epoch,    \* _reset_counter
  verdict,  \* of the latest call, once execute knows it
  output    \* the bytes in that reply

python == <<pc, call, read, epoch, verdict, output>>
process == <<alive, stdin, pipe, db, ran, files, printed>>
vars == <<python, known, process>>

\* What the pipes carry.
Row(q) == [what |-> "row", of |-> q]
EOQ == [what |-> "eoq", of |-> 0]
Marker(n) == [what |-> "reset", of |-> n]
Items == {EOQ} \cup {Row(q) : q \in Calls} \cup {Marker(n) : n \in 0..MaxCalls}

\* The commands of the shell; those that print nothing carry a dummy item.
Run(q) == [do |-> "run", item |-> Row(q)]
Open == [do |-> "open", item |-> EOQ]
Quit == [do |-> "quit", item |-> EOQ]
PrintTo(s, item) == [do |-> s, item |-> item]
Commands == [do : Streams \cup {"run", "open", "quit"}, item : Items]

Empty == [s \in Streams |-> << >>]
Pending == [rows |-> << >>, found |-> "pending"]
Unread == [s \in Streams |-> Pending]

TypeOK ==
  /\ pc \in {"idle", "start", "send", "read", "wait", "killHang", "reset", "resetRead",
             "killPeriodic", "killReset", "closing", "closed"}
  /\ call \in 0..MaxCalls
  /\ known \in BOOLEAN /\ alive \in BOOLEAN
  /\ stdin \in Seq(Commands)
  /\ pipe \in [Streams -> Seq(Items)]
  /\ db \subseteq Calls /\ ran \subseteq Calls /\ files \subseteq Calls
  /\ printed \in [Streams -> Seq(Items)]
  /\ read \in [Streams -> [rows : Seq(Items), found : {"pending", "sentinel", "no"}]]
  /\ epoch \in 0..MaxCalls
  /\ verdict \in {"none", "OK", "CRASH", "HANG", "raise"}
  /\ output \in [Streams -> Seq(Items)]

Init ==
  /\ pc = "idle"
  /\ call = None
  /\ known = FALSE /\ alive = FALSE
  /\ stdin = << >>
  /\ pipe = Empty
  /\ db = {} /\ ran = {} /\ files = {}
  /\ printed = Empty
  /\ read = Unread
  /\ epoch = 0
  /\ verdict = "none" /\ output = Empty

-----------------------------------------------------------------------------
(* The process, which is not part of the repository.                        *)

Handles(command) == alive /\ stdin # << >> /\ Head(stdin) = command
Taken == stdin' = Tail(stdin)

\* The query prints a row or an error message.
PrintRow(q, s) ==
  /\ Handles(Run(q))
  /\ Len(printed[s]) < MaxRows
  /\ pipe' = [pipe EXCEPT ![s] = Append(@, Row(q))]
  /\ printed' = [printed EXCEPT ![s] = Append(@, Row(q))]
  /\ UNCHANGED <<python, known, alive, stdin, db, ran, files>>

\* The query writes a file: ATTACH, VACUUM INTO, a journal.
WriteFile(q) ==
  /\ Handles(Run(q))
  /\ q \notin files
  /\ files' = files \cup {q}
  /\ UNCHANGED <<python, known, alive, stdin, pipe, db, ran, printed>>

FinishQuery(q) ==
  /\ Handles(Run(q))
  /\ Taken
  /\ db' = db \cup {q}
  /\ ran' = ran \cup {q}
  /\ UNCHANGED <<python, known, alive, pipe, files, printed>>

\* .print, after .output has chosen the stream
PrintItem(s, item) ==
  /\ Handles(PrintTo(s, item))
  /\ Taken
  /\ pipe' = [pipe EXCEPT ![s] = Append(@, item)]
  /\ UNCHANGED <<python, known, alive, db, ran, files, printed>>

\* .open: the old connection is closed, what was in memory is gone.
OpenDatabase ==
  /\ Handles(Open)
  /\ Taken
  /\ db' = {}
  /\ UNCHANGED <<python, known, alive, pipe, ran, files, printed>>

Dies == alive' = FALSE /\ stdin' = << >>

QuitShell ==
  /\ Handles(Quit)
  /\ Dies
  /\ UNCHANGED <<python, known, pipe, db, ran, files, printed>>

\* A crash, at any point.
Crash ==
  /\ alive
  /\ Dies
  /\ UNCHANGED <<python, known, pipe, db, ran, files, printed>>

Process ==
  \/ \E q \in Calls : (\E s \in Streams : PrintRow(q, s)) \/ WriteFile(q) \/ FinishQuery(q)
  \/ \E s \in Streams, item \in Items : PrintItem(s, item)
  \/ OpenDatabase
  \/ QuitShell
  \/ Crash

\* The child watcher of asyncio sets the returncode.  A process that is known
\* to be dead is dropped or replaced before it is used again, so known stands
\* for both.
Reap ==
  /\ known /\ ~alive
  /\ known' = FALSE
  /\ UNCHANGED <<python, process>>

-----------------------------------------------------------------------------
(* execute.                                                                 *)

Execute ==
  /\ pc = "idle"
  /\ call < MaxCalls
  /\ call' = call + 1
  /\ pc' = IF known THEN "send" ELSE "start"
  /\ printed' = Empty
  /\ read' = Unread
  /\ verdict' = "none" /\ output' = Empty
  /\ UNCHANGED <<known, alive, stdin, pipe, db, ran, files, epoch>>

\* _start: a new process with new pipes.
Start ==
  /\ pc = "start"
  /\ known' = TRUE /\ alive' = TRUE
  /\ stdin' = << >> /\ pipe' = Empty
  /\ db' = {} /\ ran' = {}
  /\ pc' = "send"
  /\ UNCHANGED <<call, files, printed, read, epoch, verdict, output>>

\* create_subprocess_exec raises, outside of the try: nothing is reset.
StartFails ==
  /\ pc = "start"
  /\ verdict' = "raise"
  /\ pc' = "idle"
  /\ UNCHANGED <<call, known, process, read, epoch, output>>

\* A write to a dead process is lost.
Write(commands) == stdin' = IF alive THEN stdin \o commands ELSE stdin

Send ==
  /\ pc = "send"
  /\ Write(<<Run(call), PrintTo("err", EOQ), PrintTo("out", EOQ)>>)
  /\ pc' = "read"
  /\ UNCHANGED <<call, read, epoch, verdict, output, known, alive, pipe, db, ran, files, printed>>

\* execute has its result; finally calls reset.
Conclude(v, rows) ==
  /\ verdict' = v
  /\ output' = rows
  /\ pc' = "reset"

\* drain raises: the pipe is found broken.
SendFails ==
  /\ pc = "send"
  /\ ~alive
  /\ Conclude("CRASH", Empty)
  /\ UNCHANGED <<call, read, epoch, known, process>>

\* Where readuntil finds it, 0 if it is not there.
PlaceOf(sentinel, p) == SelectInSeq(p, LAMBDA item : item = sentinel)

\* _read_until_sentinel of one stream: the sentinel comes within the limit, or
\* there is too much before it, or the stream is at its end.
ReadUntil(s, sentinel) ==
  LET at == PlaceOf(sentinel, pipe[s])
      before == IF at = 0 THEN pipe[s] ELSE SubSeq(pipe[s], 1, at - 1)
      found == at # 0 /\ Len(before) =< LIMIT
  IN /\ read[s] = Pending
     /\ found \/ Len(before) > LIMIT \/ ~alive
     /\ read' = [read EXCEPT ![s] = [rows |-> before,
                                     found |-> IF found THEN "sentinel" ELSE "no"]]
     /\ pipe' = [pipe EXCEPT ![s] = SubSeq(@, Len(before) + (IF found THEN 2 ELSE 1), Len(@))]
     /\ UNCHANGED <<pc, call, epoch, verdict, output, known, alive, stdin, db, ran, files, printed>>

BothRead == \A s \in Streams : read[s] # Pending
BothFound == \A s \in Streams : read[s].found = "sentinel"
Rows == [s \in Streams |-> read[s].rows]

Read == pc = "read" /\ \E s \in Streams : ReadUntil(s, EOQ)

\* wait_for raises: the shell is slow, or waits for the end of a string.
Expire(at, next) ==
  /\ pc = at
  /\ ~BothRead
  /\ Dies
  /\ pc' = next
  /\ UNCHANGED <<call, read, epoch, verdict, output, known, pipe, db, ran, files, printed>>

\* Mutant: the process is interrupted and not restarted.
Timeout_NoKill ==
  /\ pc = "read"
  /\ ~BothRead
  /\ Conclude("HANG", Empty)
  /\ UNCHANGED <<call, read, epoch, known, process>>

\* The query has timed out: hard_reset.
Timeout == Expire("read", "killHang")

\* Both reads are done.  Without a sentinel the process is thought dead; with
\* both it may have died after it printed them.
Judge ==
  /\ pc = "read" /\ BothRead
  /\ IF BothFound THEN Conclude(IF known THEN "OK" ELSE "CRASH", Rows)
     ELSE pc' = "wait" /\ UNCHANGED <<verdict, output>>
  /\ UNCHANGED <<call, read, epoch, known, process>>

\* wait_for(proc.wait(), 0.2) gets the exit code ...
Exited ==
  /\ pc = "wait" /\ ~known
  /\ Conclude("CRASH", Rows)
  /\ UNCHANGED <<call, read, epoch, known, process>>

\* Mutant: the wait has no timeout.
StillThere_NoTimeout == FALSE

\* ... or raises TimeoutError, which is taken for the one of the query.
StillThere ==
  /\ pc = "wait" /\ known
  /\ Dies
  /\ pc' = "killHang"
  /\ UNCHANGED <<call, read, epoch, verdict, output, known, pipe, db, ran, files, printed>>

\* hard_reset has waited for the process it killed.
Killed ==
  /\ pc = "killHang" /\ ~known
  /\ Conclude("HANG", Empty)
  /\ UNCHANGED <<call, read, epoch, known, process>>

-----------------------------------------------------------------------------
(* reset, in the finally clause of execute, and close.                      *)

\* clear_workdir_contents, and execute returns.
ClearAndReturn ==
  /\ files' = {}
  /\ pc' = "idle"

\* There is no process to reset.
ResetNothing ==
  /\ pc = "reset" /\ ~known
  /\ ClearAndReturn
  /\ UNCHANGED <<call, read, epoch, verdict, output, known, alive, stdin, pipe, db, ran, printed>>

\* Every RESET_EVERY-th epoch is a hard reset.
Periodic ==
  /\ pc = "reset" /\ known
  /\ epoch % RESET_EVERY = 0
  /\ epoch' = epoch + 1
  /\ Dies
  /\ pc' = "killPeriodic"
  /\ UNCHANGED <<call, read, verdict, output, known, pipe, db, ran, files, printed>>

\* Mutant: the counter is advanced once more.
PeriodicDone_Twice ==
  /\ pc = "killPeriodic" /\ ~known
  /\ pc' = "idle"
  /\ epoch' = epoch + 1
  /\ UNCHANGED <<call, read, verdict, output, known, process>>

\* It returns at once: the working directory is left as it is.
PeriodicDone ==
  /\ pc = "killPeriodic" /\ ~known
  /\ pc' = "idle"
  /\ UNCHANGED <<call, read, epoch, verdict, output, known, process>>

\* Mutant: the database is not reopened.
SendReset_NoOpen ==
  /\ pc = "reset" /\ known
  /\ epoch % RESET_EVERY # 0
  /\ epoch' = epoch + 1
  /\ Write(<<PrintTo("err", Marker(epoch)), PrintTo("out", Marker(epoch))>>)
  /\ read' = Unread
  /\ pc' = "resetRead"
  /\ UNCHANGED <<call, verdict, output, known, alive, pipe, db, ran, files, printed>>

SendReset ==
  /\ pc = "reset" /\ known
  /\ epoch % RESET_EVERY # 0
  /\ epoch' = epoch + 1
  /\ Write(<<Open, PrintTo("err", Marker(epoch)), PrintTo("out", Marker(epoch))>>)
  /\ read' = Unread
  /\ pc' = "resetRead"
  /\ UNCHANGED <<call, verdict, output, known, alive, pipe, db, ran, files, printed>>

\* drain raises, out of the finally clause: execute has no result any more.
SendResetFails ==
  /\ pc = "reset" /\ known
  /\ epoch % RESET_EVERY # 0
  /\ ~alive
  /\ epoch' = epoch + 1
  /\ verdict' = "raise" /\ output' = Empty
  /\ pc' = "idle"
  /\ UNCHANGED <<call, read, known, process>>

ReadReset == pc = "resetRead" /\ \E s \in Streams : ReadUntil(s, Marker(epoch - 1))

\* What the reads returned is not looked at.
ResetDone ==
  /\ pc = "resetRead" /\ BothRead
  /\ ClearAndReturn
  /\ UNCHANGED <<call, read, epoch, verdict, output, known, alive, stdin, pipe, db, ran, printed>>

ResetTimeout == Expire("resetRead", "killReset")

ResetKilled ==
  /\ pc = "killReset" /\ ~known
  /\ ClearAndReturn
  /\ UNCHANGED <<call, read, epoch, verdict, output, known, alive, stdin, pipe, db, ran, printed>>

\* close: .quit, and a wait without a timeout.
Close ==
  /\ pc = "idle"
  /\ Write(<<Quit>>)
  /\ pc' = "closing"
  /\ UNCHANGED <<call, read, epoch, verdict, output, known, alive, pipe, db, ran, files, printed>>

\* The working directory is removed.
Closed ==
  /\ pc = "closing" /\ ~known
  /\ files' = {}
  /\ pc' = "closed"
  /\ UNCHANGED <<call, read, epoch, verdict, output, known, alive, stdin, pipe, db, ran, printed>>

Python ==
  \/ Start \/ StartFails
  \/ Send \/ SendFails
  \/ Read \/ Timeout
  \/ Judge \/ Exited \/ StillThere \/ Killed
  \/ ResetNothing \/ Periodic \/ PeriodicDone
  \/ SendReset \/ SendResetFails \/ ReadReset \/ ResetDone \/ ResetTimeout \/ ResetKilled
  \/ Closed

Next == Process \/ Reap \/ Python \/ Execute \/ Close

\* The event loop runs what is ready, timers expire, and a shell that has been
\* told to quit does.  Nothing else is asked of the shell: it may hang.
Fairness == WF_vars(Python) /\ WF_vars(Reap) /\ WF_vars(QuitShell)

Spec == Init /\ [][Next]_vars /\ Fairness

-----------------------------------------------------------------------------
(* Properties.                                                              *)

\* A query runs in an empty database.  Files of another query it can only find
\* as the first one of a new process: within one process a reset that is
\* answered clears the working directory, while a periodic restart (line 224)
\* and a reset that raises leave it as it is.
StartsClean ==
  \A q \in Calls : Handles(Run(q)) => db = {} /\ (files \subseteq {q} \/ ran = {})

\* One reply to every call, complete and of that call alone: what a hung or
\* crashed query prints late never gets into the reply to another, a crash is
\* only reported of a process that is dead, and nothing of a query runs on when
\* its token is given to the next test (exec.py:52).
Abstract == INSTANCE QueryExecutor WITH
  query <- IF pc \in {"idle", "closing", "closed"} THEN None ELSE call,
  dead <- ~alive,
  verdict <- IF pc \in {"idle", "closing", "closed"} THEN verdict ELSE "none",
  output <- IF pc \in {"idle", "closing", "closed"} THEN output ELSE Empty

ImplementsExecutor == Abstract!Spec

\* execute and close return, whatever the shell does.
EveryCallReturns == pc \notin {"idle", "closed"} ~> pc \in {"idle", "closed"}
=============================================================================
