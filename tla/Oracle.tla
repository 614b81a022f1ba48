------------------------------- MODULE Oracle -------------------------------
(***************************************************************************)
(* The oracle workers of python/tester/oracle.py: which captures are judged *)
(* and which bugs are reported.                                             *)
(*                                                                         *)
(* The workers share seen_signatures and total_bugs.  Between two awaits a  *)
(* worker runs alone: one step takes a capture and either finishes it or    *)
(* starts the reference run, another step judges by its result.  The files  *)
(* survive the program, which may be stopped at any time and run again.     *)
(***************************************************************************)
EXTENDS Integers, FiniteSets

CONSTANTS
  Workers,    \* oracle_worker coroutines
  Queries,    \* texts of queries
  Forms,      \* what get_structural_signature makes of them
  Form,       \* get_structural_signature
  Captures,   \* what the workers may be given: query, normalized stderr, kind
  Timeout,    \* the stderr of a query that hung
  None,       \* no capture, no bug
  MaxRuns     \* bound: runs of the program

Kinds == {"MEMSAFETY", "HANG", "UNILATERAL", "ERROR", "OK"}
BugTypes == {"MEMSAFETY", "INTERNAL_ERROR", "CRASH_OR_ERROR", "DIVERGENCE", "LOGIC_BUG"}

\* A form is in lower case, a query the AST is printed as is not.
ASSUME FormAssumption == Form \in [Queries -> Forms] /\ Forms \cap Queries = {}

\* The stderr of a hang is made up by SQLiteWorker.execute, for hangs only.
ASSUME CaptureAssumption ==
  \A c \in Captures : /\ c.query \in Queries
                      /\ c.kind \in Kinds
                      /\ (c.kind = "HANG") <=> (c.stderr = Timeout)

ASSUME RunsAssumption == MaxRuns \in Nat \ {0} /\ None \notin Captures /\ None \notin BugTypes

Stderrs == {c.stderr : c \in Captures}

\* A report: its number and type make the name of its file.
Reports == [number : Nat, type : BugTypes, capture : Captures, run : 1..MaxRuns]

VARIABLES
  judging,          \* the capture a worker awaits the reference run of
  seen_signatures,
  total_bugs,
  files,            \* the reports in docker_out/crashes
  run,              \* ghost: run of the program
  found,            \* ghost: bugs found in this run, as captures and types
  dropped           \* ghost: reports whose file existed

vars == <<judging, seen_signatures, total_bugs, files, run, found, dropped>>

TypeOK ==
  /\ judging \in [Workers -> Captures \cup {None}]
  /\ seen_signatures \subseteq Stderrs \X (Queries \cup Forms)
  /\ total_bugs \in Nat
  /\ files \subseteq Reports
  /\ run \in 1..MaxRuns
  /\ found \subseteq Captures \X BugTypes
  /\ dropped \subseteq Reports

Init ==
  /\ judging = [w \in Workers |-> None]
  /\ seen_signatures = {}
  /\ total_bugs = 0
  /\ files = {}
  /\ run = 1
  /\ found = {}
  /\ dropped = {}

-----------------------------------------------------------------------------

\* Mutant: logic bugs are deduplicated by the form of the query alone.
FormSignature_NoStderr(c) == <<Timeout, Form[c.query]>>

\* What logic bugs are deduplicated by: the form of the query, and the stderr.
FormSignature(c) == <<c.stderr, Form[c.query]>>

\* Mutant: of a hang only the form is kept.
Signature_FormOnly(c) == IF c.kind = "HANG" THEN Form[c.query] ELSE <<c.stderr, c.query>>

\* What captures are deduplicated by: for a hang the form of the query.
Signature(c) == IF c.kind = "HANG" THEN FormSignature(c) ELSE <<c.stderr, c.query>>

\* What comparing with the reference can make of a capture.
Verdicts(c) ==
  CASE c.kind = "UNILATERAL" -> {None, "INTERNAL_ERROR"}
    [] c.kind = "ERROR" -> {None, "CRASH_OR_ERROR", "DIVERGENCE"}
    [] c.kind = "OK" -> {None, "DIVERGENCE", "LOGIC_BUG"}

\* Mutant: the number goes up only when the file was created.
Save_CountsCreated(c, bug_type) ==
  LET report == [number |-> total_bugs, type |-> bug_type, capture |-> c, run |-> run]
      exists == \E f \in files : f.number = total_bugs /\ f.type = bug_type
  IN /\ total_bugs' = IF exists THEN total_bugs ELSE total_bugs + 1
     /\ files' = IF exists THEN files ELSE files \cup {report}
     /\ dropped' = IF exists THEN dropped \cup {report} ELSE dropped

\* The report is written unless a file of its name exists.
Save(c, bug_type) ==
  LET report == [number |-> total_bugs, type |-> bug_type, capture |-> c, run |-> run]
      exists == \E f \in files : f.number = total_bugs /\ f.type = bug_type
  IN /\ total_bugs' = total_bugs + 1
     /\ files' = IF exists THEN files ELSE files \cup {report}
     /\ dropped' = IF exists THEN dropped \cup {report} ELSE dropped

\* A bug of this type was found, and the signatures in seen were seen.
Report(c, bug_type, seen) ==
  /\ found' = found \cup {<<c, bug_type>>}
  /\ \/ /\ bug_type = "LOGIC_BUG" /\ FormSignature(c) \in seen
        /\ seen_signatures' = seen
        /\ UNCHANGED <<total_bugs, files, dropped>>
     \/ /\ bug_type = "LOGIC_BUG" /\ FormSignature(c) \notin seen
        /\ seen_signatures' = seen \cup {FormSignature(c)}
        /\ Save(c, bug_type)
     \/ /\ bug_type # "LOGIC_BUG"
        /\ seen_signatures' = seen
        /\ Save(c, bug_type)

\* Mutant: a signature is recorded with the report, not when it is first seen.
Take_RecordsLater(w, c) ==
  /\ judging[w] = None
  /\ \/ /\ Signature(c) \in seen_signatures
        /\ UNCHANGED <<judging, seen_signatures, total_bugs, files, found, dropped>>
     \/ /\ Signature(c) \notin seen_signatures /\ c.kind = "MEMSAFETY"
        /\ Report(c, "MEMSAFETY", seen_signatures \cup {Signature(c)})
        /\ UNCHANGED judging
     \/ /\ Signature(c) \notin seen_signatures /\ c.kind \notin {"MEMSAFETY", "HANG"}
        /\ judging' = [judging EXCEPT ![w] = c]
        /\ UNCHANGED <<seen_signatures, total_bugs, files, found, dropped>>
  /\ UNCHANGED run

\* A worker takes a capture from the queue.  What was seen is dropped, a hang
\* is nobody's concern, and a sanitizer's complaint needs no reference.
Take(w, c) ==
  /\ judging[w] = None
  /\ LET seen == seen_signatures \cup {Signature(c)}
     IN \/ /\ Signature(c) \in seen_signatures
           /\ UNCHANGED <<judging, seen_signatures, total_bugs, files, found, dropped>>
        \/ /\ Signature(c) \notin seen_signatures /\ c.kind = "MEMSAFETY"
           /\ Report(c, "MEMSAFETY", seen)
           /\ UNCHANGED judging
        \/ /\ Signature(c) \notin seen_signatures /\ c.kind = "HANG"
           /\ seen_signatures' = seen
           /\ UNCHANGED <<judging, total_bugs, files, found, dropped>>
        \/ /\ Signature(c) \notin seen_signatures /\ c.kind \notin {"MEMSAFETY", "HANG"}
           /\ seen_signatures' = seen
           /\ judging' = [judging EXCEPT ![w] = c]
           /\ UNCHANGED <<total_bugs, files, found, dropped>>
  /\ UNCHANGED run

\* The reference run ended: there is a bug or none.
Judge(w) ==
  /\ judging[w] # None
  /\ judging' = [judging EXCEPT ![w] = None]
  /\ \E verdict \in Verdicts(judging[w]) :
       IF verdict = None
       THEN UNCHANGED <<seen_signatures, total_bugs, files, found, dropped>>
       ELSE Report(judging[w], verdict, seen_signatures)
  /\ UNCHANGED run

\* The reference run raised: the exception is printed, the signature stays.
Raise(w) ==
  /\ judging[w] # None
  /\ judging' = [judging EXCEPT ![w] = None]
  /\ UNCHANGED <<seen_signatures, total_bugs, files, run, found, dropped>>

\* The program ends, or is stopped, and is run again.
Rerun ==
  /\ run < MaxRuns
  /\ run' = run + 1
  /\ judging' = [w \in Workers |-> None]
  /\ seen_signatures' = {}
  /\ total_bugs' = 0
  /\ found' = {}
  /\ UNCHANGED <<files, dropped>>

Next ==
  \/ \E w \in Workers : (\E c \in Captures : Take(w, c)) \/ Judge(w) \/ Raise(w)
  \/ Rerun

Spec == Init /\ [][Next]_vars

-----------------------------------------------------------------------------
(* Properties.                                                              *)

\* What the program reported in some run, files that existed included.
Made == files \cup dropped

\* The eight workers report no bug of a run twice, though each awaits a
\* reference run in between: reports differ in their signature, and reports of
\* logic bugs in the form of the query.
OneReportPerBug ==
  \A r, s \in Made : r # s /\ r.run = s.run =>
    /\ Signature(r.capture) # Signature(s.capture)
    /\ r.type = "LOGIC_BUG" /\ s.type = "LOGIC_BUG" =>
         FormSignature(r.capture) # FormSignature(s.capture)

\* No two reports of one run get the same number: if a file exists, it is one
\* of an earlier run.
OnlyEarlierRunsCollide ==
  /\ \A r, s \in Made : r # s /\ r.run = s.run => r.number # s.number
  /\ \A d \in dropped : \E f \in files : f.number = d.number /\ f.type = d.type /\ f.run < d.run

\* Every bug found in this run was reported, or a logic bug of that form and
\* stderr was: the deduplication by form drops no other bug.
NoBugForgotten ==
  \A bug \in found : \E r \in Made :
    /\ r.run = run /\ r.type = bug[2]
    /\ \/ r.capture = bug[1]
       \/ r.type = "LOGIC_BUG" /\ FormSignature(r.capture) = FormSignature(bug[1])
=============================================================================
