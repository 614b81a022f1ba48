--------------------------- MODULE QueryExecutor ---------------------------
(***************************************************************************)
(* What run_single_mutation relies on when it awaits a worker: one call at  *)
(* a time, one reply for it, and a reply that speaks of that call only.     *)
(***************************************************************************)
EXTENDS Naturals, Sequences, SequencesExt

CONSTANTS
  MaxCalls,  \* bound: calls of execute; they are numbered
  Streams    \* the output streams of the process

None == 0

VARIABLES
  query,    \* the call that is being served, or None
  printed,  \* what the process printed for the latest call
  dead,     \* the process is not there
  verdict,  \* of the latest call
  output    \* the bytes in that reply

vars == <<query, printed, dead, verdict, output>>

Row(q) == [what |-> "row", of |-> q]
Empty == [s \in Streams |-> << >>]

Init ==
  /\ query = None
  /\ printed = Empty
  /\ dead = TRUE
  /\ verdict = "none"
  /\ output = Empty

Ask ==
  /\ query = None
  /\ query' \in 1..MaxCalls
  /\ printed' = Empty
  /\ verdict' = "none"
  /\ output' = Empty
  /\ UNCHANGED dead

\* Nothing is printed when no call is being served.
PrintRow(s) ==
  /\ query # None
  /\ printed' = [printed EXCEPT ![s] = Append(@, Row(query))]
  /\ UNCHANGED <<query, dead, verdict, output>>

StartOrDie ==
  /\ dead' = ~dead
  /\ UNCHANGED <<query, printed, verdict, output>>

Reply ==
  /\ query # None
  /\ query' = None
  /\ \/ verdict' = "OK" /\ output' = printed
     \/ /\ verdict' = "CRASH" /\ dead
        /\ output' \in [Streams -> UNION {Prefixes(printed[s]) : s \in Streams}]
        /\ \A s \in Streams : IsPrefix(output'[s], printed[s])
     \/ verdict' = "HANG" /\ dead /\ output' = Empty
     \/ verdict' = "raise" /\ output' = Empty
  /\ UNCHANGED <<printed, dead>>

Next == Ask \/ (\E s \in Streams : PrintRow(s)) \/ StartOrDie \/ Reply

Spec == Init /\ [][Next]_vars
=============================================================================
