------------------------------ MODULE SqlSaver ------------------------------
(***************************************************************************)
(* SQLSaver of crates/lsf-engine/src/dynamic_corpus.rs: every query that is *)
(* written goes through a channel to a thread that appends it to a file.    *)
(* The backend it wraps is BlobStore.  Nobody joins the thread: when the    *)
(* program exits, what it holds is lost.                                    *)
(*                                                                          *)
(* The thread formats a query by many small writes into a BufWriter, so that*)
(* queries are torn anywhere.  The model counts in pieces: a piece is a     *)
(* stretch of text that nothing tears.  The channel stands for the commands *)
(* in it and for the pieces still to come of the one the thread has in      *)
(* hand: an exit loses both.                                                *)
(***************************************************************************)
EXTENDS Integers, Sequences, SequencesExt

CONSTANTS
  Clear,           \* SqlSaverCommand::Clear
  BUF_CAP,         \* pieces the BufWriter holds
  PARTS,           \* pieces of a query
  MaxGenerations,  \* bound: calls of clear
  MaxPieces        \* bound: pieces sent between two of them

Generations == 0..MaxGenerations

\* The n-th piece sent in a generation, which is the time between two calls of
\* clear.  What the file held before the run comes first in the generation 0.
Piece(generation, n) == [generation |-> generation, n |-> n]
Pieces == [generation : Generations, n : 1..MaxPieces]

VARIABLES
  channel,   \* tx, rx, and the rest of the command in hand
  buffer,    \* of the BufWriter
  file,      \* queries.sql
  thread,    \* the spawned thread: "running", "panicked", "done" or "killed"
  dropped,   \* the SQLSaver, and with it tx, was dropped
  sent,      \* ghost: the pieces of each generation
  intact     \* ghost: since the last clear, no write, flush or set_len failed

vars == <<channel, buffer, file, thread, dropped, sent, intact>>

TypeOK ==
  /\ channel \in Seq(Pieces \cup {Clear})
  /\ buffer \in Seq(Pieces)
  /\ Len(buffer) =< BUF_CAP
  /\ file \in Seq(Pieces)
  /\ thread \in {"running", "panicked", "done", "killed"}
  /\ dropped \in BOOLEAN
  /\ Len(sent) \in 1..(MaxGenerations + 1)
  /\ intact \in BOOLEAN

\* The thread panics when it cannot open the file.
Started == {"running", "panicked"}

Init ==
  /\ channel = << >>
  /\ buffer = << >>
  /\ file \in {<< >>, <<Piece(0, 1)>>}
  /\ thread \in Started
  /\ dropped = FALSE
  /\ sent = <<file>>
  /\ intact = TRUE

-----------------------------------------------------------------------------
(* The program.                                                             *)

Generation == Len(sent) - 1

\* The error of a send to a thread that has panicked is dropped.
SendIgnored ==
  /\ thread = "panicked" /\ ~dropped
  /\ UNCHANGED vars

SendQuery ==
  /\ thread = "running" /\ ~dropped
  /\ Len(sent[Len(sent)]) + PARTS =< MaxPieces
  /\ LET query == [i \in 1..PARTS |-> Piece(Generation, Len(sent[Len(sent)]) + i)]
     IN /\ channel' = channel \o query
        /\ sent' = [sent EXCEPT ![Len(sent)] = @ \o query]
  /\ UNCHANGED <<buffer, file, thread, dropped, intact>>

SendClear ==
  /\ thread = "running" /\ ~dropped
  /\ Generation < MaxGenerations
  /\ channel' = Append(channel, Clear)
  /\ sent' = Append(sent, << >>)
  /\ UNCHANGED <<buffer, file, thread, dropped, intact>>

write == SendQuery \/ SendIgnored
clear == SendClear \/ SendIgnored

\* The corpus is dropped at the end of main.
Drop ==
  /\ thread # "killed" /\ ~dropped
  /\ dropped' = TRUE
  /\ UNCHANGED <<channel, buffer, file, thread, sent, intact>>

\* The program exits, with the thread in whatever state, also in the middle of
\* writing out the buffer when it has something to do.
Exit ==
  /\ thread # "killed"
  /\ thread' = "killed"
  /\ channel' = << >>
  /\ buffer' = << >>
  /\ \E k \in 0..Len(buffer) :
       /\ k > 0 => channel # << >> \/ dropped
       /\ file' = file \o SubSeq(buffer, 1, k)
  /\ UNCHANGED <<dropped, sent, intact>>

\* The program is run again.  It appends to the file as the last run left it, be
\* it in the middle of a query.
new ==
  /\ thread = "killed"
  /\ Len(file) =< MaxPieces
  /\ thread' \in Started
  /\ dropped' = FALSE
  /\ file' = [i \in DOMAIN file |-> Piece(0, i)]
  /\ sent' = <<file'>>
  /\ intact' = TRUE
  /\ UNCHANGED <<channel, buffer>>

-----------------------------------------------------------------------------
(* The thread.  It drops the errors of all its writes.                      *)

\* The buffer is written out up to some piece, and the rest stays in it.
FlushedUpTo(k) ==
  /\ file' = file \o SubSeq(buffer, 1, k)
  /\ buffer' = SubSeq(buffer, k + 1, Len(buffer))

\* A piece is buffered when it fits.
Put ==
  /\ Len(buffer) < BUF_CAP
  /\ buffer' = Append(buffer, Head(channel))
  /\ UNCHANGED <<file, intact>>

\* Otherwise the buffer is written out first; a piece as large as the buffer goes
\* directly to the file.
SpillAndPut ==
  /\ \/ file' = file \o buffer /\ buffer' = <<Head(channel)>>
     \/ file' = Append(file \o buffer, Head(channel)) /\ buffer' = << >>
  /\ UNCHANGED intact

\* Writing out the buffer fails part-way, or the write of the piece after it: the
\* piece is lost, and so are others of the same write! in further steps.
PutFails ==
  /\ \E k \in 0..Len(buffer) : FlushedUpTo(k)
  /\ intact' = FALSE

HandleWrite == Put \/ SpillAndPut \/ PutFails

\* Mutant: the file is truncated and the buffer is not flushed before.
HandleClear_NoFlush ==
  /\ file' = << >>
  /\ intact' = TRUE
  /\ UNCHANGED buffer

\* The buffer is flushed and then the file truncated: what was buffered goes too.
\* The truncation is tried also when the flush has failed part-way, and fails on
\* its own.
HandleClear ==
  \/ file' = << >> /\ buffer' = << >> /\ intact' = TRUE
  \/ /\ \E k \in 0..(Len(buffer) - 1) :
          file' = << >> /\ buffer' = SubSeq(buffer, k + 1, Len(buffer))
     /\ intact' = FALSE
  \/ /\ \E k \in 0..Len(buffer) : FlushedUpTo(k)
     /\ intact' = FALSE

Handle ==
  /\ thread = "running" /\ channel # << >>
  /\ channel' = Tail(channel)
  /\ \/ Head(channel) # Clear /\ HandleWrite
     \/ Head(channel) = Clear /\ HandleClear
  /\ UNCHANGED <<thread, dropped, sent>>

\* Mutant: the thread ends without the flush.
Finish_NoFlush ==
  /\ thread = "running" /\ channel = << >> /\ dropped
  /\ thread' = "done"
  /\ UNCHANGED <<channel, buffer, file, dropped, sent, intact>>

\* recv fails when the channel is empty and tx is gone.  The last flush may fail
\* part-way; the rest goes with the thread.
Finish ==
  /\ thread = "running" /\ channel = << >> /\ dropped
  /\ \E k \in 0..Len(buffer) :
       /\ file' = file \o SubSeq(buffer, 1, k)
       /\ intact' = (intact /\ k = Len(buffer))
  /\ buffer' = << >>
  /\ thread' = "done"
  /\ UNCHANGED <<channel, dropped, sent>>

Next == write \/ clear \/ Drop \/ Exit \/ new \/ Handle \/ Finish

\* The thread is scheduled as long as the program runs.
Spec == Init /\ [][Next]_vars /\ WF_vars(Handle) /\ WF_vars(Finish)

-----------------------------------------------------------------------------
(* Properties.                                                              *)

SentBefore(p, q) ==
  \/ p.generation < q.generation
  \/ p.generation = q.generation /\ p.n < q.n

\* Whatever fails and whenever the program exits, the file holds pieces in the
\* order they were sent, none of them twice: what a failed write leaves in the
\* buffer is not written again, nor overtaken by later pieces.
InOrder == \A i, j \in DOMAIN file : i < j => SentBefore(file[i], file[j])

\* As long as nothing fails, the file holds the first pieces of one generation
\* with no gap: no clear leaves or brings back a piece of before it, and of the
\* queries of a run only the last one is torn, by the exit.
NoGap == intact => \E g \in 1..Len(sent) : IsPrefix(file, sent[g])

\* When the saver is dropped, the program lives on and nothing fails, the file
\* gets all the queries since the last clear.
AllSavedInTheEnd ==
  dropped ~> (thread \in {"killed", "panicked"} \/ ~intact \/ file = sent[Len(sent)])
=============================================================================
