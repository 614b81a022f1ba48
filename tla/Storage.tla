------------------------------ MODULE Storage ------------------------------
(***************************************************************************)
(* The storage main.py builds for a long run: SQLSaver around BinaryBlob.   *)
(* A call goes to both; the thread of the saver runs on its own; a new run  *)
(* of the program finds the files of the last one.                          *)
(***************************************************************************)
EXTENDS BlobStore

CONSTANTS Clear, BUF_CAP, PARTS, MaxGenerations, MaxPieces

VARIABLES channel, buffer, queries, thread, dropped, sent, intact

Saver == INSTANCE SqlSaver WITH file <- queries

ASSUME SaverAssumption ==
  /\ MaxGenerations \in Nat
  /\ MaxPieces \in Nat \ {0}
  /\ BUF_CAP \in Nat \ {0}
  /\ PARTS \in Nat \ {0}
  /\ Clear \notin Saver!Pieces

saver_vars == <<channel, buffer, queries, thread, dropped, sent, intact>>

StorageInit == Init /\ Saver!Init

\* The query is on its way to queries.sql before the blob is written, and also
\* when the blob has the entry already or its write fails.
StorageWrite(id) ==
  /\ Saver!write
  /\ write(id) \/ (Indexed(id) /\ UNCHANGED vars)

StorageClear == clear /\ Saver!clear

StorageNew == new /\ Saver!new

\* The thread, and the end of the program at any point of it.
Alone == (Saver!Drop \/ Saver!Exit \/ Saver!Handle \/ Saver!Finish) /\ UNCHANGED vars

StorageNext == (\E id \in Ids : StorageWrite(id)) \/ StorageClear \/ StorageNew \/ Alone

\* The thread is scheduled as long as the program runs.
StorageSpec ==
  /\ StorageInit /\ [][StorageNext]_<<vars, saver_vars>>
  /\ WF_saver_vars(Saver!Handle /\ UNCHANGED vars)
  /\ WF_saver_vars(Saver!Finish /\ UNCHANGED vars)

-----------------------------------------------------------------------------
(* Properties, besides those of BlobStore.                                  *)

\* Whatever fails and whenever the program ends, queries.sql holds what was sent
\* in order and nothing twice; as long as no write of it failed, it holds the
\* first pieces of one generation without a gap.
FileInOrder == Saver!TypeOK /\ Saver!InOrder /\ Saver!NoGap

\* Once the saver is dropped, the program lives on and nothing fails, the file
\* gets all queries since the last clear.
AllSavedInTheEnd == Saver!AllSavedInTheEnd
=============================================================================
