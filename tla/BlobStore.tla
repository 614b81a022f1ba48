------------------------------ MODULE BlobStore ------------------------------
(***************************************************************************)
(* BinaryBlob of crates/lsf-engine/src/dynamic_corpus.rs: the storage       *)
(* backend that appends every AST to one file and remembers where it is.    *)
(*                                                                         *)
(* The file is opened in append mode and counted from offset zero, so that  *)
(* what an earlier run of the program left in it, or a write that failed    *)
(* half-way, parts the offsets from the file until clear truncates it.      *)
(***************************************************************************)
EXTENDS Integers, Sequences

CONSTANTS
  Ids,      \* entries of the corpus
  Size,     \* length of what postcard makes of the AST of an entry
  Stale,    \* a byte of an earlier run
  NoSlot,   \* not indexed
  MaxLen    \* bound: length of the file

ASSUME SizeAssumption == Size \in [Ids -> Nat \ {0}] /\ MaxLen \in Nat

\* A byte is known by the entry it belongs to and its place there.
Byte(id, k) == [id |-> id, at |-> k]
Bytes(id) == [k \in 1..Size[id] |-> Byte(id, k)]
AllBytes == {Stale} \cup [id : Ids, at : Nat]

ASSUME StaleAssumption == Stale \notin [id : Ids, at : Nat] /\ NoSlot \notin Nat

VARIABLES
  file,             \* the contents of blob.bin
  offset,           \* FileSlot.offset of each entry, or NoSlot
  current_offset,
  in_step           \* ghost: truncated in this run, no write torn since

vars == <<file, offset, current_offset, in_step>>

Indexed(id) == offset[id] # NoSlot

TypeOK ==
  /\ file \in Seq(AllBytes)
  /\ offset \in [Ids -> Nat \cup {NoSlot}]
  /\ current_offset \in Nat
  /\ \A id \in Ids : Indexed(id) => offset[id] + Size[id] =< current_offset
  /\ in_step \in BOOLEAN

Init ==
  /\ file = << >>
  /\ offset = [id \in Ids |-> NoSlot]
  /\ current_offset = 0
  /\ in_step = TRUE

-----------------------------------------------------------------------------

\* retrieve reads an entry as it was written: read_exact_at finds its bytes at
\* its offset.
ReadsWell(id) ==
  /\ offset[id] + Size[id] =< Len(file)
  /\ \A k \in 1..Size[id] : file[offset[id] + k] = Byte(id, k)

\* Mutant: the offset is taken after it was advanced.
Place_After(id) ==
  /\ current_offset' = current_offset + Size[id]
  /\ offset' = [offset EXCEPT ![id] = current_offset + Size[id]]

Place(id) ==
  /\ offset' = [offset EXCEPT ![id] = current_offset]
  /\ current_offset' = current_offset + Size[id]

\* write_all on a file opened for appending.
AppendBytes(bytes) == file' = file \o bytes

\* Mutant: an entry is appended again when it is written again.
write_Again(id) ==
  /\ Len(file) + Size[id] =< MaxLen
  /\ \/ AppendBytes(Bytes(id)) /\ Place(id) /\ UNCHANGED in_step
     \/ \E written \in 0..(Size[id] - 1) :
          /\ AppendBytes(SubSeq(Bytes(id), 1, written))
          /\ in_step' = (in_step /\ written = 0)
          /\ UNCHANGED <<offset, current_offset>>

\* write of an entry that is not indexed; of another it does nothing.  It is
\* indexed only when all its bytes were written.
write(id) ==
  /\ ~Indexed(id)
  /\ Len(file) + Size[id] =< MaxLen
  /\ \/ AppendBytes(Bytes(id)) /\ Place(id) /\ UNCHANGED in_step
     \/ \E written \in 0..(Size[id] - 1) :
          /\ AppendBytes(SubSeq(Bytes(id), 1, written))
          /\ in_step' = (in_step /\ written = 0)
          /\ UNCHANGED <<offset, current_offset>>

\* Mutant: the offset goes on counting.
clear_KeepsOffset ==
  /\ file' = << >>
  /\ offset' = [id \in Ids |-> NoSlot]
  /\ in_step' = TRUE
  /\ UNCHANGED current_offset

clear ==
  /\ file' = << >>
  /\ offset' = [id \in Ids |-> NoSlot]
  /\ current_offset' = 0
  /\ in_step' = TRUE

\* The program is run again: new opens the file it left, whatever is in it.
new ==
  /\ file' = [k \in DOMAIN file |-> Stale]
  /\ offset' = [id \in Ids |-> NoSlot]
  /\ current_offset' = 0
  /\ in_step' = (file = << >>)

Next == (\E id \in Ids : write(id)) \/ clear \/ new

Spec == Init /\ [][Next]_vars

-----------------------------------------------------------------------------
(* Properties.                                                              *)

\* As long as offsets and file are in step, each indexed entry reads well; one
\* truncation after new is enough, whatever the file held.
RetrieveIsRight == in_step => \A id \in Ids : Indexed(id) => ReadsWell(id)

\* No later write, torn or not, damages what can be read: until the next clear
\* or run an entry that reads well goes on doing so.
StoredStaysStored ==
  [][\A id \in Ids : Indexed(id) /\ ReadsWell(id) =>
       (\A other \in Ids : ~Indexed(other)') \/ (Indexed(id)' /\ ReadsWell(id)')]_vars
=============================================================================
