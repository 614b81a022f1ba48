--------------------------- MODULE Storage_proofs ---------------------------
(***************************************************************************)
(* Proofs about Storage for entries of any size, any buffer and any number  *)
(* of queries, clears and runs: what is read is what was written, and       *)
(* queries.sql holds what was sent in order, with no gap until a write      *)
(* fails.                                                                   *)
(***************************************************************************)
EXTENDS Storage, SequenceTheorems, TLAPS

\* In step, the next slot begins where the file ends.
CountsTheFile == in_step => Len(file) = current_offset

BlobInv == TypeOK /\ CountsTheFile /\ RetrieveIsRight

\* What a write appends, and that no byte of the file moves.
LEMMA Appending ==
  ASSUME TypeOK, NEW bytes \in Seq(AllBytes), AppendBytes(bytes)
  PROVE  /\ file' \in Seq(AllBytes)
         /\ Len(file') = Len(file) + Len(bytes)
         /\ Len(file) \in Nat /\ Len(bytes) \in Nat
         /\ \A i \in 1..Len(file) : file'[i] = file[i]
         /\ \A k \in 1..Len(bytes) : file'[Len(file) + k] = bytes[k]
BY DEF AppendBytes, TypeOK

LEMMA BytesType ==
  ASSUME NEW id \in Ids
  PROVE  /\ Size[id] \in Nat \ {0}
         /\ Bytes(id) \in Seq(AllBytes)
         /\ Len(Bytes(id)) = Size[id]
         /\ \A k \in 1..Size[id] : Bytes(id)[k] = Byte(id, k)
         /\ \A n \in 0..(Size[id] - 1) : /\ SubSeq(Bytes(id), 1, n) \in Seq(AllBytes)
                                         /\ Len(SubSeq(Bytes(id), 1, n)) = n
<1>1. Size[id] \in Nat \ {0}
  BY SizeAssumption
<1>2. \A k \in 1..Size[id] : Byte(id, k) \in AllBytes
  BY DEF Byte, AllBytes
<1>3. Bytes(id) \in Seq(AllBytes) /\ Len(Bytes(id)) = Size[id]
  BY <1>1, <1>2 DEF Bytes
<1>4. \A k \in 1..Size[id] : Bytes(id)[k] = Byte(id, k)
  BY DEF Bytes
<1> HIDE DEF Bytes
<1>5. ASSUME NEW n \in 0..(Size[id] - 1)
      PROVE  SubSeq(Bytes(id), 1, n) \in Seq(AllBytes) /\ Len(SubSeq(Bytes(id), 1, n)) = n
  BY <1>1, <1>3
<1> QED BY <1>1, <1>3, <1>4, <1>5

\* An entry that reads well does so after bytes were appended.
LEMMA AppendKeeps ==
  ASSUME TypeOK, NEW bytes \in Seq(AllBytes), AppendBytes(bytes),
         NEW id \in Ids, Indexed(id), ReadsWell(id), offset'[id] = offset[id]
  PROVE  ReadsWell(id)'
<1>1. offset[id] \in Nat /\ Size[id] \in Nat
  BY SizeAssumption DEF TypeOK, Indexed
<1>2. /\ Len(file') = Len(file) + Len(bytes)
      /\ Len(file) \in Nat /\ Len(bytes) \in Nat
      /\ \A i \in 1..Len(file) : file'[i] = file[i]
  BY Appending
<1>3. offset[id] + Size[id] =< Len(file)
  BY DEF ReadsWell
<1>4. ASSUME NEW k \in 1..Size[id]
      PROVE  file'[offset[id] + k] = Byte(id, k)
  <2>1. offset[id] + k \in 1..Len(file)
    BY <1>1, <1>2, <1>3
  <2>2. file[offset[id] + k] = Byte(id, k)
    BY DEF ReadsWell
  <2> QED BY <1>2, <2>1, <2>2
<1>5. offset'[id] + Size[id] =< Len(file')
  BY <1>1, <1>2, <1>3
<1> QED BY <1>4, <1>5 DEF ReadsWell, Byte

LEMMA WriteStep ==
  ASSUME BlobInv, NEW id \in Ids, write(id)
  PROVE  /\ BlobInv'
         /\ \A other \in Ids : Indexed(other) /\ ReadsWell(other) =>
              Indexed(other)' /\ ReadsWell(other)'
<1>1. CASE AppendBytes(Bytes(id)) /\ Place(id) /\ UNCHANGED in_step
  <2>1. /\ offset' = [offset EXCEPT ![id] = current_offset]
        /\ current_offset' = current_offset + Size[id]
        /\ offset \in [Ids -> Nat \cup {NoSlot}] /\ current_offset \in Nat
        /\ Size[id] \in Nat
    BY <1>1, BytesType DEF Place, BlobInv, TypeOK
  <2>2. /\ file' \in Seq(AllBytes)
        /\ Len(file') = Len(file) + Size[id]
        /\ Len(file) \in Nat
        /\ \A k \in 1..Size[id] : file'[Len(file) + k] = Byte(id, k)
    <3>1. TypeOK /\ AppendBytes(Bytes(id)) /\ Bytes(id) \in Seq(AllBytes)
          /\ Len(Bytes(id)) = Size[id] /\ \A k \in 1..Size[id] : Bytes(id)[k] = Byte(id, k)
      BY <1>1, BytesType DEF BlobInv
    <3>2. /\ file' \in Seq(AllBytes)
          /\ Len(file') = Len(file) + Len(Bytes(id))
          /\ Len(file) \in Nat
          /\ \A k \in 1..Len(Bytes(id)) : file'[Len(file) + k] = Bytes(id)[k]
      BY <3>1, Appending
    <3> QED BY <3>1, <3>2
  <2>3. \A other \in Ids \ {id} : offset'[other] = offset[other]
    BY <2>1
  <2>4. ASSUME NEW other \in Ids, Indexed(other)
        PROVE  other # id /\ Indexed(other)'
    BY <2>3, <2>4 DEF write, Indexed
  <2>5. ASSUME NEW other \in Ids, Indexed(other), ReadsWell(other)
        PROVE  Indexed(other)' /\ ReadsWell(other)'
    BY <1>1, <2>3, <2>4, <2>5, AppendKeeps, BytesType DEF BlobInv
  <2>6. TypeOK'
    <3>1. ASSUME NEW other \in Ids, Indexed(other)'
          PROVE  offset'[other] + Size[other] =< current_offset'
      <4>1. CASE other = id
        BY <2>1, <4>1
      <4>2. CASE other # id
        <5>1. offset'[other] = offset[other] /\ Indexed(other)
          BY <2>3, <3>1, <4>2 DEF Indexed
        <5>2. offset[other] \in Nat /\ Size[other] \in Nat
              /\ offset[other] + Size[other] =< current_offset
          BY <2>1, <5>1, SizeAssumption DEF BlobInv, TypeOK, Indexed
        <5> QED BY <2>1, <5>1, <5>2
      <4> QED BY <4>1, <4>2
    <3>2. offset' \in [Ids -> Nat \cup {NoSlot}] /\ current_offset' \in Nat
      BY <2>1
    <3> QED BY <1>1, <2>2, <3>1, <3>2 DEF BlobInv, TypeOK
  <2>7. CountsTheFile'
    BY <1>1, <2>1, <2>2 DEF BlobInv, CountsTheFile
  <2>8. RetrieveIsRight'
    <3> SUFFICES ASSUME in_step, NEW other \in Ids, Indexed(other)'
                 PROVE  ReadsWell(other)'
      BY <1>1 DEF RetrieveIsRight
    <3>1. CASE other = id
      <4>1. offset'[id] = Len(file)
        BY <2>1 DEF BlobInv, CountsTheFile
      <4> QED BY <2>2, <3>1, <4>1 DEF ReadsWell
    <3>2. CASE other # id
      <4>1. Indexed(other)
        BY <2>3, <3>2 DEF Indexed
      <4> QED BY <2>5, <4>1 DEF BlobInv, RetrieveIsRight
    <3> QED BY <3>1, <3>2
  <2> QED BY <2>5, <2>6, <2>7, <2>8 DEF BlobInv
<1>2. ASSUME NEW written \in 0..(Size[id] - 1),
             AppendBytes(SubSeq(Bytes(id), 1, written)),
             in_step' = (in_step /\ written = 0),
             UNCHANGED <<offset, current_offset>>
      PROVE  /\ BlobInv'
             /\ \A other \in Ids : Indexed(other) /\ ReadsWell(other) =>
                  Indexed(other)' /\ ReadsWell(other)'
  <2> DEFINE part == SubSeq(Bytes(id), 1, written)
  <2>1. part \in Seq(AllBytes) /\ Len(part) = written
    BY BytesType
  <2> HIDE DEF part
  <2>2. AppendBytes(part) /\ TypeOK
    BY <1>2 DEF BlobInv, part
  <2>3. file' \in Seq(AllBytes) /\ Len(file') = Len(file) + written /\ Len(file) \in Nat
    BY <2>1, <2>2, Appending
  <2>4. ASSUME NEW other \in Ids, Indexed(other), ReadsWell(other)
        PROVE  Indexed(other)' /\ ReadsWell(other)'
    BY <1>2, <2>1, <2>2, <2>4, AppendKeeps DEF Indexed
  <2>5. TypeOK'
    BY <1>2, <2>3 DEF BlobInv, TypeOK, Indexed
  <2>6. CountsTheFile' /\ RetrieveIsRight'
    <3>1. in_step' => in_step /\ written = 0
      BY <1>2
    <3>2. CountsTheFile'
      BY <1>2, <2>3, <3>1 DEF BlobInv, CountsTheFile
    <3>3. RetrieveIsRight'
      BY <1>2, <2>4, <3>1 DEF BlobInv, RetrieveIsRight, Indexed
    <3> QED BY <3>2, <3>3
  <2> QED BY <2>4, <2>5, <2>6 DEF BlobInv
<1> QED BY <1>1, <1>2 DEF write

\* Truncation brings offsets and file back in step.
LEMMA ResetStep ==
  ASSUME BlobInv, clear \/ new
  PROVE  BlobInv' /\ \A id \in Ids : ~Indexed(id)'
<1>1. /\ offset' = [id \in Ids |-> NoSlot]
      /\ current_offset' = 0
      /\ in_step' \in BOOLEAN
      /\ in_step' => file' = << >>
  <2>1. CASE clear
    BY <2>1 DEF clear
  <2>2. CASE new
    <3>1. file = << >> => [k \in DOMAIN file |-> Stale] = << >>
      OBVIOUS
    <3>2. in_step' = (file = << >>)
      BY <2>2 DEF new
    <3> QED BY <2>2, <3>1, <3>2 DEF new
  <2> QED BY <2>1, <2>2
<1>2. file' \in Seq(AllBytes)
  <2>1. CASE clear
    BY <2>1 DEF clear
  <2>2. CASE new
    <3>1. file' = [k \in 1..Len(file) |-> Stale] /\ Len(file) \in Nat /\ Stale \in AllBytes
      BY <2>2 DEF new, BlobInv, TypeOK, AllBytes
    <3> QED BY <3>1
  <2> QED BY <2>1, <2>2
<1>3. \A id \in Ids : ~Indexed(id)'
  BY <1>1 DEF Indexed
<1> QED BY <1>1, <1>2, <1>3 DEF BlobInv, TypeOK, CountsTheFile, RetrieveIsRight

\* What StoredStaysStored says of a step.
KeepsStored ==
  \A id \in Ids : Indexed(id) /\ ReadsWell(id) =>
    (\A other \in Ids : ~Indexed(other)') \/ (Indexed(id)' /\ ReadsWell(id)')

LEMMA BlobStep ==
  ASSUME BlobInv, [Next]_vars
  PROVE  BlobInv' /\ KeepsStored
<1>1. CASE \E id \in Ids : write(id)
  BY <1>1, WriteStep DEF KeepsStored
<1>2. CASE clear \/ new
  BY <1>2, ResetStep DEF KeepsStored
<1>3. CASE UNCHANGED vars
  BY <1>3 DEF vars, BlobInv, TypeOK, CountsTheFile, RetrieveIsRight, KeepsStored, Indexed,
              ReadsWell
<1> QED BY <1>1, <1>2, <1>3 DEF Next

LEMMA BlobInit == Init => BlobInv
BY DEF Init, BlobInv, TypeOK, CountsTheFile, RetrieveIsRight, Indexed

-----------------------------------------------------------------------------
(* queries.sql.                                                             *)

\* What has left the channel and is not lost: the file and then the buffer.
Line == queries \o buffer

Ascending(line) == \A i, j \in 1..Len(line) : i < j => Saver!SentBefore(line[i], line[j])

\* Nothing in the line comes after the k-th piece of generation g.
Until(line, g, k) ==
  \A i \in 1..Len(line) :
    \/ line[i].generation < g - 1
    \/ line[i].generation = g - 1 /\ line[i].n =< k

\* The line is the first k pieces of generation g.
Holds(line, g, k) ==
  /\ Len(line) = k /\ k =< Len(sent[g])
  /\ \A i \in 1..Len(line) : line[i] = Saver!Piece(g - 1, i)

\* Every piece on its way has a place in a generation: gen[i] and n[i] are the
\* generation and the number of its pieces handled, once the first i items of the
\* channel were.
Comes(gen, n, i) ==
  \/ channel[i] = Clear /\ gen[i] = gen[i - 1] + 1 /\ n[i] = 0
  \/ /\ channel[i] # Clear
     /\ gen[i] = gen[i - 1] /\ n[i] = n[i - 1] + 1
     /\ n[i] =< Len(sent[gen[i]])
     /\ channel[i] = Saver!Piece(gen[i] - 1, n[i])

Route(gen, n) ==
  /\ gen \in [0..Len(channel) -> 1..Len(sent)]
  /\ n \in [0..Len(channel) -> Nat]
  /\ \A i \in 1..Len(channel) : Comes(gen, n, i)
  /\ gen[Len(channel)] = Len(sent)
  /\ n[Len(channel)] = Len(sent[Len(sent)])
  /\ Until(Line, gen[0], n[0])
  /\ intact => Holds(Line, gen[0], n[0])

\* A piece is known by its generation and its place in it.
SentIs ==
  /\ sent \in Seq(Seq(Saver!Pieces))
  /\ \A g \in 1..Len(sent) :
       /\ Len(sent[g]) =< MaxPieces
       /\ \A i \in 1..Len(sent[g]) : sent[g][i] = Saver!Piece(g - 1, i)

\* What is not in the channel any more stands in a line, in the order it was sent,
\* and nothing is after what comes next.  As long as nothing fails the line has no
\* gap; what is lost at an exit is lost from its end.
SaverInv ==
  /\ Saver!TypeOK
  /\ SentIs
  /\ Ascending(Line)
  /\ thread = "killed" =>
       /\ channel = << >> /\ buffer = << >>
       /\ intact => \E g \in 1..Len(sent) : Holds(Line, g, Len(Line))
  /\ thread # "killed" => \E gen, n : Route(gen, n)

LEMMA PieceType ==
  ASSUME NEW g \in 0..MaxGenerations, NEW k \in 1..MaxPieces
  PROVE  Saver!Piece(g, k) \in Saver!Pieces
BY DEF Saver!Piece, Saver!Pieces, Saver!Generations

LEMMA PieceFields ==
  ASSUME NEW x \in Saver!Pieces
  PROVE  x.generation \in Nat /\ x.n \in Nat /\ x # Clear
BY SaverAssumption DEF Saver!Pieces, Saver!Generations

LEMMA LineType ==
  ASSUME Saver!TypeOK
  PROVE  /\ Line \in Seq(Saver!Pieces)
         /\ queries \in Seq(Saver!Pieces) /\ buffer \in Seq(Saver!Pieces)
         /\ Len(Line) = Len(queries) + Len(buffer)
         /\ Len(queries) \in Nat /\ Len(buffer) \in Nat
BY DEF Saver!TypeOK, Line

\* A flush moves pieces from the buffer to the file: the line stays.
LEMMA FlushMoves ==
  ASSUME NEW q \in Seq(Saver!Pieces), NEW b \in Seq(Saver!Pieces), NEW k \in 0..Len(b)
  PROVE  (q \o SubSeq(b, 1, k)) \o SubSeq(b, k + 1, Len(b)) = q \o b
<1> DEFINE front == SubSeq(b, 1, k)
           rest == SubSeq(b, k + 1, Len(b))
<1>1. front \in Seq(Saver!Pieces) /\ rest \in Seq(Saver!Pieces)
  OBVIOUS
<1>2. front \o rest = SubSeq(b, 1, Len(b)) /\ SubSeq(b, 1, Len(b)) = b
  <2>1. 1 \in 1..(Len(b) + 1) /\ k \in (1 - 1)..Len(b) /\ Len(b) \in k..Len(b)
    OBVIOUS
  <2>2. SubSeq(b, 1, k) \o SubSeq(b, k + 1, Len(b)) = SubSeq(b, 1, Len(b))
    BY <2>1, ConcatAdjacentSubSeq
  <2> QED BY <2>2, SubSeqFull DEF front, rest
<1> HIDE DEF front, rest
<1>3. (q \o front) \o rest = q \o (front \o rest)
  <2>1. \A s, t, u \in Seq(Saver!Pieces) : (s \o t) \o u = s \o (t \o u)
    BY ConcatAssociative
  <2> QED BY <1>1, <2>1, Zenon
<1> QED BY <1>2, <1>3 DEF front, rest

\* What is left of the buffer, and what a flush that ends early makes of the line.
LEMMA FlushKeeps ==
  ASSUME NEW q \in Seq(Saver!Pieces), NEW b \in Seq(Saver!Pieces), NEW k \in 0..Len(b)
  PROVE  /\ q \o SubSeq(b, 1, k) \in Seq(Saver!Pieces)
         /\ SubSeq(b, k + 1, Len(b)) \in Seq(Saver!Pieces)
         /\ Len(SubSeq(b, k + 1, Len(b))) =< Len(b)
         /\ Len(SubSeq(b, k + 1, Len(b))) \in Nat /\ Len(q) \in Nat
         /\ (q \o SubSeq(b, 1, k)) \o << >> = SubSeq(q \o b, 1, Len(q) + k)
         /\ SubSeq(b, k + 1, Len(b)) = SubSeq(q \o b, Len(q) + k + 1, Len(q \o b))
         /\ Len(q) + k \in 0..Len(q \o b)
<1> DEFINE front == SubSeq(b, 1, k)
           rest == SubSeq(b, k + 1, Len(b))
<1>1. /\ front \in Seq(Saver!Pieces) /\ Len(front) = k /\ \A i \in 1..k : front[i] = b[i]
      /\ k \in Nat /\ k =< Len(b) /\ Len(b) \in Nat /\ Len(q) \in Nat
  OBVIOUS
<1>2. /\ rest \in Seq(Saver!Pieces) /\ Len(rest) = Len(b) - k
      /\ \A i \in 1..(Len(b) - k) : rest[i] = b[k + i]
  OBVIOUS
<1>3. /\ q \o b \in Seq(Saver!Pieces) /\ Len(q \o b) = Len(q) + Len(b)
      /\ \A i \in 1..(Len(q) + Len(b)) : (q \o b)[i] = IF i =< Len(q) THEN q[i] ELSE b[i - Len(q)]
  OBVIOUS
<1> HIDE DEF front, rest
<1>4. /\ q \o front \in Seq(Saver!Pieces) /\ Len(q \o front) = Len(q) + k
      /\ \A i \in 1..(Len(q) + k) : (q \o front)[i] = IF i =< Len(q) THEN q[i] ELSE front[i - Len(q)]
  BY <1>1
<1>5. (q \o front) \o << >> = SubSeq(q \o b, 1, Len(q) + k)
  <2> DEFINE part == SubSeq(q \o b, 1, Len(q) + k)
  <2>1. /\ part \in Seq(Saver!Pieces) /\ Len(part) = Len(q) + k
        /\ \A i \in 1..(Len(q) + k) : part[i] = (q \o b)[i] /\ i \in 1..(Len(q) + Len(b))
    BY <1>1, <1>3
  <2> HIDE DEF part
  <2>2. ASSUME NEW i \in 1..(Len(q) + k) PROVE part[i] = (q \o front)[i]
    <3>1. CASE i =< Len(q)
      BY <1>3, <1>4, <2>1, <3>1
    <3>2. CASE ~(i =< Len(q))
      <4>1. i - Len(q) \in 1..k
        BY <1>1, <3>2
      <4> QED BY <1>1, <1>3, <1>4, <2>1, <3>2, <4>1
    <3> QED BY <3>1, <3>2
  <2>3. q \o front = part
    BY <1>4, <2>1, <2>2, SeqEqual
  <2> QED BY <1>4, <2>3, ConcatEmptySeq DEF part
<1>6. rest = SubSeq(q \o b, Len(q) + k + 1, Len(q \o b))
  <2> DEFINE part == SubSeq(q \o b, Len(q) + k + 1, Len(q \o b))
  <2>1. /\ part \in Seq(Saver!Pieces) /\ Len(part) = Len(b) - k
        /\ \A i \in 1..(Len(b) - k) : part[i] = (q \o b)[Len(q) + k + i]
    BY <1>1, <1>3
  <2> HIDE DEF part
  <2>2. ASSUME NEW i \in 1..(Len(b) - k) PROVE part[i] = rest[i]
    <3>1. /\ Len(q) + k + i \in 1..(Len(q) + Len(b)) /\ ~(Len(q) + k + i =< Len(q))
          /\ (Len(q) + k + i) - Len(q) = k + i
      BY <1>1
    <3>2. (q \o b)[Len(q) + k + i] = b[k + i]
      BY <1>3, <3>1
    <3> QED BY <1>2, <2>1, <3>2
  <2>3. rest = part
    BY <1>2, <2>1, <2>2, SeqEqual
  <2> QED BY <2>3 DEF part
<1>7. Len(rest) =< Len(b) /\ Len(rest) \in Nat /\ Len(q) \in Nat /\ Len(q) + k \in 0..Len(q \o b)
  BY <1>1, <1>2, <1>3
<1> QED BY <1>2, <1>4, <1>5, <1>6, <1>7 DEF front, rest

\* What is cut out of a line stays in order, and what was its beginning is still.
LEMMA Cutting ==
  ASSUME NEW line \in Seq(Saver!Pieces), NEW from \in 1..(Len(line) + 1), NEW to \in 0..Len(line),
         NEW g \in Nat, NEW k \in Nat
  PROVE  /\ Ascending(line) => Ascending(SubSeq(line, from, to))
         /\ Until(line, g, k) => Until(SubSeq(line, from, to), g, k)
         /\ from = 1 /\ Holds(line, g, k) /\ k =< Len(sent[g]) /\ Len(sent[g]) \in Nat =>
              Holds(SubSeq(line, from, to), g, to)
<1>1. /\ Len(SubSeq(line, from, to)) = IF from =< to THEN to - from + 1 ELSE 0
      /\ \A i \in 1..Len(SubSeq(line, from, to)) :
           /\ SubSeq(line, from, to)[i] = line[from + i - 1]
           /\ from + i - 1 \in 1..Len(line)
  OBVIOUS
<1> DEFINE part == SubSeq(line, from, to)
<1>2. Len(part) \in Nat /\ Len(line) \in Nat
  BY <1>1
<1> HIDE DEF part
<1>3. ASSUME Ascending(line) PROVE Ascending(part)
  <2> SUFFICES ASSUME NEW i \in 1..Len(part), NEW j \in 1..Len(part), i < j
               PROVE  Saver!SentBefore(part[i], part[j])
    BY DEF Ascending
  <2>1. from + i - 1 < from + j - 1
    BY <1>2
  <2> QED BY <1>1, <1>3, <2>1 DEF Ascending, part
<1>4. ASSUME Until(line, g, k) PROVE Until(part, g, k)
  BY <1>1, <1>4 DEF Until, part
<1>5. ASSUME from = 1, Holds(line, g, k), Len(sent[g]) \in Nat PROVE Holds(part, g, to)
  <2>1. Len(part) = to /\ to =< Len(sent[g])
    BY <1>1, <1>2, <1>5 DEF Holds, part
  <2>2. \A i \in 1..Len(part) : part[i] = line[i] /\ i \in 1..Len(line)
    BY <1>1, <1>2, <1>5 DEF part
  <2> QED BY <1>5, <2>1, <2>2 DEF Holds
<1> QED BY <1>3, <1>4, <1>5 DEF part

\* A line goes on with the piece that comes next.
LEMMA GoingOn ==
  ASSUME NEW line \in Seq(Saver!Pieces), NEW g \in Nat, NEW k \in Nat, Ascending(line),
         Until(line, g, k), NEW x \in Saver!Pieces, x = Saver!Piece(g - 1, k + 1)
  PROVE  /\ Ascending(Append(line, x))
         /\ Until(Append(line, x), g, k + 1)
         /\ Until(line, g, k + 1)
         /\ Holds(line, g, k) /\ k + 1 =< Len(sent[g]) => Holds(Append(line, x), g, k + 1)
<1>1. /\ Len(line) \in Nat /\ Len(Append(line, x)) = Len(line) + 1
      /\ Append(line, x)[Len(line) + 1] = x
      /\ \A i \in 1..Len(line) : Append(line, x)[i] = line[i]
  OBVIOUS
<1>2. x.generation = g - 1 /\ x.n = k + 1
  BY DEF Saver!Piece
<1>3. \A i \in 1..Len(line) : line[i].n \in Nat /\ line[i].generation \in Nat
  BY PieceFields
<1> DEFINE more == Append(line, x)
<1> HIDE DEF more
<1>4. Ascending(more)
  <2> SUFFICES ASSUME NEW i \in 1..Len(more), NEW j \in 1..Len(more), i < j
               PROVE  Saver!SentBefore(more[i], more[j])
    BY DEF Ascending
  <2>1. i \in 1..Len(line) /\ more[i] = line[i]
    BY <1>1 DEF more
  <2>2. CASE j = Len(line) + 1
    <3>1. more[j] = x
      BY <1>1, <2>2 DEF more
    <3>2. line[i].generation < g - 1 \/ (line[i].generation = g - 1 /\ line[i].n =< k)
      BY <2>1 DEF Until
    <3> QED BY <1>2, <1>3, <2>1, <3>1, <3>2 DEF Saver!SentBefore
  <2>3. CASE j \in 1..Len(line)
    BY <1>1, <2>1, <2>3 DEF Ascending, more
  <2> QED BY <1>1, <2>2, <2>3 DEF more
<1>5. Until(line, g, k + 1)
  BY <1>3 DEF Until
<1>6. Until(more, g, k + 1)
  <2> SUFFICES ASSUME NEW i \in 1..Len(more)
               PROVE  \/ more[i].generation < g - 1
                      \/ more[i].generation = g - 1 /\ more[i].n =< k + 1
    BY DEF Until
  <2>1. CASE i = Len(line) + 1
    BY <1>1, <1>2, <2>1 DEF more
  <2>2. CASE i \in 1..Len(line)
    BY <1>1, <1>5, <2>2 DEF Until, more
  <2> QED BY <1>1, <2>1, <2>2 DEF more
<1>7. ASSUME Holds(line, g, k), k + 1 =< Len(sent[g]) PROVE Holds(more, g, k + 1)
  <2>1. Len(more) = k + 1
    BY <1>1, <1>7 DEF Holds, more
  <2>2. ASSUME NEW i \in 1..Len(more) PROVE more[i] = Saver!Piece(g - 1, i)
    <3>1. CASE i = Len(line) + 1
      BY <1>1, <1>7, <3>1 DEF Holds, more
    <3>2. CASE i \in 1..Len(line)
      BY <1>1, <1>7, <3>2 DEF Holds, more
    <3> QED BY <1>1, <3>1, <3>2 DEF more
  <2> QED BY <1>7, <2>1, <2>2 DEF Holds
<1> QED BY <1>4, <1>5, <1>6, <1>7 DEF more

LEMMA OnePlace ==
  ASSUME NEW length \in Nat
  PROVE  \E gen \in [0..0 -> 1..1], n \in [0..0 -> Nat] : gen[0] = 1 /\ n[0] = length
<1> DEFINE gen == [i \in 0..0 |-> 1]
           n == [i \in 0..0 |-> length]
<1>1. gen \in [0..0 -> 1..1] /\ n \in [0..0 -> Nat] /\ gen[0] = 1 /\ n[0] = length
  OBVIOUS
<1> QED BY <1>1

\* A run starts with the pieces it finds in the file, which are its first ones.
StartingState ==
  /\ channel = << >> /\ buffer = << >> /\ dropped = FALSE /\ intact = TRUE
  /\ thread \in Saver!Started
  /\ sent = <<queries>>
  /\ queries \in Seq(Saver!Pieces) /\ Len(queries) =< MaxPieces
  /\ \A i \in 1..Len(queries) : queries[i] = Saver!Piece(0, i)

LEMMA Starting == StartingState => SaverInv
<1> SUFFICES ASSUME StartingState PROVE SaverInv
  OBVIOUS
<1> USE DEF StartingState
<1>1. /\ Len(channel) = 0 /\ Len(buffer) = 0 /\ Len(sent) = 1 /\ sent[1] = queries
      /\ Len(queries) \in Nat /\ Line = queries
  BY DEF Line
<1>2. PICK gen \in [0..0 -> 1..1], n \in [0..0 -> Nat] : gen[0] = 1 /\ n[0] = Len(queries)
  BY <1>1, OnePlace
<1>3. ASSUME NEW i \in 1..Len(queries) PROVE queries[i].generation = 0 /\ queries[i].n = i
  <2>1. queries[i] = Saver!Piece(0, i)
    BY DEF StartingState
  <2> QED BY <2>1 DEF Saver!Piece
<1>4. Until(Line, 1, Len(queries)) /\ Holds(Line, 1, Len(queries))
  BY <1>1, <1>3 DEF Until, Holds
<1>5. Route(gen, n)
  BY <1>1, <1>2, <1>4 DEF Route
<1>6. Ascending(Line)
  BY <1>1, <1>3 DEF Ascending, Saver!SentBefore
<1>7. Saver!TypeOK
  <2>1. channel \in Seq(Saver!Pieces \cup {Clear}) /\ buffer \in Seq(Saver!Pieces)
    BY EmptySeq
  <2>2. Len(buffer) =< BUF_CAP /\ Len(sent) \in 1..(MaxGenerations + 1)
    BY <1>1, SaverAssumption
  <2> QED BY <2>1, <2>2 DEF Saver!TypeOK, Saver!Started
<1>8. SentIs
  BY <1>1 DEF SentIs
<1> QED BY <1>5, <1>6, <1>7, <1>8 DEF SaverInv, Saver!Started

LEMMA SaverInit == Saver!Init => SaverInv
<1> SUFFICES ASSUME Saver!Init PROVE SaverInv
  OBVIOUS
<1>1. Saver!Piece(0, 1) \in Saver!Pieces
  BY SaverAssumption, PieceType
<1>2. CASE queries = << >>
  <2>1. queries \in Seq(Saver!Pieces) /\ Len(queries) = 0
    BY <1>2, EmptySeq
  <2>2. Len(queries) =< MaxPieces /\ \A i \in 1..Len(queries) : queries[i] = Saver!Piece(0, i)
    BY <2>1, SaverAssumption
  <2>3. StartingState
    BY <2>1, <2>2 DEF Saver!Init, StartingState
  <2> QED BY <2>3, Starting
<1>3. CASE queries = <<Saver!Piece(0, 1)>>
  <2>1. /\ queries \in Seq(Saver!Pieces) /\ Len(queries) = 1
        /\ queries[1] = Saver!Piece(0, 1)
    BY <1>1, <1>3
  <2>2. Len(queries) =< MaxPieces /\ \A i \in 1..Len(queries) : queries[i] = Saver!Piece(0, i)
    BY <2>1, SaverAssumption
  <2>3. StartingState
    BY <2>1, <2>2 DEF Saver!Init, StartingState
  <2> QED BY <2>3, Starting
<1> QED BY <1>2, <1>3 DEF Saver!Init

\* The query goes to the end of the channel, piece by piece.
LEMMA SaverWrite ==
  ASSUME SaverInv, Saver!SendQuery
  PROVE  SaverInv'
<1> DEFINE last == Len(sent)
           was == Len(sent[last])
           query == [i \in 1..PARTS |-> Saver!Piece(Len(sent) - 1, Len(sent[Len(sent)]) + i)]
           L == Len(channel)
<1>1. /\ thread = "running"
      /\ was + PARTS =< MaxPieces
      /\ channel' = channel \o query
      /\ sent' = [sent EXCEPT ![last] = @ \o query]
      /\ UNCHANGED <<buffer, queries, thread, dropped, intact>>
  BY DEF Saver!SendQuery, Saver!Generation
<1>2. /\ last = Len(sent) /\ L = Len(channel) /\ was = Len(sent[last])
      /\ sent \in Seq(Seq(Saver!Pieces)) /\ last \in 1..(MaxGenerations + 1) /\ last \in Nat
      /\ channel \in Seq(Saver!Pieces \cup {Clear})
      /\ L \in Nat /\ was \in Nat
      /\ \A g \in 1..last : sent[g] \in Seq(Saver!Pieces) /\ Len(sent[g]) \in Nat
      /\ PARTS \in Nat \ {0} /\ MaxPieces \in Nat /\ MaxGenerations \in Nat
  <2>1. /\ sent \in Seq(Seq(Saver!Pieces)) /\ Len(sent) \in 1..(MaxGenerations + 1)
        /\ channel \in Seq(Saver!Pieces \cup {Clear})
    BY DEF SaverInv, SentIs, Saver!TypeOK
  <2>2. /\ PARTS \in Nat \ {0} /\ MaxPieces \in Nat /\ MaxGenerations \in Nat
    BY SaverAssumption
  <2>3. \A g \in 1..last : sent[g] \in Seq(Saver!Pieces) /\ Len(sent[g]) \in Nat
    BY <2>1
  <2>4. last \in 1..last /\ last \in Nat /\ L \in Nat
    BY <2>1, <2>2
  <2> QED BY <2>1, <2>2, <2>3, <2>4
<1>s. \A g \in 1..last : /\ Len(sent[g]) =< MaxPieces
                         /\ \A i \in 1..Len(sent[g]) : sent[g][i] = Saver!Piece(g - 1, i)
  BY DEF SaverInv, SentIs
<1>3. /\ query \in Seq(Saver!Pieces) /\ Len(query) = PARTS
      /\ query \in Seq(Saver!Pieces \cup {Clear})
      /\ \A i \in 1..PARTS : query[i] = Saver!Piece(last - 1, was + i) /\ query[i] # Clear
  <2>1. \A i \in 1..PARTS : Saver!Piece(last - 1, was + i) \in Saver!Pieces
    <3>1. last - 1 \in 0..MaxGenerations /\ \A i \in 1..PARTS : was + i \in 1..MaxPieces
      BY <1>1, <1>2
    <3> QED BY <3>1, PieceType
  <2>2. Clear \notin Saver!Pieces
    BY SaverAssumption
  <2>3. query = [i \in 1..PARTS |-> Saver!Piece(last - 1, was + i)]
    OBVIOUS
  <2> HIDE DEF query, last, was
  <2>4. query \in [1..PARTS -> Saver!Pieces]
    BY <2>1, <2>3
  <2>5. query \in Seq(Saver!Pieces) /\ query \in Seq(Saver!Pieces \cup {Clear}) /\ Len(query) = PARTS
    BY <1>2, <2>4
  <2>6. \A i \in 1..PARTS : query[i] = Saver!Piece(last - 1, was + i) /\ query[i] # Clear
    BY <2>1, <2>2, <2>3
  <2> QED BY <2>5, <2>6
<1> HIDE DEF query, last, was, L
<1>4. /\ sent' \in Seq(Seq(Saver!Pieces)) /\ Len(sent') = last
      /\ \A g \in 1..last : g # last => sent'[g] = sent[g]
      /\ sent'[last] = sent[last] \o query
  <2>1. sent[last] \o query \in Seq(Saver!Pieces) /\ last \in 1..Len(sent)
    <3>1. sent[last] \in Seq(Saver!Pieces) /\ last \in 1..Len(sent)
      BY <1>2
    <3> QED BY <1>3, <3>1
  <2>2. sent' = [sent EXCEPT ![last] = sent[last] \o query]
    BY <1>1
  <2> QED BY <1>2, <2>1, <2>2, ExceptSeq
<1>5. /\ sent[last] \in Seq(Saver!Pieces)
      /\ Len(sent'[last]) = was + PARTS
      /\ \A i \in 1..was : sent'[last][i] = sent[last][i]
      /\ \A i \in 1..PARTS : sent'[last][was + i] = Saver!Piece(last - 1, was + i)
  <2>1. sent[last] \in Seq(Saver!Pieces) /\ Len(sent[last]) = was
    BY <1>2
  <2>2. /\ Len(sent[last] \o query) = was + PARTS
        /\ \A i \in 1..(was + PARTS) : (sent[last] \o query)[i] =
             IF i =< was THEN sent[last][i] ELSE query[i - was]
    <3>1. PICK before : before = sent[last]
      OBVIOUS
    <3>2. before \in Seq(Saver!Pieces) /\ Len(before) = was
      BY <2>1, <3>1
    <3>3. /\ Len(before \o query) = was + PARTS
          /\ \A i \in 1..(was + PARTS) : (before \o query)[i] =
               IF i =< was THEN before[i] ELSE query[i - was]
      <4>1. /\ Len(before \o query) = Len(before) + Len(query)
            /\ \A i \in 1..(Len(before) + Len(query)) : (before \o query)[i] =
                 IF i =< Len(before) THEN before[i] ELSE query[i - Len(before)]
        BY <1>3, <3>2, ConcatProperties, Zenon
      <4> QED BY <1>3, <3>2, <4>1
    <3> QED BY <3>1, <3>3
  <2>3. ASSUME NEW i \in 1..PARTS PROVE (sent[last] \o query)[was + i] = query[i]
    <3>1. was + i \in 1..(was + PARTS) /\ ~(was + i =< was) /\ (was + i) - was = i
      BY <1>2
    <3> QED BY <2>2, <3>1
  <2>4. ASSUME NEW i \in 1..was PROVE (sent[last] \o query)[i] = sent[last][i]
    BY <1>2, <2>2
  <2> QED BY <1>3, <1>4, <2>1, <2>2, <2>3, <2>4
<1>6. \A g \in 1..last : Len(sent[g]) =< Len(sent'[g]) /\ Len(sent'[g]) \in Nat
  <2> SUFFICES ASSUME NEW g \in 1..last
               PROVE  Len(sent[g]) =< Len(sent'[g]) /\ Len(sent'[g]) \in Nat
    OBVIOUS
  <2>1. CASE g = last
    BY <1>2, <1>5, <2>1
  <2>2. CASE g # last
    BY <1>2, <1>4, <2>2
  <2> QED BY <2>1, <2>2
<1>7. SentIs'
  <2> SUFFICES ASSUME NEW g \in 1..last
               PROVE  /\ Len(sent'[g]) =< MaxPieces
                      /\ \A i \in 1..Len(sent'[g]) : sent'[g][i] = Saver!Piece(g - 1, i)
    BY <1>4 DEF SentIs
  <2>1. CASE g = last
    <3>1. ASSUME NEW i \in 1..(was + PARTS) PROVE sent'[last][i] = Saver!Piece(last - 1, i)
      <4>1. CASE i \in 1..was
        <5>1. last \in 1..last /\ Len(sent[last]) = was
          BY <1>2
        <5>2. sent[last][i] = Saver!Piece(last - 1, i)
          BY <1>s, <4>1, <5>1
        <5> QED BY <1>5, <4>1, <5>2
      <4>2. CASE i \notin 1..was
        <5>1. i - was \in 1..PARTS /\ was + (i - was) = i
          BY <1>2, <4>2
        <5> QED BY <1>5, <5>1
      <4> QED BY <4>1, <4>2
    <3> QED BY <1>1, <1>5, <2>1, <3>1
  <2>2. CASE g # last
    BY <1>4, <1>s, <2>2
  <2> QED BY <2>1, <2>2
<1>8. /\ channel' \in Seq(Saver!Pieces \cup {Clear}) /\ Len(channel') = L + PARTS
      /\ \A i \in 1..L : channel'[i] = channel[i]
      /\ \A i \in 1..(L + PARTS) : i \notin 1..L =>
           channel'[i] = Saver!Piece(last - 1, was + (i - L)) /\ channel'[i] # Clear
  <2>1. /\ channel' \in Seq(Saver!Pieces \cup {Clear}) /\ Len(channel') = L + PARTS
        /\ \A i \in 1..(L + PARTS) : channel'[i] = IF i =< L THEN channel[i] ELSE query[i - L]
    <3>1. channel' = channel \o query /\ Len(query) = PARTS
      BY <1>1, <1>3
    <3>2. /\ channel \o query \in Seq(Saver!Pieces \cup {Clear})
          /\ Len(channel \o query) = L + Len(query)
          /\ \A i \in 1..(L + Len(query)) :
               (channel \o query)[i] = IF i =< L THEN channel[i] ELSE query[i - L]
      BY <1>2, <1>3, ConcatProperties
    <3> QED BY <3>1, <3>2
  <2>2. ASSUME NEW i \in 1..(L + PARTS), i \notin 1..L
        PROVE  channel'[i] = Saver!Piece(last - 1, was + (i - L)) /\ channel'[i] # Clear
    <3>1. i - L \in 1..PARTS /\ ~(i =< L)
      BY <1>2, <2>2
    <3> QED BY <1>3, <2>1, <3>1
  <2>3. ASSUME NEW i \in 1..L PROVE channel'[i] = channel[i]
    BY <1>2, <2>1
  <2> QED BY <2>1, <2>2, <2>3
<1>9. PICK gen, n : Route(gen, n)
  BY <1>1 DEF SaverInv
<1>10. /\ gen \in [0..L -> 1..last] /\ n \in [0..L -> Nat]
       /\ gen[L] = last /\ n[L] = was
       /\ Until(Line, gen[0], n[0])
       /\ intact => Holds(Line, gen[0], n[0])
       /\ \A i \in 1..L : Comes(gen, n, i)
  BY <1>2, <1>9 DEF Route
<1>r. PICK gen2, n2 : /\ gen2 = [i \in 0..(L + PARTS) |-> IF i =< L THEN gen[i] ELSE last]
                      /\ n2 = [i \in 0..(L + PARTS) |-> IF i =< L THEN n[i] ELSE was + (i - L)]
  OBVIOUS
<1>11. /\ gen2 \in [0..(L + PARTS) -> 1..last] /\ n2 \in [0..(L + PARTS) -> Nat]
       /\ \A i \in 0..L : gen2[i] = gen[i] /\ n2[i] = n[i]
       /\ \A i \in 0..(L + PARTS) : i >= L => gen2[i] = last /\ n2[i] = was + (i - L)
  <2>1. \A i \in 0..(L + PARTS) : i =< L => i \in 0..L
    BY <1>2
  <2>2. \A i \in 0..L : i \in 0..(L + PARTS) /\ i =< L
    BY <1>2
  <2>3. \A i \in 0..(L + PARTS) : ~(i =< L) => was + (i - L) \in Nat
    BY <1>2
  <2>4. gen2 \in [0..(L + PARTS) -> 1..last]
    BY <1>r, <1>2, <1>10, <2>1
  <2>5. n2 \in [0..(L + PARTS) -> Nat]
    BY <1>r, <1>10, <2>1, <2>3
  <2>6. \A i \in 0..L : gen2[i] = gen[i] /\ n2[i] = n[i]
    BY <1>r, <2>2
  <2>7. ASSUME NEW i \in 0..(L + PARTS), i >= L PROVE gen2[i] = last /\ n2[i] = was + (i - L)
    <3>1. CASE i = L
      BY <1>2, <1>10, <2>6, <3>1
    <3>2. CASE ~(i =< L)
      BY <1>r, <3>2
    <3> QED BY <1>2, <2>7, <3>1, <3>2
  <2> QED BY <2>4, <2>5, <2>6, <2>7
<1>12. /\ Until(Line, gen2[0], n2[0])' /\ Line' = Line
       /\ intact' => Holds(Line, gen2[0], n2[0])'
  <2>1. gen2[0] = gen[0] /\ n2[0] = n[0] /\ gen[0] \in 1..last /\ n[0] \in Nat
    <3>1. 0 \in 0..L
      BY <1>2
    <3> QED BY <1>10, <1>11, <3>1
  <2>2. Line' = Line /\ intact' = intact
    BY <1>1 DEF Line
  <2>3. ASSUME intact PROVE Holds(Line, gen2[0], n2[0])'
    <3>1. n[0] =< Len(sent'[gen[0]])
      BY <1>2, <1>6, <1>10, <2>1, <2>3 DEF Holds
    <3> QED BY <1>10, <2>1, <2>2, <2>3, <3>1 DEF Holds
  <2> QED BY <1>10, <2>1, <2>2, <2>3 DEF Until
<1>13. \A i \in 1..Len(channel') : Comes(gen2, n2, i)'
  <2> SUFFICES ASSUME NEW i \in 1..(L + PARTS) PROVE Comes(gen2, n2, i)'
    BY <1>8
  <2>1. CASE i \notin 1..L
    <3>1. /\ i - 1 \in 0..(L + PARTS) /\ i - 1 >= L /\ i \in 0..(L + PARTS) /\ i >= L
          /\ was + (i - L) = (was + ((i - 1) - L)) + 1 /\ was + (i - L) =< was + PARTS
      BY <1>2, <2>1
    <3>2. /\ gen2[i] = last /\ gen2[i - 1] = last
          /\ n2[i] = was + (i - L) /\ n2[i - 1] = was + ((i - 1) - L)
      BY <1>11, <3>1
    <3>3. channel'[i] = Saver!Piece(last - 1, was + (i - L)) /\ channel'[i] # Clear
      BY <1>8, <2>1
    <3>4. n2[i] =< Len(sent'[gen2[i]]) /\ n2[i] = n2[i - 1] + 1
      BY <1>5, <3>1, <3>2
    <3> QED BY <3>2, <3>3, <3>4 DEF Comes
  <2>2. CASE i \in 1..L
    <3>1. /\ gen2[i] = gen[i] /\ gen2[i - 1] = gen[i - 1] /\ n2[i] = n[i] /\ n2[i - 1] = n[i - 1]
          /\ channel'[i] = channel[i] /\ gen[i] \in 1..last /\ n[i] \in Nat
      <4>1. i \in 0..L /\ i - 1 \in 0..L
        BY <1>2, <2>2
      <4> QED BY <1>8, <1>10, <1>11, <2>2, <4>1
    <3>2. Comes(gen, n, i)
      BY <1>10, <2>2
    <3>3. Len(sent[gen[i]]) =< Len(sent'[gen[i]]) /\ Len(sent[gen[i]]) \in Nat
          /\ Len(sent'[gen[i]]) \in Nat
      BY <1>2, <1>6, <3>1
    <3>4. n[i] =< Len(sent[gen[i]]) => n[i] =< Len(sent'[gen[i]])
      BY <3>1, <3>3
    <3> QED BY <3>1, <3>2, <3>4 DEF Comes
  <2> QED BY <2>1, <2>2
<1>14. Route(gen2, n2)'
  <2>1. gen2[L + PARTS] = last /\ n2[L + PARTS] = was + PARTS
    <3>1. L + PARTS \in 0..(L + PARTS) /\ L + PARTS >= L /\ was + ((L + PARTS) - L) = was + PARTS
      BY <1>2
    <3> QED BY <1>11, <3>1
  <2> QED BY <1>4, <1>5, <1>8, <1>11, <1>12, <1>13, <2>1 DEF Route
<1>15. Saver!TypeOK'
  BY <1>1, <1>4, <1>8 DEF SaverInv, Saver!TypeOK, last
<1> QED BY <1>1, <1>7, <1>12, <1>14, <1>15 DEF SaverInv, Ascending

\* A route with one more step.
Longer(f, K, x) == [i \in 0..(K + 1) |-> IF i = K + 1 THEN x ELSE f[i]]

LEMMA SaverClear ==
  ASSUME SaverInv, Saver!SendClear
  PROVE  SaverInv'
<1> DEFINE last == Len(sent)
           L == Len(channel)
<1>1. /\ thread = "running" /\ last =< MaxGenerations
      /\ channel' = Append(channel, Clear)
      /\ sent' = Append(sent, << >>)
      /\ UNCHANGED <<buffer, queries, thread, dropped, intact>>
  BY SaverAssumption DEF Saver!SendClear, Saver!Generation, SaverInv, Saver!TypeOK
<1>2. /\ last = Len(sent) /\ L = Len(channel)
      /\ sent \in Seq(Seq(Saver!Pieces)) /\ last \in 1..(MaxGenerations + 1) /\ last \in Nat
      /\ channel \in Seq(Saver!Pieces \cup {Clear})
      /\ L \in Nat
      /\ << >> \in Seq(Saver!Pieces) /\ Len(<< >>) = 0
  BY EmptySeq DEF SaverInv, SentIs, Saver!TypeOK
<1>s. \A g \in 1..last : /\ Len(sent[g]) =< MaxPieces
                         /\ \A i \in 1..Len(sent[g]) : sent[g][i] = Saver!Piece(g - 1, i)
  BY DEF SaverInv, SentIs
<1> HIDE DEF last, L
<1>4. /\ sent' \in Seq(Seq(Saver!Pieces)) /\ Len(sent') = last + 1
      /\ \A g \in 1..last : sent'[g] = sent[g]
      /\ sent'[last + 1] = << >>
  BY <1>1, <1>2
<1>5. SentIs'
  <2> SUFFICES ASSUME NEW g \in 1..(last + 1)
               PROVE  /\ Len(sent'[g]) =< MaxPieces
                      /\ \A i \in 1..Len(sent'[g]) : sent'[g][i] = Saver!Piece(g - 1, i)
    BY <1>4 DEF SentIs
  <2>1. CASE g = last + 1
    BY <1>2, <1>4, <2>1, SaverAssumption
  <2>2. CASE g \in 1..last
    BY <1>4, <1>s, <2>2
  <2> QED BY <1>2, <2>1, <2>2
<1>6. /\ channel' \in Seq(Saver!Pieces \cup {Clear}) /\ Len(channel') = L + 1
      /\ channel'[L + 1] = Clear /\ \A i \in 1..L : channel'[i] = channel[i]
  BY <1>1, <1>2
<1>7. PICK gen, n : Route(gen, n)
  BY <1>1 DEF SaverInv
<1>8. /\ gen \in [0..L -> 1..last] /\ n \in [0..L -> Nat]
      /\ gen[L] = last /\ n[L] = Len(sent[last])
      /\ Until(Line, gen[0], n[0])
      /\ intact => Holds(Line, gen[0], n[0])
      /\ \A i \in 1..L : Comes(gen, n, i)
  BY <1>2, <1>7 DEF Route
<1>r. PICK gen2, n2 : gen2 = Longer(gen, L, last + 1) /\ n2 = Longer(n, L, 0)
  OBVIOUS
<1>9. /\ gen2 \in [0..(L + 1) -> 1..(last + 1)] /\ n2 \in [0..(L + 1) -> Nat]
      /\ \A i \in 0..L : gen2[i] = gen[i] /\ n2[i] = n[i]
      /\ gen2[L + 1] = last + 1 /\ n2[L + 1] = 0
  <2>1. \A i \in 0..(L + 1) : i # L + 1 => i \in 0..L
    BY <1>2
  <2>2. \A i \in 0..L : i \in 0..(L + 1) /\ i # L + 1
    BY <1>2
  <2>3. L + 1 \in 0..(L + 1) /\ last + 1 \in 1..(last + 1) /\ 0 \in Nat /\ 1..last \subseteq 1..(last + 1)
    BY <1>2
  <2>4. gen2 \in [0..(L + 1) -> 1..(last + 1)]
    BY <1>r, <1>8, <2>1, <2>3 DEF Longer
  <2>5. n2 \in [0..(L + 1) -> Nat]
    BY <1>r, <1>8, <2>1, <2>3 DEF Longer
  <2>6. \A i \in 0..L : gen2[i] = gen[i] /\ n2[i] = n[i]
    BY <1>r, <2>2 DEF Longer
  <2>7. gen2[L + 1] = last + 1 /\ n2[L + 1] = 0
    BY <1>r, <2>3 DEF Longer
  <2> QED BY <2>4, <2>5, <2>6, <2>7
<1>10. /\ Until(Line, gen2[0], n2[0])' /\ Line' = Line
       /\ intact' => Holds(Line, gen2[0], n2[0])'
  <2>1. gen2[0] = gen[0] /\ n2[0] = n[0] /\ gen[0] \in 1..last
    <3>1. 0 \in 0..L
      BY <1>2
    <3> QED BY <1>8, <1>9, <3>1
  <2>2. Line' = Line /\ intact' = intact
    BY <1>1 DEF Line
  <2>3. sent'[gen[0]] = sent[gen[0]]
    BY <1>4, <2>1
  <2>4. ASSUME intact PROVE Holds(Line, gen2[0], n2[0])'
    BY <1>8, <2>1, <2>2, <2>3, <2>4 DEF Holds
  <2> QED BY <1>8, <2>1, <2>2, <2>4 DEF Until
<1>11. \A i \in 1..Len(channel') : Comes(gen2, n2, i)'
  <2> SUFFICES ASSUME NEW i \in 1..Len(channel') PROVE Comes(gen2, n2, i)'
    OBVIOUS
  <2>1. CASE i = L + 1
    <3>1. gen2[i - 1] = last
      <4>1. i - 1 = L /\ L \in 0..L
        BY <1>2, <2>1
      <4> QED BY <1>8, <1>9, <4>1
    <3> QED BY <1>6, <1>9, <2>1, <3>1 DEF Comes
  <2>2. CASE i \in 1..L
    <3>1. /\ gen2[i] = gen[i] /\ gen2[i - 1] = gen[i - 1] /\ n2[i] = n[i] /\ n2[i - 1] = n[i - 1]
          /\ channel'[i] = channel[i] /\ gen[i] \in 1..last
      <4>1. i \in 0..L /\ i - 1 \in 0..L
        BY <1>2, <2>2
      <4> QED BY <1>6, <1>8, <1>9, <2>2, <4>1
    <3>2. Comes(gen, n, i) /\ sent'[gen[i]] = sent[gen[i]]
      BY <1>4, <1>8, <2>2, <3>1
    <3> QED BY <3>1, <3>2 DEF Comes
  <2> QED BY <1>2, <1>6, <2>1, <2>2
<1>12. Route(gen2, n2)'
  BY <1>2, <1>4, <1>6, <1>9, <1>10, <1>11 DEF Route
<1>13. Saver!TypeOK'
  BY <1>1, <1>2, <1>4, <1>6, SaverAssumption DEF SaverInv, Saver!TypeOK
<1> QED BY <1>1, <1>5, <1>10, <1>12, <1>13 DEF SaverInv, Ascending

\* A piece the thread writes is next in the line, or lost.
LEMMA WriteLine ==
  ASSUME Saver!TypeOK, Saver!HandleWrite, NEW x \in Saver!Pieces, x = Head(channel)
  PROVE  /\ queries' \in Seq(Saver!Pieces) /\ buffer' \in Seq(Saver!Pieces)
         /\ Len(buffer') =< BUF_CAP /\ intact' \in BOOLEAN
         /\ \/ Line' = Append(Line, x) /\ intact' = intact
            \/ Line' = Line /\ ~intact'
<1>1. /\ queries \in Seq(Saver!Pieces) /\ buffer \in Seq(Saver!Pieces)
      /\ Len(buffer) =< BUF_CAP /\ intact \in BOOLEAN
      /\ Len(buffer) \in Nat /\ BUF_CAP \in Nat \ {0}
      /\ queries \o buffer \in Seq(Saver!Pieces)
      /\ <<x>> \in Seq(Saver!Pieces) /\ Len(<<x>>) = 1
      /\ << >> \in Seq(Saver!Pieces) /\ Len(<< >>) = 0
  BY SaverAssumption, EmptySeq DEF Saver!TypeOK
<1>2. CASE Saver!Put
  <2>1. /\ Len(buffer) < BUF_CAP /\ buffer' = Append(buffer, x)
        /\ queries' = queries /\ intact' = intact
    BY <1>2 DEF Saver!Put
  <2>2. Append(buffer, x) \in Seq(Saver!Pieces) /\ Len(Append(buffer, x)) = Len(buffer) + 1
    BY <1>1
  <2>3. queries \o Append(buffer, x) = Append(queries \o buffer, x)
    <3>1. /\ Append(buffer, x) = buffer \o <<x>>
          /\ Append(queries \o buffer, x) = (queries \o buffer) \o <<x>>
      BY <1>1, AppendIsConcat
    <3>2. (queries \o buffer) \o <<x>> = queries \o (buffer \o <<x>>)
      BY <1>1, ConcatAssociative
    <3> QED BY <3>1, <3>2
  <2> QED BY <1>1, <2>1, <2>2, <2>3 DEF Line
<1>3. CASE Saver!SpillAndPut
  <2>1. intact' = intact
    BY <1>3 DEF Saver!SpillAndPut
  <2>2. CASE queries' = queries \o buffer /\ buffer' = <<x>>
    <3>1. (queries \o buffer) \o <<x>> = Append(queries \o buffer, x)
      BY <1>1, AppendIsConcat
    <3>2. Len(buffer') =< BUF_CAP
      BY <1>1, <2>2
    <3> QED BY <1>1, <2>1, <2>2, <3>1, <3>2 DEF Line
  <2>3. CASE queries' = Append(queries \o buffer, x) /\ buffer' = << >>
    <3>1. /\ Append(queries \o buffer, x) \in Seq(Saver!Pieces)
          /\ Append(queries \o buffer, x) \o << >> = Append(queries \o buffer, x)
      BY <1>1, ConcatEmptySeq, AppendProperties
    <3>2. Len(buffer') =< BUF_CAP
      BY <1>1, <2>3
    <3> QED BY <1>1, <2>1, <2>3, <3>1, <3>2 DEF Line
  <2> QED BY <1>3, <2>2, <2>3 DEF Saver!SpillAndPut
<1>4. CASE Saver!PutFails
  <2>1. PICK k \in 0..Len(buffer) : Saver!FlushedUpTo(k)
    BY <1>4 DEF Saver!PutFails
  <2>2. /\ queries' = queries \o SubSeq(buffer, 1, k)
        /\ buffer' = SubSeq(buffer, k + 1, Len(buffer))
        /\ intact' = FALSE
    BY <1>4, <2>1 DEF Saver!PutFails, Saver!FlushedUpTo
  <2>3. /\ queries \o SubSeq(buffer, 1, k) \in Seq(Saver!Pieces)
        /\ SubSeq(buffer, k + 1, Len(buffer)) \in Seq(Saver!Pieces)
        /\ Len(SubSeq(buffer, k + 1, Len(buffer))) =< Len(buffer)
        /\ Len(SubSeq(buffer, k + 1, Len(buffer))) \in Nat /\ Len(queries) \in Nat
        /\ (queries \o SubSeq(buffer, 1, k)) \o SubSeq(buffer, k + 1, Len(buffer)) = queries \o buffer
    <3>1. (queries \o SubSeq(buffer, 1, k)) \o SubSeq(buffer, k + 1, Len(buffer)) = queries \o buffer
      BY <1>1, FlushMoves
    <3>2. /\ queries \o SubSeq(buffer, 1, k) \in Seq(Saver!Pieces)
          /\ SubSeq(buffer, k + 1, Len(buffer)) \in Seq(Saver!Pieces)
      BY <1>1, FlushKeeps
    <3>3. /\ Len(SubSeq(buffer, k + 1, Len(buffer))) =< Len(buffer)
          /\ Len(SubSeq(buffer, k + 1, Len(buffer))) \in Nat /\ Len(queries) \in Nat
      BY <1>1, FlushKeeps
    <3> QED BY <3>1, <3>2, <3>3
  <2>b. Len(buffer') =< BUF_CAP
    <3>1. buffer' = SubSeq(buffer, k + 1, Len(buffer)) /\ Len(SubSeq(buffer, k + 1, Len(buffer))) \in Nat
      BY <2>2, FlushKeeps, <1>1
    <3> QED BY <1>1, <2>3, <3>1
  <2> QED BY <1>1, <2>2, <2>3, <2>b DEF Line
<1> QED BY <1>2, <1>3, <1>4 DEF Saver!HandleWrite

\* A clear leaves at most an end of the line, and nothing when it works.
LEMMA ClearLine ==
  ASSUME Saver!TypeOK, Saver!HandleClear
  PROVE  /\ queries' \in Seq(Saver!Pieces) /\ buffer' \in Seq(Saver!Pieces)
         /\ Len(buffer') =< BUF_CAP /\ intact' \in BOOLEAN
         /\ \E from \in 1..(Len(Line) + 1) : Line' = SubSeq(Line, from, Len(Line))
         /\ intact' => Len(Line') = 0
<1>1. /\ queries \in Seq(Saver!Pieces) /\ buffer \in Seq(Saver!Pieces)
      /\ Len(buffer) =< BUF_CAP /\ intact \in BOOLEAN
      /\ Len(buffer) \in Nat /\ BUF_CAP \in Nat
      /\ Line \in Seq(Saver!Pieces) /\ Len(Line) \in Nat
      /\ << >> \in Seq(Saver!Pieces) /\ Len(<< >>) = 0
  BY SaverAssumption, EmptySeq, LineType DEF Saver!TypeOK
<1>2. CASE queries' = << >> /\ buffer' = << >> /\ intact' = TRUE
  <2>1. Line' = << >>
    BY <1>1, <1>2, ConcatEmptySeq DEF Line
  <2>2. SubSeq(Line, Len(Line) + 1, Len(Line)) = << >> /\ Len(Line) + 1 \in 1..(Len(Line) + 1)
    <3>1. Len(Line) + 1 \in Int /\ Len(Line) \in Int /\ Len(Line) < Len(Line) + 1
      BY <1>1
    <3>2. Len(Line) + 1 \in 1..(Len(Line) + 1)
      BY <1>1
    <3> QED BY <3>1, <3>2, SubSeqEmpty
  <2>3. Len(buffer') =< BUF_CAP
    BY <1>1, <1>2
  <2> QED BY <1>1, <1>2, <2>1, <2>2, <2>3
<1>3. ASSUME NEW k \in 0..Len(buffer), queries' = << >>, intact' = FALSE,
             buffer' = SubSeq(buffer, k + 1, Len(buffer))
      PROVE  /\ queries' \in Seq(Saver!Pieces) /\ buffer' \in Seq(Saver!Pieces)
             /\ Len(buffer') =< BUF_CAP
             /\ \E from \in 1..(Len(Line) + 1) : Line' = SubSeq(Line, from, Len(Line))
  <2>1. /\ SubSeq(buffer, k + 1, Len(buffer)) \in Seq(Saver!Pieces)
        /\ Len(SubSeq(buffer, k + 1, Len(buffer))) =< Len(buffer)
        /\ Len(SubSeq(buffer, k + 1, Len(buffer))) \in Nat /\ Len(queries) \in Nat
        /\ << >> \o SubSeq(buffer, k + 1, Len(buffer)) =
             SubSeq(queries \o buffer, Len(queries) + k + 1, Len(queries \o buffer))
        /\ Len(queries) + k \in 0..Len(queries \o buffer)
    <3>1. << >> \o SubSeq(buffer, k + 1, Len(buffer)) =
            SubSeq(queries \o buffer, Len(queries) + k + 1, Len(queries \o buffer))
      <4>1. SubSeq(buffer, k + 1, Len(buffer)) =
              SubSeq(queries \o buffer, Len(queries) + k + 1, Len(queries \o buffer))
        BY <1>1, FlushKeeps
      <4>2. << >> \o SubSeq(buffer, k + 1, Len(buffer)) = SubSeq(buffer, k + 1, Len(buffer))
        BY <1>1
      <4> QED BY <4>1, <4>2
    <3>2. SubSeq(buffer, k + 1, Len(buffer)) \in Seq(Saver!Pieces)
      BY <1>1, FlushKeeps
    <3>3. /\ Len(SubSeq(buffer, k + 1, Len(buffer))) =< Len(buffer)
          /\ Len(SubSeq(buffer, k + 1, Len(buffer))) \in Nat /\ Len(queries) \in Nat
          /\ Len(queries) + k \in 0..Len(queries \o buffer)
      BY <1>1, FlushKeeps
    <3> QED BY <3>1, <3>2, <3>3
  <2>2. /\ Line' = SubSeq(Line, Len(queries) + k + 1, Len(Line))
        /\ Len(queries) + k \in 0..Len(Line)
    BY <1>3, <2>1 DEF Line
  <2>3. Len(queries) + k + 1 \in 1..(Len(Line) + 1)
    BY <1>1, <2>1, <2>2
  <2>4. Len(buffer') =< BUF_CAP
    BY <1>1, <1>3, <2>1
  <2> QED BY <1>1, <1>3, <2>1, <2>2, <2>3, <2>4
<1>4. ASSUME NEW k \in 0..Len(buffer), Saver!FlushedUpTo(k)
      PROVE  /\ queries' \in Seq(Saver!Pieces) /\ buffer' \in Seq(Saver!Pieces)
             /\ Len(buffer') =< BUF_CAP
             /\ \E from \in 1..(Len(Line) + 1) : Line' = SubSeq(Line, from, Len(Line))
  <2>1. /\ queries \o SubSeq(buffer, 1, k) \in Seq(Saver!Pieces)
        /\ SubSeq(buffer, k + 1, Len(buffer)) \in Seq(Saver!Pieces)
        /\ Len(SubSeq(buffer, k + 1, Len(buffer))) =< Len(buffer)
        /\ Len(SubSeq(buffer, k + 1, Len(buffer))) \in Nat /\ Len(queries) \in Nat
        /\ (queries \o SubSeq(buffer, 1, k)) \o SubSeq(buffer, k + 1, Len(buffer)) = queries \o buffer
    <3>1. (queries \o SubSeq(buffer, 1, k)) \o SubSeq(buffer, k + 1, Len(buffer)) = queries \o buffer
      BY <1>1, FlushMoves
    <3>2. /\ queries \o SubSeq(buffer, 1, k) \in Seq(Saver!Pieces)
          /\ SubSeq(buffer, k + 1, Len(buffer)) \in Seq(Saver!Pieces)
      BY <1>1, FlushKeeps
    <3>3. /\ Len(SubSeq(buffer, k + 1, Len(buffer))) =< Len(buffer)
          /\ Len(SubSeq(buffer, k + 1, Len(buffer))) \in Nat /\ Len(queries) \in Nat
      BY <1>1, FlushKeeps
    <3> QED BY <3>1, <3>2, <3>3
  <2>b. Len(buffer') =< BUF_CAP
    <3>1. buffer' = SubSeq(buffer, k + 1, Len(buffer)) /\ Len(SubSeq(buffer, k + 1, Len(buffer))) \in Nat
      BY <1>4, FlushKeeps, <1>1 DEF Saver!FlushedUpTo
    <3> QED BY <1>1, <2>1, <3>1
  <2>2. Line' = Line /\ Line = SubSeq(Line, 1, Len(Line)) /\ 1 \in 1..(Len(Line) + 1)
    <3>1. Line' = Line
      BY <1>4, <2>1 DEF Line, Saver!FlushedUpTo
    <3>2. Line = SubSeq(Line, 1, Len(Line))
      BY <1>1, SubSeqFull
    <3>3. 1 \in 1..(Len(Line) + 1)
      BY <1>1
    <3> QED BY <3>1, <3>2, <3>3
  <2> QED BY <1>1, <1>4, <2>1, <2>2, <2>b DEF Saver!FlushedUpTo
<1>5. CASE /\ \E k \in 0..(Len(buffer) - 1) :
                queries' = << >> /\ buffer' = SubSeq(buffer, k + 1, Len(buffer))
           /\ intact' = FALSE
  <2>1. PICK k \in 0..(Len(buffer) - 1) :
          queries' = << >> /\ buffer' = SubSeq(buffer, k + 1, Len(buffer))
    BY <1>5
  <2>2. k \in 0..Len(buffer)
    BY <1>1
  <2> QED BY <1>3, <1>5, <2>1, <2>2
<1>6. CASE (\E k \in 0..Len(buffer) : Saver!FlushedUpTo(k)) /\ intact' = FALSE
  BY <1>4, <1>6
<1> QED BY <1>2, <1>5, <1>6 DEF Saver!HandleClear

\* A route without its first step.
Shift(f, K) == [i \in 0..K |-> f[i + 1]]

\* The thread takes the first item of the channel: the route begins one later.
LEMMA SaverHandle ==
  ASSUME SaverInv, Saver!Handle
  PROVE  SaverInv'
<1> DEFINE L == Len(channel)
           head == Head(channel)
           last == Len(sent)
<1>1. /\ thread = "running" /\ channel # << >>
      /\ channel' = Tail(channel)
      /\ UNCHANGED <<thread, dropped, sent>>
  BY DEF Saver!Handle
<1>2. /\ last = Len(sent) /\ L = Len(channel)
      /\ last \in Nat /\ L \in Nat /\ L # 0
      /\ sent \in Seq(Seq(Saver!Pieces))
      /\ channel \in Seq(Saver!Pieces \cup {Clear})
      /\ head = channel[1] /\ head \in Saver!Pieces \cup {Clear}
  BY <1>1 DEF SaverInv, SentIs, Saver!TypeOK
<1>3. /\ channel' \in Seq(Saver!Pieces \cup {Clear}) /\ Len(channel') = L - 1
      /\ \A i \in 1..(L - 1) : channel'[i] = channel[i + 1]
  BY <1>1, <1>2
<1>4. \/ head # Clear /\ Saver!HandleWrite
      \/ head = Clear /\ Saver!HandleClear
  BY DEF Saver!Handle
<1>l. Saver!TypeOK /\ Ascending(Line) /\ Line \in Seq(Saver!Pieces) /\ Len(Line) \in Nat
  BY LineType DEF SaverInv
<1>h. head = Head(channel)
  OBVIOUS
<1> HIDE DEF L, head, last
<1>5. PICK gen, n : Route(gen, n)
  BY <1>1 DEF SaverInv
<1>6. /\ gen \in [0..L -> 1..last] /\ n \in [0..L -> Nat]
      /\ gen[L] = last /\ n[L] = Len(sent[last])
      /\ Until(Line, gen[0], n[0])
      /\ intact => Holds(Line, gen[0], n[0])
      /\ \A i \in 1..L : Comes(gen, n, i)
  BY <1>2, <1>5 DEF Route
<1>7. PICK gen2, n2 : gen2 = Shift(gen, L - 1) /\ n2 = Shift(n, L - 1)
  OBVIOUS
<1>8. /\ gen2 \in [0..(L - 1) -> 1..last] /\ n2 \in [0..(L - 1) -> Nat]
      /\ \A i \in 0..(L - 1) : gen2[i] = gen[i + 1] /\ n2[i] = n[i + 1]
  <2>1. \A i \in 0..(L - 1) : i + 1 \in 0..L
    BY <1>2
  <2>2. \A i \in 0..(L - 1) : gen[i + 1] \in 1..last
    BY <1>6, <2>1
  <2>3. \A i \in 0..(L - 1) : n[i + 1] \in Nat
    BY <1>6, <2>1
  <2>4. gen2 \in [0..(L - 1) -> 1..last] /\ \A i \in 0..(L - 1) : gen2[i] = gen[i + 1]
    BY <1>7, <2>2 DEF Shift
  <2>5. n2 \in [0..(L - 1) -> Nat] /\ \A i \in 0..(L - 1) : n2[i] = n[i + 1]
    BY <1>7, <2>3 DEF Shift
  <2> QED BY <2>4, <2>5
<1>9. /\ gen2[0] = gen[1] /\ n2[0] = n[1]
      /\ gen[0] \in 1..last /\ gen[1] \in 1..last /\ n[0] \in Nat /\ n[1] \in Nat
      /\ gen[0] \in Nat /\ gen[1] \in Nat
      /\ Len(sent[gen[1]]) \in Nat
      /\ Comes(gen, n, 1) /\ 1 - 1 = 0
  <2>1. 0 \in 0..(L - 1) /\ 0 \in 0..L /\ 1 \in 0..L /\ 0 + 1 = 1 /\ 1 \in 1..L
    BY <1>2
  <2>2. gen[0] \in 1..last /\ gen[1] \in 1..last /\ n[0] \in Nat /\ n[1] \in Nat
    BY <1>6, <2>1
  <2>3. \A g \in 1..last : Len(sent[g]) \in Nat /\ g \in Nat
    BY <1>2
  <2> QED BY <1>6, <1>8, <2>1, <2>2, <2>3
<1>10. /\ queries' \in Seq(Saver!Pieces) /\ buffer' \in Seq(Saver!Pieces)
       /\ Len(buffer') =< BUF_CAP /\ intact' \in BOOLEAN
       /\ Ascending(Line')
       /\ Until(Line', gen[1], n[1])
       /\ intact' => Holds(Line', gen[1], n[1])
  <2>1. CASE head = Clear /\ Saver!HandleClear
    <3>1. /\ queries' \in Seq(Saver!Pieces) /\ buffer' \in Seq(Saver!Pieces)
          /\ Len(buffer') =< BUF_CAP /\ intact' \in BOOLEAN
          /\ intact' => Len(Line') = 0
      BY <1>l, <2>1, ClearLine
    <3>2. PICK from \in 1..(Len(Line) + 1) : Line' = SubSeq(Line, from, Len(Line))
      BY <1>l, <2>1, ClearLine
    <3>3. gen[1] = gen[0] + 1 /\ n[1] = 0
      BY <1>2, <1>9, <2>1 DEF Comes
    <3>4. Len(Line) \in 0..Len(Line)
      BY <1>l
    <3>5. Ascending(Line') /\ Until(Line', gen[0], n[0])
      BY <1>l, <1>6, <1>9, <3>2, <3>4, Cutting
    <3>6. Until(Line', gen[1], n[1])
      <4>1. \A i \in 1..Len(Line') : Line'[i].generation \in Nat
        <5>1. Line' \in Seq(Saver!Pieces)
          BY <3>1 DEF Line
        <5> QED BY <5>1, PieceFields
      <4>2. ASSUME NEW i \in 1..Len(Line') PROVE Line'[i].generation < gen[1] - 1
        <5>1. /\ Line'[i].generation < gen[0] - 1 \/ Line'[i].generation = gen[0] - 1
              /\ Line'[i].generation \in Nat
          BY <3>5, <4>1 DEF Until
        <5> QED BY <1>9, <3>3, <5>1
      <4> QED BY <4>2 DEF Until
    <3>7. intact' => Holds(Line', gen[1], n[1])
      BY <1>9, <3>1, <3>3 DEF Holds
    <3> QED BY <3>1, <3>5, <3>6, <3>7
  <2>2. CASE head # Clear /\ Saver!HandleWrite
    <3>1. /\ gen[1] = gen[0] /\ n[1] = n[0] + 1 /\ n[0] + 1 =< Len(sent[gen[0]])
          /\ head = Saver!Piece(gen[0] - 1, n[0] + 1) /\ head \in Saver!Pieces
      BY <1>2, <1>9, <2>2 DEF Comes
    <3>2. /\ queries' \in Seq(Saver!Pieces) /\ buffer' \in Seq(Saver!Pieces)
          /\ Len(buffer') =< BUF_CAP /\ intact' \in BOOLEAN
          /\ \/ Line' = Append(Line, head) /\ intact' = intact
             \/ Line' = Line /\ ~intact'
      BY <1>h, <1>l, <2>2, <3>1, WriteLine
    <3>3. /\ Ascending(Append(Line, head))
          /\ Until(Append(Line, head), gen[0], n[0] + 1)
          /\ Until(Line, gen[0], n[0] + 1)
          /\ Holds(Line, gen[0], n[0]) => Holds(Append(Line, head), gen[0], n[0] + 1)
      BY <1>l, <1>6, <1>9, <3>1, GoingOn
    <3> QED BY <1>l, <1>6, <3>1, <3>2, <3>3
  <2> QED BY <1>4, <2>1, <2>2
<1>11. \A i \in 1..Len(channel') : Comes(gen2, n2, i)'
  <2> SUFFICES ASSUME NEW i \in 1..(L - 1) PROVE Comes(gen2, n2, i)'
    BY <1>3
  <2>1. /\ gen2[i] = gen[i + 1] /\ gen2[i - 1] = gen[i]
        /\ n2[i] = n[i + 1] /\ n2[i - 1] = n[i]
        /\ channel'[i] = channel[i + 1]
    <3>1. i \in 0..(L - 1) /\ i - 1 \in 0..(L - 1) /\ (i - 1) + 1 = i
      BY <1>2
    <3> QED BY <1>3, <1>8, <3>1
  <2>2. Comes(gen, n, i + 1) /\ (i + 1) - 1 = i
    <3>1. i + 1 \in 1..L
      BY <1>2
    <3> QED BY <1>6, <3>1
  <2> QED BY <1>1, <2>1, <2>2 DEF Comes
<1>12. Route(gen2, n2)'
  <2>1. gen2[L - 1] = last /\ n2[L - 1] = Len(sent[last])
    <3>1. L - 1 \in 0..(L - 1) /\ (L - 1) + 1 = L
      BY <1>2
    <3> QED BY <1>6, <1>8, <3>1
  <2>2. Until(Line, gen2[0], n2[0])' /\ (intact' => Holds(Line, gen2[0], n2[0])')
    BY <1>1, <1>9, <1>10 DEF Until, Holds
  <2> QED BY <1>1, <1>2, <1>3, <1>8, <1>11, <2>1, <2>2 DEF Route
<1>13. SentIs' /\ Ascending(Line)'
  BY <1>1, <1>10 DEF SaverInv, SentIs, Ascending
<1>14. Saver!TypeOK'
  BY <1>1, <1>3, <1>10 DEF SaverInv, Saver!TypeOK
<1> QED BY <1>1, <1>12, <1>13, <1>14 DEF SaverInv

\* What an ending thread or program still writes out is a beginning of the line.
LEMMA LastWords ==
  ASSUME SaverInv, NEW k \in 0..Len(buffer), queries' = queries \o SubSeq(buffer, 1, k),
         buffer' = << >>
  PROVE  /\ queries' \in Seq(Saver!Pieces) /\ buffer' \in Seq(Saver!Pieces) /\ Len(buffer') = 0
         /\ Len(queries) + k \in 0..Len(Line) /\ Len(Line) \in Nat
         /\ Line' = SubSeq(Line, 1, Len(queries) + k)
         /\ Line \in Seq(Saver!Pieces)
<1>1. /\ Line \in Seq(Saver!Pieces) /\ Len(Line) \in Nat
      /\ queries \in Seq(Saver!Pieces) /\ buffer \in Seq(Saver!Pieces)
      /\ << >> \in Seq(Saver!Pieces) /\ Len(<< >>) = 0
  BY LineType, EmptySeq DEF SaverInv
<1>2. /\ queries \o SubSeq(buffer, 1, k) \in Seq(Saver!Pieces)
      /\ (queries \o SubSeq(buffer, 1, k)) \o << >> = SubSeq(queries \o buffer, 1, Len(queries) + k)
      /\ Len(queries) + k \in 0..Len(queries \o buffer)
  BY <1>1, FlushKeeps
<1> QED BY <1>1, <1>2 DEF Line

\* The last flush: the channel is empty, so that the file is complete when it works.
LEMMA SaverFinish ==
  ASSUME SaverInv, Saver!Finish
  PROVE  SaverInv'
<1>1. /\ thread = "running" /\ channel = << >> /\ buffer' = << >> /\ thread' = "done"
      /\ UNCHANGED <<channel, dropped, sent>>
  BY DEF Saver!Finish
<1>2. PICK k \in 0..Len(buffer) : /\ queries' = queries \o SubSeq(buffer, 1, k)
                                  /\ intact' = (intact /\ k = Len(buffer))
  BY DEF Saver!Finish
<1>3. /\ queries' \in Seq(Saver!Pieces) /\ buffer' \in Seq(Saver!Pieces) /\ Len(buffer') = 0
      /\ Len(queries) + k \in 0..Len(Line) /\ Len(Line) \in Nat
      /\ Line' = SubSeq(Line, 1, Len(queries) + k)
      /\ Line \in Seq(Saver!Pieces)
      /\ Len(Line) = Len(queries) + Len(buffer)
  BY <1>1, <1>2, LastWords, LineType DEF SaverInv
<1>4. PICK gen, n : Route(gen, n)
  BY <1>1 DEF SaverInv
<1>5. /\ gen[0] \in 1..Len(sent) /\ gen[0] \in Nat /\ n[0] \in Nat
      /\ Until(Line, gen[0], n[0]) /\ (intact => Holds(Line, gen[0], n[0]))
  <2>1. Len(channel) = 0
    BY <1>1
  <2> QED BY <1>4, <2>1 DEF Route
<1>6. Ascending(Line') /\ Until(Line', gen[0], n[0])
  <2>1. 1 \in 1..(Len(Line) + 1)
    BY <1>3
  <2> QED BY <1>3, <1>5, <2>1, Cutting DEF SaverInv
<1>7. intact' => Holds(Line', gen[0], n[0])
  <2> SUFFICES ASSUME intact' PROVE Holds(Line', gen[0], n[0])
    OBVIOUS
  <2>1. intact /\ k = Len(buffer)
    BY <1>2
  <2>2. Line' = Line
    BY <1>3, <2>1, SubSeqFull
  <2> QED BY <1>5, <2>1, <2>2
<1>8. Route(gen, n)'
  <2>1. Until(Line, gen[0], n[0])' /\ (intact' => Holds(Line, gen[0], n[0])')
    BY <1>1, <1>6, <1>7 DEF Until, Holds
  <2> QED BY <1>1, <1>4, <2>1 DEF Route, Comes
<1>9. Saver!TypeOK'
  <2>1. Len(buffer') =< BUF_CAP /\ intact' \in BOOLEAN
    BY <1>2, <1>3, SaverAssumption DEF SaverInv, Saver!TypeOK
  <2> QED BY <1>1, <1>3, <2>1 DEF SaverInv, Saver!TypeOK
<1> QED BY <1>1, <1>6, <1>8, <1>9 DEF SaverInv, SentIs, Ascending

\* What the program takes along is what comes last in its generation.
LEMMA SaverExit ==
  ASSUME SaverInv, Saver!Exit
  PROVE  SaverInv'
<1>1. /\ thread # "killed" /\ thread' = "killed" /\ channel' = << >> /\ buffer' = << >>
      /\ UNCHANGED <<dropped, sent, intact>>
      /\ << >> \in Seq(Saver!Pieces \cup {Clear})
  BY EmptySeq DEF Saver!Exit
<1>2. PICK k \in 0..Len(buffer) : queries' = queries \o SubSeq(buffer, 1, k)
  BY DEF Saver!Exit
<1>3. /\ queries' \in Seq(Saver!Pieces) /\ buffer' \in Seq(Saver!Pieces) /\ Len(buffer') = 0
      /\ Len(queries) + k \in 0..Len(Line) /\ Len(Line) \in Nat
      /\ Line' = SubSeq(Line, 1, Len(queries) + k)
      /\ Line \in Seq(Saver!Pieces)
  BY <1>1, <1>2, LastWords
<1>4. PICK gen, n : Route(gen, n)
  BY <1>1 DEF SaverInv
<1>5. /\ gen[0] \in 1..Len(sent) /\ gen[0] \in Nat /\ n[0] \in Nat
      /\ intact => Holds(Line, gen[0], n[0])
      /\ Len(sent[gen[0]]) \in Nat
  <2>1. 0 \in 0..Len(channel) /\ sent \in Seq(Seq(Saver!Pieces))
    BY DEF SaverInv, SentIs, Saver!TypeOK
  <2>2. \A g \in 1..Len(sent) : g \in Nat /\ Len(sent[g]) \in Nat
    BY <2>1
  <2> QED BY <1>4, <2>1, <2>2 DEF Route
<1>6. /\ Ascending(Line')
      /\ intact => Holds(Line', gen[0], Len(queries) + k)
  <2>1. 1 \in 1..(Len(Line) + 1)
    BY <1>3
  <2>2. intact => n[0] =< Len(sent[gen[0]])
    BY <1>5 DEF Holds
  <2> QED BY <1>3, <1>5, <2>1, <2>2, Cutting DEF SaverInv
<1>7. intact' => \E g \in 1..Len(sent') : Holds(Line, g, Len(Line))'
  <2> SUFFICES ASSUME intact' PROVE Holds(Line, gen[0], Len(Line))'
    BY <1>1, <1>5
  <2>1. Holds(Line', gen[0], Len(queries) + k) /\ Len(Line') = Len(queries) + k
    BY <1>1, <1>6 DEF Holds
  <2> QED BY <1>1, <2>1 DEF Holds
<1>8. Saver!TypeOK'
  BY <1>1, <1>3, SaverAssumption DEF SaverInv, Saver!TypeOK
<1> QED BY <1>1, <1>6, <1>7, <1>8 DEF SaverInv, SentIs, Ascending

\* The next run starts from the file it finds.
LEMMA SaverNew ==
  ASSUME SaverInv, Saver!new
  PROVE  SaverInv'
<1>1. /\ thread = "killed" /\ thread' \in Saver!Started /\ dropped' = FALSE /\ intact' = TRUE
      /\ queries' = [i \in DOMAIN queries |-> Saver!Piece(0, i)]
      /\ sent' = <<queries'>>
      /\ Len(queries) =< MaxPieces
      /\ UNCHANGED <<channel, buffer>>
  BY DEF Saver!new
<1>2. channel = << >> /\ buffer = << >> /\ queries \in Seq(Saver!Pieces) /\ Len(queries) \in Nat
  BY <1>1 DEF SaverInv, Saver!TypeOK
<1>3. /\ queries' \in Seq(Saver!Pieces) /\ Len(queries') = Len(queries)
      /\ \A i \in 1..Len(queries) : queries'[i] = Saver!Piece(0, i)
  <2>1. \A i \in 1..Len(queries) : Saver!Piece(0, i) \in Saver!Pieces
    BY <1>1, <1>2, SaverAssumption, PieceType
  <2> QED BY <1>1, <1>2, <2>1
<1>4. StartingState'
  BY <1>1, <1>2, <1>3 DEF StartingState
<1>5. (StartingState => SaverInv)'
  BY Starting, PTL
<1> QED BY <1>4, <1>5

LEMMA SaverSame ==
  ASSUME SaverInv, UNCHANGED <<channel, buffer, queries, thread, sent, intact>>, dropped' \in BOOLEAN
  PROVE  SaverInv'
<1>1. Saver!TypeOK' /\ SentIs'
  BY DEF SaverInv, SentIs, Saver!TypeOK
<1>2. Line' = Line /\ Ascending(Line)'
  BY DEF SaverInv, Line, Ascending
<1>3. ASSUME thread' # "killed" PROVE \E gen, n : Route(gen, n)'
  <2>1. PICK gen, n : Route(gen, n)
    BY <1>3 DEF SaverInv
  <2>2. Route(gen, n)'
    BY <1>2, <2>1 DEF Route, Comes, Holds, Until
  <2> QED BY <2>2
<1>4. ASSUME thread' = "killed", intact' PROVE \E g \in 1..Len(sent') : Holds(Line, g, Len(Line))'
  BY <1>2, <1>4 DEF SaverInv, Holds
<1> QED BY <1>1, <1>2, <1>3, <1>4 DEF SaverInv

LEMMA SaverStep ==
  ASSUME SaverInv, [Saver!Next]_(Saver!vars)
  PROVE  SaverInv'
<1>1. CASE Saver!Drop
  BY <1>1, SaverSame DEF Saver!Drop
<1>2. CASE UNCHANGED Saver!vars
  BY <1>2, SaverSame DEF Saver!vars, SaverInv, Saver!TypeOK
<1>3. CASE Saver!write \/ Saver!clear
  BY <1>2, <1>3, SaverWrite, SaverClear DEF Saver!write, Saver!clear, Saver!SendIgnored
<1> QED BY <1>1, <1>2, <1>3, SaverHandle, SaverFinish, SaverExit, SaverNew DEF Saver!Next

\* The file is the beginning of the line.
LEMMA SaverInvOrder == SaverInv => Saver!TypeOK /\ Saver!InOrder /\ Saver!NoGap
<1> SUFFICES ASSUME SaverInv PROVE Saver!InOrder /\ Saver!NoGap
  BY DEF SaverInv
<1>1. /\ Line \in Seq(Saver!Pieces) /\ queries \in Seq(Saver!Pieces) /\ Len(queries) \in Nat
      /\ Len(Line) \in Nat /\ Len(queries) =< Len(Line) /\ DOMAIN queries = 1..Len(queries)
  BY LineType DEF SaverInv
<1>2. \A i \in 1..Len(queries) : Line[i] = queries[i] /\ i \in 1..Len(Line)
  <2>1. buffer \in Seq(Saver!Pieces)
    BY LineType DEF SaverInv
  <2> QED BY <1>1, <2>1 DEF Line
<1>3. Saver!InOrder
  BY <1>1, <1>2 DEF SaverInv, Ascending, Saver!InOrder
<1>4. ASSUME intact PROVE \E g \in 1..Len(sent) : Saver!IsPrefix(queries, sent[g])
  <2>1. PICK g \in 1..Len(sent) : Holds(Line, g, Len(Line))
    <3>1. CASE thread = "killed"
      BY <1>4, <3>1 DEF SaverInv
    <3>2. CASE thread # "killed"
      <4>1. PICK gen, n : Route(gen, n)
        BY <3>2 DEF SaverInv
      <4>2. 0 \in 0..Len(channel)
        BY DEF SaverInv, Saver!TypeOK
      <4>3. gen[0] \in 1..Len(sent) /\ Holds(Line, gen[0], n[0])
        BY <1>4, <4>1, <4>2 DEF Route
      <4> QED BY <4>3 DEF Holds
    <3> QED BY <3>1, <3>2
  <2>2. /\ sent[g] \in Seq(Saver!Pieces) /\ Len(sent[g]) \in Nat
        /\ \A i \in 1..Len(sent[g]) : sent[g][i] = Saver!Piece(g - 1, i)
    BY DEF SaverInv, SentIs
  <2>3. Len(queries) =< Len(sent[g])
    BY <1>1, <2>1, <2>2 DEF Holds
  <2>4. \A i \in 1..Len(queries) : queries[i] = sent[g][i]
    BY <1>1, <1>2, <2>1, <2>2, <2>3 DEF Holds
  <2>5. queries = SubSeq(sent[g], 1, Len(queries))
    BY <1>1, <2>2, <2>3, <2>4
  <2> QED BY <2>3, <2>5 DEF Saver!IsPrefix
<1> QED BY <1>3, <1>4 DEF Saver!NoGap

-----------------------------------------------------------------------------
(* The two together.                                                        *)

StorageInv == BlobInv /\ SaverInv

\* A step of the storage is a step or a stutter of each of its parts.
LEMMA StepOfBoth ==
  ASSUME [StorageNext]_<<vars, saver_vars>>
  PROVE  [Next]_vars /\ [Saver!Next]_(Saver!vars)
<1>1. CASE \E id \in Ids : StorageWrite(id)
  BY <1>1 DEF StorageWrite, Next, Saver!Next
<1>2. CASE StorageClear
  BY <1>2 DEF StorageClear, Next, Saver!Next
<1>3. CASE StorageNew
  BY <1>3 DEF StorageNew, Next, Saver!Next
<1>4. CASE Alone
  BY <1>4 DEF Alone, Saver!Next
<1>5. CASE UNCHANGED <<vars, saver_vars>>
  BY <1>5 DEF saver_vars, Saver!vars
<1> QED BY <1>1, <1>2, <1>3, <1>4, <1>5 DEF StorageNext

LEMMA StorageInvariant == StorageSpec => []StorageInv
<1>1. StorageInit => StorageInv
  BY BlobInit, SaverInit DEF StorageInit, StorageInv
<1>2. StorageInv /\ [StorageNext]_<<vars, saver_vars>> => StorageInv'
  BY StepOfBoth, BlobStep, SaverStep DEF StorageInv
<1> QED BY <1>1, <1>2, PTL DEF StorageSpec

\* Slots are counted within current_offset and the file holds bytes.
THEOREM TypeCorrect == StorageSpec => []TypeOK
<1>1. StorageInv => TypeOK
  BY DEF StorageInv, BlobInv
<1> QED BY <1>1, StorageInvariant, PTL

\* Between a truncation and a torn write every indexed entry is read back as it
\* was written.
THEOREM ReadsWhatWasWritten == StorageSpec => []RetrieveIsRight
<1>1. StorageInv => RetrieveIsRight
  BY DEF StorageInv, BlobInv
<1> QED BY <1>1, StorageInvariant, PTL

\* A write, even a torn one, damages no entry that could be read.
THEOREM WritesAreHarmless == StorageSpec => StoredStaysStored
<1>1. StorageInv /\ [StorageNext]_<<vars, saver_vars>> => [KeepsStored]_vars
  BY StepOfBoth, BlobStep DEF StorageInv
<1> QED BY <1>1, StorageInvariant, PTL DEF StorageSpec, StoredStaysStored, KeepsStored

\* Whatever write, flush or truncation fails and whenever the program ends, also
\* in the middle of a query, queries.sql holds what was sent in order and nothing
\* twice; as long as nothing has failed since the last clear, it holds the first
\* pieces of one generation without a gap.
THEOREM FileKeepsTheOrder == StorageSpec => []FileInOrder
<1>1. StorageInv => FileInOrder
  BY SaverInvOrder DEF StorageInv, FileInOrder
<1> QED BY <1>1, StorageInvariant, PTL

-----------------------------------------------------------------------------
(* What AllSavedInTheEnd comes down to: a thread that is done has saved all *)
(* there was, and one that runs on after the drop only takes from the       *)
(* channel, until it is done or the program ends.                           *)

\* The thread is done when tx was dropped and nothing is on its way any more.
DoneIsEmpty == thread = "done" => dropped /\ channel = << >> /\ buffer = << >>

\* A thread that has ended left every query since the last clear in the file,
\* unless a write failed.
DoneMeansSaved == thread = "done" /\ intact => queries = sent[Len(sent)]

\* After the drop a running thread goes on with a shorter channel, or it is over.
SavesTheRest ==
  dropped /\ thread = "running" =>
    \/ thread' \in {"killed", "done"}
    \/ thread' = "running" /\ dropped' /\ Len(channel') < Len(channel)

\* Nothing comes after the drop, and only the next run starts a thread again.
LEMMA DoneStep ==
  ASSUME DoneIsEmpty, [Saver!Next]_(Saver!vars)
  PROVE  DoneIsEmpty'
BY DEF DoneIsEmpty, Saver!Next, Saver!write, Saver!clear, Saver!Drop, Saver!Exit, Saver!new,
       Saver!Handle, Saver!Finish, Saver!vars, Saver!SendQuery, Saver!SendClear,
       Saver!SendIgnored, Saver!Started

\* The file then holds what the route of an empty channel ends with.
LEMMA RouteIsOver ==
  ASSUME SaverInv, DoneIsEmpty
  PROVE  DoneMeansSaved
<1> SUFFICES ASSUME thread = "done", intact PROVE queries = sent[Len(sent)]
  BY DEF DoneMeansSaved
<1>1. PICK gen, n : Route(gen, n)
  BY DEF SaverInv
<1> DEFINE last == sent[Len(sent)]
<1>2. /\ Len(channel) = 0 /\ Line = queries
      /\ queries \in Seq(Saver!Pieces) /\ Len(queries) \in Nat
  BY ConcatEmptySeq DEF DoneIsEmpty, SaverInv, Saver!TypeOK, Line
<1>3. Holds(Line, gen[0], n[0]) /\ gen[0] = Len(sent) /\ n[0] = Len(last)
  BY <1>1, <1>2 DEF Route
<1>4. /\ last \in Seq(Saver!Pieces)
      /\ \A i \in 1..Len(last) : last[i] = Saver!Piece(Len(sent) - 1, i)
  <2>1. Len(sent) \in 1..Len(sent)
    BY DEF SaverInv, Saver!TypeOK
  <2> QED BY <2>1 DEF SaverInv, SentIs
<1>5. Len(queries) = Len(last) /\ \A i \in 1..Len(queries) : queries[i] = last[i]
  BY <1>2, <1>3, <1>4 DEF Holds
<1> HIDE DEF last
<1>6. queries = last
  BY <1>2, <1>4, <1>5, SeqEqual
<1> QED BY <1>6 DEF last

\* After the drop only the thread and the end of the program move.
LEMMA DrainStep ==
  ASSUME SaverInv, StorageNext
  PROVE  SavesTheRest
<1> SUFFICES ASSUME dropped, thread = "running"
             PROVE  \/ thread' \in {"killed", "done"}
                    \/ thread' = "running" /\ dropped' /\ Len(channel') < Len(channel)
  BY DEF SavesTheRest
<1>1. Saver!Exit \/ Saver!Handle \/ Saver!Finish
  BY DEF StorageNext, StorageWrite, StorageClear, StorageNew, Alone, Saver!write, Saver!clear,
         Saver!SendQuery, Saver!SendClear, Saver!SendIgnored, Saver!Drop, Saver!new
<1>2. CASE Saver!Handle
  <2>1. channel \in Seq(Saver!Pieces \cup {Clear}) /\ channel # << >>
    BY <1>2 DEF SaverInv, Saver!TypeOK, Saver!Handle
  <2>2. Len(Tail(channel)) < Len(channel)
    BY <2>1
  <2> QED BY <1>2, <2>2 DEF Saver!Handle
<1> QED BY <1>1, <1>2 DEF Saver!Exit, Saver!Finish

\* A thread that is done has saved every query since the last clear when no write
\* failed, and after the drop each step of the storage ends the thread or the
\* program, or shortens the channel.
THEOREM TheRestIsSaved ==
  StorageSpec => []DoneMeansSaved /\ [][SavesTheRest]_<<vars, saver_vars>>
<1>1. StorageInit => DoneIsEmpty
  BY DEF StorageInit, Saver!Init, Saver!Started, DoneIsEmpty
<1>2. DoneIsEmpty /\ [StorageNext]_<<vars, saver_vars>> => DoneIsEmpty'
  BY StepOfBoth, DoneStep
<1>3. StorageInv /\ DoneIsEmpty => DoneMeansSaved
  BY RouteIsOver DEF StorageInv
<1>4. StorageInv /\ [StorageNext]_<<vars, saver_vars>> => [SavesTheRest]_<<vars, saver_vars>>
  BY DrainStep DEF StorageInv
<1> QED BY <1>1, <1>2, <1>3, <1>4, StorageInvariant, PTL DEF StorageSpec
=============================================================================
