----------------------- MODULE WorkerProtocol_proofs -----------------------
(***************************************************************************)
(* Proofs about WorkerProtocol for any number of calls and rows, any limit  *)
(* of the reader and any period of hard resets: a query starts clean, and   *)
(* the worker implements QueryExecutor.                                     *)
(***************************************************************************)
EXTENDS WorkerProtocol, SequenceTheorems, TLAPS

(***************************************************************************)
(* The invariant.  What is left in stdin tells what the shell can still     *)
(* print, so the sentinels found tell that it has taken all commands: the   *)
(* pipes are empty whenever a process is used again.                        *)
(***************************************************************************)

\* A rest of what Python has sent: a command and the two sentinels.
Remains(in, first, item) ==
  /\ Len(in) =< 3
  /\ Len(in) = 3 => in[1] = first
  /\ Len(in) >= 2 => in[Len(in) - 1] = PrintTo("err", item)
  /\ Len(in) >= 1 => in[Len(in)] = PrintTo("out", item)

\* The shell will print no sentinel to s any more.
Told(s) == Len(stdin) =< (IF s = "err" THEN 1 ELSE 0)

\* What has become of the answer on one stream.
Answer(s) ==
  \/ /\ read[s] = Pending
     /\ \/ pipe[s] = printed[s]
        \/ pipe[s] = Append(printed[s], EOQ) /\ Told(s)
  \/ /\ read[s] = [rows |-> printed[s], found |-> "sentinel"]
     /\ pipe[s] = << >> /\ Told(s)
  \/ /\ read[s].found = "no"
     /\ read[s].rows \in Prefixes(printed[s])

Cleared(s) ==
  \/ read[s] = Pending /\ pipe[s] = << >>
  \/ read[s] = Pending /\ pipe[s] = <<Marker(epoch - 1)>> /\ Told(s)
  \/ read[s] # Pending /\ pipe[s] = << >> /\ Told(s)

Drained == stdin = << >> /\ \A s \in Streams : pipe[s] = << >>

Life ==
  /\ alive => known
  /\ ~alive => stdin = << >>
  /\ pc \in {"start", "closed"} => ~known
  /\ pc \in {"killHang", "killPeriodic", "killReset"} => ~alive

Epochs ==
  /\ epoch =< call
  /\ pc \in {"start", "send", "read", "wait", "killHang", "reset"} => epoch < call
  /\ pc = "resetRead" => epoch > 0
  /\ pc \notin {"idle", "closing", "closed"} => call # None

\* Before the query is sent.
Before ==
  /\ pc \in {"start", "send"} => printed = Empty /\ read = Unread
  /\ pc = "send" => Drained
  /\ pc \in {"idle", "reset"} /\ known => Drained
  /\ pc \in {"idle", "send"} /\ alive => db = {} /\ (files = {} \/ ran = {})

\* While it runs.
During ==
  pc \in {"read", "wait"} =>
    /\ Remains(stdin, Run(call), EOQ)
    /\ Len(stdin) = 3 => db = {} /\ (files \subseteq {call} \/ ran = {})
    /\ \A s \in Streams : Answer(s)

Resetting ==
  pc = "resetRead" =>
    /\ Remains(stdin, Open, Marker(epoch - 1))
    /\ Len(stdin) < 3 /\ alive => db = {}
    /\ \A s \in Streams : Cleared(s)

Closing == pc = "closing" => stdin \in {<< >>, <<Quit>>}

\* The result of execute, from the moment it is known.
Result ==
  /\ pc \in {"start", "send", "read", "wait", "killHang"} => verdict = "none" /\ output = Empty
  /\ pc \in {"reset", "resetRead", "killPeriodic", "killReset"} =>
       \/ verdict = "OK" /\ output = printed
       \/ verdict = "CRASH" /\ ~alive /\ \A s \in Streams : output[s] \in Prefixes(printed[s])
       \/ verdict = "HANG" /\ ~alive /\ output = Empty

RowsOfCall == \A s \in Streams : printed[s] \in Seq({Row(call)})

WorkerInv ==
  /\ TypeOK
  /\ Life /\ Epochs /\ Before /\ During /\ Resetting /\ Closing /\ Result /\ RowsOfCall

-----------------------------------------------------------------------------
(* What _read_until_sentinel makes of a stream that holds p, and after it   *)
(* perhaps the sentinel.                                                    *)

LEMMA NotFound ==
  ASSUME NEW S, NEW p \in Seq(S), NEW item, \A i \in 1..Len(p) : p[i] # item
  PROVE  PlaceOf(item, p) = 0
BY DEF PlaceOf, SelectInSeq

LEMMA FoundLast ==
  ASSUME NEW S, NEW p \in Seq(S), NEW item \in S, \A i \in 1..Len(p) : p[i] # item
  PROVE  PlaceOf(item, Append(p, item)) = Len(p) + 1
<1> DEFINE q == Append(p, item)
           I == {i \in 1..Len(q) : q[i] = item}
<1>1. I = {Len(p) + 1} /\ Len(p) + 1 \in Nat \ {0}
  OBVIOUS
<1>2. Min(I) = Len(p) + 1
  BY <1>1 DEF Min
<1> QED BY <1>1, <1>2 DEF PlaceOf, SelectInSeq

\* Cutting a sequence before, at and after its last element.
LEMMA Cuts ==
  ASSUME NEW S, NEW p \in Seq(S), NEW item \in S
  PROVE  /\ Append(p, item) \in Seq(S)
         /\ SubSeq(p, Len(p) + 1, Len(p)) = << >>
         /\ SubSeq(p, 1, Len(p)) = p
         /\ SubSeq(Append(p, item), 1, Len(p)) = p
         /\ SubSeq(Append(p, item), Len(p) + 1, Len(Append(p, item))) = <<item>>
         /\ SubSeq(Append(p, item), Len(p) + 2, Len(Append(p, item))) = << >>
<1> DEFINE q == Append(p, item)
<1>1. /\ Len(p) \in Nat /\ q \in Seq(S) /\ Len(q) = Len(p) + 1
      /\ \A i \in 1..Len(p) : q[i] = p[i]
      /\ q[Len(p) + 1] = item
  OBVIOUS
<1>2. SubSeq(p, Len(p) + 1, Len(p)) = << >> /\ SubSeq(q, Len(p) + 2, Len(q)) = << >>
  BY <1>1, SubSeqEmpty
<1>3. SubSeq(p, 1, Len(p)) = p
  BY SubSeqFull
<1>4. SubSeq(q, 1, Len(p)) = p
  <2> DEFINE t == SubSeq(q, 1, Len(p))
  <2>1. t \in Seq(S) /\ Len(t) = Len(p) /\ \A i \in 1..Len(p) : t[i] = q[i]
    BY <1>1
  <2> HIDE DEF t, q
  <2> QED BY <1>1, <2>1, SeqEqual DEF t
<1>5. SubSeq(q, Len(p) + 1, Len(q)) = <<item>>
  <2> DEFINE t == SubSeq(q, Len(p) + 1, Len(q))
  <2>1. t \in Seq(S) /\ Len(t) = 1 /\ t[1] = item
    BY <1>1
  <2>2. <<item>> \in Seq(S) /\ Len(<<item>>) = 1 /\ <<item>>[1] = item
    OBVIOUS
  <2>3. \A i \in 1..Len(t) : t[i] = <<item>>[i]
    <3> SUFFICES ASSUME NEW i \in 1..Len(t) PROVE t[i] = <<item>>[i]
      OBVIOUS
    <3>1. i = 1
      BY <2>1
    <3> HIDE DEF t
    <3> QED BY <2>1, <2>2, <3>1
  <2> HIDE DEF t
  <2>4. t = <<item>>
    BY <2>1, <2>2, <2>3, SeqEqual
  <2> QED BY <2>4 DEF t
<1> QED BY <1>1, <1>2, <1>3, <1>4, <1>5

LEMMA ReadOutcome ==
  ASSUME TypeOK, WorkerAssumption,
         NEW s \in Streams, NEW item \in Items, NEW p \in Seq(Items),
         \A i \in 1..Len(p) : p[i] # item,
         pipe[s] = p \/ pipe[s] = Append(p, item),
         ReadUntil(s, item)
  PROVE  /\ read[s] = Pending
         /\ \E f \in {"sentinel", "no"}, rest \in {<< >>, <<item>>} :
              /\ read' = [read EXCEPT ![s] = [rows |-> p, found |-> f]]
              /\ pipe' = [pipe EXCEPT ![s] = rest]
              /\ f = "sentinel" => pipe[s] = Append(p, item) /\ rest = << >>
              /\ f = "no" => Len(p) > LIMIT \/ (~alive /\ pipe[s] = p /\ rest = << >>)
<1> DEFINE at == PlaceOf(item, pipe[s])
           before == IF at = 0 THEN pipe[s] ELSE SubSeq(pipe[s], 1, at - 1)
           found == at # 0 /\ Len(before) =< LIMIT
           rest == SubSeq(pipe[s], Len(before) + (IF found THEN 2 ELSE 1), Len(pipe[s]))
<1>1. /\ read[s] = Pending
      /\ found \/ Len(before) > LIMIT \/ ~alive
      /\ read' = [read EXCEPT ![s] = [rows |-> before,
                                     found |-> IF found THEN "sentinel" ELSE "no"]]
      /\ pipe' = [pipe EXCEPT ![s] = rest]
  BY DEF ReadUntil, TypeOK
<1>2. CASE pipe[s] = p
  <2>1. at = 0 /\ before = p /\ ~found
    BY <1>2, NotFound
  <2>2. rest = << >>
    BY <1>2, <2>1, Cuts
  <2> QED BY <1>1, <1>2, <2>1, <2>2
<1>3. CASE pipe[s] = Append(p, item)
  <2>1. at = Len(p) + 1 /\ Len(p) \in Nat
    BY <1>3, FoundLast
  <2>2. before = p
    BY <1>3, <2>1, Cuts
  <2> HIDE DEF before, at
  <2>3. CASE found
    <3>1. rest = << >>
      BY <1>3, <2>2, <2>3, Cuts
    <3> QED BY <1>1, <1>3, <2>2, <2>3, <3>1
  <2>4. CASE ~found
    <3> HIDE DEF found
    <3>1. rest = SubSeq(Append(p, item), Len(p) + 1, Len(Append(p, item)))
      <4>1. rest = SubSeq(pipe[s], Len(before) + 1, Len(pipe[s]))
        BY <2>4
      <4> HIDE DEF rest
      <4> QED BY <1>3, <2>2, <4>1
    <3>2. rest = <<item>>
      <4>1. SubSeq(Append(p, item), Len(p) + 1, Len(Append(p, item))) = <<item>>
        BY Cuts
      <4> HIDE DEF rest
      <4> QED BY <3>1, <4>1
    <3>3. Len(p) > LIMIT
      BY <2>1, <2>2, <2>4 DEF WorkerAssumption, found
    <3> QED BY <1>1, <2>2, <2>4, <3>2, <3>3
  <2> QED BY <2>3, <2>4
<1> QED BY <1>2, <1>3

-----------------------------------------------------------------------------
(* The invariant holds.                                                     *)

LEMMA Blank ==
  /\ Empty \in [Streams -> Seq(Items)]
  /\ Unread \in [Streams -> [rows : Seq(Items), found : {"pending", "sentinel", "no"}]]
  /\ \A s \in Streams : Empty[s] = << >> /\ Unread[s] = Pending
BY DEF Empty, Unread, Pending

LEMMA SingleSeq == ASSUME NEW S, NEW x \in S PROVE <<x>> \in Seq(S)
OBVIOUS

LEMMA PrefixEnds ==
  ASSUME NEW S, NEW p \in Seq(S)
  PROVE  << >> \in Prefixes(p) /\ p \in Prefixes(p)
<1>1. Len(p) \in 0..Len(p) /\ SubSeq(p, 1, Len(p)) = p
  BY SubSeqFull
<1>2. 0 \in 0..Len(p) /\ SubSeq(p, 1, 0) = << >>
  BY SubSeqEmpty
<1>3. << >> \in Prefixes(p)
  BY <1>2 DEF Prefixes
<1>4. p \in Prefixes(p)
  BY <1>1 DEF Prefixes
<1> QED BY <1>3, <1>4

LEMMA PrefixesArePrefixes ==
  ASSUME NEW S, NEW p \in Seq(S), NEW x \in Prefixes(p)
  PROVE  IsPrefix(x, p)
<1>1. PICK n \in 0..Len(p) : x = SubSeq(p, 1, n)
  BY DEF Prefixes
<1>2. x \in Seq(S) /\ Len(x) = n /\ n =< Len(p)
  BY <1>1
<1>3. SubSeq(x, 1, Len(x)) = x
  BY <1>2, SubSeqFull
<1> QED BY <1>1, <1>2, <1>3 DEF IsPrefix

LEMMA LongerPrefixes ==
  ASSUME NEW S, NEW p \in Seq(S), NEW x \in S
  PROVE  Prefixes(p) \subseteq Prefixes(Append(p, x))
<1> SUFFICES ASSUME NEW n \in 0..Len(p)
             PROVE  SubSeq(p, 1, n) \in Prefixes(Append(p, x))
  BY DEF Prefixes
<1> DEFINE q == Append(p, x)
<1>1. /\ Len(p) \in Nat /\ q \in Seq(S) /\ Len(q) = Len(p) + 1
      /\ \A i \in 1..Len(p) : q[i] = p[i]
  OBVIOUS
<1>2. SubSeq(q, 1, n) = SubSeq(p, 1, n)
  <2> HIDE DEF q
  <2> DEFINE a == SubSeq(q, 1, n)  b == SubSeq(p, 1, n)
  <2>1. a \in Seq(S) /\ b \in Seq(S) /\ Len(a) = n /\ Len(b) = n
        /\ \A i \in 1..n : a[i] = q[i] /\ b[i] = p[i]
    BY <1>1
  <2>2. \A i \in 1..n : q[i] = p[i]
    BY <1>1
  <2> HIDE DEF a, b
  <2>3. a = b
    BY <2>1, <2>2, SeqEqual
  <2> QED BY <2>3 DEF a, b
<1>3. n \in 0..Len(q)
  BY <1>1
<1> QED BY <1>2, <1>3 DEF Prefixes

LEMMA InitInv == Init => WorkerInv
<1> SUFFICES ASSUME Init PROVE WorkerInv
  OBVIOUS
<1>1. TypeOK
  <2>1. pipe \in [Streams -> Seq(Items)] /\ printed \in [Streams -> Seq(Items)]
        /\ output \in [Streams -> Seq(Items)]
    BY Blank DEF Init
  <2>2. read \in [Streams -> [rows : Seq(Items), found : {"pending", "sentinel", "no"}]]
    BY Blank DEF Init
  <2>3. stdin \in Seq(Commands)
    BY EmptySeq DEF Init
  <2>4. 0 \in 0..MaxCalls
    BY WorkerAssumption
  <2>5. db \subseteq Calls /\ ran \subseteq Calls /\ files \subseteq Calls
    BY DEF Init
  <2> QED BY <2>1, <2>2, <2>3, <2>4, <2>5 DEF Init, TypeOK, None
<1>2. RowsOfCall
  BY DEF Init, RowsOfCall, Empty
<1> QED BY <1>1, <1>2 DEF Init, WorkerInv, Life, Epochs, Before, During, Resetting, Closing, Result,
       None, Calls

\* Python waits for a process that is there or not.
LEMMA PlainSteps ==
  ASSUME WorkerInv,
         WorkerAssumption,
         \/ Reap \/ Start \/ StartFails \/ SendFails \/ Killed
         \/ ResetNothing \/ Periodic \/ PeriodicDone \/ SendResetFails \/ ResetKilled
         \/ Closed \/ Execute \/ Exited \/ StillThere
  PROVE  WorkerInv'
<1> USE DEF WorkerInv, TypeOK, Life, Epochs, Before, During, Resetting, Closing, Result, RowsOfCall,
       Drained, python, process, None, Calls
<1>1. CASE Reap
  BY <1>1 DEF Reap, Answer, Cleared, Told
<1>2. CASE Start
  BY <1>2 DEF Start, Empty
<1>3. CASE StartFails
  BY <1>3 DEF StartFails
<1>4. CASE SendFails
  BY <1>4, Blank, PrefixEnds DEF SendFails, Conclude
<1>5. CASE Killed
  BY <1>5 DEF Killed, Conclude, Empty
<1>6. CASE ResetNothing
  BY <1>6 DEF ResetNothing, ClearAndReturn
<1>7. CASE Periodic
  <2>1. TypeOK'
    <3>1. epoch' = epoch + 1 /\ epoch + 1 \in 0..MaxCalls /\ pc' = "killPeriodic" /\ Dies
      BY <1>7, WorkerAssumption DEF Periodic
    <3>2. UNCHANGED <<call, read, verdict, output, known, pipe, db, ran, files, printed>>
      BY <1>7 DEF Periodic
    <3> QED BY <3>1, <3>2, EmptySeq DEF Dies
  <2>2. (Life /\ Epochs)'
    BY <1>7 DEF Periodic, Dies
  <2>3. (Before /\ During)'
    BY <1>7 DEF Periodic, Dies
  <2>4. (Resetting /\ Closing)'
    BY <1>7 DEF Periodic, Dies
  <2>5. (Result /\ RowsOfCall)'
    BY <1>7 DEF Periodic, Dies
  <2> QED BY <1>7, <2>1, <2>2, <2>3, <2>4, <2>5
<1>8. CASE PeriodicDone
  BY <1>8 DEF PeriodicDone
<1>9. CASE SendResetFails
  <2>1. TypeOK'
    BY <1>9, Blank DEF SendResetFails
  <2>2. (Life /\ Epochs)'
    BY <1>9, Blank DEF SendResetFails
  <2>3. (Before /\ During)'
    BY <1>9, Blank DEF SendResetFails
  <2>4. (Resetting /\ Closing)'
    BY <1>9, Blank DEF SendResetFails
  <2>5. (Result /\ RowsOfCall)'
    BY <1>9, Blank DEF SendResetFails
  <2> QED BY <1>9, Blank, <2>1, <2>2, <2>3, <2>4, <2>5
<1>10. CASE ResetKilled
  BY <1>10 DEF ResetKilled, ClearAndReturn
<1>11. CASE Closed
  BY <1>11 DEF Closed
<1>12. CASE Execute
  <2>1. TypeOK'
    BY <1>12, Blank DEF Execute, None
  <2>2. (Life /\ Epochs)'
    BY <1>12, Blank DEF Execute, None
  <2>3. (Before /\ During)'
    BY <1>12, Blank DEF Execute, None
  <2>4. (Resetting /\ Closing)'
    BY <1>12, Blank DEF Execute, None
  <2>5. (Result /\ RowsOfCall)'
    BY <1>12, Blank DEF Execute, None
  <2> QED BY <1>12, Blank, <2>1, <2>2, <2>3, <2>4, <2>5
<1>13. CASE Exited
  <2>1. TypeOK'
    BY <1>13 DEF Exited, Conclude, Rows
  <2>2. (Life /\ Epochs)'
    BY <1>13 DEF Exited, Conclude, Rows
  <2>3. (Before /\ During)'
    BY <1>13 DEF Exited, Conclude, Rows
  <2>4. (Resetting /\ Closing)'
    BY <1>13 DEF Exited, Conclude, Rows
  <2>5. (Result /\ RowsOfCall)'
    <3>1. \A s \in Streams : Rows[s] \in Prefixes(printed[s])
      BY <1>13, PrefixEnds DEF Exited, Rows, Answer, Pending
    <3> QED BY <1>13, <3>1 DEF Exited, Conclude
  <2> QED BY <1>13, <2>1, <2>2, <2>3, <2>4, <2>5
<1>14. CASE StillThere
  <2>1. TypeOK'
    BY <1>14, EmptySeq DEF StillThere, Dies
  <2>2. (Life /\ Epochs)'
    BY <1>14 DEF StillThere, Dies
  <2>3. (Before /\ During)'
    BY <1>14 DEF StillThere, Dies
  <2>4. (Resetting /\ Closing)'
    BY <1>14 DEF StillThere, Dies
  <2>5. (Result /\ RowsOfCall)'
    BY <1>14 DEF StillThere, Dies
  <2> QED BY <1>14, <2>1, <2>2, <2>3, <2>4, <2>5
<1> QED BY <1>1, <1>2, <1>3, <1>4, <1>5, <1>6, <1>7, <1>8, <1>9, <1>10, <1>11, <1>12, <1>13, <1>14

LEMMA Sent ==
  ASSUME NEW first \in Commands, NEW item \in Items, stdin = << >>,
         Write(<<first, PrintTo("err", item), PrintTo("out", item)>>)
  PROVE  /\ stdin' \in Seq(Commands)
         /\ Remains(stdin', first, item)
         /\ alive => Len(stdin') = 3
         /\ ~alive => stdin' = << >>
<1> DEFINE sent == <<first, PrintTo("err", item), PrintTo("out", item)>>
<1>1. PrintTo("err", item) \in Commands /\ PrintTo("out", item) \in Commands
  BY DEF PrintTo, Commands, Streams
<1>2. sent \in Seq(Commands) /\ Len(sent) = 3 /\ Remains(sent, first, item)
  BY <1>1 DEF Remains
<1>3. stdin' = IF alive THEN sent ELSE << >>
  <2>1. << >> \o sent = sent
    BY <1>2, ConcatEmptySeq
  <2> QED BY <2>1 DEF Write
<1>4. << >> \in Seq(Commands) /\ Remains(<< >>, first, item)
  BY EmptySeq DEF Remains
<1> QED BY <1>2, <1>3, <1>4

LEMMA Taking ==
  ASSUME NEW in \in Seq(Commands), in # << >>, NEW first, NEW item, Remains(in, first, item)
  PROVE  /\ Tail(in) \in Seq(Commands)
         /\ Len(Tail(in)) = Len(in) - 1
         /\ Len(in) \in 1..3
         /\ Remains(Tail(in), first, item)
         /\ Len(in) = 3 => Head(in) = first
         /\ Len(in) = 2 => Head(in) = PrintTo("err", item)
         /\ Len(in) = 1 => Head(in) = PrintTo("out", item)
<1> DEFINE t == Tail(in)
<1>1. /\ Len(in) \in Nat \ {0}
      /\ t \in Seq(Commands)
      /\ Len(t) = Len(in) - 1
      /\ \A i \in 1..(Len(in) - 1) : t[i] = in[i + 1]
      /\ Head(in) = in[1]
  BY EmptySeq, HeadTailProperties
<1>2. Len(in) \in 1..3
  BY <1>1 DEF Remains
<1> HIDE DEF t
<1>3. Remains(t, first, item)
  <2>1. CASE Len(in) = 3
    <3>1. Len(t) = 2 /\ t[1] = in[2] /\ t[2] = in[3]
      BY <1>1, <2>1
    <3>2. in[2] = PrintTo("err", item) /\ in[3] = PrintTo("out", item)
      BY <2>1 DEF Remains
    <3> QED BY <3>1, <3>2 DEF Remains
  <2>2. CASE Len(in) = 2
    <3>1. Len(t) = 1 /\ t[1] = in[2]
      BY <1>1, <2>2
    <3>2. in[2] = PrintTo("out", item)
      BY <2>2 DEF Remains
    <3> QED BY <3>1, <3>2 DEF Remains
  <2>3. CASE Len(in) = 1
    BY <1>1, <2>3 DEF Remains
  <2> QED BY <1>2, <2>1, <2>2, <2>3
<1>4. /\ Len(in) = 3 => in[1] = first
      /\ Len(in) = 2 => in[1] = PrintTo("err", item)
      /\ Len(in) = 1 => in[1] = PrintTo("out", item)
  BY DEF Remains
<1> QED BY <1>1, <1>2, <1>3, <1>4 DEF t

\* Python writes to the shell.
LEMMA WritingSteps ==
  ASSUME WorkerInv, WorkerAssumption, Send \/ SendReset \/ Close
  PROVE  WorkerInv'
<1> USE DEF WorkerInv, Life, Epochs, Before, During, Resetting, Closing, Result, RowsOfCall,
       Drained
<1>1. CASE Send
  <2>1. Run(call) \in Commands /\ EOQ \in Items
    BY <1>1 DEF Send, TypeOK, Run, Row, Commands, Items, Calls, None
  <2>2. stdin' \in Seq(Commands) /\ Remains(stdin', Run(call), EOQ) /\ (~alive => stdin' = << >>)
        /\ (alive => Len(stdin') = 3)
    BY <1>1, <2>1, Sent DEF Send
  <2>3. TypeOK'
    BY <1>1, <2>2 DEF Send, TypeOK
  <2>4. \A s \in Streams : Answer(s)'
    BY <1>1, Blank DEF Send, Answer
  <2>5. Len(<< >>) = 0
    OBVIOUS
  <2> QED BY <1>1, <2>2, <2>3, <2>4, <2>5 DEF Send
<1>2. CASE SendReset
  <2>1. Open \in Commands /\ Marker(epoch) \in Items
    BY <1>2, WorkerAssumption DEF SendReset, TypeOK, Open, EOQ, Marker, Commands, Items
  <2>2. stdin' \in Seq(Commands) /\ Remains(stdin', Open, Marker(epoch))
        /\ (~alive => stdin' = << >>) /\ (alive => Len(stdin') = 3)
    BY <1>2, <2>1, Sent DEF SendReset
  <2>3. /\ epoch' = epoch + 1 /\ epoch + 1 \in 0..MaxCalls /\ epoch' - 1 = epoch /\ epoch' =< call
        /\ epoch' > 0
        /\ pc = "reset" /\ known /\ pc' = "resetRead" /\ read' = Unread
        /\ UNCHANGED <<call, verdict, output, known, alive, pipe, db, ran, files, printed>>
    BY <1>2, WorkerAssumption DEF SendReset, TypeOK
  <2>4. TypeOK'
    BY <2>2, <2>3, Blank DEF TypeOK
  <2>5. \A s \in Streams : Cleared(s)'
    BY <2>3, Blank DEF Cleared
  <2>6. Resetting'
    <3>1. Marker(epoch' - 1) = Marker(epoch)
      BY <2>3
    <3>2. Remains(stdin', Open, Marker(epoch' - 1))
      BY <2>2, <3>1
    <3>3. ~(Len(stdin') < 3 /\ alive')
      <4>1. CASE alive
        BY <2>2, <4>1
      <4>2. CASE ~alive
        BY <2>3, <4>2
      <4> QED BY <4>1, <4>2
    <3> QED BY <2>5, <3>2, <3>3
  <2>7. (Life /\ Epochs /\ Before /\ During /\ Closing)'
    BY <2>2, <2>3
  <2>8. (Result /\ RowsOfCall)'
    BY <2>3
  <2> QED BY <2>4, <2>6, <2>7, <2>8
<1>3. CASE Close
  <2>1. Quit \in Commands
    BY DEF Quit, EOQ, Commands, Items
  <2>2. stdin = << >>
    BY <1>3 DEF Close
  <2>3. stdin' \in {<< >>, <<Quit>>} /\ stdin' \in Seq(Commands) /\ (~alive => stdin' = << >>)
    BY <1>3, <2>1, <2>2, EmptySeq, ConcatEmptySeq DEF Close, Write
  <2>4. TypeOK'
    BY <1>3, <2>3 DEF Close, TypeOK
  <2> QED BY <1>3, <2>3, <2>4 DEF Close
<1> QED BY <1>1, <1>2, <1>3

\* The two reads of an answer.
LEMMA ReadStep ==
  ASSUME WorkerInv, WorkerAssumption, Read
  PROVE  WorkerInv'
<1> USE DEF WorkerInv, Life, Epochs, Before, During, Resetting, Closing, Result, RowsOfCall
<1>1. PICK s \in Streams : ReadUntil(s, EOQ)
  BY DEF Read
<1>2. pc = "read" /\ EOQ \in Items /\ printed[s] \in Seq(Items)
  BY DEF Read, TypeOK, Items
<1>3. \A i \in 1..Len(printed[s]) : printed[s][i] # EOQ
  BY ElementOfSeq DEF Row, EOQ
<1>4. \A r \in Streams : Answer(r)
  BY <1>2
<1>5. read[s] = Pending /\ (pipe[s] = printed[s] \/ (pipe[s] = Append(printed[s], EOQ) /\ Told(s)))
  <2>1. read[s] = Pending
    BY <1>1 DEF ReadUntil
  <2>2. read[s].found = "pending"
    BY <2>1 DEF Pending
  <2>3. read[s] # [rows |-> printed[s], found |-> "sentinel"] /\ read[s].found # "no"
    BY <2>2
  <2> QED BY <1>4, <2>1, <2>3 DEF Answer
<1>6. PICK f \in {"sentinel", "no"}, rest \in {<< >>, <<EOQ>>} :
        /\ read' = [read EXCEPT ![s] = [rows |-> printed[s], found |-> f]]
        /\ pipe' = [pipe EXCEPT ![s] = rest]
        /\ f = "sentinel" => pipe[s] = Append(printed[s], EOQ) /\ rest = << >>
  BY <1>1, <1>2, <1>3, <1>5, ReadOutcome
<1>7. UNCHANGED <<pc, call, epoch, verdict, output, known, alive, stdin, db, ran, files, printed>>
  BY <1>1 DEF ReadUntil
<1>8. Answer(s)'
  <2>1. read'[s] = [rows |-> printed[s], found |-> f] /\ pipe'[s] = rest /\ printed' = printed
    BY <1>6, <1>7 DEF TypeOK
  <2>2. CASE f = "sentinel"
    <3>1. Len(Append(printed[s], EOQ)) # Len(printed[s])
      BY <1>2
    <3>2. Told(s)
      BY <1>5, <1>6, <2>2, <3>1
    <3> QED BY <1>6, <1>7, <2>1, <2>2, <3>2 DEF Answer, Told
  <2>3. CASE f = "no"
    <3>1. printed[s] \in Prefixes(printed[s])
      BY <1>2, PrefixEnds
    <3> QED BY <2>1, <2>3, <3>1 DEF Answer
  <2> QED BY <2>2, <2>3
<1>9. \A r \in Streams : Answer(r)'
  <2> SUFFICES ASSUME NEW r \in Streams, r # s PROVE Answer(r)'
    BY <1>8
  <2>1. read'[r] = read[r] /\ pipe'[r] = pipe[r]
    BY <1>6 DEF TypeOK
  <2> QED BY <1>4, <1>7, <2>1 DEF Answer, Told
<1>10. TypeOK'
  <2>1. rest \in Seq(Items)
    BY <1>2, <1>6, EmptySeq, SingleSeq
  <2> QED BY <1>2, <1>6, <1>7, <2>1 DEF TypeOK
<1> QED BY <1>2, <1>7, <1>9, <1>10

\* The two reads of the answer to a reset.
LEMMA ReadResetStep ==
  ASSUME WorkerInv, WorkerAssumption, ReadReset
  PROVE  WorkerInv'
<1> USE DEF WorkerInv, Life, Epochs, Before, During, Resetting, Closing, Result, RowsOfCall
<1> DEFINE item == Marker(epoch - 1)
<1>1. PICK s \in Streams : ReadUntil(s, item)
  BY DEF ReadReset
<1>2. pc = "resetRead" /\ item \in Items
  <2>1. pc = "resetRead" /\ epoch - 1 \in 0..MaxCalls
    BY WorkerAssumption DEF ReadReset, TypeOK
  <2> QED BY <2>1 DEF Items
<1>3. \A r \in Streams : Cleared(r)
  BY <1>2
<1> HIDE DEF item
<1>4. << >> \in Seq(Items) /\ Append(<< >>, item) = <<item>> /\ Len(<< >>) = 0
  BY <1>2, EmptySeq
<1>5. read[s] = Pending /\ (pipe[s] = << >> \/ (pipe[s] = <<item>> /\ Told(s)))
  <2>1. read[s] = Pending
    BY <1>1 DEF ReadUntil
  <2> QED BY <1>3, <2>1 DEF Cleared, item
<1>6. PICK f \in {"sentinel", "no"}, rest \in {<< >>, <<item>>} :
        /\ read' = [read EXCEPT ![s] = [rows |-> << >>, found |-> f]]
        /\ pipe' = [pipe EXCEPT ![s] = rest]
        /\ f = "sentinel" => pipe[s] = <<item>> /\ rest = << >>
        /\ f = "no" => ~alive /\ rest = << >>
  <2>1. \A i \in 1..Len(<< >>) : << >>[i] # item
    BY <1>4
  <2>2. ~(Len(<< >>) > LIMIT)
    BY <1>4 DEF WorkerAssumption
  <2>3. \E f \in {"sentinel", "no"}, rest \in {<< >>, <<item>>} :
          /\ read' = [read EXCEPT ![s] = [rows |-> << >>, found |-> f]]
          /\ pipe' = [pipe EXCEPT ![s] = rest]
          /\ f = "sentinel" => pipe[s] = Append(<< >>, item) /\ rest = << >>
          /\ f = "no" => Len(<< >>) > LIMIT \/ (~alive /\ pipe[s] = << >> /\ rest = << >>)
    <3>1. pipe[s] = << >> \/ pipe[s] = Append(<< >>, item)
      BY <1>4, <1>5
    <3>2. << >> \in Seq(Items)
      BY <1>4
    <3> QED BY <1>1, <1>2, <2>1, <3>1, <3>2, ReadOutcome
  <2> QED BY <1>4, <2>2, <2>3
<1>7. UNCHANGED <<pc, call, epoch, verdict, output, known, alive, stdin, db, ran, files, printed>>
  BY <1>1 DEF ReadUntil
<1>8. Cleared(s)'
  <2>1. read'[s] = [rows |-> << >>, found |-> f] /\ pipe'[s] = << >> /\ read'[s] # Pending
    BY <1>6 DEF TypeOK, Pending
  <2>2. Told(s)
    <3>1. CASE f = "sentinel"
      <4>1. <<item>> # << >>
        OBVIOUS
      <4> QED BY <1>5, <1>6, <3>1, <4>1
    <3>2. CASE f = "no"
      <4>1. stdin = << >>
        BY <1>6, <3>2
      <4> QED BY <1>4, <4>1 DEF Told
    <3> QED BY <3>1, <3>2
  <2> QED BY <1>7, <2>1, <2>2 DEF Cleared, Told
<1>9. \A r \in Streams : Cleared(r)'
  <2> SUFFICES ASSUME NEW r \in Streams, r # s PROVE Cleared(r)'
    BY <1>8
  <2>1. read'[r] = read[r] /\ pipe'[r] = pipe[r]
    BY <1>6 DEF TypeOK
  <2> QED BY <1>3, <1>7, <2>1 DEF Cleared, Told
<1>10. TypeOK'
  <2>1. rest \in Seq(Items)
    BY <1>2, <1>6, EmptySeq, SingleSeq
  <2> QED BY <1>4, <1>6, <1>7, <2>1 DEF TypeOK
<1> QED BY <1>2, <1>7, <1>9, <1>10

\* Python has both answers, or no patience left.
LEMMA EndingSteps ==
  ASSUME WorkerInv, WorkerAssumption, Judge \/ ResetDone \/ Timeout \/ ResetTimeout
  PROVE  WorkerInv'
<1> USE DEF WorkerInv, Life, Epochs, Before, During, Resetting, Closing, Result, RowsOfCall
<1>0. stdin \in Seq(Commands) /\ (Told("out") => stdin = << >>)
  BY EmptySeq DEF TypeOK, Told
<1>1. CASE Judge /\ BothFound
  <2>1. pc = "read" /\ \A s \in Streams : Answer(s)
    BY <1>1 DEF Judge
  <2>2. \A s \in Streams : read[s].rows = printed[s] /\ pipe[s] = << >> /\ Told(s)
    <3> SUFFICES ASSUME NEW s \in Streams
                 PROVE  read[s].rows = printed[s] /\ pipe[s] = << >> /\ Told(s)
      OBVIOUS
    <3>1. read[s].found = "sentinel" /\ Pending.found = "pending"
      BY <1>1 DEF BothFound, Pending
    <3>2. read[s] # Pending /\ read[s].found # "no"
      BY <3>1
    <3>3. read[s] = [rows |-> printed[s], found |-> "sentinel"] /\ pipe[s] = << >> /\ Told(s)
      BY <2>1, <3>2 DEF Answer
    <3> QED BY <3>3
  <2>3. Rows = printed
    BY <2>2 DEF Rows, TypeOK
  <2>4. Drained
    BY <1>0, <2>2 DEF Drained, Streams
  <2>5. Conclude(IF known THEN "OK" ELSE "CRASH", printed)
        /\ UNCHANGED <<call, read, epoch, known, process>>
    BY <1>1, <2>3 DEF Judge
  <2>6. \A s \in Streams : printed[s] \in Prefixes(printed[s])
    BY PrefixEnds DEF TypeOK
  <2>7. Result'
    BY <2>5, <2>6 DEF Conclude, process
  <2>8. TypeOK'
    BY <2>5 DEF TypeOK, Conclude, process
  <2> QED BY <2>1, <2>4, <2>5, <2>7, <2>8 DEF Conclude, Drained, process
<1>2. CASE Judge /\ ~BothFound
  <2>1. pc = "read" /\ pc' = "wait"
        /\ UNCHANGED <<call, read, epoch, known, alive, stdin, pipe, db, ran, files, printed,
                       verdict, output>>
    BY <1>2 DEF Judge, process
  <2>2. \A s \in Streams : Answer(s)'
    BY <2>1 DEF Answer, Told
  <2> QED BY <2>1, <2>2 DEF TypeOK
<1>3. CASE ResetDone
  <2>1. pc = "resetRead" /\ pc' = "idle" /\ files' = {}
        /\ UNCHANGED <<call, read, epoch, verdict, output, known, alive, stdin, pipe, db, ran,
                       printed>>
    BY <1>3 DEF ResetDone, ClearAndReturn
  <2>2. \A s \in Streams : pipe[s] = << >> /\ Told(s)
    BY <1>3, <2>1 DEF ResetDone, BothRead, Cleared
  <2>3. stdin = << >> /\ Len(stdin) < 3
    BY <1>0, <2>2 DEF Streams
  <2> QED BY <2>1, <2>2, <2>3 DEF TypeOK, Drained
<1>4. CASE Timeout
  <2>1. pc = "read" /\ pc' = "killHang" /\ Dies
        /\ UNCHANGED <<call, read, epoch, verdict, output, known, pipe, db, ran, files, printed>>
    BY <1>4 DEF Timeout, Expire
  <2> QED BY <2>1, EmptySeq DEF TypeOK, Dies
<1>5. CASE ResetTimeout
  <2>1. pc = "resetRead" /\ pc' = "killReset" /\ Dies
        /\ UNCHANGED <<call, read, epoch, verdict, output, known, pipe, db, ran, files, printed>>
    BY <1>5 DEF ResetTimeout, Expire
  <2> QED BY <2>1, EmptySeq DEF TypeOK, Dies
<1> QED BY <1>1, <1>2, <1>3, <1>4, <1>5

\* What the shell can be doing, and when.
LEMMA Serves ==
  ASSUME WorkerInv, NEW c, Handles(c)
  PROVE  /\ alive /\ stdin # << >>
         /\ \/ /\ pc \in {"read", "wait"} /\ Len(stdin) = 3 /\ c = Run(call)
            \/ /\ pc \in {"read", "wait"} /\ Len(stdin) = 2 /\ c = PrintTo("err", EOQ)
            \/ /\ pc \in {"read", "wait"} /\ Len(stdin) = 1 /\ c = PrintTo("out", EOQ)
            \/ /\ pc = "resetRead" /\ Len(stdin) = 3 /\ c = Open
            \/ /\ pc = "resetRead" /\ Len(stdin) = 2 /\ c = PrintTo("err", Marker(epoch - 1))
            \/ /\ pc = "resetRead" /\ Len(stdin) = 1 /\ c = PrintTo("out", Marker(epoch - 1))
            \/ pc = "closing" /\ stdin = <<Quit>> /\ c = Quit
<1>1. alive /\ known /\ stdin # << >> /\ stdin \in Seq(Commands) /\ c = Head(stdin)
  BY DEF Handles, WorkerInv, Life, TypeOK
<1>2. pc \in {"read", "wait", "resetRead", "closing"}
  BY <1>1 DEF WorkerInv, TypeOK, Life, Before, Drained
<1>3. CASE pc \in {"read", "wait"}
  BY <1>1, <1>3, Taking DEF WorkerInv, During
<1>4. CASE pc = "resetRead"
  BY <1>1, <1>4, Taking DEF WorkerInv, Resetting
<1>5. CASE pc = "closing"
  BY <1>1, <1>5 DEF WorkerInv, Closing
<1> QED BY <1>1, <1>2, <1>3, <1>4, <1>5

\* The kinds of commands differ.
LEMMA Kinds ==
  /\ \A q : Run(q).do = "run" /\ Run(q).item = Row(q) /\ Row(q).of = q
  /\ \A s, item : PrintTo(s, item).do = s /\ PrintTo(s, item).item = item
  /\ Open.do = "open" /\ Quit.do = "quit"
BY DEF Run, PrintTo, Open, Quit, Row

LEMMA ServesQuery ==
  ASSUME WorkerInv, NEW q, Handles(Run(q))
  PROVE  pc \in {"read", "wait"} /\ Len(stdin) = 3 /\ q = call
<1>1. Run(q).do = "run"
  BY Kinds
<1>2. Run(q) # Open /\ Run(q) # Quit
  BY Kinds, <1>1
<1>3. \A item : Run(q) # PrintTo("err", item) /\ Run(q) # PrintTo("out", item)
  BY Kinds, <1>1
<1>4. pc \in {"read", "wait"} /\ Len(stdin) = 3 /\ Run(q) = Run(call)
  BY <1>2, <1>3, Serves
<1>5. q = call
  BY <1>4, Kinds
<1> QED BY <1>4, <1>5

\* A command of Send is taken, and nothing else happens to the pipes.
LEMMA TakingInAnswer ==
  ASSUME WorkerInv, pc \in {"read", "wait"}, stdin # << >>, stdin' = Tail(stdin),
         UNCHANGED <<call, read, pipe, printed>>
  PROVE  /\ stdin' \in Seq(Commands) /\ Len(stdin') = Len(stdin) - 1
         /\ Remains(stdin', Run(call'), EOQ)
         /\ Len(stdin') < 3
         /\ \A s \in Streams : Answer(s)'
<1>1. stdin \in Seq(Commands) /\ Remains(stdin, Run(call), EOQ) /\ \A s \in Streams : Answer(s)
  BY DEF WorkerInv, During, TypeOK
<1>2. /\ stdin' \in Seq(Commands) /\ Len(stdin') = Len(stdin) - 1 /\ Len(stdin) \in 1..3
      /\ Remains(stdin', Run(call'), EOQ)
  BY <1>1, Taking
<1>3. \A s \in Streams : Told(s) => Told(s)'
  BY <1>2 DEF Told
<1>4. \A s \in Streams : Answer(s)'
  BY <1>1, <1>3 DEF Answer
<1>5. Len(stdin') < 3
  <2>1. PICK n \in 1..3 : Len(stdin) = n
    BY <1>2
  <2> QED BY <1>2, <2>1
<1> QED BY <1>2, <1>4, <1>5

LEMMA TakingInReset ==
  ASSUME WorkerInv, pc = "resetRead", stdin # << >>, stdin' = Tail(stdin),
         UNCHANGED <<epoch, read, pipe>>
  PROVE  /\ stdin' \in Seq(Commands) /\ Len(stdin') = Len(stdin) - 1
         /\ Remains(stdin', Open, Marker(epoch' - 1))
         /\ \A s \in Streams : Cleared(s)'
<1>1. stdin \in Seq(Commands) /\ Remains(stdin, Open, Marker(epoch - 1))
      /\ \A s \in Streams : Cleared(s)
  BY DEF WorkerInv, Resetting, TypeOK
<1>2. /\ stdin' \in Seq(Commands) /\ Len(stdin') = Len(stdin) - 1 /\ Len(stdin) \in 1..3
      /\ Remains(stdin', Open, Marker(epoch' - 1))
  BY <1>1, Taking
<1>3. \A s \in Streams : Told(s) => Told(s)'
  BY <1>2 DEF Told
<1> QED BY <1>1, <1>2, <1>3 DEF Cleared

LEMMA PrintRowStep ==
  ASSUME WorkerInv, NEW q \in Calls, NEW s \in Streams, PrintRow(q, s)
  PROVE  WorkerInv' /\ pc \in {"read", "wait"} /\ q = call
<1> USE DEF WorkerInv, Life, Epochs, Before, During, Resetting, Closing, Result, RowsOfCall
<1>1. /\ pipe' = [pipe EXCEPT ![s] = Append(@, Row(q))]
      /\ printed' = [printed EXCEPT ![s] = Append(@, Row(q))]
      /\ UNCHANGED <<pc, call, read, epoch, verdict, output, known, alive, stdin, db, ran, files>>
  BY DEF PrintRow, python
<1>2. pc \in {"read", "wait"} /\ Len(stdin) = 3 /\ q = call
  BY ServesQuery DEF PrintRow
<1>3. \A r \in Streams : ~Told(r) /\ Answer(r)
  BY <1>2 DEF Told
<1>4. Row(call) \in Items
  BY <1>2 DEF Items
<1>5. \A r \in Streams : Answer(r)'
  <2> SUFFICES ASSUME NEW r \in Streams PROVE Answer(r)'
    OBVIOUS
  <2>1. CASE r # s
    BY <1>1, <1>3, <2>1 DEF Answer, Told, TypeOK
  <2>2. CASE r = s
    <3>1. printed'[s] = Append(printed[s], Row(q)) /\ pipe'[s] = Append(pipe[s], Row(q))
      BY <1>1 DEF TypeOK
    <3>2. CASE read[s] = Pending
      <4>1. pipe[s] = printed[s]
        <5>1. read[s].found = "pending"
          BY <3>2 DEF Pending
        <5>2. read[s].found # "no"
          BY <5>1
        <5> QED BY <1>3, <5>2 DEF Answer
      <4> QED BY <1>1, <2>2, <3>1, <3>2, <4>1 DEF Answer
    <3>3. CASE read[s].found = "no" /\ read[s].rows \in Prefixes(printed[s])
      <4>1. Prefixes(printed[s]) \subseteq Prefixes(printed'[s])
        BY <1>4, <1>2, <3>1, LongerPrefixes DEF TypeOK
      <4> QED BY <1>1, <2>2, <3>3, <4>1 DEF Answer
    <3> QED BY <1>3, <3>2, <3>3 DEF Answer
  <2> QED BY <2>1, <2>2
<1>6. TypeOK'
  BY <1>1, <1>2, <1>4 DEF TypeOK
<1>7. \A r \in Streams : printed'[r] \in Seq({Row(call)})
  BY <1>1, <1>2 DEF TypeOK
<1> QED BY <1>1, <1>2, <1>5, <1>6, <1>7

\* A sentinel is printed.
LEMMA PrintItemStep ==
  ASSUME WorkerInv, WorkerAssumption, NEW s \in Streams, NEW item \in Items, PrintItem(s, item)
  PROVE  WorkerInv'
<1> USE DEF WorkerInv, Life, Epochs, Before, During, Resetting, Closing, Result, RowsOfCall
<1>1. /\ stdin' = Tail(stdin) /\ pipe' = [pipe EXCEPT ![s] = Append(@, item)]
      /\ UNCHANGED <<pc, call, read, epoch, verdict, output, known, alive, db, ran, files, printed>>
  BY DEF PrintItem, Taken, python
<1>2. /\ alive /\ stdin # << >>
      /\ \/ pc \in {"read", "wait"} /\ item = EOQ
         \/ pc = "resetRead" /\ item = Marker(epoch - 1)
      /\ Len(stdin) = (IF s = "err" THEN 2 ELSE 1)
  <2>1. Handles(PrintTo(s, item)) /\ PrintTo(s, item).do = s /\ PrintTo(s, item).item = item
    BY Kinds DEF PrintItem
  <2>2. PrintTo(s, item) # Open /\ PrintTo(s, item) # Quit /\ PrintTo(s, item) # Run(call)
    BY <2>1, Kinds DEF Streams
  <2>3. \A r, i : PrintTo(s, item) = PrintTo(r, i) => r = s /\ i = item
    BY <2>1, Kinds
  <2> QED BY <2>1, <2>2, <2>3, Serves DEF Streams
<1>3. ~Told(s) /\ Len(stdin) - 1 =< (IF s = "err" THEN 1 ELSE 0) /\ Len(stdin) < 3
  BY <1>2 DEF Told
<1>4. pipe' \in [Streams -> Seq(Items)] /\ pipe'[s] = Append(pipe[s], item)
      /\ \A r \in Streams \ {s} : pipe'[r] = pipe[r]
  BY <1>1 DEF TypeOK
<1>5. stdin' \in Seq(Commands) /\ Len(stdin') = Len(stdin) - 1
  BY <1>1, <1>2, HeadTailProperties DEF TypeOK
<1>6. TypeOK'
  BY <1>1, <1>4, <1>5 DEF TypeOK
<1>7. Told(s)' /\ \A r \in Streams : Told(r) => Told(r)'
  BY <1>3, <1>5 DEF Told, TypeOK
<1>8. CASE pc \in {"read", "wait"}
  <2>1. item = EOQ
    BY <1>2, <1>8
  <2>2. Remains(stdin', Run(call'), EOQ)
    BY <1>1, <1>2, <1>8, Taking DEF TypeOK
  <2>3. \A r \in Streams : Answer(r)'
    <3>1. \A r \in Streams \ {s} : Answer(r)'
      BY <1>1, <1>4, <1>7, <1>8 DEF Answer
    <3>2. read[s] = Pending => Answer(s)'
      <4> SUFFICES ASSUME read[s] = Pending PROVE Answer(s)'
        OBVIOUS
      <4>1. read[s].found # "no"
        BY DEF Pending
      <4>2. pipe[s] = printed[s]
        BY <1>3, <1>8, <4>1 DEF Answer
      <4> QED BY <1>1, <1>4, <1>7, <2>1, <4>2 DEF Answer
    <3>3. read[s] # Pending => Answer(s)'
      BY <1>1, <1>3, <1>8 DEF Answer
    <3> QED BY <3>1, <3>2, <3>3
  <2>4. Len(stdin') # 3
    BY <1>2, <1>5
  <2> QED BY <1>1, <1>2, <1>6, <1>8, <2>2, <2>3, <2>4
<1>9. CASE pc = "resetRead"
  <2>1. item = Marker(epoch - 1)
    BY <1>2, <1>9
  <2>2. Remains(stdin', Open, Marker(epoch' - 1))
    BY <1>1, <1>2, <1>9, Taking DEF TypeOK
  <2>3. \A r \in Streams : Cleared(r)'
    <3>1. \A r \in Streams \ {s} : Cleared(r)'
      BY <1>1, <1>4, <1>7, <1>9 DEF Cleared
    <3>2. read[s] = Pending /\ pipe[s] = << >>
      BY <1>3, <1>9 DEF Cleared
    <3>3. pipe'[s] = <<Marker(epoch' - 1)>> /\ read'[s] = Pending
      BY <1>1, <1>4, <2>1, <3>2
    <3>4. Cleared(s)'
      BY <1>7, <3>3 DEF Cleared
    <3> QED BY <3>1, <3>4
  <2>4. alive' => db' = {}
    BY <1>1, <1>3, <1>9
  <2> QED BY <1>1, <1>2, <1>6, <1>9, <2>2, <2>3, <2>4
<1> QED BY <1>2, <1>8, <1>9

LEMMA OpenStep ==
  ASSUME WorkerInv, WorkerAssumption, OpenDatabase
  PROVE  WorkerInv'
<1> USE DEF WorkerInv, Life, Epochs, Before, During, Resetting, Closing, Result, RowsOfCall
<1>1. /\ stdin' = Tail(stdin) /\ db' = {}
      /\ UNCHANGED <<pc, call, read, epoch, verdict, output, known, alive, pipe, ran, files, printed>>
  BY DEF OpenDatabase, Taken, python
<1>2. alive /\ stdin # << >> /\ pc = "resetRead"
  <2>1. Handles(Open) /\ Open.do = "open"
    BY Kinds DEF OpenDatabase
  <2>2. Open # Run(call) /\ Open # Quit
    BY <2>1, Kinds
  <2>3. \A item : Open # PrintTo("err", item) /\ Open # PrintTo("out", item)
    BY <2>1, Kinds
  <2> QED BY <2>1, <2>2, <2>3, Serves
<1> QED BY <1>1, <1>2, TakingInReset DEF TypeOK

LEMMA DeathStep ==
  ASSUME WorkerInv, alive' = FALSE, stdin' = << >>,
         UNCHANGED <<pc, call, read, epoch, verdict, output, known, pipe, db, ran, files, printed>>
  PROVE  WorkerInv'
<1> USE DEF WorkerInv, Life, Epochs, Before, During, Resetting, Closing, Result, RowsOfCall
<1>1. stdin' \in Seq(Commands) /\ Len(stdin') = 0
  BY EmptySeq
<1>2. \A first, item : Remains(stdin', first, item)
  BY <1>1 DEF Remains
<1>3. \A s \in Streams : Told(s)'
  BY <1>1 DEF Told
<1>4. \A s \in Streams : (Answer(s) => Answer(s)') /\ (Cleared(s) => Cleared(s)')
  BY <1>3 DEF Answer, Cleared
<1>5. TypeOK'
  BY <1>1 DEF TypeOK
<1> QED BY <1>1, <1>2, <1>4, <1>5 DEF Drained

LEMMA OtherProcessSteps ==
  ASSUME WorkerInv, WorkerAssumption,
         \/ \E q \in Calls : WriteFile(q) \/ FinishQuery(q)
         \/ \E s \in Streams, item \in Items : PrintItem(s, item)
         \/ OpenDatabase \/ QuitShell \/ Crash
  PROVE  WorkerInv'
<1> USE DEF WorkerInv, Life, Epochs, Before, During, Resetting, Closing, Result, RowsOfCall
<1>1. CASE \E q \in Calls : WriteFile(q)
  <2>1. PICK q \in Calls : WriteFile(q)
    BY <1>1
  <2>2. pc \in {"read", "wait"} /\ Len(stdin) = 3 /\ q = call
    BY <2>1, ServesQuery DEF WriteFile
  <2>3. /\ files' = files \cup {q}
        /\ UNCHANGED <<pc, call, read, epoch, verdict, output, known, alive, stdin, pipe, db, ran,
                       printed>>
    BY <2>1 DEF WriteFile, python
  <2>4. \A r \in Streams : Answer(r)'
    BY <2>2, <2>3 DEF Answer, Told
  <2> QED BY <2>2, <2>3, <2>4 DEF TypeOK
<1>2. CASE \E q \in Calls : FinishQuery(q)
  <2>1. PICK q \in Calls : FinishQuery(q)
    BY <1>2
  <2>2. pc \in {"read", "wait"} /\ Len(stdin) = 3
    BY <2>1, ServesQuery DEF FinishQuery
  <2>3. /\ stdin' = Tail(stdin) /\ db' = db \cup {q} /\ ran' = ran \cup {q}
        /\ UNCHANGED <<pc, call, read, epoch, verdict, output, known, alive, pipe, files, printed>>
    BY <2>1 DEF FinishQuery, python, Taken
  <2>4. stdin # << >>
    BY <2>1 DEF FinishQuery, Handles
  <2>5. /\ stdin' \in Seq(Commands) /\ Remains(stdin', Run(call'), EOQ)
        /\ Len(stdin') # 3 /\ \A s \in Streams : Answer(s)'
    BY <2>2, <2>3, <2>4, TakingInAnswer
  <2>6. TypeOK'
    BY <2>3, <2>5 DEF TypeOK
  <2>7. alive
    BY <2>1 DEF FinishQuery, Handles
  <2> QED BY <2>2, <2>3, <2>5, <2>6, <2>7
<1>3. CASE \E s \in Streams, item \in Items : PrintItem(s, item)
  BY <1>3, PrintItemStep
<1>4. CASE OpenDatabase
  BY <1>4, OpenStep
<1>5. CASE QuitShell \/ Crash
  <2>1. /\ alive' = FALSE /\ stdin' = << >>
        /\ UNCHANGED <<pc, call, read, epoch, verdict, output, known, pipe, db, ran, files,
                       printed>>
    BY <1>5 DEF QuitShell, Crash, Dies, python
  <2> QED BY <2>1, DeathStep
<1> QED BY <1>1, <1>2, <1>3, <1>4, <1>5

LEMMA StepInv == ASSUME WorkerAssumption PROVE WorkerInv /\ [Next]_vars => WorkerInv'
<1> SUFFICES ASSUME WorkerInv, [Next]_vars PROVE WorkerInv'
  OBVIOUS
<1>1. CASE UNCHANGED vars
  <2>1. TypeOK' /\ Life' /\ Epochs' /\ Before'
    BY <1>1 DEF vars, python, process, WorkerInv, TypeOK, Life, Epochs, Before, Drained
  <2>2. During'
    BY <1>1 DEF vars, python, process, WorkerInv, During, Answer, Told
  <2>3. Resetting'
    BY <1>1 DEF vars, python, process, WorkerInv, Resetting, Cleared, Told
  <2>4. Closing' /\ Result' /\ RowsOfCall'
    BY <1>1 DEF vars, python, process, WorkerInv, Closing, Result, RowsOfCall
  <2> QED BY <2>1, <2>2, <2>3, <2>4 DEF WorkerInv
<1>2. CASE Process
  BY <1>2, PrintRowStep, OtherProcessSteps DEF Process
<1>3. CASE Python
  BY <1>3, PlainSteps, WritingSteps, ReadStep, ReadResetStep, EndingSteps DEF Python
<1>4. CASE Reap \/ Execute \/ Close
  BY <1>4, PlainSteps, WritingSteps
<1> QED BY <1>1, <1>2, <1>3, <1>4 DEF Next

LEMMA Invariant == Spec => []WorkerInv
<1> USE WorkerAssumption
<1>1. WorkerInv /\ [Next]_vars => WorkerInv'
  BY StepInv
<1> QED BY <1>1, InitInv, PTL DEF Spec

\* The type invariant of the worker, for any number of calls and resets.
THEOREM TypeCorrect == Spec => []TypeOK
<1>1. WorkerInv => TypeOK
  BY DEF WorkerInv
<1> QED BY <1>1, Invariant, PTL

\* A query runs in an empty database, and finds files of another query only as
\* the first one of a new process.
THEOREM QueriesStartClean == Spec => []StartsClean
<1>1. WorkerInv => StartsClean
  BY ServesQuery DEF StartsClean, WorkerInv, During
<1> QED BY <1>1, Invariant, PTL

-----------------------------------------------------------------------------
(* The worker implements QueryExecutor.                                     *)

Serving == pc \notin {"idle", "closing", "closed"}

LEMMA Unseen ==
  ASSUME WorkerInv, WorkerInv', printed' = printed,
         \/ Serving /\ Serving' /\ call' = call
         \/ ~Serving /\ ~Serving' /\ UNCHANGED <<verdict, output>>
  PROVE  [Abstract!Next]_Abstract!vars
<1>1. alive \in BOOLEAN /\ alive' \in BOOLEAN
  BY DEF WorkerInv, TypeOK
<1>2. CASE alive' = alive
  BY <1>2 DEF Abstract!vars, Serving
<1>3. CASE alive' # alive
  <2>1. Abstract!StartOrDie
    BY <1>1, <1>3 DEF Abstract!StartOrDie, Serving
  <2> QED BY <2>1 DEF Abstract!Next
<1> QED BY <1>2, <1>3

LEMMA Returning ==
  ASSUME WorkerInv, Serving, pc' = "idle", UNCHANGED <<printed, alive>>,
         \/ verdict' = "raise" /\ output' = Empty
         \/ /\ pc \in {"reset", "resetRead", "killPeriodic", "killReset"}
            /\ UNCHANGED <<verdict, output>>
  PROVE  Abstract!Next
<1>1. call # None /\ printed \in [Streams -> Seq(Items)] /\ output \in [Streams -> Seq(Items)]
  BY DEF WorkerInv, Epochs, Serving, TypeOK
<1>2. \/ verdict' = "raise" /\ output' = Empty
      \/ verdict' = "OK" /\ output' = printed
      \/ /\ verdict' = "CRASH" /\ ~alive
         /\ \A s \in Streams : output'[s] \in Prefixes(printed[s])
         /\ output' \in [Streams -> Seq(Items)]
      \/ verdict' = "HANG" /\ ~alive /\ output' = Empty
  BY <1>1 DEF WorkerInv, Result
<1>3. ASSUME output' \in [Streams -> Seq(Items)],
             \A s \in Streams : output'[s] \in Prefixes(printed[s])
      PROVE  /\ output' \in [Streams -> UNION {Prefixes(printed[s]) : s \in Streams}]
             /\ \A s \in Streams : IsPrefix(output'[s], printed[s])
  BY <1>1, <1>3, PrefixesArePrefixes
<1>4. Abstract!Reply
  <2> USE DEF Abstract!Reply, Serving, Abstract!None, None, Abstract!Empty, Empty
  <2>1. CASE verdict' = "raise" /\ output' = Empty
    BY <1>1, <2>1
  <2>2. CASE verdict' = "OK" /\ output' = printed
    BY <1>1, <2>2
  <2>3. CASE /\ verdict' = "CRASH" /\ ~alive
             /\ \A s \in Streams : output'[s] \in Prefixes(printed[s])
             /\ output' \in [Streams -> Seq(Items)]
    <3>1. /\ output' \in [Streams -> UNION {Prefixes(printed[s]) : s \in Streams}]
          /\ \A s \in Streams : IsPrefix(output'[s], printed[s])
      BY <1>3, <2>3
    <3>2. (IF pc' \in {"idle", "closing", "closed"} THEN output' ELSE Empty) = output'
      OBVIOUS
    <3>3. /\ \A p : Abstract!Prefixes(p) = Prefixes(p)
          /\ \A x, p : Abstract!IsPrefix(x, p) = IsPrefix(x, p)
      BY DEF Abstract!Prefixes, Prefixes, Abstract!IsPrefix, IsPrefix
    <3> QED BY <1>1, <2>3, <3>1, <3>2, <3>3
  <2>4. CASE verdict' = "HANG" /\ ~alive /\ output' = Empty
    BY <1>1, <2>4
  <2> QED BY <1>2, <2>1, <2>2, <2>3, <2>4
<1> QED BY <1>4 DEF Abstract!Next

\* The worker implements one call at a time, one reply for it, and a reply that
\* speaks of that call only.
THEOREM WorkerImplementsExecutor == Spec => ImplementsExecutor
<1>1. Init => Abstract!Init
  BY DEF Init, Abstract!Init, Abstract!None, None, Abstract!Empty, Empty
<1>2. WorkerInv /\ WorkerInv' /\ [Next]_vars => [Abstract!Next]_Abstract!vars
  <2> SUFFICES ASSUME WorkerInv, WorkerInv', [Next]_vars
               PROVE  [Abstract!Next]_Abstract!vars
    OBVIOUS
  <2>1. CASE UNCHANGED vars
    BY <2>1, Unseen DEF vars, python, process, Serving
  <2>2. CASE Execute
    <3>1. Abstract!Ask
      BY <2>2 DEF Execute, Abstract!Ask, Calls, WorkerInv, TypeOK, Abstract!None, None,
                  Abstract!Empty, Empty
    <3> QED BY <3>1 DEF Abstract!Next
  <2>3. CASE \E q \in Calls, s \in Streams : PrintRow(q, s)
    <3>1. PICK q \in Calls, s \in Streams : PrintRow(q, s)
      BY <2>3
    <3>2. pc \in {"read", "wait"} /\ q = call
      BY <3>1, PrintRowStep
    <3>3. Abstract!PrintRow(s)
      <4>1. /\ call # None /\ pc' = pc
            /\ printed' = [printed EXCEPT ![s] = Append(@, Row(call))]
            /\ UNCHANGED <<call, alive, verdict, output>>
        BY <3>1, <3>2 DEF PrintRow, python, Calls, None
      <4>2. (IF pc \in {"idle", "closing", "closed"} THEN None ELSE call) = call
        BY <3>2
      <4>3. \A q1 : Abstract!Row(q1) = Row(q1)
        BY DEF Abstract!Row, Row
      <4> QED BY <3>2, <4>1, <4>2, <4>3 DEF Abstract!PrintRow, Abstract!None, None
    <3> QED BY <3>3 DEF Abstract!Next
  <2>4. CASE \/ \E q \in Calls : WriteFile(q) \/ FinishQuery(q)
             \/ \E s \in Streams, item \in Items : PrintItem(s, item)
             \/ OpenDatabase \/ QuitShell \/ Crash
    <3>1. UNCHANGED <<pc, call, printed, verdict, output>>
      BY <2>4 DEF WriteFile, FinishQuery, PrintItem, OpenDatabase, QuitShell, Crash, python
    <3> QED BY <3>1, Unseen DEF Serving
  <2>5. CASE Reap \/ Close \/ Closed
    <3>1. /\ pc \in {"idle", "closing"} => pc' \in {"idle", "closing", "closed"}
          /\ pc \notin {"idle", "closing"} => pc' = pc
          /\ UNCHANGED <<call, printed, verdict, output>>
      BY <2>5 DEF Reap, Close, Closed, python, process
    <3> QED BY <3>1, Unseen DEF Serving
  <2>6. CASE \/ Start \/ Send \/ SendFails \/ Read \/ Timeout \/ Judge \/ Exited \/ StillThere
             \/ Killed \/ Periodic \/ SendReset \/ ReadReset \/ ResetTimeout
    <3>1. Serving /\ Serving' /\ call' = call /\ printed' = printed
      BY <2>6 DEF Start, Send, SendFails, Read, ReadUntil, Timeout, Expire, Judge, Exited,
                  StillThere, Killed, Periodic, SendReset, ReadReset, ResetTimeout, Conclude,
                  process, Serving
    <3> QED BY <3>1, Unseen
  <2>7. CASE StartFails \/ SendResetFails
    BY <2>7, Returning DEF StartFails, SendResetFails, process, Serving, WorkerInv, Result
  <2>8. CASE ResetNothing \/ PeriodicDone \/ ResetDone \/ ResetKilled
    BY <2>8, Returning DEF ResetNothing, PeriodicDone, ResetDone, ResetKilled, ClearAndReturn,
                           process, Serving
  <2> QED BY <2>1, <2>2, <2>3, <2>4, <2>5, <2>6, <2>7, <2>8 DEF Next, Process, Python
<1> QED BY <1>1, <1>2, Invariant, PTL DEF Spec, ImplementsExecutor, Abstract!Spec
-----------------------------------------------------------------------------
(* execute and close return.  What Python awaits will be there: the event   *)
(* loop can go on, the watcher has a death to report, or the shell has been *)
(* told to quit.  And only so many of these steps are left.                 *)

\* The guards of the steps that Fairness asks for.
PythonMoves ==
  \/ pc = "start"
  \/ pc = "send"
  \/ pc = "read" /\ ~BothRead
  \/ pc = "read" /\ BothRead
  \/ pc = "wait" /\ ~known
  \/ pc = "wait" /\ known
  \/ pc = "reset" /\ ~known
  \/ pc = "reset" /\ known /\ epoch % RESET_EVERY = 0
  \/ pc = "reset" /\ known /\ epoch % RESET_EVERY # 0
  \/ pc = "resetRead" /\ BothRead
  \/ pc = "resetRead" /\ ~BothRead
  \/ pc \in {"killHang", "killPeriodic", "killReset", "closing"} /\ ~known

\* The guard of the child watcher.
ReapMoves == known /\ ~alive

\* Between two calls nothing is due; within one there always is.
SomethingIsDue == pc \in {"idle", "closed"} \/ PythonMoves \/ ReapMoves \/ Handles(Quit)

\* What counts for one if it is so.
One(b) == IF b THEN 1 ELSE 0

\* The reads that are not over.
Reads == One(read["out"] = Pending) + One(read["err"] = Pending)

\* How many steps the coroutine may still take: a hang ends later than a crash.
StepsLeft ==
  CASE pc = "start" -> 12
    [] pc = "send" -> 11
    [] pc = "read" -> 8 + Reads
    [] pc = "wait" -> 7
    [] pc = "killHang" -> 6
    [] pc = "reset" -> 5
    [] pc = "resetRead" -> 2 + Reads
    [] pc \in {"killPeriodic", "killReset", "closing"} -> 1
    [] OTHER -> 0

\* With the death of the process and the watcher's report of it.
Left == 3 * StepsLeft + One(known) + One(alive)

\* Each step that Fairness asks for brings the end of the call nearer, and what
\* the shell does in between does not put it off.
ComesToAnEnd ==
  /\ Python \/ Reap \/ QuitShell => Left' < Left
  /\ ~Execute /\ ~Close => Left' =< Left

\* A process that lives while it is closed has the command to quit before it.
QuitIsDue == pc = "closing" /\ alive => stdin = <<Quit>>

\* The names differ from each other.
LEMMA QuitIsOther ==
  /\ \A q : Run(q) # Quit
  /\ \A s \in Streams : \A item : PrintTo(s, item) # Quit
  /\ Open # Quit
BY DEF Run, Quit, PrintTo, Open, Streams

\* Every step keeps it: close finds an empty stdin.
LEMMA QuitStep ==
  ASSUME WorkerInv, QuitIsDue, [Next]_vars
  PROVE  QuitIsDue'
<1>1. CASE Process
  <2>1. pc' = pc
    BY <1>1 DEF Process, PrintRow, WriteFile, FinishQuery, PrintItem, OpenDatabase, QuitShell,
                Crash, python
  <2>2. CASE pc = "closing" /\ alive /\ stdin = <<Quit>>
    <3>1. Head(stdin) = Quit
      BY <2>2
    <3>2. QuitShell \/ Crash
      BY <1>1, <3>1, QuitIsOther
         DEF Process, PrintRow, WriteFile, FinishQuery, PrintItem, OpenDatabase, Handles
    <3> QED BY <3>2 DEF QuitShell, Crash, Dies, QuitIsDue
  <2>3. CASE ~(pc = "closing" /\ alive)
    <3>1. alive' => alive
      BY <1>1 DEF Process, PrintRow, WriteFile, FinishQuery, PrintItem, OpenDatabase, QuitShell,
                  Crash, Dies
    <3> QED BY <2>1, <2>3, <3>1 DEF QuitIsDue
  <2> QED BY <2>2, <2>3 DEF QuitIsDue
<1>2. CASE Close
  <2>1. alive => stdin = << >>
    BY <1>2 DEF Close, WorkerInv, Life, Before, Drained
  <2> QED BY <1>2, <2>1 DEF Close, Write, QuitIsDue
<1>3. CASE Python \/ Execute
  <2>1. pc' # "closing"
    BY <1>3 DEF Python, Execute, Start, StartFails, Send, SendFails, Conclude, Read, ReadUntil,
                Timeout, Expire, Judge, Exited, StillThere, Killed, ResetNothing, ClearAndReturn,
                Periodic, PeriodicDone, SendReset, SendResetFails, ReadReset, ResetDone,
                ResetTimeout, ResetKilled, Closed
  <2> QED BY <2>1 DEF QuitIsDue
<1>4. CASE Reap \/ UNCHANGED vars
  BY <1>4 DEF Reap, vars, python, process, QuitIsDue
<1> QED BY <1>1, <1>2, <1>3, <1>4 DEF Next

\* No await of execute or close is for something that nobody will do, whatever
\* the shell does: the coroutine can go on, or the watcher can, or the shell can
\* quit as it was told.
THEOREM NothingIsAwaitedInVain == Spec => []SomethingIsDue
<1> USE WorkerAssumption
<1>1. Init => QuitIsDue
  BY DEF Init, QuitIsDue
<1>2. WorkerInv /\ QuitIsDue /\ [Next]_vars => QuitIsDue'
  BY QuitStep
<1>3. WorkerInv /\ QuitIsDue => SomethingIsDue
  <2> SUFFICES ASSUME WorkerInv, QuitIsDue PROVE SomethingIsDue
    OBVIOUS
  <2>1. CASE pc = "closing" /\ alive
    BY <2>1 DEF QuitIsDue, Handles, SomethingIsDue
  <2>2. CASE pc \in {"killHang", "killPeriodic", "killReset"} \/ (pc = "closing" /\ ~alive)
    BY <2>2 DEF WorkerInv, Life, SomethingIsDue, PythonMoves, ReapMoves
  <2>3. CASE pc \notin {"killHang", "killPeriodic", "killReset", "closing"}
    BY <2>3 DEF WorkerInv, TypeOK, SomethingIsDue, PythonMoves
  <2> QED BY <2>1, <2>2, <2>3
<1> QED BY <1>1, <1>2, <1>3, Invariant, PTL DEF Spec

-----------------------------------------------------------------------------
(* How far the end of a call is.                                            *)

\* The distance is bounded.
LEMMA LeftRange == TypeOK => Reads \in 0..2 /\ StepsLeft \in 0..12 /\ Left \in 0..38
<1> SUFFICES ASSUME TypeOK PROVE Reads \in 0..2 /\ StepsLeft \in 0..12 /\ Left \in 0..38
  OBVIOUS
<1>1. Reads \in 0..2
  BY DEF Reads, One
<1>2. StepsLeft \in 0..12
  BY <1>1 DEF TypeOK, StepsLeft
<1>3. One(known) \in 0..1 /\ One(alive) \in 0..1
  BY DEF One
<1> QED BY <1>1, <1>2, <1>3 DEF Left

\* A read that is over is not due any more.
LEMMA ReadsFall ==
  ASSUME TypeOK, NEW s \in Streams, NEW sentinel, ReadUntil(s, sentinel)
  PROVE  Reads' < Reads
<1> DEFINE at == PlaceOf(sentinel, pipe[s])
           before == IF at = 0 THEN pipe[s] ELSE SubSeq(pipe[s], 1, at - 1)
           found == at # 0 /\ Len(before) =< LIMIT
           result == [rows |-> before, found |-> IF found THEN "sentinel" ELSE "no"]
<1>1. read' = [read EXCEPT ![s] = result] /\ read[s] = Pending
  BY DEF ReadUntil
<1> HIDE DEF before, found
<1>2. result # Pending
  BY DEF Pending
<1> HIDE DEF result
<1>3. DOMAIN read = Streams
  BY DEF TypeOK
<1>4. CASE s = "out"
  BY <1>1, <1>2, <1>3, <1>4 DEF Reads, One, Streams
<1>5. CASE s = "err"
  BY <1>1, <1>2, <1>3, <1>5 DEF Reads, One, Streams
<1> QED BY <1>4, <1>5 DEF Streams

\* Nearer by a step, whatever became of the process.
LEMMA Nearer ==
  ASSUME NEW m \in Nat, NEW n \in Nat, m < n, StepsLeft = n, StepsLeft' = m
  PROVE  Left' < Left /\ Left' =< Left
<1>1. One(known) \in 0..1 /\ One(alive) \in 0..1 /\ One(known') \in 0..1 /\ One(alive') \in 0..1
  BY DEF One
<1>2. 3 * m + 3 =< 3 * n
  OBVIOUS
<1> QED BY <1>1, <1>2 DEF Left

\* Every step of the coroutine.
LEMMA PythonNearer ==
  ASSUME TypeOK, Python
  PROVE  Left' < Left /\ Left' =< Left
<1>1. Reads \in 0..2 /\ Reads' \in 0..2
  BY DEF Reads, One
<1> SUFFICES \E m, n \in Nat : m < n /\ StepsLeft = n /\ StepsLeft' = m
  BY Nearer
<1>2. CASE Start \/ StartFails \/ Send \/ SendFails
  <2>1. \/ pc = "start" /\ pc' \in {"send", "idle"}
        \/ pc = "send" /\ pc' \in {"read", "reset"}
    BY <1>2 DEF Start, StartFails, Send, SendFails, Conclude
  <2> QED BY <1>1, <2>1 DEF StepsLeft
<1>3. CASE Read \/ ReadReset
  <2>1. Reads' < Reads
    BY <1>3, ReadsFall DEF Read, ReadReset
  <2>2. pc \in {"read", "resetRead"} /\ pc' = pc
    BY <1>3 DEF Read, ReadReset, ReadUntil
  <2> QED BY <1>1, <2>1, <2>2 DEF StepsLeft
<1>4. CASE Timeout \/ Judge \/ Exited \/ StillThere \/ Killed
  <2>1. \/ pc = "read" /\ pc' \in {"killHang", "wait", "reset"}
        \/ pc = "wait" /\ pc' \in {"killHang", "reset"}
        \/ pc = "killHang" /\ pc' = "reset"
    BY <1>4 DEF Timeout, Expire, Judge, Exited, StillThere, Killed, Conclude
  <2> QED BY <1>1, <2>1 DEF StepsLeft
<1>5. CASE ResetNothing \/ Periodic \/ PeriodicDone \/ SendReset \/ SendResetFails
  <2>1. \/ pc = "reset" /\ pc' \in {"idle", "killPeriodic", "resetRead"}
        \/ pc = "killPeriodic" /\ pc' = "idle"
    BY <1>5 DEF ResetNothing, ClearAndReturn, Periodic, PeriodicDone, SendReset, SendResetFails
  <2> QED BY <1>1, <2>1 DEF StepsLeft
<1>6. CASE ResetDone \/ ResetTimeout \/ ResetKilled \/ Closed
  <2>1. \/ pc = "resetRead" /\ pc' \in {"idle", "killReset"}
        \/ pc = "killReset" /\ pc' = "idle"
        \/ pc = "closing" /\ pc' = "closed"
    BY <1>6 DEF ResetDone, ResetTimeout, Expire, ResetKilled, ClearAndReturn, Closed
  <2> QED BY <1>1, <2>1 DEF StepsLeft
<1> QED BY <1>2, <1>3, <1>4, <1>5, <1>6 DEF Python

\* Every step of the shell and of the watcher.
LEMMA ProcessNearer ==
  ASSUME TypeOK, Process \/ Reap \/ UNCHANGED vars
  PROVE  /\ Left' =< Left
         /\ Reap \/ QuitShell => Left' < Left
<1>1. UNCHANGED python
  BY DEF Process, PrintRow, WriteFile, FinishQuery, PrintItem, OpenDatabase, QuitShell, Crash,
         Reap, vars
<1>2. StepsLeft' = StepsLeft /\ StepsLeft \in 0..12
  BY <1>1, LeftRange DEF python, StepsLeft, Reads
<1>3. /\ (known' => known) /\ (alive' => alive)
      /\ known \in BOOLEAN /\ alive \in BOOLEAN
      /\ Reap => known /\ ~known'
      /\ QuitShell => alive /\ ~alive'
  BY DEF Process, PrintRow, WriteFile, FinishQuery, PrintItem, OpenDatabase, QuitShell, Crash,
         Dies, Handles, Reap, vars, process, TypeOK
<1> QED BY <1>2, <1>3 DEF Left, One

\* A call of execute, or close, is over after at most 38 steps of Python, the
\* watcher and the shell's quitting, with any others between them: each of them
\* brings the end nearer, and nothing puts it off.
THEOREM CallsComeToAnEnd == Spec => [](Left \in 0..38) /\ [][ComesToAnEnd]_vars
<1>1. TypeOK => Left \in 0..38
  BY LeftRange
<1>2. TypeOK /\ [Next]_vars => [ComesToAnEnd]_vars
  <2> SUFFICES ASSUME TypeOK, Next \/ UNCHANGED vars PROVE ComesToAnEnd
    OBVIOUS
  <2>1. CASE Python
    BY <2>1, PythonNearer DEF ComesToAnEnd
  <2>2. CASE (Process \/ Reap \/ UNCHANGED vars) /\ ~Python
    BY <2>2, ProcessNearer DEF ComesToAnEnd
  <2>3. CASE (Execute \/ Close) /\ ~Python
    <3>1. ~Reap /\ ~QuitShell
      BY <2>3 DEF Execute, Close, Reap, QuitShell, Dies, Handles
    <3> QED BY <2>3, <3>1 DEF ComesToAnEnd
  <2> QED BY <2>1, <2>2, <2>3 DEF Next
<1> QED BY <1>1, <1>2, TypeCorrect, PTL DEF Spec
=============================================================================
