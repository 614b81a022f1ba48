---------------------------- MODULE Oracle_proofs ----------------------------
(***************************************************************************)
(* Proofs about Oracle for any workers, captures and number of runs.        *)
(***************************************************************************)
EXTENDS Oracle, TLAPS

-----------------------------------------------------------------------------
(* The inductive invariant.                                                 *)

\* Reports of this run have smaller numbers than the next one.
NumbersGrow ==
  \A r \in Made : r.run =< run /\ (r.run = run => r.number < total_bugs)

\* What was reported in this run was seen.
SeenIsRecorded ==
  \A r \in Made : r.run = run =>
    /\ Signature(r.capture) \in seen_signatures
    /\ r.type = "LOGIC_BUG" => FormSignature(r.capture) \in seen_signatures

\* A worker judges what was seen, was not reported and no other worker judges.
JudgedAlone ==
  \A w \in Workers : judging[w] # None =>
    /\ judging[w].kind \notin {"MEMSAFETY", "HANG"}
    /\ Signature(judging[w]) \in seen_signatures
    /\ \A r \in Made : r.run = run => Signature(r.capture) # Signature(judging[w])
    /\ \A v \in Workers \ {w} :
         judging[v] # None => Signature(judging[v]) # Signature(judging[w])

\* The form of a query is seen when it hung or a logic bug of it is reported.
FormsAreReported ==
  \A sig \in seen_signatures : sig[2] \in Forms /\ sig[1] # Timeout =>
    \E r \in Made : r.run = run /\ r.type = "LOGIC_BUG" /\ FormSignature(r.capture) = sig

ReportsInv ==
  /\ OneReportPerBug
  /\ OnlyEarlierRunsCollide
  /\ NumbersGrow
  /\ SeenIsRecorded
  /\ FormsAreReported
  /\ NoBugForgotten

OracleInv == TypeOK /\ ReportsInv /\ JudgedAlone

-----------------------------------------------------------------------------
(* Signatures.                                                              *)

\* A query and a form never have the same signature.
LEMMA SignatureTypes ==
  ASSUME NEW c \in Captures
  PROVE  /\ FormSignature(c) \in Stderrs \X Forms
         /\ c.kind = "HANG" => Signature(c) = FormSignature(c) /\ Signature(c)[1] = Timeout
         /\ c.kind # "HANG" => /\ Signature(c) \in Stderrs \X Queries
                               /\ Signature(c)[2] \notin Forms
                               /\ FormSignature(c)[1] # Timeout
<1>1. c.query \in Queries /\ Form[c.query] \in Forms /\ c.stderr \in Stderrs
      /\ (c.kind = "HANG" <=> c.stderr = Timeout)
  BY CaptureAssumption, FormAssumption DEF Stderrs
<1> QED BY <1>1, FormAssumption DEF FormSignature, Signature

-----------------------------------------------------------------------------
(* Reporting a bug.                                                         *)

\* A bug whose signature was not reported in this run is found.
LEMMA ReportStep ==
  ASSUME OracleInv, NEW c \in Captures, NEW bug_type \in BugTypes, NEW seen,
         Report(c, bug_type, seen),
         UNCHANGED run,
         c.kind # "HANG",
         seen = seen_signatures \/ seen = seen_signatures \cup {Signature(c)},
         Signature(c) \in seen,
         \A r \in Made : r.run = run => Signature(r.capture) # Signature(c)
  PROVE  /\ ReportsInv'
         /\ seen \subseteq seen_signatures'
         /\ seen_signatures' \subseteq Stderrs \X (Queries \cup Forms)
         /\ total_bugs' \in Nat
         /\ files' \subseteq Reports /\ dropped' \subseteq Reports
         /\ found' \subseteq Captures \X BugTypes
         /\ \A r \in Made' : r \in Made \/ r.capture = c
<1> DEFINE report == [number |-> total_bugs, type |-> bug_type, capture |-> c, run |-> run]
           exists == \E f \in files : f.number = total_bugs /\ f.type = bug_type
<1>1. /\ FormSignature(c) \in Stderrs \X Forms
      /\ Signature(c) \in Stderrs \X Queries /\ Signature(c)[2] \notin Forms
      /\ FormSignature(c)[1] # Timeout
  BY SignatureTypes
<1>2. /\ report \in Reports /\ report.number = total_bugs /\ report.type = bug_type
      /\ report.capture = c /\ report.run = run
  BY DEF OracleInv, TypeOK, Reports
<1>3. /\ found' = found \cup {<<c, bug_type>>}
      /\ <<c, bug_type>>[1] = c /\ <<c, bug_type>>[2] = bug_type
      /\ found' \subseteq Captures \X BugTypes
  BY DEF Report, OracleInv, TypeOK
<1>4. /\ seen \subseteq Stderrs \X (Queries \cup Forms)
      /\ seen_signatures \subseteq seen
      /\ \A sig \in seen : sig[2] \in Forms => sig \in seen_signatures
  BY <1>1 DEF OracleInv, TypeOK
<1>5. CASE bug_type = "LOGIC_BUG" /\ FormSignature(c) \in seen
  <2>1. /\ seen_signatures' = seen
        /\ UNCHANGED <<total_bugs, files, dropped>>
    BY <1>5 DEF Report
  <2>2. Made' = Made /\ run' = run
    BY <2>1 DEF Made
  <2>3. FormSignature(c) \in seen_signatures /\ FormSignature(c)[2] \in Forms
    BY <1>1, <1>4, <1>5
  <2>4. NoBugForgotten'
    <3>1. PICK r \in Made : r.run = run /\ r.type = "LOGIC_BUG"
                            /\ FormSignature(r.capture) = FormSignature(c)
      BY <1>1, <2>3 DEF OracleInv, ReportsInv, FormsAreReported
    <3> QED BY <1>3, <1>5, <2>2, <3>1 DEF OracleInv, ReportsInv, NoBugForgotten
  <2>5. SeenIsRecorded' /\ FormsAreReported'
    BY <1>4, <2>1, <2>2 DEF OracleInv, ReportsInv, SeenIsRecorded, FormsAreReported
  <2>6. OneReportPerBug' /\ OnlyEarlierRunsCollide' /\ NumbersGrow'
    BY <2>1, <2>2
       DEF OracleInv, ReportsInv, OneReportPerBug, OnlyEarlierRunsCollide, NumbersGrow
  <2> QED BY <1>3, <1>4, <2>1, <2>2, <2>4, <2>5, <2>6 DEF ReportsInv, OracleInv, TypeOK
<1>6. CASE ~(bug_type = "LOGIC_BUG" /\ FormSignature(c) \in seen)
  <2>1. /\ seen_signatures' = seen \cup (IF bug_type = "LOGIC_BUG" THEN {FormSignature(c)} ELSE {})
        /\ total_bugs' = total_bugs + 1
        /\ files' = IF exists THEN files ELSE files \cup {report}
        /\ dropped' = IF exists THEN dropped \cup {report} ELSE dropped
    BY <1>6 DEF Report, Save
  <2> HIDE DEF report, exists
  <2>2. Made' = Made \cup {report} /\ run' = run /\ files \subseteq files'
    BY <2>1 DEF Made
  <2>3. /\ seen \subseteq seen_signatures'
        /\ seen_signatures' \subseteq Stderrs \X (Queries \cup Forms)
        /\ total_bugs \in Nat /\ total_bugs' \in Nat
        /\ files' \subseteq Reports /\ dropped' \subseteq Reports
        /\ Made \subseteq Reports /\ run \in Nat
    BY <1>1, <1>2, <1>4, <2>1, RunsAssumption DEF OracleInv, TypeOK, Made
  <2>4. \A r \in Made : r.number \in Nat /\ r.run \in Nat /\ r.run =< run
                        /\ (r.run = run => r.number < total_bugs)
    BY <2>3 DEF OracleInv, ReportsInv, NumbersGrow, Reports
  <2>5. OneReportPerBug'
    <3>1. \A r \in Made : r.run = run /\ r.type = "LOGIC_BUG" /\ bug_type = "LOGIC_BUG" =>
            FormSignature(r.capture) # FormSignature(c)
      BY <1>4, <1>6 DEF OracleInv, ReportsInv, SeenIsRecorded
    <3> QED BY <1>2, <2>2, <3>1 DEF OracleInv, ReportsInv, OneReportPerBug, Signature, FormSignature
  <2>6. NumbersGrow'
    BY <1>2, <2>1, <2>2, <2>3, <2>4 DEF NumbersGrow
  <2>7. OnlyEarlierRunsCollide'
    <3>1. \A r, s \in Made' : r # s /\ r.run = s.run => r.number # s.number
      BY <1>2, <2>2, <2>4 DEF OracleInv, ReportsInv, OnlyEarlierRunsCollide
    <3>2. \A d \in dropped : \E f \in files : f.number = d.number /\ f.type = d.type /\ f.run < d.run
      BY DEF OracleInv, ReportsInv, OnlyEarlierRunsCollide
    <3>3. ASSUME exists
          PROVE  \E f \in files : f.number = report.number /\ f.type = report.type
                                  /\ f.run < report.run
      <4>1. PICK f \in files : f.number = total_bugs /\ f.type = bug_type
        BY <3>3 DEF exists
      <4>2. f.run < run
        BY <4>1, <2>3, <2>4 DEF Made
      <4> QED BY <1>2, <4>1, <4>2
    <3> QED BY <2>1, <2>2, <3>1, <3>2, <3>3 DEF OnlyEarlierRunsCollide
  <2>8. SeenIsRecorded'
    BY <1>2, <1>4, <2>1, <2>2 DEF OracleInv, ReportsInv, SeenIsRecorded, Signature, FormSignature
  <2>9. FormsAreReported'
    <3> SUFFICES ASSUME NEW sig \in seen_signatures', sig[2] \in Forms, sig[1] # Timeout
                 PROVE  \E r \in Made' : r.run = run /\ r.type = "LOGIC_BUG"
                                         /\ FormSignature(r.capture) = sig
      BY <2>2 DEF FormsAreReported, FormSignature
    <3>1. CASE sig \in seen
      BY <1>4, <2>2, <3>1 DEF OracleInv, ReportsInv, FormsAreReported
    <3>2. CASE sig \notin seen
      BY <1>2, <2>1, <2>2, <3>2
    <3> QED BY <3>1, <3>2
  <2>10. NoBugForgotten'
    <3>1. \A bug \in found : \E r \in Made' :
            /\ r.run = run /\ r.type = bug[2]
            /\ \/ r.capture = bug[1]
               \/ r.type = "LOGIC_BUG" /\ FormSignature(r.capture) = FormSignature(bug[1])
      BY <2>2 DEF OracleInv, ReportsInv, NoBugForgotten
    <3> QED BY <1>2, <1>3, <2>2, <3>1 DEF NoBugForgotten, FormSignature
  <2> QED BY <1>2, <1>3, <2>2, <2>3, <2>5, <2>6, <2>7, <2>8, <2>9, <2>10 DEF ReportsInv
<1> QED BY <1>5, <1>6

-----------------------------------------------------------------------------
(* The steps.                                                               *)

LEMMA OracleInit == Init => OracleInv
<1> SUFFICES ASSUME Init PROVE OracleInv
  OBVIOUS
<1>1. TypeOK
  BY RunsAssumption DEF Init, TypeOK
<1>2. Made = {}
  BY DEF Init, Made
<1> QED BY <1>1, <1>2
        DEF Init, OracleInv, ReportsInv, OneReportPerBug, OnlyEarlierRunsCollide, NumbersGrow,
            SeenIsRecorded, JudgedAlone, FormsAreReported, NoBugForgotten

LEMMA TakeStep ==
  ASSUME OracleInv, NEW w \in Workers, NEW c \in Captures, Take(w, c)
  PROVE  OracleInv'
<1> DEFINE seen == seen_signatures \cup {Signature(c)}
<1>1. run' = run /\ judging[w] = None
  BY DEF Take
<1>2. CASE UNCHANGED <<judging, seen_signatures, total_bugs, files, found, dropped>>
  BY <1>1, <1>2
     DEF OracleInv, TypeOK, ReportsInv, JudgedAlone, OneReportPerBug, OnlyEarlierRunsCollide,
         NumbersGrow, SeenIsRecorded, FormsAreReported, NoBugForgotten, Made
<1>3. CASE Signature(c) \notin seen_signatures
  <2>1. \A r \in Made : r.run = run => Signature(r.capture) # Signature(c)
    BY <1>3 DEF OracleInv, ReportsInv, SeenIsRecorded
  <2>2. \A v \in Workers : judging[v] # None => Signature(judging[v]) # Signature(c)
    BY <1>3 DEF OracleInv, JudgedAlone
  <2>3. CASE c.kind = "MEMSAFETY" /\ Report(c, "MEMSAFETY", seen) /\ UNCHANGED judging
    <3>1. /\ ReportsInv'
          /\ seen \subseteq seen_signatures'
          /\ seen_signatures' \subseteq Stderrs \X (Queries \cup Forms)
          /\ total_bugs' \in Nat
          /\ files' \subseteq Reports /\ dropped' \subseteq Reports
          /\ found' \subseteq Captures \X BugTypes
          /\ \A r \in Made' : r \in Made \/ r.capture = c
      BY <1>1, <2>1, <2>3, ReportStep DEF BugTypes
    <3>2. TypeOK'
      BY <1>1, <2>3, <3>1 DEF OracleInv, TypeOK
    <3>3. JudgedAlone'
      BY <1>1, <2>2, <2>3, <3>1 DEF OracleInv, JudgedAlone, Signature, FormSignature
    <3> QED BY <3>1, <3>2, <3>3 DEF OracleInv
  <2>4. CASE /\ c.kind # "MEMSAFETY"
             /\ seen_signatures' = seen
             /\ \/ judging' = judging
                \/ c.kind # "HANG" /\ judging' = [judging EXCEPT ![w] = c]
             /\ UNCHANGED <<total_bugs, files, found, dropped>>
    <3>1. Made' = Made
      BY <2>4 DEF Made
    <3>2. TypeOK' /\ Signature(c) \in Stderrs \X (Queries \cup Forms)
      BY <1>1, <2>4, SignatureTypes DEF OracleInv, TypeOK
    <3>3. JudgedAlone'
      <4> SUFFICES ASSUME NEW u \in Workers, judging'[u] # None
                   PROVE  /\ judging'[u].kind \notin {"MEMSAFETY", "HANG"}
                          /\ Signature(judging'[u]) \in seen_signatures'
                          /\ \A r \in Made : r.run = run =>
                               Signature(r.capture) # Signature(judging'[u])
                          /\ \A v \in Workers \ {u} : judging'[v] # None =>
                               Signature(judging'[v]) # Signature(judging'[u])
        BY <1>1, <3>1 DEF JudgedAlone, Signature, FormSignature
      <4>1. \A v \in Workers : judging'[v] = judging[v] \/ (v = w /\ judging'[v] = c)
        BY <2>4 DEF OracleInv, TypeOK
      <4>2. CASE judging'[u] = judging[u]
        BY <2>2, <2>4, <4>1, <4>2 DEF OracleInv, JudgedAlone
      <4>3. CASE u = w /\ judging'[u] = c
        <5>1. c.kind \notin {"MEMSAFETY", "HANG"}
          BY <1>1, <2>4, <4>3, RunsAssumption
        <5> QED BY <2>1, <2>2, <2>4, <4>1, <4>3, <5>1
      <4> QED BY <4>1, <4>2, <4>3
    <3>4. FormsAreReported'
      <4>1. ~(Signature(c)[2] \in Forms /\ Signature(c)[1] # Timeout)
        <5>1. CASE c.kind = "HANG"
          BY <5>1, SignatureTypes
        <5>2. CASE c.kind # "HANG"
          BY <5>2, SignatureTypes
        <5> QED BY <5>1, <5>2
      <4> SUFFICES ASSUME NEW sig \in seen_signatures, sig[2] \in Forms, sig[1] # Timeout
                   PROVE  \E r \in Made : r.run = run /\ r.type = "LOGIC_BUG"
                                          /\ FormSignature(r.capture) = sig
        BY <1>1, <2>4, <3>1, <4>1 DEF FormsAreReported, FormSignature
      <4> QED BY DEF OracleInv, ReportsInv, FormsAreReported
    <3>5. ReportsInv'
      BY <1>1, <2>4, <3>1, <3>4
         DEF OracleInv, ReportsInv, OneReportPerBug, OnlyEarlierRunsCollide, NumbersGrow,
             SeenIsRecorded, NoBugForgotten, Signature, FormSignature
    <3> QED BY <3>2, <3>3, <3>5 DEF OracleInv
  <2> QED BY <1>3, <2>3, <2>4 DEF Take
<1> QED BY <1>2, <1>3 DEF Take

LEMMA JudgeStep ==
  ASSUME OracleInv, NEW w \in Workers, Judge(w) \/ Raise(w)
  PROVE  OracleInv'
<1> DEFINE c == judging[w]
<1>1. /\ run' = run /\ c # None /\ c \in Captures
      /\ judging' = [judging EXCEPT ![w] = None]
  BY DEF Judge, Raise, OracleInv, TypeOK
<1>2. /\ c.kind \in {"UNILATERAL", "ERROR", "OK"}
      /\ Signature(c) \in seen_signatures
      /\ \A r \in Made : r.run = run => Signature(r.capture) # Signature(c)
      /\ \A v \in Workers \ {w} : judging[v] # None => Signature(judging[v]) # Signature(c)
  BY <1>1, CaptureAssumption DEF OracleInv, JudgedAlone, Kinds
<1>3. \A v \in Workers : judging'[v] = None \/ (v # w /\ judging'[v] = judging[v])
  BY <1>1 DEF OracleInv, TypeOK
<1>4. CASE UNCHANGED <<seen_signatures, total_bugs, files, found, dropped>>
  <2>1. Made' = Made
    BY <1>4 DEF Made
  <2>2. JudgedAlone'
    <3> SUFFICES ASSUME NEW u \in Workers, judging'[u] # None
                 PROVE  /\ judging'[u].kind \notin {"MEMSAFETY", "HANG"}
                        /\ Signature(judging'[u]) \in seen_signatures
                        /\ \A r \in Made : r.run = run =>
                             Signature(r.capture) # Signature(judging'[u])
                        /\ \A v \in Workers \ {u} : judging'[v] # None =>
                             Signature(judging'[v]) # Signature(judging'[u])
      BY <1>1, <1>4, <2>1 DEF JudgedAlone, Signature, FormSignature
    <3> QED BY <1>3 DEF OracleInv, JudgedAlone
  <2>3. TypeOK'
    BY <1>1, <1>4 DEF OracleInv, TypeOK
  <2> QED BY <1>1, <1>4, <2>1, <2>2, <2>3
          DEF OracleInv, ReportsInv, OneReportPerBug, OnlyEarlierRunsCollide, NumbersGrow,
              SeenIsRecorded, FormsAreReported, NoBugForgotten, Signature, FormSignature
<1>5. CASE \E bug_type \in BugTypes : Report(c, bug_type, seen_signatures)
  <2> HIDE DEF c
  <2>1. /\ ReportsInv'
        /\ seen_signatures \subseteq seen_signatures'
        /\ seen_signatures' \subseteq Stderrs \X (Queries \cup Forms)
        /\ total_bugs' \in Nat
        /\ files' \subseteq Reports /\ dropped' \subseteq Reports
        /\ found' \subseteq Captures \X BugTypes
        /\ \A r \in Made' : r \in Made \/ r.capture = c
    BY <1>1, <1>2, <1>5, ReportStep
  <2>2. TypeOK'
    BY <1>1, <2>1 DEF OracleInv, TypeOK
  <2>3. JudgedAlone'
    <3> SUFFICES ASSUME NEW u \in Workers, judging'[u] # None
                 PROVE  /\ judging'[u].kind \notin {"MEMSAFETY", "HANG"}
                        /\ Signature(judging'[u]) \in seen_signatures'
                        /\ \A r \in Made' : r.run = run =>
                             Signature(r.capture) # Signature(judging'[u])
                        /\ \A v \in Workers \ {u} : judging'[v] # None =>
                             Signature(judging'[v]) # Signature(judging'[u])
      BY <1>1 DEF JudgedAlone, Signature, FormSignature
    <3>1. u # w /\ judging'[u] = judging[u] /\ judging[u] # None
      BY <1>3
    <3> QED BY <1>2, <1>3, <2>1, <3>1 DEF OracleInv, JudgedAlone
  <2> QED BY <2>1, <2>2, <2>3 DEF OracleInv
<1>6. Judge(w) => \/ UNCHANGED <<seen_signatures, total_bugs, files, found, dropped>>
                  \/ \E bug_type \in BugTypes : Report(c, bug_type, seen_signatures)
  <2>1. Verdicts(c) \subseteq {None} \cup BugTypes
    BY <1>2 DEF Verdicts, BugTypes
  <2> QED BY <2>1 DEF Judge
<1> QED BY <1>4, <1>5, <1>6 DEF Raise

LEMMA RerunStep ==
  ASSUME OracleInv, Rerun
  PROVE  OracleInv'
<1>1. /\ run' = run + 1 /\ Made' = Made /\ run \in Nat /\ Made \subseteq Reports
      /\ judging' = [w \in Workers |-> None]
      /\ seen_signatures' = {} /\ total_bugs' = 0 /\ found' = {}
      /\ UNCHANGED <<files, dropped>>
  BY RunsAssumption DEF Rerun, Made, OracleInv, TypeOK
<1>2. \A r \in Made : r.run \in Nat /\ r.run =< run /\ r.run # run'
  BY <1>1 DEF OracleInv, ReportsInv, NumbersGrow, Reports
<1>3. TypeOK'
  BY <1>1, RunsAssumption DEF OracleInv, TypeOK, Rerun
<1>4. NumbersGrow' /\ SeenIsRecorded' /\ FormsAreReported' /\ NoBugForgotten' /\ JudgedAlone'
  BY <1>1, <1>2
     DEF NumbersGrow, SeenIsRecorded, FormsAreReported, NoBugForgotten, JudgedAlone
<1> QED BY <1>1, <1>3, <1>4
        DEF OracleInv, ReportsInv, OneReportPerBug, OnlyEarlierRunsCollide, Signature,
            FormSignature

LEMMA OracleInvariant == Spec => []OracleInv
<1>1. OracleInv /\ [Next]_vars => OracleInv'
  <2> SUFFICES ASSUME OracleInv, [Next]_vars PROVE OracleInv'
    OBVIOUS
  <2>1. CASE \E w \in Workers, c \in Captures : Take(w, c)
    BY <2>1, TakeStep
  <2>2. CASE \E w \in Workers : Judge(w) \/ Raise(w)
    BY <2>2, JudgeStep
  <2>3. CASE Rerun
    BY <2>3, RerunStep
  <2>4. CASE UNCHANGED vars
    <3>1. Made' = Made /\ UNCHANGED vars
      BY <2>4 DEF vars, Made
    <3>2. TypeOK' /\ JudgedAlone'
      BY <3>1 DEF vars, OracleInv, TypeOK, JudgedAlone, Signature, FormSignature
    <3>3. ReportsInv'
      BY <3>1
         DEF vars, OracleInv, ReportsInv, OneReportPerBug, OnlyEarlierRunsCollide, NumbersGrow,
             SeenIsRecorded, FormsAreReported, NoBugForgotten, Signature, FormSignature
    <3> QED BY <3>2, <3>3 DEF OracleInv
  <2> QED BY <2>1, <2>2, <2>3, <2>4 DEF Next
<1> QED BY <1>1, OracleInit, PTL DEF Spec

-----------------------------------------------------------------------------
(* The theorems.                                                            *)

\* Signatures, reports and numbers keep their types.
THEOREM TypeCorrect == Spec => []TypeOK
<1>1. OracleInv => TypeOK
  BY DEF OracleInv
<1> QED BY <1>1, OracleInvariant, PTL

\* However many oracles await their reference runs, no bug of a run is reported
\* twice.
THEOREM NoDoubleReport == Spec => []OneReportPerBug
<1>1. OracleInv => OneReportPerBug
  BY DEF OracleInv, ReportsInv
<1> QED BY <1>1, OracleInvariant, PTL

\* A report's file can only exist from an earlier run of the program.
THEOREM NamesAreFreshInARun == Spec => []OnlyEarlierRunsCollide
<1>1. OracleInv => OnlyEarlierRunsCollide
  BY DEF OracleInv, ReportsInv
<1> QED BY <1>1, OracleInvariant, PTL

\* The deduplication by form forgets no bug but logic bugs of a reported form.
THEOREM FoundIsReported == Spec => []NoBugForgotten
<1>1. OracleInv => NoBugForgotten
  BY DEF OracleInv, ReportsInv
<1> QED BY <1>1, OracleInvariant, PTL
=============================================================================
