---------------------------- MODULE ReportProofs ----------------------------
(***************************************************************************)
(* The report handler, for any set of threads, any list of nonwarnings,    *)
(* any number of reports and any width of the counters that holds it: the  *)
(* verdict of the summary survives every race; messages are mixed, and the *)
(* numbers of the summary wrong, only when two threads have been in the    *)
(* handler at once.                                                        *)
(***************************************************************************)
EXTENDS Report, SequenceTheorems, SumProofs, TLAPS

\* A severity has been reported.
Seen(s) == \E p \in Reports : p.severity = s /\ reported[p] > 0

\* The types that the arguments below need.
CountTypes ==
  /\ count \in [Severities -> Nat]
  /\ reported \in [Reports -> Nat]
  /\ step \in [Reporters -> Steps]
  /\ report \in [Reporters -> Reports]
  /\ loaded = [r \in Reporters |-> loaded[r]]
  /\ \A r \in Reporters :
       step[r] = "count" => /\ loaded[r].counter = report[r].severity
                            /\ loaded[r].value \in Nat

\* A lost increment leaves a counter positive, since what is written is always
\* one more than a natural number: it is zero only before the first report.
CountInv ==
  /\ CountTypes
  /\ \A s \in Severities : count[s] > 0 <=> Seen(s)
  /\ summary.called =>
       (summary.success <=> count["error"] + count["fatal"] = 0)

\* Until two threads meet in the handler, the stream is that of the one thread
\* that is in it.
Alone ==
  ~overlapped =>
    /\ \A q, r \in Reporters :
         q # r => step[q] = "idle" \/ step[r] = "idle"
    /\ \A r \in Reporters :
         /\ step[r] = "prefix" => stream = <<>>
         /\ step[r] = "text" => stream = <<Prefix(r)>>
         /\ step[r] = "take" => stream = <<Prefix(r), Text(r)>>
         /\ step[r] \in {"classify", "note", "show"}
              => message[r] = <<Prefix(r), Text(r)>>

StreamTypes ==
  /\ step \in [Reporters -> Steps]
  /\ report \in [Reporters -> Reports]
  /\ DOMAIN message = Reporters
  /\ overlapped \in BOOLEAN

StreamInv == StreamTypes /\ Alone

----------------------------------------------------------------------------
(* The counters.                                                           *)

\* Counting a report makes its counter positive, and its severity seen.
LEMMA CountReportInv ==
  ASSUME CountInv, NEW r \in Reporters, CountReport(r)
  PROVE  CountInv'
<1> USE DEF CountInv, CountTypes, CountReport, Steps
<1> DEFINE s == report[r].severity
<1>1. /\ report[r] \in Reports /\ s \in Severities
      /\ loaded[r].counter = s /\ loaded[r].value \in Nat
  BY DEF Reports, Severities
<1>2. /\ count' = [count EXCEPT ![s] = loaded[r].value + 1]
      /\ reported' = [reported EXCEPT ![report[r]] = @ + 1]
      /\ step' = [step EXCEPT ![r] = "clear"]
      /\ UNCHANGED <<report, loaded, summary>>
  BY <1>1
<1>3. CountTypes'
  BY <1>1, <1>2
<1>4. count'[s] > 0 /\ reported'[report[r]] > 0
  BY <1>1, <1>2
<1>5. ASSUME NEW t \in Severities PROVE count'[t] > 0 <=> Seen(t)'
  <2>1. CASE t = s
    BY <1>1, <1>4, <2>1 DEF Seen
  <2>2. CASE t # s
    <3>1. count'[t] = count[t]
      BY <1>1, <1>2, <2>2
    <3>2. \A p \in Reports : p.severity = t => reported'[p] = reported[p]
      BY <1>1, <1>2, <2>2
    <3> QED BY <3>1, <3>2 DEF Seen
  <2> QED BY <2>1, <2>2
<1>6. ~summary'.called
  BY <1>2 DEF Running
<1> QED BY <1>3, <1>5, <1>6

\* So does every other step preserve what the counters say.
LEMMA OtherCountInv ==
  ASSUME CountInv, NEW r \in Reporters,
         ReporterStep(r) \/ UNCHANGED vars, ~ CountReport(r)
  PROVE  CountInv'
<1> USE DEF CountInv, CountTypes, Seen, Steps
<1>1. CASE StartReport(r)
  <2>1. PICK p \in Reports :
          /\ report' = [report EXCEPT ![r] = p]
          /\ loaded' = [loaded EXCEPT ![r] = [counter |-> p.severity,
                                           value |-> count[p.severity]]]
    BY <1>1 DEF StartReport
  <2>2. p.severity \in Severities
    BY <2>1 DEF Reports, Severities
  <2>3. CountTypes'
    BY <1>1, <2>1, <2>2 DEF StartReport
  <2> QED BY <1>1, <2>3 DEF StartReport
<1>2. CASE ClearStream(r) \/ WritePrefix(r) \/ WriteText(r) \/ TakeMessage(r)
  BY <1>2 DEF ClearStream, WritePrefix, WriteText, TakeMessage
<1>3. CASE CountNote(r)
  BY <1>3 DEF CountNote
<1>4. CASE Return(r)
  BY <1>4 DEF Return, NoReport, NoLoad, Reports, Severities
<1>5. CASE Summarize(r)
  <2>1. summary'.success <=> count["error"] + count["fatal"] = 0
    BY <1>5 DEF Summarize, Summary
  <2> QED BY <1>5, <2>1 DEF Summarize
<1>6. CASE Classify(r)
  BY <1>6 DEF Classify
<1>7. CASE UNCHANGED vars
  BY <1>7 DEF vars
<1> QED BY <1>1, <1>2, <1>3, <1>4, <1>5, <1>6, <1>7 DEF ReporterStep

\* The counters are right about what has been reported at all.
LEMMA CountInvariant == Spec => []CountInv
<1>1. Init => CountInv
  BY DEF Init, CountInv, CountTypes, Seen, NoReport, NoLoad, NoSummary,
         Reports, Severities, Steps
<1>2. CountInv /\ [Next]_vars => CountInv'
  <2>1. CountInv /\ UNCHANGED vars => CountInv'
    BY DEF CountInv, CountTypes, Seen, vars
  <2>2. ASSUME CountInv, NEW r \in Reporters, ReporterStep(r)
        PROVE  CountInv'
    BY <2>2, CountReportInv, OtherCountInv
  <2> QED BY <2>1, <2>2 DEF Next
<1> QED BY <1>1, <1>2, PTL DEF Spec

\* The verdict, PASSED or FAILED, is right however the threads race.
THEOREM VerdictSurvivesRaces == Spec => []VerdictIsRight
<1>1. CountInv => VerdictIsRight
  <2> SUFFICES ASSUME CountInv, summary.called
               PROVE  summary.success <=>
                        \A p \in Reports : p.severity \in {"error", "fatal"}
                                             => reported[p] = 0
    BY DEF VerdictIsRight
  <2>1. \A s \in Severities :
          count[s] = 0 <=> \A p \in Reports : p.severity = s => reported[p] = 0
    BY DEF CountInv, CountTypes, Seen
  <2>2. count["error"] \in Nat /\ count["fatal"] \in Nat
    BY DEF CountInv, CountTypes, Severities
  <2>3. summary.success <=> (count["error"] = 0 /\ count["fatal"] = 0)
    BY <2>2 DEF CountInv
  <2> QED BY <2>1, <2>3 DEF Severities
<1> QED BY <1>1, CountInvariant, PTL

----------------------------------------------------------------------------
(* The stream.                                                             *)

\* What the two insertions make of the stream.
LEMMA Appended ==
  ASSUME NEW x, NEW y
  PROVE  Append(<<>>, x) = <<x>> /\ Append(<<x>>, y) = <<x, y>>
<1> DEFINE S == {x, y}
           t == Append(<<x>>, y)
<1>1. <<>> \in Seq(S) /\ <<x>> \in Seq(S) /\ <<x, y>> \in Seq(S)
  OBVIOUS
<1>2. Append(<<>>, x) = <<x>>
  BY <1>1
<1>3. t \in Seq(S) /\ Len(t) = 2 /\ t[1] = x /\ t[2] = y
  BY <1>1, AppendProperties
<1>4. t = <<x, y>>
  <2> HIDE DEF t
  <2>1. \A i \in 1 .. 2 : t[i] = <<x, y>>[i]
    BY <1>3
  <2>2. t = [i \in 1 .. 2 |-> t[i]] /\ <<x, y>> = [i \in 1 .. 2 |-> <<x, y>>[i]]
    BY <1>3
  <2> QED BY <2>1, <2>2
<1> QED BY <1>2, <1>4

\* One thread takes its steps through the handler; if it is alone, the stream
\* holds what it has put there.
LEMMA StreamStep ==
  ASSUME StreamInv, NEW r \in Reporters, ReporterStep(r)
  PROVE  StreamInv'
<1> USE DEF StreamInv, StreamTypes, Alone, Steps
<1>a. \A q \in Reporters :
        report'[q] = report[q] => Prefix(q)' = Prefix(q) /\ Text(q)' = Text(q)
  BY DEF Prefix, Text
<1>1. CASE StartReport(r)
  <2>1. ~overlapped' =>
           ~overlapped /\ \A q \in Reporters : q # r => step[q] = "idle"
    BY <1>1 DEF StartReport, InReport
  <2>2. step'[r] = "count" /\ \A q \in Reporters : q # r => step'[q] = step[q]
    BY <1>1 DEF StartReport
  <2>3. StreamTypes'
    <3>1. overlapped' \in BOOLEAN
      BY <1>1, ZenonT(30) DEF StartReport, InReport
    <3> QED BY <1>1, <3>1 DEF StartReport
  <2> QED BY <2>1, <2>2, <2>3
<1>2. CASE CountReport(r)
  BY <1>2, <1>a DEF CountReport
<1>3. CASE ClearStream(r)
  <2>1. ~overlapped => \A q \in Reporters : q # r => step'[q] = "idle"
    BY <1>3 DEF ClearStream
  <2>2. ~overlapped => stream' = <<>>
    BY <1>3 DEF ClearStream
  <2>3. step'[r] = "prefix" /\ StreamTypes' /\ overlapped' = overlapped
    BY <1>3 DEF ClearStream
  <2>4. Prefix(r)' = Prefix(r) /\ Text(r)' = Text(r)
    BY <1>3 DEF ClearStream, Prefix, Text
  <2> QED BY <2>1, <2>2, <2>3, <2>4
<1>4. CASE WritePrefix(r)
  <2>1. ~overlapped => \A q \in Reporters : q # r => step'[q] = "idle"
    BY <1>4 DEF WritePrefix
  <2>2. ~overlapped => stream' = <<Prefix(r)>>
    BY <1>4, Appended DEF WritePrefix
  <2>3. step'[r] = "text" /\ StreamTypes' /\ overlapped' = overlapped
    BY <1>4 DEF WritePrefix
  <2>4. Prefix(r)' = Prefix(r) /\ Text(r)' = Text(r)
    BY <1>4 DEF WritePrefix, Prefix, Text
  <2> QED BY <2>1, <2>2, <2>3, <2>4
<1>5. CASE WriteText(r)
  <2>1. ~overlapped => \A q \in Reporters : q # r => step'[q] = "idle"
    BY <1>5 DEF WriteText
  <2>2. ~overlapped => stream' = <<Prefix(r), Text(r)>>
    <3>1. ~overlapped => stream = <<Prefix(r)>>
      BY <1>5 DEF WriteText
    <3>2. stream' = Append(stream, Text(r))
      BY <1>5 DEF WriteText
    <3>3. Append(<<Prefix(r)>>, Text(r)) = <<Prefix(r), Text(r)>>
      BY Appended
    <3> QED BY <3>1, <3>2, <3>3
  <2>3. step'[r] = "take" /\ StreamTypes' /\ overlapped' = overlapped
    BY <1>5 DEF WriteText
  <2>4. Prefix(r)' = Prefix(r) /\ Text(r)' = Text(r)
    BY <1>5 DEF WriteText, Prefix, Text
  <2> QED BY <2>1, <2>2, <2>3, <2>4
<1>6. CASE TakeMessage(r)
  BY <1>6, <1>a DEF TakeMessage
<1>7. CASE Classify(r)
  BY <1>7, <1>a DEF Classify
<1>8. CASE CountNote(r)
  BY <1>8, <1>a DEF CountNote
<1>9. CASE Return(r)
  BY <1>9, <1>a DEF Return, NoReport, Reports, Severities
<1>10. CASE Summarize(r)
  BY <1>10, <1>a DEF Summarize
<1> QED BY <1>1, <1>2, <1>3, <1>4, <1>5, <1>6, <1>7, <1>8, <1>9, <1>10
        DEF ReporterStep

\* The stream is the thread's own, unless two have met.
LEMMA StreamInvariant == Spec => []StreamInv
<1>1. Init => StreamInv
  <2> SUFFICES ASSUME Init PROVE StreamInv
    OBVIOUS
  <2>1. step \in [Reporters -> Steps]
    BY DEF Init, Steps
  <2>2. NoReport \in Reports
    BY DEF NoReport, Reports, Severities
  <2>3. report \in [Reporters -> Reports]
    BY <2>2 DEF Init
  <2>4. DOMAIN message = Reporters /\ overlapped \in BOOLEAN
    BY DEF Init
  <2>5. \A r \in Reporters : step[r] = "idle"
    BY DEF Init
  <2>6. Alone
    BY <2>5 DEF Alone
  <2> QED BY <2>1, <2>3, <2>4, <2>6 DEF StreamInv, StreamTypes
<1>2. StreamInv /\ [Next]_vars => StreamInv'
  <2>1. StreamInv /\ UNCHANGED vars => StreamInv'
    BY DEF StreamInv, StreamTypes, Alone, Prefix, Text, vars
  <2> QED BY <2>1, StreamStep DEF Next
<1> QED BY <1>1, <1>2, PTL DEF Spec

\* Messages are mixed only by threads that are in the handler at once.
THEOREM MessagesAreOwn == Spec => []MessageIsOwn
<1>1. StreamInv => MessageIsOwn
  BY DEF StreamInv, Alone, MessageIsOwn
<1> QED BY <1>1, StreamInvariant, PTL

----------------------------------------------------------------------------
(* The reports, and sums of counters.                                      *)

\* The report of a severity that has no mark.
Plain(s) == [severity |-> s, mark |-> "none"]

\* What a report is made of.
LEMMA ReportsFacts ==
  ASSUME NEW p \in Reports
  PROVE  /\ p.severity \in Severities
         /\ p.mark \in Marks \cup {"none"}
         /\ p.mark # "none" => p.mark \in Marks /\ p.severity = "warning"
         /\ p.mark = "none" => p = Plain(p.severity)
BY DEF Reports, Severities, Plain

\* Every severity has its plain report.
LEMMA PlainFacts ==
  ASSUME NEW s \in Severities
  PROVE  Plain(s) \in Reports /\ Plain(s).severity = s /\ Plain(s).mark = "none"
BY DEF Reports, Plain

\* The marks are listed.
LEMMA MarksFinite == IsFiniteSet(Marks)
<1> DEFINE D == 1 .. Len(Nonwarnings)
<1>1. /\ Len(Nonwarnings) \in Nat /\ DOMAIN Nonwarnings = D
      /\ Nonwarnings \in [D -> Marks]
  BY ReportAssumption
<1>2. \A m \in Marks : \E i \in D : Nonwarnings[i] = m
  BY <1>1 DEF Marks, Range
<1>3. IsFiniteSet(D)
  BY <1>1, FS_Interval
<1> HIDE DEF D
<1>4. Nonwarnings \in Surjection(D, Marks)
  BY <1>1, <1>2 DEF Surjection
<1> QED BY <1>3, <1>4, FS_Surjection

\* There are finitely many reports: one for each severity and mark.
LEMMA ReportsFinite == IsFiniteSet(Reports)
<1> DEFINE Marked == [severity : {"warning"}, mark : Marks]
           of == [m \in Marks |-> [severity |-> "warning", mark |-> m]]
<1>1. IsFiniteSet(Marked)
  <2>1. of \in Surjection(Marks, Marked)
    <3>1. of \in [Marks -> Marked]
      OBVIOUS
    <3>2. ASSUME NEW p \in Marked
          PROVE  \E m \in Marks : of[m] = p
      <4>1. p.mark \in Marks /\ of[p.mark] = p
        OBVIOUS
      <4> QED BY <4>1
    <3> HIDE DEF of, Marked
    <3> QED BY <3>1, <3>2 DEF Surjection
  <2> HIDE DEF of, Marked
  <2> QED BY <2>1, FS_Surjection, MarksFinite
<1>2. IsFiniteSet({Plain("info"), Plain("warning"), Plain("error"),
                   Plain("fatal")})
  <2> DEFINE A == {Plain("info"), Plain("warning")}
             B == {Plain("error"), Plain("fatal")}
  <2>1. /\ IsFiniteSet({Plain("info")}) /\ IsFiniteSet({Plain("warning")})
        /\ IsFiniteSet({Plain("error")}) /\ IsFiniteSet({Plain("fatal")})
    BY FS_Singleton
  <2>2. IsFiniteSet(A)
    <3>1. A = {Plain("info")} \cup {Plain("warning")}
      OBVIOUS
    <3> HIDE DEF A
    <3> QED BY <2>1, <3>1, FS_Union
  <2>3. IsFiniteSet(B)
    <3>1. B = {Plain("error")} \cup {Plain("fatal")}
      OBVIOUS
    <3> HIDE DEF B
    <3> QED BY <2>1, <3>1, FS_Union
  <2>4. {Plain("info"), Plain("warning"), Plain("error"), Plain("fatal")}
          = A \cup B
    OBVIOUS
  <2> HIDE DEF A, B
  <2> QED BY <2>2, <2>3, <2>4, FS_Union
<1>3. Reports = {Plain("info"), Plain("warning"), Plain("error"), Plain("fatal")}
                  \cup Marked
  BY DEF Reports, Severities, Plain
<1> HIDE DEF Marked
<1> QED BY <1>1, <1>2, <1>3, FS_Union

\* Total is a sum.
LEMMA TotalIsSum ==
  ASSUME NEW D, NEW f \in [D -> Nat]
  PROVE  Total(f) = SumOver(f, D)
<1>1. DOMAIN f = D
  OBVIOUS
<1> QED BY <1>1 DEF Total, FoldFunction, SumOver

----------------------------------------------------------------------------
(* Types.                                                                  *)

\* A counter's sum is a natural number, and what the summary computes from it
\* is one that unsigned long int holds.
LEMMA SummaryTypes ==
  ASSUME TypeOK
  PROVE  Summary \in [called : BOOLEAN, warnings : 0 .. (Word - 1), errors : Nat,
                      fatals : Nat, success : BOOLEAN]
<1>1. Total(notes) \in Nat
  <2>1. notes \in [Marks -> Nat] /\ IsFiniteSet(Marks)
    BY MarksFinite DEF TypeOK
  <2> QED BY <2>1, TotalIsSum, SumBounds
<1>2. /\ count["warning"] \in Nat /\ count["error"] \in Nat
      /\ count["fatal"] \in Nat
  BY DEF TypeOK, Severities
<1>3. (count["warning"] - Total(notes)) % Word \in 0 .. (Word - 1)
  BY <1>1, <1>2, ReportAssumption
<1> QED BY <1>2, <1>3 DEF Summary

\* The marks in a message are marks.
LEMMA MarksInMarks ==
  ASSUME NEW msg
  PROVE  MarksIn(msg) \subseteq Marks
BY DEF MarksIn

\* The pieces that a thread puts into the stream.
LEMMA PiecesFacts ==
  ASSUME TypeOK, NEW r \in Reporters
  PROVE  Prefix(r) \in Pieces /\ Text(r) \in Pieces
<1>1. /\ report[r].mark \in Marks \cup {"none"}
      /\ report[r].severity \in Severities
  BY ReportsFacts DEF TypeOK
<1> QED BY <1>1 DEF Prefix, Text, Pieces

\* What Classify counts is a mark of the message; with none there is nothing to
\* count.
LEMMA ClassifyFacts ==
  ASSUME NEW r \in Reporters, Classify(r)
  PROVE  \/ /\ report[r].severity = "warning"
            /\ \E m \in MarksIn(message[r]) :
                 loaded' = [loaded EXCEPT ![r] = [counter |-> m,
                                                  value |-> notes[m]]]
            /\ step' = [step EXCEPT ![r] = "note"]
         \/ /\ report[r].severity # "warning" \/ MarksIn(message[r]) = {}
            /\ step' = [step EXCEPT ![r] = "show"] /\ UNCHANGED loaded
BY DEF Classify

\* Every step keeps the types, and the counter a thread has loaded is the one
\* its step increments.
LEMMA TypingStep ==
  ASSUME TypeOK, NEW r \in Reporters, ReporterStep(r)
  PROVE  TypeOK'
<1> DEFINE Loads == [counter : Severities \cup Marks, value : Nat]
<1>a. /\ NoReport \in Reports /\ NoLoad \in Loads
  BY DEF NoReport, NoLoad, Reports, Severities
<1>b. /\ report[r] \in Reports /\ loaded[r] \in Loads
      /\ stream \in Seq(Pieces) /\ message[r] \in Seq(Pieces)
      /\ notes \in [Marks -> Nat] /\ count \in [Severities -> Nat]
      /\ overlapped \in BOOLEAN
  BY DEF TypeOK
<1>1. CASE StartReport(r)
  <2>1. PICK p \in Reports :
          /\ report' = [report EXCEPT ![r] = p]
          /\ loaded' = [loaded EXCEPT ![r] = [counter |-> p.severity,
                                           value |-> count[p.severity]]]
    BY <1>1 DEF StartReport
  <2>2. [counter |-> p.severity, value |-> count[p.severity]] \in Loads
    BY <1>b, ReportsFacts
  <2>3. overlapped' \in BOOLEAN
    BY <1>1, <1>b, ZenonT(30) DEF StartReport, InReport
  <2> QED BY <1>1, <2>1, <2>2, <2>3 DEF StartReport, TypeOK, Steps
<1>2. CASE CountReport(r)
  <2>1. loaded[r].counter \in Severities /\ loaded[r].value + 1 \in Nat
    BY <1>2, <1>b, ReportsFacts DEF CountReport, TypeOK
  <2>2. count' \in [Severities -> Nat] /\ reported' \in [Reports -> Nat]
    BY <1>2, <1>b, <2>1 DEF CountReport, TypeOK
  <2> QED BY <1>2, <2>2 DEF CountReport, TypeOK, Steps
<1>3. CASE ClearStream(r)
  BY <1>3 DEF ClearStream, TypeOK, Steps
<1>4. CASE WritePrefix(r)
  <2>1. stream' \in Seq(Pieces)
    BY <1>4, <1>b, PiecesFacts, AppendProperties DEF WritePrefix
  <2> QED BY <1>4, <2>1 DEF WritePrefix, TypeOK, Steps
<1>5. CASE WriteText(r)
  <2>1. stream' \in Seq(Pieces)
    BY <1>5, <1>b, PiecesFacts, AppendProperties DEF WriteText
  <2> QED BY <1>5, <2>1 DEF WriteText, TypeOK, Steps
<1>6. CASE TakeMessage(r)
  BY <1>6 DEF TakeMessage, TypeOK, Steps
<1>7. CASE Classify(r)
  <2>1. CASE step' = [step EXCEPT ![r] = "show"] /\ UNCHANGED loaded
    BY <1>7, <2>1 DEF Classify, TypeOK, Steps
  <2>2. CASE /\ \E m \in MarksIn(message[r]) :
                  loaded' = [loaded EXCEPT ![r] = [counter |-> m,
                                                   value |-> notes[m]]]
             /\ step' = [step EXCEPT ![r] = "note"]
    <3>1. PICK m \in Marks :
            loaded' = [loaded EXCEPT ![r] = [counter |-> m, value |-> notes[m]]]
      BY <2>2, MarksInMarks
    <3>2. [counter |-> m, value |-> notes[m]] \in Loads
      BY <1>b
    <3> QED BY <1>7, <2>2, <3>1, <3>2 DEF Classify, TypeOK, Steps
  <2> QED BY <1>7, <2>1, <2>2, ClassifyFacts
<1>8. CASE CountNote(r)
  <2>1. loaded[r].counter \in Marks /\ loaded[r].value + 1 \in Nat
    BY <1>8, <1>b DEF CountNote, TypeOK
  <2>2. notes' \in [Marks -> Nat]
    BY <1>8, <1>b, <2>1 DEF CountNote
  <2> QED BY <1>8, <2>2 DEF CountNote, TypeOK, Steps
<1>9. CASE Return(r)
  BY <1>9, <1>a DEF Return, TypeOK, Steps
<1>10. CASE Summarize(r)
  <2>1. overlapped' \in BOOLEAN
    BY <1>10, <1>b, ZenonT(30) DEF Summarize, InReport
  <2> QED BY <1>10, <2>1, SummaryTypes DEF Summarize, TypeOK
<1> QED BY <1>1, <1>2, <1>3, <1>4, <1>5, <1>6, <1>7, <1>8, <1>9, <1>10
        DEF ReporterStep

\* Every variable keeps its type; in particular no counter is ever negative,
\* and a thread increments a counter of the kind that its step is about.
THEOREM Typing == Spec => []TypeOK
<1>1. Init => TypeOK
  <2> SUFFICES ASSUME Init PROVE TypeOK
    OBVIOUS
  <2>1. NoReport \in Reports /\ NoLoad \in [counter : Severities \cup Marks,
                                            value : Nat]
    BY DEF NoReport, NoLoad, Reports, Severities
  <2>2. NoSummary \in [called : BOOLEAN, warnings : 0 .. (Word - 1),
                       errors : Nat, fatals : Nat, success : BOOLEAN]
    BY ReportAssumption DEF NoSummary
  <2>3. \A r \in Reporters : step[r] = "idle"
    BY DEF Init
  <2>4. /\ stream \in Seq(Pieces)
        /\ message \in [Reporters -> Seq(Pieces)]
    BY DEF Init
  <2>5. /\ count \in [Severities -> Nat] /\ notes \in [Marks -> Nat]
        /\ reported \in [Reports -> Nat] /\ step \in [Reporters -> Steps]
    BY DEF Init, Steps
  <2>6. summary \in [called : BOOLEAN, warnings : 0 .. (Word - 1),
                     errors : Nat, fatals : Nat, success : BOOLEAN]
    BY <2>2 DEF Init
  <2>7. /\ report \in [Reporters -> Reports] /\ overlapped \in BOOLEAN
        /\ loaded \in [Reporters -> [counter : Severities \cup Marks,
                                    value : Nat]]
    BY <2>1 DEF Init
  <2> QED BY <2>3, <2>4, <2>5, <2>6, <2>7 DEF TypeOK
<1>2. TypeOK /\ [Next]_vars => TypeOK'
  <2>1. TypeOK /\ UNCHANGED vars => TypeOK'
    BY DEF TypeOK, vars
  <2> QED BY <2>1, TypingStep DEF Next
<1> QED BY <1>1, <1>2, PTL DEF Spec

----------------------------------------------------------------------------
(* The numbers of the summary.                                             *)

\* A thread has counted a marked report among the warnings and not yet among
\* the marks.
Noting(r) ==
  /\ report[r].mark # "none"
  /\ step[r] \in {"clear", "prefix", "text", "take", "classify", "note"}

\* How many reports are among the warnings and not yet among the marks, and how
\* many are made and not yet counted.
BeingNoted == IF \E r \in Reporters : Noting(r) THEN 1 ELSE 0
BeingCounted == IF \E r \in Reporters : step[r] = "count" THEN 1 ELSE 0

\* What a thread has read is still so, and it counts a mark for a marked report.
LoadIsCurrent(r) ==
  /\ step[r] = "count" => loaded[r].value = count[report[r].severity]
  /\ step[r] = "note" => /\ loaded[r].value = notes[loaded[r].counter]
                         /\ report[r].mark # "none"

CountersAreExact ==
  /\ \A r \in Reporters : LoadIsCurrent(r)
  /\ \A s \in Severities \ {"warning"} : count[s] = reported[Plain(s)]
  /\ count["warning"] = reported[Plain("warning")] + Total(notes) + BeingNoted
  /\ Total(reported) + BeingCounted <= MaxReports

\* As long as one thread at a time is in the handler, the counters are those of
\* the reports, but for the one it is at; and so are the summary's numbers.
Exact ==
  ~overlapped =>
    /\ ~summary.called => CountersAreExact
    /\ summary.called => /\ summary.warnings = reported[Plain("warning")]
                         /\ summary.errors = reported[Plain("error")]
                         /\ summary.fatals = reported[Plain("fatal")]

\* A step of a thread that does not make two overlap finds, and leaves, the
\* others outside of the handler, and the summary not made before it.
LEMMA OneAtATime ==
  ASSUME StreamInv, NEW r \in Reporters, ReporterStep(r), ~overlapped'
  PROVE  /\ ~overlapped /\ ~summary.called
         /\ \A q \in Reporters : q # r => step[q] = "idle" /\ step'[q] = "idle"
<1> USE DEF StreamInv, StreamTypes, Alone
<1>1. ~overlapped /\ ~summary.called
  BY DEF ReporterStep, StartReport, CountReport, ClearStream, WritePrefix,
         WriteText, TakeMessage, Classify, CountNote, Return, Summarize, Running
<1>2. \A q \in Reporters : q # r => step'[q] = step[q]
  BY DEF ReporterStep, StartReport, CountReport, ClearStream, WritePrefix,
         WriteText, TakeMessage, Classify, CountNote, Return, Summarize
<1>3. \A q \in Reporters : q # r => step[q] = "idle"
  <2>1. CASE step[r] # "idle"
    BY <1>1, <2>1
  <2>2. CASE step[r] = "idle"
    <3>1. ~InReport(r)
      BY <2>2 DEF ReporterStep, StartReport, CountReport, ClearStream,
         WritePrefix, WriteText, TakeMessage, Classify, CountNote, Return,
         Summarize
    <3> QED BY <3>1 DEF InReport
  <2> QED BY <2>1, <2>2
<1> QED BY <1>1, <1>2, <1>3

\* With one thread in the handler, what is being noted or counted is its report.
LEMMA TheOneThread ==
  ASSUME NEW r \in Reporters,
         \A q \in Reporters : q # r => step[q] = "idle" /\ step'[q] = "idle"
  PROVE  /\ BeingNoted = IF Noting(r) THEN 1 ELSE 0
         /\ BeingNoted' = IF Noting(r)' THEN 1 ELSE 0
         /\ BeingCounted = IF step[r] = "count" THEN 1 ELSE 0
         /\ BeingCounted' = IF step'[r] = "count" THEN 1 ELSE 0
         /\ LoadIsCurrent(r)' => \A q \in Reporters : LoadIsCurrent(q)'
<1>1. \A q \in Reporters : Noting(q) => q = r
  BY DEF Noting
<1>2. \A q \in Reporters : Noting(q)' => q = r
  BY DEF Noting
<1>3. \A q \in Reporters : q # r => LoadIsCurrent(q)'
  BY DEF LoadIsCurrent
<1> QED BY <1>1, <1>2, <1>3 DEF BeingNoted, BeingCounted

\* The marks in a message that is a thread's own.
LEMMA MarksInOwn ==
  ASSUME NEW r \in Reporters, message[r] = <<Prefix(r), Text(r)>>,
         report[r] \in Reports, report[r].severity = "warning"
  PROVE  MarksIn(message[r]) = {report[r].mark} \ {"none"}
<1> DEFINE msg == message[r]
           mark == report[r].mark
<1>1. DOMAIN msg = {1, 2} /\ msg[1].word = "warning" /\ msg[2].word = mark
  <2>1. DOMAIN msg = 1 .. 2 /\ msg[1] = Prefix(r) /\ msg[2] = Text(r)
    OBVIOUS
  <2>2. 1 .. 2 = {1, 2}
    OBVIOUS
  <2> QED BY <2>1, <2>2 DEF Prefix, Text
<1>2. /\ mark \in Marks \cup {"none"} /\ "none" \notin Marks
      /\ "warning" \notin Marks
  BY ReportsFacts, ReportAssumption DEF Severities
<1>3. MarksIn(msg) \subseteq {mark}
  BY <1>1, <1>2 DEF MarksIn
<1>4. ASSUME mark # "none"
      PROVE  mark \in MarksIn(msg)
  <2>1. \A k \in 1 .. 1 : msg[k].word # mark
    BY <1>1, <1>2
  <2> QED BY <1>1, <1>2, <1>4, <2>1 DEF MarksIn
<1>5. "none" \notin MarksIn(msg)
  BY <1>2 DEF MarksIn
<1> QED BY <1>3, <1>4, <1>5

\* Types that the arithmetic needs, and that a sum bounds its parts.
LEMMA CounterTypes ==
  ASSUME TypeOK
  PROVE  /\ Total(notes) \in Nat /\ Total(reported) \in Nat
         /\ \A s \in Severities : /\ count[s] \in Nat
                                  /\ reported[Plain(s)] \in Nat
                                  /\ reported[Plain(s)] <= Total(reported)
<1>1. notes \in [Marks -> Nat] /\ IsFiniteSet(Marks)
  BY MarksFinite DEF TypeOK
<1>2. reported \in [Reports -> Nat] /\ IsFiniteSet(Reports)
  BY ReportsFinite DEF TypeOK
<1>3. Total(notes) = SumOver(notes, Marks) /\ SumOver(notes, Marks) \in Nat
  BY <1>1, TotalIsSum, SumBounds
<1>4. /\ Total(reported) = SumOver(reported, Reports)
      /\ SumOver(reported, Reports) \in Nat
      /\ \A p \in Reports : reported[p] <= SumOver(reported, Reports)
  BY <1>2, TotalIsSum, SumBounds
<1>5. \A s \in Severities : Plain(s) \in Reports
  BY PlainFacts
<1>6. \A s \in Severities : count[s] \in Nat
  BY DEF TypeOK
<1> QED BY <1>2, <1>3, <1>4, <1>5, <1>6

\* One more in one counter is one more in the sum.
LEMMA TotalIncrement ==
  ASSUME NEW D, IsFiniteSet(D), NEW f \in [D -> Nat], NEW x \in D
  PROVE  Total([f EXCEPT ![x] = f[x] + 1]) = Total(f) + 1
<1> DEFINE g == [f EXCEPT ![x] = f[x] + 1]
<1>1. g \in [D -> Nat]
  OBVIOUS
<1>2. SumOver(g, D) = SumOver(f, D) + 1
  BY SumIncrement
<1> HIDE DEF g
<1>3. Total(g) = Total(f) + 1
  BY <1>1, <1>2, TotalIsSum
<1> QED BY <1>3 DEF g

\* Counting: a plain report raises the counter that the report raises; a marked
\* one is from now on among the warnings, and being noted.
LEMMA CountReportExact ==
  ASSUME TypeOK, CountersAreExact, NEW r \in Reporters, CountReport(r),
         \A q \in Reporters : q # r => step[q] = "idle" /\ step'[q] = "idle"
  PROVE  CountersAreExact'
<1> DEFINE p == report[r]
           s == p.severity
<1>1. p \in Reports /\ s \in Severities
  BY ReportsFacts DEF TypeOK
<1>2. loaded[r].counter = s /\ loaded[r].value = count[s] /\ step[r] = "count"
  BY DEF TypeOK, CountReport, CountersAreExact, LoadIsCurrent
<1>3. /\ count' = [count EXCEPT ![s] = count[s] + 1]
      /\ reported' = [reported EXCEPT ![p] = reported[p] + 1]
      /\ step'[r] = "clear" /\ report' = report /\ notes' = notes
  BY <1>2 DEF CountReport, TypeOK
<1>4. /\ count \in [Severities -> Nat] /\ reported \in [Reports -> Nat]
  BY DEF TypeOK
<1>5. Total(reported') = Total(reported) + 1 /\ Total(notes)' = Total(notes)
  BY <1>1, <1>3, <1>4, TotalIncrement, ReportsFinite
<1>6. /\ BeingNoted = 0 /\ BeingCounted = 1 /\ BeingCounted' = 0
      /\ BeingNoted' = IF p.mark # "none" THEN 1 ELSE 0
      /\ \A q \in Reporters : LoadIsCurrent(q)'
  <2>1. ~Noting(r) /\ (Noting(r)' <=> p.mark # "none") /\ LoadIsCurrent(r)'
    BY <1>2, <1>3 DEF Noting, LoadIsCurrent
  <2> QED BY <1>2, <1>3, <2>1, TheOneThread
<1>7. Total(reported)' + BeingCounted' <= MaxReports
  <2>1. Total(reported) + BeingCounted <= MaxReports /\ Total(reported) \in Nat
    BY CounterTypes DEF CountersAreExact
  <2> QED BY <1>5, <1>6, <2>1
<1>8. \A t \in Severities : /\ Plain(t) \in Reports /\ Plain(t).mark = "none"
                            /\ Plain(t).severity = t
  BY PlainFacts
<1>9. /\ \A t \in Severities \ {"warning"} : count[t] = reported[Plain(t)]
      /\ count["warning"] = reported[Plain("warning")] + Total(notes)
      /\ Total(notes) \in Nat /\ "warning" \in Severities
  BY <1>6, CounterTypes DEF CountersAreExact, Severities
<1>10. CASE p.mark = "none"
  <2>1. p = Plain(s)
    BY <1>1, <1>10, ReportsFacts
  <2>2. \A t \in Severities :
          /\ count'[t] = IF t = s THEN count[t] + 1 ELSE count[t]
          /\ reported'[Plain(t)] = IF t = s THEN reported[Plain(t)] + 1
                                            ELSE reported[Plain(t)]
    BY <1>1, <1>3, <1>4, <1>8, <2>1
  <2>3. \A t \in Severities \ {"warning"} : count'[t] = reported'[Plain(t)]
    BY <1>9, <2>2
  <2>4. count'["warning"] = reported'[Plain("warning")] + Total(notes)
    <3>1. reported[Plain("warning")] \in Nat
      BY <1>4, <1>8, <1>9
    <3> QED BY <1>9, <2>2, <3>1
  <2> QED BY <1>5, <1>6, <1>7, <1>10, <2>3, <2>4, <1>9, <1>4, <1>3
          DEF CountersAreExact, Plain
<1>11. CASE p.mark # "none"
  <2>1. s = "warning" /\ \A t \in Severities : Plain(t) # p
    BY <1>1, <1>8, <1>11, ReportsFacts
  <2>2. \A t \in Severities :
          /\ count'[t] = IF t = s THEN count[t] + 1 ELSE count[t]
          /\ reported'[Plain(t)] = reported[Plain(t)]
    BY <1>1, <1>3, <1>4, <1>8, <2>1
  <2>3. \A t \in Severities \ {"warning"} : count'[t] = reported'[Plain(t)]
    BY <1>9, <2>1, <2>2
  <2>4. count'["warning"] = reported'[Plain("warning")] + Total(notes) + 1
    <3>1. reported[Plain("warning")] \in Nat
      BY <1>4, <1>8, <1>9
    <3> QED BY <1>9, <2>1, <2>2, <3>1
  <2> QED BY <1>5, <1>6, <1>7, <1>11, <2>3, <2>4 DEF CountersAreExact, Plain
<1> QED BY <1>10, <1>11

\* Noting a mark: the report was a warning and now is a note.
LEMMA CountNoteExact ==
  ASSUME TypeOK, CountersAreExact, NEW r \in Reporters, CountNote(r),
         \A q \in Reporters : q # r => step[q] = "idle" /\ step'[q] = "idle"
  PROVE  CountersAreExact'
<1> DEFINE m == loaded[r].counter
<1>1. m \in Marks /\ loaded[r].value = notes[m] /\ report[r].mark # "none"
  BY DEF TypeOK, CountNote, CountersAreExact, LoadIsCurrent
<1>2. /\ notes' = [notes EXCEPT ![m] = notes[m] + 1] /\ notes \in [Marks -> Nat]
      /\ step[r] = "note" /\ step'[r] = "show"
      /\ UNCHANGED <<count, report, reported>>
  BY <1>1 DEF CountNote, TypeOK
<1>3. Total(notes') = Total(notes) + 1
  BY <1>1, <1>2, TotalIncrement, MarksFinite
<1>4. Noting(r) /\ ~Noting(r)' /\ LoadIsCurrent(r)'
  BY <1>1, <1>2 DEF Noting, LoadIsCurrent
<1>5. /\ BeingNoted = 1 /\ BeingNoted' = 0
      /\ BeingCounted = 0 /\ BeingCounted' = 0
      /\ \A q \in Reporters : LoadIsCurrent(q)'
  BY <1>2, <1>4, TheOneThread
<1>6. Total(notes) \in Nat /\ reported[Plain("warning")] \in Nat
  BY CounterTypes DEF Severities
<1>7. count["warning"] = reported[Plain("warning")] + Total(notes) + 1
  BY <1>5 DEF CountersAreExact
<1>8. count["warning"] = reported[Plain("warning")] + Total(notes') + 0
  BY <1>3, <1>6, <1>7
<1> QED BY <1>2, <1>5, <1>8 DEF CountersAreExact, Plain

\* The other steps within the handler count nothing, and a report is being
\* noted after them as before: a thread alone finds its own mark in its message.
LEMMA OtherExact ==
  ASSUME TypeOK, StreamInv, CountersAreExact, NEW r \in Reporters,
         ~overlapped, ReporterStep(r),
         ~CountReport(r), ~CountNote(r), ~Summarize(r),
         \A q \in Reporters : q # r => step[q] = "idle" /\ step'[q] = "idle"
  PROVE  CountersAreExact'
<1>1. UNCHANGED <<count, notes, reported>>
  BY DEF ReporterStep, StartReport, ClearStream, WritePrefix, WriteText,
         TakeMessage, Classify, Return
<1>2. SUFFICES /\ LoadIsCurrent(r)' /\ (Noting(r)' <=> Noting(r))
               /\ Total(reported) + (IF step'[r] = "count" THEN 1 ELSE 0)
                    <= MaxReports
  <2>1. /\ BeingNoted' = BeingNoted
        /\ BeingCounted' = IF step'[r] = "count" THEN 1 ELSE 0
        /\ \A q \in Reporters : LoadIsCurrent(q)'
    BY <1>2, TheOneThread
  <2> QED BY <1>1, <1>2, <2>1 DEF CountersAreExact, Plain
<1>3. /\ Total(reported) \in Nat /\ MaxReports \in Nat
      /\ Total(reported) <= MaxReports
  <2>1. BeingCounted \in {0, 1}
    BY DEF BeingCounted
  <2> QED BY <2>1, CounterTypes, ReportAssumption DEF CountersAreExact
<1>4. /\ report \in [Reporters -> Reports] /\ step \in [Reporters -> Steps]
      /\ DOMAIN loaded = Reporters
  BY DEF TypeOK
<1>5. CASE StartReport(r)
  <2>1. PICK p \in Reports :
          /\ report' = [report EXCEPT ![r] = p]
          /\ loaded' = [loaded EXCEPT ![r] = [counter |-> p.severity,
                                           value |-> count[p.severity]]]
    BY <1>5 DEF StartReport
  <2>2. step[r] = "idle" /\ step'[r] = "count" /\ Total(reported) < MaxReports
    BY <1>4, <1>5 DEF StartReport
  <2>3. LoadIsCurrent(r)'
    BY <1>1, <1>4, <2>1, <2>2 DEF LoadIsCurrent
  <2> QED BY <1>3, <2>2, <2>3 DEF Noting
<1>6. CASE ClearStream(r) \/ WritePrefix(r) \/ WriteText(r) \/ TakeMessage(r)
  <2>1. /\ step[r] \in {"clear", "prefix", "text", "take"}
        /\ step'[r] \in {"prefix", "text", "take", "classify"}
        /\ report' = report
    BY <1>4, <1>6 DEF ClearStream, WritePrefix, WriteText, TakeMessage
  <2> QED BY <1>3, <2>1 DEF Noting, LoadIsCurrent
<1>7. CASE Classify(r)
  <2>1. step[r] = "classify" /\ report' = report /\ report[r] \in Reports
    BY <1>4, <1>7 DEF Classify
  <2>2. report[r].severity = "warning"
          => MarksIn(message[r]) = {report[r].mark} \ {"none"}
    BY <2>1, MarksInOwn DEF StreamInv, Alone
  <2>3. CASE /\ report[r].severity # "warning" \/ MarksIn(message[r]) = {}
             /\ step' = [step EXCEPT ![r] = "show"]
    <3>1. report[r].mark = "none"
      BY <2>1, <2>2, <2>3, ReportsFacts
    <3> QED BY <1>3, <1>4, <2>1, <2>3, <3>1 DEF Noting, LoadIsCurrent
  <2>4. CASE /\ report[r].severity = "warning"
             /\ \E m \in MarksIn(message[r]) :
                  loaded' = [loaded EXCEPT ![r] = [counter |-> m,
                                                   value |-> notes[m]]]
             /\ step' = [step EXCEPT ![r] = "note"]
    <3>1. PICK m \in MarksIn(message[r]) :
            loaded' = [loaded EXCEPT ![r] = [counter |-> m, value |-> notes[m]]]
      BY <2>4
    <3>2. report[r].mark # "none" /\ loaded'[r].value = notes[loaded'[r].counter]
      BY <1>4, <2>2, <2>4, <3>1
    <3> QED BY <1>1, <1>3, <1>4, <2>1, <2>4, <3>2 DEF Noting, LoadIsCurrent
  <2> QED BY <1>7, <2>3, <2>4, ClassifyFacts
<1>8. CASE Return(r)
  <2>1. step[r] = "show" /\ step'[r] = "idle"
    BY <1>4, <1>8 DEF Return
  <2> QED BY <1>3, <2>1 DEF Noting, LoadIsCurrent
<1> QED BY <1>5, <1>6, <1>7, <1>8 DEF ReporterStep

\* The summary of exact counters: the subtraction takes the notes away again,
\* and what is left fits.
LEMMA SummarizeExact ==
  ASSUME TypeOK, CountersAreExact, NEW r \in Reporters, Summarize(r),
         \A q \in Reporters : q # r => step[q] = "idle" /\ step'[q] = "idle"
  PROVE  /\ summary'.called
         /\ summary'.warnings = reported'[Plain("warning")]
         /\ summary'.errors = reported'[Plain("error")]
         /\ summary'.fatals = reported'[Plain("fatal")]
<1> DEFINE w == reported[Plain("warning")]
           n == Total(notes)
<1>1. /\ w \in Nat /\ n \in Nat /\ w <= Total(reported)
      /\ Total(reported) \in Nat
  BY CounterTypes DEF Severities
<1>2. BeingNoted = 0 /\ BeingCounted \in {0, 1}
  <2>1. ~Noting(r)
    BY DEF Summarize, Noting
  <2> QED BY <2>1, TheOneThread DEF BeingCounted
<1>3. /\ count["warning"] = w + n
      /\ count["error"] = reported[Plain("error")]
      /\ count["fatal"] = reported[Plain("fatal")]
      /\ Total(reported) <= MaxReports
  <2>1. count["warning"] = w + n + BeingNoted
    BY DEF CountersAreExact
  <2>2. Total(reported) + BeingCounted <= MaxReports
    BY DEF CountersAreExact
  <2>3. /\ count["error"] = reported[Plain("error")]
        /\ count["fatal"] = reported[Plain("fatal")]
    BY DEF CountersAreExact, Severities
  <2> HIDE DEF w, n
  <2> QED BY <1>1, <1>2, <2>1, <2>2, <2>3, ReportAssumption
<1>4. (count["warning"] - n) % Word = w
  <2>1. MaxReports \in Nat /\ Word \in Nat /\ MaxReports < Word
    BY ReportAssumption
  <2> HIDE DEF w, n
  <2>2. count["warning"] - n = w /\ w < Word
    BY <1>1, <1>3, <2>1
  <2> QED BY <1>1, <2>1, <2>2
<1>5. summary' = Summary /\ reported' = reported
  BY DEF Summarize
<1> QED BY <1>3, <1>4, <1>5 DEF Summary, Plain

\* Every step leaves the counters exact, if the threads have not overlapped.
LEMMA ExactStep ==
  ASSUME TypeOK, StreamInv, Exact, NEW r \in Reporters, ReporterStep(r)
  PROVE  Exact'
<1> SUFFICES ASSUME ~overlapped'
             PROVE  Exact'
  BY DEF Exact
<1>1. /\ ~overlapped /\ ~summary.called
      /\ \A q \in Reporters : q # r => step[q] = "idle" /\ step'[q] = "idle"
  BY OneAtATime
<1>2. CountersAreExact
  BY <1>1 DEF Exact
<1>3. CASE Summarize(r)
  BY <1>1, <1>2, <1>3, SummarizeExact DEF Exact, Plain
<1>4. CASE ~Summarize(r)
  <2>1. CountersAreExact'
    BY <1>1, <1>2, <1>4, CountReportExact, CountNoteExact, OtherExact
  <2>2. summary' = summary
    BY <1>4 DEF ReporterStep, StartReport, CountReport, ClearStream, WritePrefix,
       WriteText, TakeMessage, Classify, CountNote, Return
  <2> QED BY <1>1, <2>1, <2>2 DEF Exact
<1> QED BY <1>3, <1>4

\* The reports of one of the severities that are never marked are the plain ones.
LEMMA ReportedAsPlain ==
  ASSUME TypeOK, NEW s \in {"error", "fatal"}
  PROVE  ReportedAs(s) = reported[Plain(s)]
<1>1. {p \in Reports : p.severity = s} = {Plain(s)}
  BY ReportsFacts, PlainFacts DEF Severities
<1>2. reported[Plain(s)] \in Nat
  BY CounterTypes DEF Severities
<1> QED BY <1>1, <1>2, SumOfOne DEF ReportedAs, SumOver

\* At the beginning nothing has been counted.
LEMMA InitExact ==
  ASSUME Init
  PROVE  Exact
<1>1. Total(notes) = 0 /\ Total(reported) = 0
  <2>1. /\ notes = [m \in Marks |-> 0] /\ notes \in [Marks -> Nat]
        /\ reported = [p \in Reports |-> 0] /\ reported \in [Reports -> Nat]
    BY DEF Init
  <2>2. Total(notes) = SumOver(notes, Marks)
    BY <2>1, TotalIsSum
  <2>3. Total(reported) = SumOver(reported, Reports)
    BY <2>1, TotalIsSum
  <2> QED BY <2>1, <2>2, <2>3, SumOfZeros, ReportsFinite, MarksFinite
<1>2. \A r \in Reporters : step[r] = "idle"
  BY DEF Init
<1>3. BeingNoted = 0 /\ BeingCounted = 0
  BY <1>2 DEF BeingNoted, BeingCounted, Noting
<1>4. \A s \in Severities : count[s] = 0 /\ reported[Plain(s)] = 0
  BY PlainFacts DEF Init
<1>5. CountersAreExact
  BY <1>1, <1>2, <1>3, <1>4, ReportAssumption
     DEF CountersAreExact, LoadIsCurrent, Severities
<1> QED BY <1>5 DEF Exact, Init, NoSummary

\* The numbers of the summary are those of the reports made, unless two threads
\* have been in the handler at once: no note stays among the warnings, and the
\* unsigned subtraction of the notes does not wrap around.
THEOREM SummaryCountsAreExact == Spec => []SummaryIsExact
<1>1. TypeOK /\ StreamInv /\ Exact /\ [Next]_vars => Exact'
  <2>1. Exact /\ UNCHANGED vars => Exact'
    BY DEF Exact, CountersAreExact, LoadIsCurrent, BeingNoted, BeingCounted,
           Noting, Plain, vars
  <2> QED BY <2>1, ExactStep DEF Next
<1>2. TypeOK /\ Exact => SummaryIsExact
  BY ReportedAsPlain DEF Exact, SummaryIsExact, Plain
<1> QED BY <1>1, <1>2, InitExact, Typing, StreamInvariant, PTL DEF Spec
=============================================================================
