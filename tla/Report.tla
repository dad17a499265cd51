------------------------------- MODULE Report -------------------------------
(***************************************************************************)
(* The report handler of the simulator (sysc/report.h, sysc/report.cpp):   *)
(* composing a message in one static stream, counting what is not really a *)
(* warning, the actions of each severity, and the summary.                 *)
(*                                                                         *)
(* The SystemC thread and async_os_thread both report, and nothing makes   *)
(* them take turns.  The counters, here and in sc_report_handler, are      *)
(* plain integers: an increment is a read and a write, and those of two    *)
(* threads may interleave.  The stream is shared as well; what one thread  *)
(* puts into it another may clear or continue.                             *)
(***************************************************************************)
EXTENDS Integers, Sequences, Functions

CONSTANTS
  Reporters,   \* the threads that report
  Nonwarnings, \* nonwarnings: the names DEBUG, NOTE and ALERT, in this order
  MaxReports,  \* bound on the reports made
  Word         \* number of values of unsigned long int

Severities == {"info", "warning", "error", "fatal"}

\* The marks of what is not really a warning.
Marks == Range(Nonwarnings)

\* No mark is the name of a severity; fewer reports are made than unsigned long
\* int counts.
ASSUME ReportAssumption ==
  /\ MaxReports \in Nat /\ Word \in Nat \ {0} /\ MaxReports < Word
  /\ Nonwarnings \in Seq(Marks)
  /\ "none" \notin Marks /\ Marks \cap Severities = {}

\* The reports of the macros: REPORT_NOTE, DEBUG and ALERT are warnings whose
\* text starts with a mark.
Reports == [severity : Severities, mark : {"none"}]
             \cup [severity : {"warning"}, mark : Marks]

VARIABLES
  count,     \* sc_report_handler::get_count of each severity
  notes,     \* nonwarnings[].count
  stream,    \* msg_stream: the pieces of text it holds
  step,      \* where each thread is in its report
  report,    \* the report each thread is making
  loaded,    \* the counter a thread increments, and the value it has read
  message,   \* the_msg of each thread
  summary,   \* what summary() has computed, and its return value
  reported,  \* history: how many reports of each kind have been counted
  overlapped \* history: two threads have been in the handler at once

vars == <<count, notes, stream, step, report, loaded, message, summary,
          reported, overlapped>>

\* The locals of a thread that is not in the handler.
NoReport == [severity |-> "info", mark |-> "none"]
NoLoad   == [counter |-> "info", value |-> 0]

NoSummary == [called |-> FALSE, warnings |-> 0, errors |-> 0, fatals |-> 0,
              success |-> FALSE]

Running == ~summary.called

Init ==
  /\ count = [s \in Severities |-> 0] /\ notes = [m \in Marks |-> 0]
  /\ stream = <<>>
  /\ step = [r \in Reporters |-> "idle"]
  /\ report = [r \in Reporters |-> NoReport]
  /\ loaded = [r \in Reporters |-> NoLoad]
  /\ message = [r \in Reporters |-> <<>>]
  /\ summary = NoSummary
  /\ reported = [p \in Reports |-> 0] /\ overlapped = FALSE

----------------------------------------------------------------------------
(* sc_report_handler::report: count, then call the handler.                *)

Total(f) == FoldFunction(LAMBDA a, b : a + b, 0, f)

InReport(r) == \E q \in Reporters \ {r} : step[q] # "idle"

StartReport(r) ==
  /\ Running /\ step[r] = "idle" /\ Total(reported) < MaxReports
  /\ \E p \in Reports :
       /\ report' = [report EXCEPT ![r] = p]
       /\ loaded' = [loaded EXCEPT ![r] = [counter |-> p.severity,
                                        value |-> count[p.severity]]]
  /\ step' = [step EXCEPT ![r] = "count"]
  /\ overlapped' = (overlapped \/ InReport(r))
  /\ UNCHANGED <<count, notes, stream, message, summary, reported>>

CountReport(r) ==
  /\ Running /\ step[r] = "count"
  /\ count' = [count EXCEPT ![loaded[r].counter] = loaded[r].value + 1]
  /\ reported' = [reported EXCEPT ![report[r]] = @ + 1]
  /\ step' = [step EXCEPT ![r] = "clear"]
  /\ UNCHANGED <<notes, stream, report, loaded, message, summary, overlapped>>

----------------------------------------------------------------------------
(* report_compose_message.  A piece of text is who put it and the word in  *)
(* it that report_handler looks for: a severity or a mark.                 *)

Prefix(r) == [by |-> r, word |-> report[r].severity]
Text(r)   == [by |-> r, word |-> report[r].mark]

\* Mutant: the stream keeps what it holds.
ClearStreamMissing(r) ==
  /\ Running /\ step[r] = "clear"
  /\ step' = [step EXCEPT ![r] = "prefix"]
  /\ UNCHANGED <<count, notes, stream, report, loaded, message, summary,
                 reported, overlapped>>

ClearStream(r) ==
  /\ Running /\ step[r] = "clear"
  /\ stream' = <<>>
  /\ step' = [step EXCEPT ![r] = "prefix"]
  /\ UNCHANGED <<count, notes, report, loaded, message, summary, reported,
                 overlapped>>

\* Time, severity and message type.
WritePrefix(r) ==
  /\ Running /\ step[r] = "prefix"
  /\ stream' = Append(stream, Prefix(r))
  /\ step' = [step EXCEPT ![r] = "text"]
  /\ UNCHANGED <<count, notes, report, loaded, message, summary, reported,
                 overlapped>>

WriteText(r) ==
  /\ Running /\ step[r] = "text"
  /\ stream' = Append(stream, Text(r))
  /\ step' = [step EXCEPT ![r] = "take"]
  /\ UNCHANGED <<count, notes, report, loaded, message, summary, reported,
                 overlapped>>

TakeMessage(r) ==
  /\ Running /\ step[r] = "take"
  /\ message' = [message EXCEPT ![r] = stream]
  /\ step' = [step EXCEPT ![r] = "classify"]
  /\ UNCHANGED <<count, notes, stream, report, loaded, summary, reported,
                 overlapped>>

----------------------------------------------------------------------------
(* report_handler, after composing.                                        *)

\* The marks whose first place in the message is behind the first "warning".
MarksIn(msg) ==
  {m \in Marks :
     \E i, j \in DOMAIN msg :
       /\ msg[i].word = "warning" /\ msg[j].word = m
       /\ \A k \in 1 .. i : msg[k].word # m}

\* Mutant: notes are not counted.
ClassifyNothing(r) ==
  /\ Running /\ step[r] = "classify"
  /\ step' = [step EXCEPT ![r] = "show"]
  /\ UNCHANGED <<count, notes, stream, report, loaded, message, summary,
                 reported, overlapped>>

\* A warning whose text has a mark is none.  The first of nonwarnings that the
\* text contains is counted, whoever put it there.
Classify(r) ==
  /\ Running /\ step[r] = "classify"
  /\ \/ /\ report[r].severity = "warning"
        /\ \E i \in DOMAIN Nonwarnings :
             LET m == Nonwarnings[i]
             IN  /\ m \in MarksIn(message[r])
                 /\ \A k \in 1 .. (i - 1) : Nonwarnings[k] \notin MarksIn(message[r])
                 /\ loaded' = [loaded EXCEPT ![r] = [counter |-> m,
                                                  value |-> notes[m]]]
        /\ step' = [step EXCEPT ![r] = "note"]
     \/ /\ report[r].severity # "warning" \/ MarksIn(message[r]) = {}
        /\ step' = [step EXCEPT ![r] = "show"]
        /\ UNCHANGED loaded
  /\ UNCHANGED <<count, notes, stream, report, message, summary, reported,
                 overlapped>>

CountNote(r) ==
  /\ Running /\ step[r] = "note"
  /\ notes' = [notes EXCEPT ![loaded[r].counter] = loaded[r].value + 1]
  /\ step' = [step EXCEPT ![r] = "show"]
  /\ UNCHANGED <<count, stream, report, loaded, message, summary, reported,
                 overlapped>>

\* Display, and return: an error is thrown, and caught by REPORT_ERROR.
Return(r) ==
  /\ Running /\ step[r] = "show" /\ report[r].severity # "fatal"
  /\ step' = [step EXCEPT ![r] = "idle"]
  /\ report' = [report EXCEPT ![r] = NoReport]
  /\ loaded' = [loaded EXCEPT ![r] = NoLoad]
  /\ message' = [message EXCEPT ![r] = <<>>]
  /\ UNCHANGED <<count, notes, stream, summary, reported, overlapped>>

----------------------------------------------------------------------------
(* summary, on abort of a fatal report or by the destructor of report.     *)

\* Mutant: only the errors decide.
SummaryOfErrors ==
  [called |-> TRUE, warnings |-> (count["warning"] - Total(notes)) % Word,
   errors |-> count["error"], fatals |-> count["fatal"],
   success |-> count["error"] = 0]

\* Mutant: the counts are signed.
SummarySigned ==
  [called |-> TRUE, warnings |-> count["warning"] - Total(notes),
   errors |-> count["error"], fatals |-> count["fatal"],
   success |-> count["error"] + count["fatal"] = 0]

Summary ==
  [called |-> TRUE, warnings |-> (count["warning"] - Total(notes)) % Word,
   errors |-> count["error"], fatals |-> count["fatal"],
   success |-> count["error"] + count["fatal"] = 0]

\* The process ends with it, in whatever step the other threads are.
Summarize(r) ==
  /\ Running
  /\ \/ step[r] = "idle"
     \/ step[r] = "show" /\ report[r].severity = "fatal"
  /\ summary' = Summary
  /\ overlapped' = (overlapped \/ InReport(r))
  /\ UNCHANGED <<count, notes, stream, step, report, loaded, message, reported>>

ReporterStep(r) ==
  \/ StartReport(r) \/ CountReport(r)
  \/ ClearStream(r) \/ WritePrefix(r) \/ WriteText(r) \/ TakeMessage(r)
  \/ Classify(r) \/ CountNote(r) \/ Return(r) \/ Summarize(r)

Next == \E r \in Reporters : ReporterStep(r)

Spec == Init /\ [][Next]_vars

----------------------------------------------------------------------------
(* Properties.                                                             *)

Pieces == [by : Reporters, word : Marks \cup Severities \cup {"none"}]

Steps == {"idle", "count", "clear", "prefix", "text", "take", "classify",
          "note", "show"}

\* Every variable has its type; a thread increments the counter that its step
\* is about.
TypeOK ==
  /\ count \in [Severities -> Nat] /\ notes \in [Marks -> Nat]
  /\ stream \in Seq(Pieces)
  /\ step \in [Reporters -> Steps]
  /\ report \in [Reporters -> Reports]
  /\ loaded \in [Reporters -> [counter : Severities \cup Marks, value : Nat]]
  /\ \A r \in Reporters :
       /\ step[r] = "count" => loaded[r].counter = report[r].severity
       /\ step[r] = "note" => loaded[r].counter \in Marks
  /\ message \in [Reporters -> Seq(Pieces)]
  /\ summary \in [called : BOOLEAN, warnings : 0 .. (Word - 1), errors : Nat,
                  fatals : Nat, success : BOOLEAN]
  /\ reported \in [Reports -> Nat] /\ overlapped \in BOOLEAN

\* The verdict of the summary, PASSED or FAILED, is right also when the
\* increments of the counters are lost: a count may be too small, it may even
\* decrease, but it does not return to zero.
VerdictIsRight ==
  summary.called =>
    (summary.success <=>
       \A p \in Reports : p.severity \in {"error", "fatal"} => reported[p] = 0)

ReportedAs(s) ==
  FoldFunctionOnSet(LAMBDA a, b : a + b, 0, reported,
                    {p \in Reports : p.severity = s})

\* Unless two threads have been in the handler at once, what is displayed is
\* the whole message of the report and nothing else.
MessageIsOwn ==
  ~overlapped =>
    \A r \in Reporters :
      step[r] \in {"classify", "note", "show"}
        => message[r] = <<Prefix(r), Text(r)>>

\* Unless two threads have been in the handler at once, the numbers of the
\* summary are those of the reports: the subtraction of the notes from the
\* warnings does not wrap around, and no note is left among the warnings.
SummaryIsExact ==
  (summary.called /\ ~overlapped) =>
    /\ summary.warnings = reported[[severity |-> "warning", mark |-> "none"]]
    /\ summary.errors = ReportedAs("error")
    /\ summary.fatals = ReportedAs("fatal")
=============================================================================
