----------------------------- MODULE OutputLog -----------------------------
(***************************************************************************)
(* A child's output on its way to a reader (src/proc.rs: pump, emit, the   *)
(* exit report; src/engine.rs: pump_events_with, drain_output;             *)
(* src/state.rs: LogStore; src/output.rs: Reporter; src/serve.rs:          *)
(* logs_stream).                                                           *)
(*                                                                         *)
(* A line goes from the child's pty through its reader thread into one     *)
(* queue. The event pump takes it out and gives it to the reporter, which  *)
(* holds a node's lines back until the node has exited, and to the log     *)
(* store, which a browser follows by line number. The run ends by waiting  *)
(* for the exit reports, then for the pump to reach a Flush.               *)
(***************************************************************************)
EXTENDS Integers, Sequences, FiniteSets, SequencesExt

CONSTANTS
  Outputs,    \* the processes that print
  LineEnds,       \* how they end a line: "nl", or "cr" for progress drawn in place
  Cooked,     \* the pty turns "nl" into "crnl", as a pty does until told not to
  MaxLines,   \* bounds the lines of each process
  Killed,     \* whether a child may die of a signal nobody here sent: {FALSE}, BOOLEAN
  LogCap,     \* lines kept by the store
  LogPage,    \* lines served to a follower at a time
  Patient     \* no wait for output is cut short: OUTPUT_GRACE, drain_output's bound

VARIABLES
  alive,      \* alive[p]: the child runs
  wrote,      \* wrote[p]: how many lines it has written
  pty,        \* pty[p]: the lines its reader has not read
  nextSeq,    \* SEQ
  inHand,     \* inHand[p]: the line the reader has numbered and not yet sent
  reported,   \* reported[p]: the exit has been reported
  events,     \* the queue of ProcEvents
  handled,    \* the lines the pump has handled, in that order
  lines,      \* LogStore.lines
  lastWasTransient,
  pending,    \* Reporter.pending: lines held back
  shownLines, \* lines written out, per process
  finished,   \* processes whose exit the reporter has been told
  cursor,     \* of the follower
  followed,   \* the lines it has been sent
  ordered,    \* lines have come, and have been stored, in the order of their numbers
  ending      \* of the run: "runs", "reports", "flush", "ended"

readVars   == <<alive, wrote, pty, nextSeq, inHand, reported>>
storeVars  == <<lines, lastWasTransient, ordered>>
reportVars == <<pending, shownLines, finished>>
followVars == <<cursor, followed>>
outputVars == <<readVars, events, handled, storeVars, reportVars, followVars, ending>>

LogInit ==
  /\ alive = [p \in Outputs |-> TRUE] /\ wrote = [p \in Outputs |-> 0]
  /\ pty = [p \in Outputs |-> <<>>] /\ nextSeq = 1
  /\ inHand = [p \in Outputs |-> <<>>] /\ reported = [p \in Outputs |-> FALSE]
  /\ events = <<>> /\ handled = <<>>
  /\ lines = <<>> /\ lastWasTransient = [p \in Outputs |-> FALSE] /\ ordered = TRUE
  /\ pending = [p \in Outputs |-> <<>>] /\ shownLines = [p \in Outputs |-> <<>>]
  /\ finished = {} /\ cursor = 0 /\ followed = <<>> /\ ending = "runs"

Line(p, n, s, end) ==
  [proc |-> p, n |-> n, seq |-> s, end |-> end, transient |-> end \in {"cr", "crnl"}]

-----------------------------------------------------------------------------
(* The child, and the pty it writes to.                                    *)
Writes(p, end) ==
  /\ alive[p] /\ wrote[p] < MaxLines[p]
  /\ wrote' = [wrote EXCEPT ![p] = @ + 1]
  /\ pty' = [pty EXCEPT ![p] = Append(@, IF Cooked /\ end = "nl" THEN "crnl" ELSE end)]
  /\ UNCHANGED <<alive, nextSeq, inHand, reported, events, handled, storeVars, reportVars, followVars, ending>>

ChildExits(p) ==
  /\ alive[p] /\ alive' = [alive EXCEPT ![p] = FALSE]
  /\ UNCHANGED <<wrote, pty, nextSeq, inHand, reported, events, handled, storeVars, reportVars, followVars, ending>>

(* pump and emit: a line is numbered, then sent. A return ends it, and the *)
(* newline behind it is an empty line, which is dropped.                   *)
Emits(p) ==
  /\ pty[p] # <<>> /\ inHand[p] = <<>>
  /\ inHand' = [inHand EXCEPT ![p] =
       <<Line(p, wrote[p] - Len(pty[p]) + 1, nextSeq, Head(pty[p]))>>]
  /\ nextSeq' = nextSeq + 1
  /\ pty' = [pty EXCEPT ![p] = Tail(@)]
  /\ UNCHANGED <<alive, wrote, reported, events, handled, storeVars, reportVars, followVars, ending>>

Sends(p) ==
  /\ inHand[p] # <<>>
  /\ events' = Append(events, [kind |-> "line", line |-> inHand[p][1]])
  /\ inHand' = [inHand EXCEPT ![p] = <<>>]
  /\ UNCHANGED <<alive, wrote, pty, nextSeq, reported, handled, storeVars, reportVars, followVars, ending>>

(* The reader has met the end of the file.                                 *)
Eof(p) == ~alive[p] /\ pty[p] = <<>> /\ inHand[p] = <<>>

(* The exit report: after the reader's end of file or OUTPUT_GRACE; a      *)
(* death by somebody else's signal is a line of its own.                   *)
Bug_Reports(p) ==   \* as soon as the child is reaped
  /\ ~alive[p] /\ ~reported[p]
  /\ events' = Append(events, [kind |-> "exited", proc |-> p])
  /\ reported' = [reported EXCEPT ![p] = TRUE]
  /\ UNCHANGED <<alive, wrote, pty, nextSeq, inHand, handled, storeVars, reportVars, followVars, ending>>

Reports(p) ==
  /\ ~alive[p] /\ ~reported[p] /\ (Patient => Eof(p))
  /\ \E killed \in Killed :
       /\ events' = events
            \o (IF killed THEN <<[kind |-> "line", line |-> Line(p, 0, nextSeq, "nl")]>> ELSE <<>>)
            \o <<[kind |-> "exited", proc |-> p]>>
       /\ nextSeq' = nextSeq + (IF killed THEN 1 ELSE 0)
  /\ reported' = [reported EXCEPT ![p] = TRUE]
  /\ UNCHANGED <<alive, wrote, pty, inHand, handled, storeVars, reportVars, followVars, ending>>

-----------------------------------------------------------------------------
(* LogStore::push: the line of a process that follows a transient one of   *)
(* its own takes its place. (The budget in bytes is a second cap.)         *)
Stored(s, replace, line) ==
  LET own  == {i \in DOMAIN s : s[i].proc = line.proc}
      full == Append(s, line)
  IN  IF replace /\ own # {}
      THEN [s EXCEPT ![CHOOSE i \in own : \A j \in own : j <= i] = line]
      ELSE SubSeq(full, IF Len(full) > LogCap THEN 2 ELSE 1, Len(full))

Increasing(s) == \A i, j \in DOMAIN s : i < j => s[i].seq < s[j].seq

PushLine(line) ==
  /\ lines' = Stored(lines, lastWasTransient[line.proc], line)
  /\ lastWasTransient' = [lastWasTransient EXCEPT ![line.proc] = line.transient]
  /\ ordered' = (ordered /\ Increasing(lines') /\ Increasing(Append(handled, line)))

(* Reporter::line and finish, when the order is Grouped.                   *)
HoldLine(line) ==
  /\ pending' = [pending EXCEPT ![line.proc] = Append(@, line.n)]
  /\ UNCHANGED <<shownLines, finished>>

Finish(p) ==
  /\ shownLines' = [shownLines EXCEPT ![p] = @ \o pending[p]]
  /\ pending' = [pending EXCEPT ![p] = <<>>]
  /\ finished' = finished \cup {p}

(* pump_events_with: one event.                                            *)
PumpsEvent ==
  /\ events # <<>> /\ events' = Tail(events)
  /\ LET ev == Head(events) IN
     \/ /\ ev.kind = "line"
        /\ HoldLine(ev.line) /\ PushLine(ev.line)
        /\ handled' = Append(handled, ev.line)
        /\ UNCHANGED ending
     \/ /\ ev.kind = "exited"
        /\ Finish(ev.proc)
        /\ UNCHANGED <<handled, storeVars, ending>>
     \/ /\ ev.kind = "flush"
        /\ ending' = "ended"
        /\ UNCHANGED <<handled, storeVars, reportVars>>
  /\ UNCHANGED <<readVars, followVars>>

-----------------------------------------------------------------------------
(* logs_since: of the lines newer than the cursor the first LogPage, as    *)
(* far as the i-th line of the store.                                      *)
Bug_Page(s) ==   \* the last ones
  LET page[i \in 0..Len(s)] ==
        IF i = 0 THEN <<>>
        ELSE IF s[i].seq > cursor
             THEN Append(IF Len(page[i-1]) < LogPage THEN page[i-1] ELSE Tail(page[i-1]), s[i])
             ELSE page[i-1]
  IN  page

Page(s) ==
  LET page[i \in 0..Len(s)] ==
        IF i = 0 THEN <<>>
        ELSE IF s[i].seq > cursor /\ Len(page[i-1]) < LogPage
             THEN Append(page[i-1], s[i]) ELSE page[i-1]
  IN  page

Newer(s) == Page(s)[Len(s)]

(* logs_stream: the page is sent, and the cursor moves to its last line.   *)
Follows ==
  /\ Newer(lines) # <<>>
  /\ followed' = followed \o Newer(lines)
  /\ cursor' = Last(Newer(lines)).seq
  /\ UNCHANGED <<readVars, events, handled, storeVars, reportVars, ending>>

(* drain_output: every exit is reported, then everything sent so far is    *)
(* handled; both waits are bounded.                                        *)
Unreported == {p \in Outputs : ~reported[p]}

Bug_OutputRead ==   \* the exit reports are not waited for
  /\ ending = "reports" /\ (Patient => \A p \in Outputs : ~alive[p])
  /\ ending' = "flush" /\ events' = Append(events, [kind |-> "flush"])
  /\ UNCHANGED <<readVars, handled, storeVars, reportVars, followVars>>

RunDone ==
  /\ ending = "runs" /\ \A p \in Outputs : ~alive[p]
  /\ ending' = "reports"
  /\ UNCHANGED <<readVars, events, handled, storeVars, reportVars, followVars>>

OutputRead ==
  /\ ending = "reports" /\ (Patient => Unreported = {})
  /\ ending' = "flush" /\ events' = Append(events, [kind |-> "flush"])
  /\ UNCHANGED <<readVars, handled, storeVars, reportVars, followVars>>

LogNext ==
  \/ ending # "ended" /\ \E p \in Outputs :
       \/ \E end \in LineEnds : Writes(p, end)
       \/ ChildExits(p) \/ Emits(p) \/ Sends(p) \/ Reports(p)
  \/ PumpsEvent \/ Follows \/ RunDone \/ OutputRead

LogSpec == LogInit /\ [][LogNext]_outputVars

-----------------------------------------------------------------------------
Numbers(k) == [i \in 1..k |-> i]

(* When a process is reported to have exited, the lines it has written are *)
(* shown, all of them and in order, and none after them but the notice of  *)
(* its death: grouped output is printed at the exit.                       *)
GroupWhole ==
  \A p \in finished : shownLines[p] \in {Numbers(wrote[p]), Append(Numbers(wrote[p]), 0)}

(* The newest line is always in the store, and a line that was ended, not  *)
(* drawn in place, is missing from it only when it is full.                *)
KeptAt(i) == \E j \in DOMAIN lines : lines[j] = handled[i]

LinesKept ==
  \A i \in DOMAIN handled :
    KeptAt(i) \/ (i < Len(handled) /\ (handled[i].end = "cr" \/ Len(lines) = LogCap))

(* A follower is sent every line once, and none the store still has is     *)
(* behind its cursor unsent, as long as the store is in order.             *)
FollowedOnce ==
  ordered =>
    /\ Increasing(followed)
    /\ \A j \in DOMAIN lines : lines[j].seq <= cursor => Contains(followed, lines[j])

(* A run that has ended has shown every line of every child.               *)
RunShowsAll ==
  ending = "ended" => \A p \in Outputs : p \in finished /\ pending[p] = <<>>
=============================================================================
