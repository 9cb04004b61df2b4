------------------------------- MODULE ToolRun ------------------------------
(***************************************************************************)
(* The stages of one execution and the external tools they run:             *)
(* adapters/_exec.py and the run methods of the adapters, in the stage loop  *)
(* of worker/runner.py, up to the coverage each stage is given.              *)
(*                                                                         *)
(* A tool is the leader of a process group and at most one more process of   *)
(* it, which may ignore SIGTERM and may hold the pipe the worker reads to    *)
(* its end.  Nobody reads that pipe while the tool is polled, so a tool that *)
(* writes more than it takes is stuck.  Results go to a file of the          *)
(* execution's directory; what an earlier run of the execution, lost with    *)
(* its worker, has left there is still there when the run is delivered again. *)
(*                                                                         *)
(* No adapter gives its tool any input, and the version a tool is asked for   *)
(* first is left out.  Bad... operators are seeded faults.                   *)
(***************************************************************************)
EXTENDS Naturals, Sequences, FiniteSets

CONSTANTS
    Plans       \* the stages of each profile, by the adapters that run them

Adapter == {"subfinder", "osint", "dnsx", "nmap", "httpx", "katana", "nuclei"}

ASSUME PlansAssumption == Plans \subseteq Seq(Adapter)

VARIABLES
    left,       \* the stages that are not done, the current one first
    pc,         \* where the worker is: between stages, or in run_tool
    tool,       \* the leader of the process group
    child,      \* the other process of the group
    file,       \* the output file of the current stage
    late,       \* the stage's deadline has passed
    cancel,     \* what the guard answers: a stop, or the execution's own deadline
    cut,        \* why the worker has killed the tool
    clears      \* how the stages ended that count as assessed

vars == <<left, pc, tool, child, file, late, cancel, cut, clears>>

Cut == {"no", "timeout", "cancel"}
Alive == {"running", "stuck"}
Tool == [state : Alive \cup {"none", "exited", "reaped"}, code : {"none", "zero", "error", "signal"}]

\* deaf: ignores SIGTERM or was born after it; holds: has inherited the pipe
Child == [alive : BOOLEAN, deaf : BOOLEAN, holds : BOOLEAN]

\* Absent or without a result, part of the results, all of them.
File == {"none", "some", "whole"}

\* "looked" and "skipped" are those of a stage that runs no tool.
Ending == [cut : Cut, how : {"none", "zero", "error", "signal", "looked", "skipped"}]

TypeOK ==
    /\ left \in Seq(Adapter)
    /\ pc \in {"between", "poll", "term", "drain", "wait", "done", "failed"}
    /\ tool \in Tool /\ child \in Child /\ file \in File
    /\ late \in BOOLEAN /\ cancel \in BOOLEAN
    /\ cut \in Cut
    /\ clears \subseteq Ending

NoTool == [state |-> "none", code |-> "none"]
NoChild == [alive |-> FALSE, deaf |-> FALSE, holds |-> FALSE]

Init ==
    /\ left \in Plans /\ pc = "between" /\ tool = NoTool /\ child = NoChild
    /\ file \in File
    /\ late = FALSE /\ cancel = FALSE /\ cut = "no" /\ clears = {}

---------------------------------------------------------------------------
(* The stage loop. *)

\* A stop or the deadline before a stage: the rest of the plan is left out.
Break ==
    /\ pc = "between" /\ left # << >> /\ cancel
    /\ pc' = "done"
    /\ UNCHANGED <<left, tool, child, file, late, cancel, cut, clears>>

LastStage ==
    /\ pc = "between" /\ left = << >>
    /\ pc' = "done"
    /\ UNCHANGED <<left, tool, child, file, late, cancel, cut, clears>>

\* coverage_outcome, the most conservative case first.
CoverageOutcome(available, incomplete, ok, nothing) ==
    CASE ~available -> "NOT_ASSESSED"
      [] available /\ incomplete -> "COMPLETED_WITH_GAPS"
      [] available /\ ~incomplete /\ ~ok -> "INCONCLUSIVE"
      [] OTHER -> IF nothing THEN "NOT_ASSESSED" ELSE "ASSESSED"

\* The stage is done; only ASSESSED clears findings.  file is the next stage's from now on.
Record(coverage, how) ==
    /\ clears' = IF coverage = "ASSESSED" THEN clears \cup {[cut |-> cut', how |-> how]} ELSE clears
    /\ left' = Tail(left) /\ pc' = "between" /\ file' \in File

\* A stage that runs no tool.
Toolless ==
    /\ pc = "between" /\ left # << >> /\ ~cancel
    /\ tool' = NoTool /\ child' = NoChild /\ cut' = "no"
    /\ UNCHANGED <<late, cancel>>

\* "no approved hosts to probe", and the like
NoHosts ==
    /\ Toolless /\ Head(left) \in {"dnsx", "nmap", "httpx", "katana", "nuclei"}
    /\ Record(CoverageOutcome(TRUE, FALSE, TRUE, TRUE), "skipped")

Unavailable ==
    /\ Toolless /\ Head(left) # "osint"
    /\ Record(CoverageOutcome(FALSE, TRUE, FALSE, FALSE), "skipped")

\* verify_template_set finds a template missing, added or altered.
Unreviewed ==
    /\ Toolless /\ Head(left) = "nuclei"
    /\ Record(CoverageOutcome(TRUE, TRUE, FALSE, FALSE), "skipped")

\* Two lookups, each of which may fail; the note of a target that is no domain, or of
\* lookups that are switched off, does not begin with "no ".
Lookup ==
    /\ Toolless /\ Head(left) = "osint"
    /\ \/ Record(CoverageOutcome(TRUE, FALSE, TRUE, FALSE), "skipped")
       \/ \E failed \in SUBSET {"crt.sh", "rdap"}, found \in BOOLEAN :
             Record(CoverageOutcome(TRUE, failed # {}, failed = {} \/ found, FALSE), "looked")

\* Popen, in a session of its own
Start ==
    /\ pc = "between" /\ left # << >> /\ ~cancel /\ Head(left) # "osint"
    /\ pc' = "poll" /\ tool' = [NoTool EXCEPT !.state = "running"]
    /\ child' = NoChild /\ late' = FALSE /\ cut' = "no"
    /\ UNCHANGED <<left, file, cancel, clears>>

---------------------------------------------------------------------------
(* The tool. *)

\* It opens its output file anew and writes.
Write ==
    /\ tool.state = "running" /\ file' \in {"some", "whole"} /\ file' # file
    /\ UNCHANGED <<left, pc, tool, child, late, cancel, cut, clears>>

FillPipe ==
    /\ tool.state = "running" /\ tool' = [tool EXCEPT !.state = "stuck"]
    /\ UNCHANGED <<left, pc, child, file, late, cancel, cut, clears>>

Fork ==
    /\ tool.state = "running" /\ ~child.alive
    /\ \E d, h \in BOOLEAN :
          child' = [alive |-> TRUE, deaf |-> d \/ pc = "term", holds |-> h]
    /\ UNCHANGED <<left, pc, tool, file, late, cancel, cut, clears>>

Exit ==
    /\ tool.state = "running"
    /\ \/ tool' = [state |-> "exited", code |-> "zero"] /\ file' = "whole"
       \/ tool' = [state |-> "exited", code |-> "error"] /\ file' = file
    /\ UNCHANGED <<left, pc, child, late, cancel, cut, clears>>

ChildExits ==
    /\ child.alive /\ child' = NoChild
    /\ UNCHANGED <<left, pc, tool, file, late, cancel, cut, clears>>

---------------------------------------------------------------------------
(* run_tool. *)

BadKilled(obeys) ==
    /\ tool' = IF tool.state \in Alive /\ obeys THEN [state |-> "exited", code |-> "signal"] ELSE tool
    /\ child' = child

\* _kill_group: SIGTERM to the whole group; the leader need not obey it.
Killed(obeys) ==
    /\ tool' = IF tool.state \in Alive /\ obeys THEN [state |-> "exited", code |-> "signal"] ELSE tool
    /\ child' = IF child.alive /\ child.deaf THEN child ELSE NoChild

\* The adapters that pass the guard on to run_tool.
Guarded == {"nmap", "httpx", "katana", "nuclei"}

BadDue == Head(left) \in Guarded /\ cancel

Due == late \/ (Head(left) \in Guarded /\ cancel)

PollEnded ==
    /\ pc = "poll" /\ tool.state = "exited"
    /\ tool' = [tool EXCEPT !.state = "reaped"] /\ pc' = "drain"
    /\ UNCHANGED <<left, child, file, late, cancel, cut, clears>>

\* Between the poll and the signal the leader may exit; the group is there until it is reaped.
PollDue ==
    /\ pc = "poll" /\ tool.state \in Alive /\ Due
    /\ cut' = IF late THEN "timeout" ELSE "cancel"
    /\ \E obeys \in BOOLEAN : Killed(obeys)
    /\ pc' = "term"
    /\ UNCHANGED <<left, file, late, cancel, clears>>

\* wait(grace) has seen the leader end
TermEnded ==
    /\ pc = "term" /\ tool.state = "exited"
    /\ tool' = [tool EXCEPT !.state = "reaped"] /\ pc' = "drain"
    /\ UNCHANGED <<left, child, file, late, cancel, cut, clears>>

\* _hard_kill_group finds the group by its leader, who must not have been reaped.
HardKilled ==
    IF tool.state = "reaped"
    THEN UNCHANGED <<tool, child>>
    ELSE /\ tool' = [state |-> "exited", code |-> IF tool.state = "exited" THEN tool.code ELSE "signal"]
         /\ child' = NoChild

TermExpires ==
    /\ pc = "term" /\ tool.state \in Alive
    /\ HardKilled /\ pc' = "drain"
    /\ UNCHANGED <<left, file, late, cancel, cut, clears>>

\* communicate reads to the end of the pipe: until nobody holds it.
PipeHeld == child.alive /\ child.holds

\* The first communicate gives up after the grace, the second never.
DrainExpires ==
    /\ pc = "drain" /\ PipeHeld
    /\ HardKilled /\ pc' = "wait"
    /\ UNCHANGED <<left, file, late, cancel, cut, clears>>

BadIncomplete == FALSE

\* out.incomplete, by res.timed_out
Incomplete == cut = "timeout"

\* _parse_xml: a part of nmap's report may be beyond salvage.
Parses == CASE file = "none" -> {FALSE} [] file = "some" -> BOOLEAN [] OTHER -> {TRUE}

NmapCoverage(parsed) ==
    CoverageOutcome(TRUE, Incomplete \/ ~parsed, parsed /\ tool.code = "zero", FALSE)

\* The other tools list results line by line: any result outweighs the exit status.
ListCoverage == CoverageOutcome(TRUE, Incomplete, tool.code = "zero" \/ file # "none", FALSE)

\* run_tool returns and the adapter reads the file.
Return ==
    /\ pc \in {"drain", "wait"} /\ ~PipeHeld
    /\ UNCHANGED <<child, late, cancel, cut>>
    /\ tool' = [tool EXCEPT !.state = "reaped"]
    /\ IF Head(left) = "nmap"
       THEN \E parsed \in Parses : Record(NmapCoverage(parsed), tool.code)
       ELSE Record(ListCoverage, tool.code)

---------------------------------------------------------------------------
(* Time and requests. *)

DeadlinePasses ==
    /\ pc = "poll" /\ ~late /\ late' = TRUE
    /\ UNCHANGED <<left, pc, tool, child, file, cancel, cut, clears>>

Stop ==
    /\ ~cancel /\ pc \notin {"done", "failed"} /\ cancel' = TRUE
    /\ UNCHANGED <<left, pc, tool, child, file, late, cut, clears>>

\* The guard's query fails: the exception leaves run_tool, and the task, with the tool as it is.
GuardFails ==
    /\ \/ pc = "between" /\ left # << >>
       \/ pc = "poll" /\ tool.state \in Alive /\ ~late /\ Head(left) \in Guarded
    /\ pc' = "failed"
    /\ UNCHANGED <<left, tool, child, file, late, cancel, cut, clears>>

Worker == Break \/ LastStage \/ NoHosts \/ Unavailable \/ Unreviewed \/ Lookup \/ Start
            \/ PollEnded \/ PollDue \/ TermEnded \/ TermExpires \/ DrainExpires \/ Return

Next == Worker \/ Write \/ FillPipe \/ Fork \/ Exit \/ ChildExits \/ DeadlinePasses \/ Stop
            \/ GuardFails

\* The worker goes on and its clock too; of the tools nothing is assumed.
Spec == Init /\ [][Next]_vars /\ WF_vars(Worker) /\ WF_vars(DeadlinePasses)

---------------------------------------------------------------------------

\* run_tool (_exec.py:93-114): whatever the tools do, the stages end, and the worker is
\* free again; unless a process that has outlived its leader holds the pipe, which no
\* deadline and no stop reaches.
EndsUnlessHeld == <>(pc \in {"done", "failed"} \/ [](pc = "wait" /\ PipeHeld))

\* _kill_group and _hard_kill_group (_exec.py:32-49): when the worker goes on after it has
\* cut a tool, the tool is dead, and so is its group, but for one that ignores SIGTERM
\* under a leader that obeyed it in time.
OnlyDeafSurvive ==
    pc \in {"between", "done"} =>
        /\ tool.state \notin Alive \cup {"exited"}
        /\ cut # "no" /\ child.alive => child.deaf

\* coverage_outcome (coverage.py:31-54) with persist (runner.py:282): a run that is not
\* cancelled counts no stage as assessed whose tool the worker has cut.
CutNeverAssesses == pc = "done" /\ ~cancel => \A e \in clears : e.cut = "no"

===========================================================================
