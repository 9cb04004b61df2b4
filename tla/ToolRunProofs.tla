--------------------------- MODULE ToolRunProofs ---------------------------
(***************************************************************************)
(* ToolRun proved for any plans of stages: the types, that a cut leaves no   *)
(* process alive but one that ignores SIGTERM, and that it clears nothing.   *)
(***************************************************************************)
EXTENDS ToolRun, TLAPS

\* run_tool runs for a stage.
StageAtHand == pc \in {"poll", "term", "drain", "wait"} => left # << >>

\* Where the worker is not in run_tool, or only reads, the leader does not run.
LeaderEnded ==
    /\ pc \in {"drain", "wait"} => tool.state \notin Alive
    /\ pc \in {"between", "done"} => tool.state \in {"none", "reaped"}

\* A tool that has been cut runs only until its grace is over, and what it starts
\* meanwhile does not get the signal.
CutEnds ==
    /\ pc = "poll" => cut = "no"
    /\ cut # "no" /\ tool.state \in Alive => pc = "term"
    /\ cut # "no" /\ child.alive => child.deaf

\* What is assessed was not cut, or cut by a stop, which is still in force.
ClearsOK ==
    /\ cut = "cancel" => cancel
    /\ \A e \in clears : e.cut = "no" \/ (e.cut = "cancel" /\ cancel)

IInv == TypeOK /\ StageAtHand /\ LeaderEnded /\ CutEnds /\ ClearsOK

---------------------------------------------------------------------------

\* The stages that are left after one of them are stages.
LEMMA TailTyped ==
  ASSUME NEW s \in Seq(Adapter), s # << >>
  PROVE  Tail(s) \in Seq(Adapter)
  OBVIOUS

\* The stage loop's bookkeeping (runner.py:228-246) keeps the types, and counts as
\* assessed nothing but the ending of the stage at hand.
LEMMA RecordTyped ==
  ASSUME NEW coverage, NEW how, TypeOK, left # << >>, Record(coverage, how),
         how \in {"none", "zero", "error", "signal", "looked", "skipped"}, cut' \in Cut
  PROVE  /\ left' \in Seq(Adapter) /\ pc' = "between" /\ file' \in File /\ clears' \subseteq Ending
         /\ \A e \in clears' : e \in clears \/ (coverage = "ASSESSED" /\ e.cut = cut')
  <1>1. left' \in Seq(Adapter) /\ pc' = "between" /\ file' \in File
    BY TailTyped DEF Record, TypeOK
  <1>2. [cut |-> cut', how |-> how] \in Ending
    BY DEF Ending
  <1>3. clears' \subseteq clears \cup {[cut |-> cut', how |-> how]}
    BY DEF Record
  <1>4. coverage # "ASSESSED" => clears' = clears
    BY DEF Record
  <1> QED
    BY <1>1, <1>2, <1>3, <1>4 DEF TypeOK

\* A stage that runs no tool keeps the invariant.
LEMMA ToollessStep ==
  ASSUME IInv, NEW coverage, NEW how \in {"looked", "skipped"}, Toolless, Record(coverage, how)
  PROVE  IInv'
  <1>1. cut' = "no" /\ tool' = NoTool /\ child' = NoChild /\ late' = late /\ cancel' = cancel /\ left # << >>
    BY DEF Toolless
  <1>2. TypeOK'
    BY <1>1, RecordTyped DEF IInv, TypeOK, Tool, NoTool, Child, NoChild, Cut
  <1>3. StageAtHand' /\ LeaderEnded' /\ CutEnds'
    BY <1>1 DEF Record, StageAtHand, LeaderEnded, CutEnds, NoTool, NoChild, Alive
  <1>4. ClearsOK'
    BY <1>1, RecordTyped DEF IInv, ClearsOK, Cut
  <1> QED
    BY <1>2, <1>3, <1>4 DEF IInv

\* run_tool's signals leave a well-formed process group; a child that is left was
\* there before, and SIGTERM leaves it only if it is deaf.
LEMMA SignalsTyped ==
  ASSUME TypeOK, NEW obeys \in BOOLEAN
  PROVE  /\ Killed(obeys) => /\ tool' \in Tool /\ child' \in Child
                             /\ child'.alive => child'.deaf
         /\ HardKilled => /\ tool' \in Tool /\ child' \in Child /\ tool'.state \notin Alive
                          /\ child'.alive => child' = child
  <1>1. tool \in Tool /\ child \in Child
    BY DEF TypeOK
  <1>2. Killed(obeys) => tool' \in Tool /\ child' \in Child /\ (child'.alive => child'.deaf)
    BY <1>1 DEF Killed, Tool, Child, NoChild, Alive
  <1>3. HardKilled => /\ tool' \in Tool /\ child' \in Child /\ tool'.state \notin Alive
                      /\ child'.alive => child' = child
    <2>1. CASE tool.state = "reaped"
      BY <1>1, <2>1 DEF HardKilled, Alive
    <2>2. CASE tool.state # "reaped"
      <3>1. HardKilled => child' = NoChild
        BY <2>2 DEF HardKilled
      <3>2. tool.code \in {"none", "zero", "error", "signal"}
        BY <1>1 DEF Tool
      <3>3. HardKilled => tool' \in Tool /\ tool'.state \notin Alive
        BY <2>2, <3>2 DEF HardKilled, Tool, Alive
      <3>4. NoChild \in Child /\ ~NoChild.alive
        BY DEF Child, NoChild
      <3> QED
        BY <3>1, <3>3, <3>4
    <2> QED
      BY <2>1, <2>2
  <1> QED
    BY <1>2, <1>3

\* The adapter's reading of what a tool has left (httpx.py:199-206, nmap.py:271-284).
LEMMA ReturnStep ==
  ASSUME IInv, Return
  PROVE  IInv'
  <1>0. /\ pc \in {"drain", "wait"} /\ child' = child /\ late' = late /\ cancel' = cancel /\ cut' = cut
        /\ tool' = [tool EXCEPT !.state = "reaped"]
    BY DEF Return
  <1>1. PICK coverage : Record(coverage, tool.code) /\ (cut = "timeout" => coverage # "ASSESSED")
    <2>1. CASE Head(left) = "nmap"
      <3>1. PICK parsed \in Parses : Record(NmapCoverage(parsed), tool.code)
        BY <2>1 DEF Return
      <3>2. cut = "timeout" => NmapCoverage(parsed) # "ASSESSED"
        BY DEF NmapCoverage, Incomplete, CoverageOutcome
      <3> QED
        BY <3>1, <3>2
    <2>2. CASE Head(left) # "nmap"
      <3>1. Record(ListCoverage, tool.code)
        BY <2>2 DEF Return
      <3>2. cut = "timeout" => ListCoverage # "ASSESSED"
        BY DEF ListCoverage, Incomplete, CoverageOutcome
      <3> QED
        BY <3>1, <3>2
    <2> QED
      BY <2>1, <2>2
  <1>2. left # << >>
    BY <1>0 DEF IInv, StageAtHand
  <1>3. tool.code \in {"none", "zero", "error", "signal"} /\ tool' \in Tool /\ tool'.state = "reaped"
    BY <1>0 DEF IInv, TypeOK, Tool
  <1>4. cut' \in Cut
    BY <1>0 DEF IInv, TypeOK
  <1>5. /\ left' \in Seq(Adapter) /\ pc' = "between" /\ file' \in File /\ clears' \subseteq Ending
        /\ \A e \in clears' : e \in clears \/ (coverage = "ASSESSED" /\ e.cut = cut')
    BY <1>1, <1>2, <1>3, <1>4, RecordTyped DEF IInv
  <1>6. TypeOK'
    BY <1>0, <1>3, <1>4, <1>5 DEF IInv, TypeOK
  <1>7. StageAtHand' /\ LeaderEnded'
    BY <1>3, <1>5 DEF StageAtHand, LeaderEnded
  <1>8. CutEnds'
    BY <1>0, <1>3, <1>5 DEF IInv, CutEnds, Alive
  <1>9. ClearsOK'
    BY <1>0, <1>1, <1>5 DEF IInv, TypeOK, ClearsOK, Cut
  <1> QED
    BY <1>6, <1>7, <1>8, <1>9 DEF IInv

\* The worker's polls, waits and signals.
LEMMA RunToolStep ==
  ASSUME IInv, Break \/ LastStage \/ Start \/ PollEnded \/ PollDue \/ TermEnded \/ TermExpires \/ DrainExpires
  PROVE  IInv'
  <1> USE DEF IInv, StageAtHand, LeaderEnded, CutEnds, ClearsOK
  <1>1. CASE Break \/ LastStage
    BY <1>1 DEF Break, LastStage, TypeOK, Alive
  <1>2. CASE Start
    BY <1>2 DEF Start, TypeOK, Tool, NoTool, Child, NoChild, Cut, Alive
  <1>3. CASE PollEnded
    BY <1>3 DEF PollEnded, TypeOK, Tool, Alive
  <1>4. CASE PollDue
    <2>1. PICK obeys \in BOOLEAN : Killed(obeys)
      BY <1>4 DEF PollDue
    <2>2. tool' \in Tool /\ child' \in Child /\ (child'.alive => child'.deaf)
      BY <2>1, SignalsTyped
    <2>3. cut' \in Cut /\ (cut' = "cancel" => cancel)
      BY <1>4 DEF PollDue, Due, Cut
    <2> QED
      BY <1>4, <2>2, <2>3 DEF PollDue, TypeOK
  <1>5. CASE TermEnded
    BY <1>5 DEF TermEnded, TypeOK, Tool, Alive
  <1>6. CASE TermExpires
    <2>1. tool' \in Tool /\ child' \in Child /\ tool'.state \notin Alive /\ (child'.alive => child' = child)
      BY <1>6, SignalsTyped DEF TermExpires
    <2> QED
      BY <1>6, <2>1 DEF TermExpires, TypeOK
  <1>7. CASE DrainExpires
    <2>1. tool' \in Tool /\ child' \in Child /\ tool'.state \notin Alive /\ (child'.alive => child' = child)
      BY <1>7, SignalsTyped DEF DrainExpires
    <2> QED
      BY <1>7, <2>1 DEF DrainExpires, TypeOK
  <1> QED
    BY <1>1, <1>2, <1>3, <1>4, <1>5, <1>6, <1>7

\* What the tools do by themselves, the clock, a stop and a failing guard.
LEMMA OutsideStep ==
  ASSUME IInv, Write \/ FillPipe \/ Fork \/ Exit \/ ChildExits \/ DeadlinePasses \/ Stop \/ GuardFails
  PROVE  IInv'
  <1> USE DEF IInv, StageAtHand, LeaderEnded, CutEnds, ClearsOK
  <1>1. CASE Write
    BY <1>1 DEF Write, TypeOK, File
  <1>2. CASE FillPipe
    BY <1>2 DEF FillPipe, TypeOK, Tool, Alive
  <1>3. CASE Fork
    <2>1. PICK d \in BOOLEAN, h \in BOOLEAN : child' = [alive |-> TRUE, deaf |-> d \/ pc = "term", holds |-> h]
      BY <1>3 DEF Fork
    <2>2. tool.state \in Alive
      BY <1>3 DEF Fork, Alive
    <2> QED
      BY <1>3, <2>1, <2>2 DEF Fork, TypeOK, Child
  <1>4. CASE Exit
    BY <1>4 DEF Exit, TypeOK, Tool, File, Alive
  <1>5. CASE ChildExits
    BY <1>5 DEF ChildExits, TypeOK, Child, NoChild
  <1>6. CASE DeadlinePasses
    BY <1>6 DEF DeadlinePasses, TypeOK
  <1>7. CASE Stop
    BY <1>7 DEF Stop, TypeOK
  <1>8. CASE GuardFails
    BY <1>8 DEF GuardFails, TypeOK, Alive
  <1> QED
    BY <1>1, <1>2, <1>3, <1>4, <1>5, <1>6, <1>7, <1>8

\* The invariant behind the theorems below: it holds for any plans of stages, whatever
\* the tools do.
THEOREM RunInvariance == Spec => []IInv
  <1>1. Init => IInv
    <2> SUFFICES ASSUME Init PROVE IInv
      OBVIOUS
    <2>1. left \in Seq(Adapter)
      BY PlansAssumption DEF Init
    <2>2. tool \in Tool /\ child \in Child /\ tool.state = "none" /\ ~child.alive
      BY DEF Init, Tool, NoTool, Child, NoChild
    <2>3. TypeOK
      BY <2>1, <2>2 DEF Init, TypeOK, Cut
    <2>4. StageAtHand /\ LeaderEnded /\ CutEnds /\ ClearsOK
      BY <2>2 DEF Init, StageAtHand, LeaderEnded, CutEnds, ClearsOK
    <2> QED
      BY <2>3, <2>4 DEF IInv
  <1>2. IInv /\ [Next]_vars => IInv'
    <2> SUFFICES ASSUME IInv, [Next]_vars PROVE IInv'
      OBVIOUS
    <2>1. CASE NoHosts
      BY <2>1, ToollessStep DEF NoHosts
    <2>2. CASE Unavailable
      BY <2>2, ToollessStep DEF Unavailable
    <2>3. CASE Unreviewed
      BY <2>3, ToollessStep DEF Unreviewed
    <2>4. CASE Lookup
      <3>1. CASE Record(CoverageOutcome(TRUE, FALSE, TRUE, FALSE), "skipped")
        BY <2>4, <3>1, ToollessStep DEF Lookup
      <3>2. CASE \E failed \in SUBSET {"crt.sh", "rdap"}, found \in BOOLEAN :
                    Record(CoverageOutcome(TRUE, failed # {}, failed = {} \/ found, FALSE), "looked")
        <4>1. PICK coverage : Record(coverage, "looked")
          BY <3>2
        <4> QED
          BY <2>4, <4>1, ToollessStep DEF Lookup
      <3> QED
        BY <2>4, <3>1, <3>2 DEF Lookup
    <2>5. CASE Return
      BY <2>5, ReturnStep
    <2>6. CASE Break \/ LastStage \/ Start \/ PollEnded \/ PollDue \/ TermEnded \/ TermExpires \/ DrainExpires
      BY <2>6, RunToolStep
    <2>7. CASE Write \/ FillPipe \/ Fork \/ Exit \/ ChildExits \/ DeadlinePasses \/ Stop \/ GuardFails
      BY <2>7, OutsideStep
    <2>8. CASE UNCHANGED vars
      BY <2>8 DEF vars, IInv, TypeOK, StageAtHand, LeaderEnded, CutEnds, ClearsOK
    <2> QED
      BY <2>1, <2>2, <2>3, <2>4, <2>5, <2>6, <2>7, <2>8 DEF Next, Worker
  <1> QED
    BY <1>1, <1>2, PTL DEF Spec

\* Every variable keeps its type, whatever the stages of a profile.
THEOREM RunTypeCorrect == Spec => []TypeOK
  <1>1. IInv => TypeOK
    BY DEF IInv
  <1> QED
    BY <1>1, RunInvariance, PTL

\* _kill_group and _hard_kill_group (_exec.py:31-48): of a tool that was cut only a process
\* that ignores SIGTERM is left when the worker goes on.
THEOREM CutIsDead == Spec => []OnlyDeafSurvive
  <1>1. IInv => OnlyDeafSurvive
    BY DEF IInv, LeaderEnded, CutEnds, OnlyDeafSurvive, Alive
  <1> QED
    BY <1>1, RunInvariance, PTL

\* coverage_outcome (coverage.py:45-48): what the worker has cut clears no finding of a run
\* that is not cancelled.
THEOREM CutClearsNothing == Spec => []CutNeverAssesses
  <1>1. IInv => CutNeverAssesses
    BY DEF IInv, ClearsOK, CutNeverAssesses
  <1> QED
    BY <1>1, RunInvariance, PTL

============================================================================
