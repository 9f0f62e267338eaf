----------------------------- MODULE ReviewProofs -----------------------------
(***************************************************************************)
(* Theorems about Review, for any number of operators, requests, appeals   *)
(* and rejections.                                                         *)
(***************************************************************************)
EXTENDS Review, SequenceTheorems, TLAPS

USE ReviewAssumption

-----------------------------------------------------------------------------
(* Types.                                                                   *)

Named == \A w \in Workers : job[w].at \in {"claim", "decide"} => job[w].appeal \in Appeals
JobsOK == job \in [Workers -> Jobs] /\ Named

LEMMA InitTypes == Init => TypeOK
  <1> SUFFICES ASSUME Init PROVE TypeOK
    OBVIOUS
  <1>1. rejections \in Seq(Operators)
    BY DEF Init
  <1>2. NoRow \in Rows
    BY DEF NoRow, Rows
  <1>3. appeals \in [Appeals -> Rows]
    BY <1>2 DEF Init
  <1>4. Resting \in Jobs
    BY DEF Resting, Jobs, Stages
  <1>5. job \in [Workers -> Jobs]
    BY <1>4 DEF Init
  <1>6. \A w \in Workers : job[w].at = "idle"
    BY DEF Init, Resting
  <1> QED
    BY <1>1, <1>3, <1>5, <1>6 DEF Init, TypeOK, Statuses

(* The three ways in which a job moves keep the jobs' types.                *)
LEMMA JobTypes ==
  ASSUME JobsOK, NEW w \in Workers,
         \/ \E s \in Stages \ {"claim", "decide"} : job' = [job EXCEPT ![w].at = s]
         \/ \E s \in Stages, a \in Appeals : job' = [job EXCEPT ![w].at = s, ![w].appeal = a]
         \/ job' = [job EXCEPT ![w] = Resting]
         \/ UNCHANGED job
  PROVE  JobsOK'
  <1>1. ASSUME NEW s \in Stages \ {"claim", "decide"}, job' = [job EXCEPT ![w].at = s]
        PROVE JobsOK'
    <2>1. job' = [job EXCEPT ![w] = [job[w] EXCEPT !.at = s]]
      BY <1>1
    <2>2. [job[w] EXCEPT !.at = s] \in Jobs
      BY DEF JobsOK, Jobs
    <2>3. job' \in [Workers -> Jobs]
      BY <2>1, <2>2 DEF JobsOK
    <2> QED
      BY ZenonT(60), <1>1, <2>3 DEF JobsOK, Named, Jobs
  <1>2. ASSUME NEW s \in Stages, NEW a \in Appeals,
               job' = [job EXCEPT ![w].at = s, ![w].appeal = a]
        PROVE JobsOK'
    <2>1. job' = [job EXCEPT ![w] = [job[w] EXCEPT !.at = s, !.appeal = a]]
      BY <1>2 DEF JobsOK
    <2>2. [job[w] EXCEPT !.at = s, !.appeal = a] \in Jobs
      BY DEF JobsOK, Jobs
    <2>3. job' \in [Workers -> Jobs]
      BY <2>1, <2>2 DEF JobsOK
    <2> QED
      BY ZenonT(60), <1>2, <2>3 DEF JobsOK, Named, Jobs
  <1>3. ASSUME job' = [job EXCEPT ![w] = Resting] PROVE JobsOK'
    BY <1>3 DEF JobsOK, Named, Jobs, Resting, Stages
  <1>4. ASSUME UNCHANGED job PROVE JobsOK'
    BY <1>4 DEF JobsOK, Named
  <1> QED
    BY <1>1, <1>2, <1>3, <1>4

LEMMA NextJobs == TypeOK /\ [Next]_vars => JobsOK'
  <1> SUFFICES ASSUME TypeOK, [Next]_vars PROVE JobsOK'
    OBVIOUS
  <1>0. JobsOK /\ Tick \in Workers /\ Operators \subseteq Workers /\ Tabs \subseteq Workers
    BY DEF TypeOK, JobsOK, Named, Workers
  <1>1. ASSUME NEW w \in Workers,
               \/ Ends(w)
               \/ \E s \in Stages \ {"claim", "decide"} : job' = [job EXCEPT ![w].at = s]
        PROVE JobsOK'
    BY <1>0, <1>1, JobTypes DEF Ends
  <1>2. ASSUME NEW t \in Tabs, TabStarts(t) PROVE JobsOK'
    <2>1. \E s \in Stages \ {"claim", "decide"} : job' = [job EXCEPT ![t].at = s]
      BY <1>2 DEF TabStarts, SubmitChecked, EditChecked, CancelChecked, AppealChecked, Reads, Stages
    <2> QED
      BY <1>0, <1>1, <2>1
  <1>3. ASSUME NEW t \in Tabs, TabStep(t) PROVE JobsOK'
    <2>1. \/ Ends(t)
          \/ \E s \in Stages \ {"claim", "decide"} : job' = [job EXCEPT ![t].at = s]
      BY <1>3 DEF TabStep, Submitted, Edited, Deleted, Withdrawn, Cancelled, CancelFinished,
           AppealSubmitted, Stages
    <2> QED
      BY <1>0, <1>1, <2>1
  <1>4. ASSUME NEW o \in Operators, ReviewChecked(o) PROVE JobsOK'
    <2>1. \E s \in Stages \ {"claim", "decide"} : job' = [job EXCEPT ![o].at = s]
      BY <1>4 DEF ReviewChecked, Reads, Stages
    <2> QED
      BY <1>0, <1>1, <2>1
  <1>5. ASSUME NEW o \in Operators, NEW a \in Appeals, ClaimChecked(o, a) \/ DecideChecked(o, a)
        PROVE JobsOK'
    <2>1. \E s \in Stages : job' = [job EXCEPT ![o].at = s, ![o].appeal = a]
      BY <1>5 DEF ClaimChecked, DecideChecked, TakesAppeal, Stages
    <2> QED
      BY <1>0, <2>1, JobTypes
  <1>6. ASSUME NEW o \in Operators, OperatorStep(o) PROVE JobsOK'
    <2>1. Ends(o)
      BY <1>6 DEF OperatorStep, Approved, Rejected, Claimed, Upheld, Overturned, Rules
    <2> QED
      BY <1>0, <1>1, <2>1
  <1>7. ASSUME NEW w \in Tabs \cup Operators, Drops(w) PROVE JobsOK'
    BY <1>0, <1>1, <1>7 DEF Drops
  <1>8. CASE Launched \/ LaunchMissed
    BY <1>0, <1>1, <1>8 DEF Launched, LaunchMissed
  <1>9. CASE TickRead
    <2>1. job' = [job EXCEPT ![Tick].at = "launch"] /\ "launch" \in Stages \ {"claim", "decide"}
      BY <1>9 DEF TickRead, Stages
    <2> QED
      BY <1>0, <1>1, <2>1
  <1>10. CASE PausedOrResumed \/ ForceClosed \/ Settles \/ ClockPasses \/ UNCHANGED vars
    <2>1. UNCHANGED job
      BY <1>10 DEF PausedOrResumed, ForceClosed, Settles, ClockPasses, vars
    <2> QED
      BY <1>0, <2>1, JobTypes
  <1> QED
    BY <1>2, <1>3, <1>4, <1>5, <1>6, <1>7, <1>8, <1>9, <1>10 DEF Next, OperatorStarts

(* What a step may do to the rows.                                          *)
ProjectKeeps ==
  /\ status \in Statuses /\ feedback \in BOOLEAN /\ rejectedAt \in BOOLEAN
  /\ launch \in {"none", "later", "due"} /\ review \in {"none", "approved", "rejected"}

LEMMA NextProject == TypeOK /\ [Next]_vars => ProjectKeeps'
  <1> SUFFICES ASSUME TypeOK, [Next]_vars PROVE ProjectKeeps'
    OBVIOUS
  <1> USE DEF TypeOK, ProjectKeeps, Statuses, project
  <1>1. ASSUME UNCHANGED project PROVE ProjectKeeps'
    BY <1>1
  <1>2. ASSUME NEW t \in Tabs, TabStarts(t) PROVE ProjectKeeps'
    BY <1>2 DEF TabStarts, SubmitChecked, EditChecked, CancelChecked, AppealChecked, Reads, Starts
  <1>3. ASSUME NEW t \in Tabs, TabStep(t) PROVE ProjectKeeps'
    BY ZenonT(60), <1>3 DEF TabStep, Submitted, Edited, Deleted, Withdrawn, Cancelled, CancelFinished,
         AppealSubmitted, Becomes
  <1>4. ASSUME NEW o \in Operators, OperatorStarts(o) PROVE ProjectKeeps'
    BY <1>4 DEF OperatorStarts, ReviewChecked, ClaimChecked, DecideChecked, Reads, TakesAppeal, Starts
  <1>5. ASSUME NEW o \in Operators, OperatorStep(o) PROVE ProjectKeeps'
    BY <1>5 DEF OperatorStep, Approved, Rejected, Claimed, Upheld, Overturned, Becomes
  <1>6. ASSUME NEW w \in Tabs \cup Operators, Drops(w) PROVE ProjectKeeps'
    BY <1>6 DEF Drops
  <1>7. CASE PausedOrResumed \/ ForceClosed \/ Settles \/ ClockPasses \/ UNCHANGED vars
    BY <1>7 DEF PausedOrResumed, ForceClosed, Settles, ClockPasses, vars
  <1>8. CASE TickRead \/ Launched \/ LaunchMissed
    BY <1>8 DEF TickRead, Launched, LaunchMissed, Starts
  <1> QED
    BY <1>2, <1>3, <1>4, <1>5, <1>6, <1>7, <1>8 DEF Next

(* Appeals are inserted and ruled upon, rejections are only added.          *)
Inserted(a) ==
  /\ ~Blocked /\ appeals[a] = NoRow
  /\ appeals' = [appeals EXCEPT ![a].status = "SUBMITTED", ![a].contests = Len(rejections)]
  /\ UNCHANGED rejections

DeskMoves ==
  \/ UNCHANGED desk
  \/ \E a \in Appeals : Inserted(a)
  \/ \E o \in Operators : rejections' = Append(rejections, o) /\ UNCHANGED appeals
  \/ \E o \in Operators : Rules(o, job[o].appeal, "UNDER_REVIEW")
  \/ \E o \in Operators, s \in {"UPHELD", "OVERTURNED"} :
       At(o, "decide") /\ Rules(o, job[o].appeal, s)

LEMMA NextDesk == [Next]_vars => DeskMoves
  <1> SUFFICES ASSUME [Next]_vars PROVE DeskMoves
    OBVIOUS
  <1>1. ASSUME UNCHANGED desk PROVE DeskMoves
    BY <1>1 DEF DeskMoves
  <1>2. ASSUME NEW t \in Tabs, TabStarts(t) PROVE DeskMoves
    BY <1>2, <1>1 DEF TabStarts, SubmitChecked, EditChecked, CancelChecked, AppealChecked, Reads, Starts
  <1>3. ASSUME NEW t \in Tabs, TabStep(t) PROVE DeskMoves
    <2>1. CASE AppealSubmitted(t)
      BY <2>1 DEF AppealSubmitted, DeskMoves, Inserted
    <2> QED
      BY <1>3, <2>1, <1>1 DEF TabStep, Submitted, Edited, Deleted, Withdrawn, Cancelled, CancelFinished
  <1>4. ASSUME NEW o \in Operators, OperatorStarts(o) PROVE DeskMoves
    BY <1>4, <1>1 DEF OperatorStarts, ReviewChecked, ClaimChecked, DecideChecked, Reads, TakesAppeal, Starts
  <1>5. ASSUME NEW o \in Operators, OperatorStep(o) PROVE DeskMoves
    <2>1. CASE Approved(o)
      BY <2>1, <1>1 DEF Approved
    <2>2. CASE Rejected(o)
      BY <2>2 DEF Rejected, DeskMoves
    <2>3. CASE Claimed(o)
      BY <2>3 DEF Claimed, DeskMoves
    <2>4. CASE Upheld(o) \/ Overturned(o)
      BY <2>4 DEF Upheld, Overturned, DeskMoves
    <2> QED
      BY <1>5, <2>1, <2>2, <2>3, <2>4 DEF OperatorStep
  <1>6. ASSUME NEW w \in Tabs \cup Operators, Drops(w) PROVE DeskMoves
    BY <1>6, <1>1 DEF Drops
  <1>7. CASE PausedOrResumed \/ ForceClosed \/ Settles \/ ClockPasses \/ UNCHANGED vars
    BY <1>7, <1>1 DEF PausedOrResumed, ForceClosed, Settles, ClockPasses, vars, desk
  <1>8. CASE TickRead \/ Launched \/ LaunchMissed
    BY <1>8, <1>1 DEF TickRead, Launched, LaunchMissed, Starts
  <1> QED
    BY <1>2, <1>3, <1>4, <1>5, <1>6, <1>7, <1>8 DEF Next

LEMMA DeskTypes ==
  ASSUME TypeOK, DeskMoves
  PROVE  rejections' \in Seq(Operators) /\ appeals' \in [Appeals -> Rows]
  <1> USE DEF TypeOK
  <1>0. Len(rejections) \in Nat
    OBVIOUS
  <1>1. CASE UNCHANGED desk
    BY <1>1 DEF desk
  <1>2. ASSUME NEW a \in Appeals, Inserted(a) PROVE rejections' \in Seq(Operators) /\ appeals' \in [Appeals -> Rows]
    <2>1. appeals' = [appeals EXCEPT ![a] =
            [appeals[a] EXCEPT !.status = "SUBMITTED", !.contests = Len(rejections)]]
      BY <1>2 DEF Inserted
    <2>2. [appeals[a] EXCEPT !.status = "SUBMITTED", !.contests = Len(rejections)] \in Rows
      BY <1>0 DEF Rows
    <2> QED
      BY <1>2, <2>1, <2>2 DEF Inserted
  <1>3. ASSUME NEW o \in Operators, rejections' = Append(rejections, o), UNCHANGED appeals
        PROVE rejections' \in Seq(Operators) /\ appeals' \in [Appeals -> Rows]
    BY <1>3
  <1>4. ASSUME NEW o \in Operators, NEW s \in {"UNDER_REVIEW", "UPHELD", "OVERTURNED"},
               Rules(o, job[o].appeal, s)
        PROVE rejections' \in Seq(Operators) /\ appeals' \in [Appeals -> Rows]
    <2> DEFINE a == job[o].appeal
    <2>1. CASE a \in Appeals
      <3> DEFINE j == IF s \in Open THEN appeals[a].judge ELSE o
      <3>1. appeals' = [appeals EXCEPT ![a] = [appeals[a] EXCEPT !.status = s, !.judge = j]]
        BY <1>4, <2>1 DEF Rules
      <3>2. appeals[a] \in Rows
        BY <2>1
      <3>3. j \in Operators \cup {Nobody}
        BY <3>2 DEF Rows
      <3> HIDE DEF j
      <3>4. [appeals[a] EXCEPT !.status = s, !.judge = j] \in Rows
        BY <3>2, <3>3 DEF Rows
      <3>5. appeals' \in [Appeals -> Rows]
        BY <3>1, <3>4
      <3> QED
        BY <1>4, <3>5 DEF Rules
    <2>2. CASE a \notin Appeals
      BY <1>4, <2>2 DEF Rules
    <2> QED
      BY <2>1, <2>2
  <1> QED
    BY <1>1, <1>2, <1>3, <1>4 DEF DeskMoves

LEMMA NextRest == TypeOK /\ [Next]_vars => course' = course /\ calls' \in Nat
  <1> SUFFICES ASSUME TypeOK, [Next]_vars PROVE course' = course /\ calls' \in Nat
    OBVIOUS
  <1> USE DEF TypeOK, Calls, Ends, Starts
  <1>2. ASSUME NEW t \in Tabs, TabStarts(t) PROVE course' = course /\ calls' \in Nat
    BY <1>2 DEF TabStarts, SubmitChecked, EditChecked, CancelChecked, AppealChecked, Reads
  <1>3. ASSUME NEW t \in Tabs, TabStep(t) PROVE course' = course /\ calls' \in Nat
    BY <1>3 DEF TabStep, Submitted, Edited, Deleted, Withdrawn, Cancelled, CancelFinished,
         AppealSubmitted
  <1>4. ASSUME NEW o \in Operators, OperatorStarts(o) PROVE course' = course /\ calls' \in Nat
    BY <1>4 DEF OperatorStarts, ReviewChecked, ClaimChecked, DecideChecked, Reads, TakesAppeal
  <1>5. ASSUME NEW o \in Operators, OperatorStep(o) PROVE course' = course /\ calls' \in Nat
    BY <1>5 DEF OperatorStep, Approved, Rejected, Claimed, Upheld, Overturned, Rules
  <1>6. ASSUME NEW w \in Tabs \cup Operators, Drops(w) PROVE course' = course /\ calls' \in Nat
    BY <1>6 DEF Drops
  <1>7. CASE PausedOrResumed \/ ForceClosed \/ Settles \/ ClockPasses \/ UNCHANGED vars
    BY <1>7 DEF PausedOrResumed, ForceClosed, Settles, ClockPasses, vars
  <1>8. CASE TickRead \/ Launched \/ LaunchMissed
    BY <1>8 DEF TickRead, Launched, LaunchMissed
  <1> QED
    BY <1>2, <1>3, <1>4, <1>5, <1>6, <1>7, <1>8 DEF Next

LEMMA NextTypes == TypeOK /\ [Next]_vars => TypeOK'
  <1> SUFFICES ASSUME TypeOK, [Next]_vars PROVE TypeOK'
    OBVIOUS
  <1>1. JobsOK'
    BY NextJobs
  <1>2. ProjectKeeps'
    BY NextProject
  <1>3. rejections' \in Seq(Operators) /\ appeals' \in [Appeals -> Rows]
    BY NextDesk, DeskTypes
  <1>4. course' \in Courses /\ calls' \in Nat
    BY NextRest DEF TypeOK
  <1> QED
    BY <1>1, <1>2, <1>3, <1>4 DEF TypeOK, JobsOK, Named, ProjectKeeps

(* Every variable keeps its type.                                           *)
THEOREM Types == Spec => []TypeOK
  BY InitTypes, NextTypes, PTL DEF Spec

-----------------------------------------------------------------------------
(* What holds however the steps overlap.                                    *)

LEMMA ApprovedStep == TypeOK /\ LiveWasApproved /\ [Next]_vars => LiveWasApproved'
  <1> SUFFICES ASSUME TypeOK, LiveWasApproved, [Next]_vars PROVE LiveWasApproved'
    OBVIOUS
  <1> USE DEF LiveWasApproved
  <1>1. ASSUME UNCHANGED project PROVE LiveWasApproved'
    BY <1>1 DEF project
  <1>2. ASSUME NEW t \in Tabs, TabStarts(t) PROVE LiveWasApproved'
    BY <1>2, <1>1 DEF TabStarts, SubmitChecked, EditChecked, CancelChecked, AppealChecked, Reads, Starts
  <1>3. ASSUME NEW t \in Tabs, TabStep(t) PROVE LiveWasApproved'
    BY <1>3, <1>1 DEF TabStep, Submitted, Edited, Deleted, Withdrawn, Cancelled, CancelFinished,
         AppealSubmitted, Becomes
  <1>4. ASSUME NEW o \in Operators, OperatorStarts(o) PROVE LiveWasApproved'
    BY <1>4, <1>1 DEF OperatorStarts, ReviewChecked, ClaimChecked, DecideChecked, Reads, TakesAppeal, Starts
  <1>5. ASSUME NEW o \in Operators, OperatorStep(o) PROVE LiveWasApproved'
    BY <1>5, <1>1 DEF OperatorStep, Approved, Rejected, Claimed, Upheld, Overturned, Becomes
  <1>6. ASSUME NEW w \in Tabs \cup Operators, Drops(w) PROVE LiveWasApproved'
    BY <1>6, <1>1 DEF Drops
  <1>7. CASE PausedOrResumed \/ ForceClosed \/ Settles \/ ClockPasses \/ UNCHANGED vars
    BY <1>7 DEF PausedOrResumed, ForceClosed, Settles, ClockPasses, vars, project
  <1>8. CASE TickRead \/ Launched \/ LaunchMissed
    BY <1>8, <1>1 DEF TickRead, Launched, LaunchMissed, Starts
  <1> QED
    BY <1>2, <1>3, <1>4, <1>5, <1>6, <1>7, <1>8 DEF Next

LEMMA OneLiveStep == TypeOK /\ OneLiveAppeal /\ [Next]_vars => OneLiveAppeal'
  <1> SUFFICES ASSUME TypeOK, OneLiveAppeal, [Next]_vars PROVE OneLiveAppeal'
    OBVIOUS
  <1> USE DEF OneLiveAppeal
  <1>1. CASE UNCHANGED appeals
    BY <1>1
  <1>2. ASSUME NEW a \in Appeals, Inserted(a) PROVE OneLiveAppeal'
    BY <1>2 DEF Inserted, Blocked, TypeOK
  <1>3. ASSUME NEW o \in Operators, NEW s \in {"UNDER_REVIEW", "UPHELD", "OVERTURNED"},
               Rules(o, job[o].appeal, s)
        PROVE OneLiveAppeal'
    <2> DEFINE a == job[o].appeal
    <2>1. \A b \in Appeals \ {a} : appeals'[b] = appeals[b]
      BY <1>3 DEF Rules, TypeOK
    <2>2. CASE s \in Blocking
      <3>1. \A b \in Appeals \ {a} : appeals'[b].status \notin Blocking
        BY <1>3, <2>1, <2>2 DEF Rules
      <3> QED
        BY <3>1
    <2>3. CASE s \notin Blocking
      <3>1. a \in Appeals => appeals'[a].status = s
        BY <1>3 DEF Rules, TypeOK, Rows
      <3> QED
        BY <2>1, <2>3, <3>1
    <2> QED
      BY <2>2, <2>3
  <1> QED
    BY <1>1, <1>2, <1>3, NextDesk DEF DeskMoves, desk

(* Whatever is scheduled, live or paused was approved, and not taken back.  *)
THEOREM OnlyApprovedLaunch == Spec => []LiveWasApproved
  <1>1. Init => LiveWasApproved
    BY DEF Init, LiveWasApproved
  <1> QED
    BY <1>1, Types, ApprovedStep, PTL DEF Spec

(* The database lets only one appeal live, whatever requests and rulings overlap. *)
THEOREM OneAppeal == Spec => []OneLiveAppeal
  <1>1. Init => OneLiveAppeal
    BY DEF Init, OneLiveAppeal, NoRow, Blocking
  <1> QED
    BY <1>1, Types, OneLiveStep, PTL DEF Spec

-----------------------------------------------------------------------------
(* What holds if requests and operations come one after the other: what a   *)
(* worker has read is still true when it writes.                            *)

AllIdle == \A w \in Workers : At(w, "idle")
Alone == course # Overlapping =>
  \A v, w \in Workers : ~At(v, "idle") /\ ~At(w, "idle") => v = w

Reading(w) ==
  /\ job[w].at \in {"submit", "delete"} => status = "DRAFT"
  /\ At(w, "withdraw") => status \in {"UNDER_REVIEW", "SCHEDULED"}
  /\ At(w, "appeal") => status = "DRAFT" /\ feedback
  /\ job[w].at \in {"approve", "reject"} => status = "UNDER_REVIEW"
  /\ At(w, "claim") => appeals[job[w].appeal].status = "SUBMITTED"
  /\ At(w, "decide") => appeals[job[w].appeal].status = "UNDER_REVIEW" /\ MayJudge(w)

Fresh == course # Overlapping => \A w \in Workers : Reading(w)

Moved(w) == \A v \in Workers \ {w} : job'[v] = job[v]

LEMMA RestIsFresh ==
  ASSUME AllIdle
  PROVE  (\A w \in Workers : Reading(w)) /\ Alone
  BY DEF AllIdle, At, Reading, Alone

LEMMA OnlyOneFresh ==
  ASSUME NEW w \in Workers, AllIdle, Moved(w), Reading(w)'
  PROVE  Alone' /\ Fresh'
  <1>1. \A v \in Workers \ {w} : At(v, "idle")'
    BY DEF AllIdle, At, Moved
  <1>2. \A v \in Workers \ {w} : Reading(v)'
    BY <1>1 DEF At, Reading
  <1> QED
    BY <1>1, <1>2 DEF Alone, Fresh

LEMMA EndsIdle ==
  ASSUME TypeOK, Alone, course # Overlapping, NEW w \in Workers, ~At(w, "idle"), Ends(w)
  PROVE  AllIdle'
  <1>1. \A v \in Workers \ {w} : At(v, "idle")
    BY DEF Alone
  <1> QED
    BY <1>1 DEF AllIdle, At, Ends, Resting, TypeOK

LEMMA FreshStep ==
  TypeOK /\ Alone /\ Fresh /\ [Next]_vars => Alone' /\ Fresh'
  <1> SUFFICES ASSUME TypeOK, Alone, Fresh, [Next]_vars PROVE Alone' /\ Fresh'
    OBVIOUS
  <1>0. Tick \in Workers /\ Operators \subseteq Workers /\ Tabs \subseteq Workers
    BY DEF Workers
  <1>a. CASE course = Overlapping
    BY <1>a, NextRest DEF Alone, Fresh
  <1> SUFFICES ASSUME course # Overlapping PROVE Alone' /\ Fresh'
    BY <1>a
  <1>1. ASSUME AllIdle' PROVE Alone' /\ Fresh'
    BY <1>1 DEF AllIdle, At, Reading, Alone, Fresh
  <1>2. ASSUME NEW w \in Workers, ~At(w, "idle"), Ends(w) PROVE Alone' /\ Fresh'
    BY <1>1, <1>2, EndsIdle
  <1>3. ASSUME NEW t \in Tabs, TabStarts(t) PROVE Alone' /\ Fresh'
    <2>1. AllIdle /\ Moved(t)
      BY <1>0, <1>3 DEF TabStarts, SubmitChecked, EditChecked, CancelChecked, AppealChecked,
           Reads, Starts, AllIdle, Moved, TypeOK
    <2>2. Reading(t)'
      BY <1>0, <1>3 DEF TabStarts, SubmitChecked, EditChecked, CancelChecked, AppealChecked,
           Reads, Starts, Reading, At, project, TypeOK, Jobs
    <2> QED
      BY <1>0, <2>1, <2>2, OnlyOneFresh
  <1>4. ASSUME NEW t \in Tabs, TabStep(t) PROVE Alone' /\ Fresh'
    <2>1. CASE Cancelled(t)
      <3>1. \A v \in Workers \ {t} : At(v, "idle")'
        BY <1>0, <2>1 DEF Cancelled, Alone, At, TypeOK
      <3>2. At(t, "refund")'
        BY <1>0, <2>1 DEF Cancelled, At, TypeOK, Jobs
      <3> QED
        BY <3>1, <3>2 DEF Alone, Fresh, Reading, At
    <2>2. CASE ~Cancelled(t)
      <3>1. ~At(t, "idle") /\ Ends(t)
        BY <1>4, <2>2 DEF TabStep, Submitted, Edited, Deleted, Withdrawn, CancelFinished,
             AppealSubmitted, At
      <3> QED
        BY <1>0, <1>2, <3>1
    <2> QED
      BY <2>1, <2>2
  <1>5. ASSUME NEW o \in Operators, ReviewChecked(o) PROVE Alone' /\ Fresh'
    <2>1. AllIdle /\ Moved(o)
      BY <1>0, <1>5 DEF ReviewChecked, Reads, Starts, AllIdle, Moved, TypeOK
    <2>2. Reading(o)'
      BY <1>0, <1>5 DEF ReviewChecked, Reads, Starts, Reading, At, project, TypeOK, Jobs
    <2> QED
      BY <1>0, <2>1, <2>2, OnlyOneFresh
  <1>6. ASSUME NEW o \in Operators, NEW a \in Appeals, ClaimChecked(o, a) \/ DecideChecked(o, a)
        PROVE Alone' /\ Fresh'
    <2>1. AllIdle /\ Moved(o)
      BY <1>0, <1>6 DEF ClaimChecked, DecideChecked, TakesAppeal, Starts, AllIdle, Moved, TypeOK
    <2>2. job'[o].appeal = a /\ job'[o].at \in {"claim", "decide"}
      BY <1>0, <1>6 DEF ClaimChecked, DecideChecked, TakesAppeal, TypeOK, Jobs
    <2>3. UNCHANGED desk
      BY <1>6 DEF ClaimChecked, DecideChecked, TakesAppeal, Starts
    <2>4. At(o, "claim")' => appeals[a].status = "SUBMITTED"
      BY <1>0, <1>6 DEF ClaimChecked, DecideChecked, TakesAppeal, At, TypeOK, Jobs
    <2>5. At(o, "decide")' => appeals[a].status = "UNDER_REVIEW" /\ MayJudge(o)
      BY <1>0, <1>6 DEF ClaimChecked, DecideChecked, TakesAppeal, At, TypeOK, Jobs
    <2>6. Reading(o)'
      BY <2>2, <2>3, <2>4, <2>5 DEF Reading, At, MayJudge, desk
    <2> QED
      BY <1>0, <2>1, <2>6, OnlyOneFresh
  <1>7. ASSUME NEW o \in Operators, OperatorStep(o) PROVE Alone' /\ Fresh'
    <2>1. ~At(o, "idle") /\ Ends(o)
      BY <1>7 DEF OperatorStep, Approved, Rejected, Claimed, Upheld, Overturned, Rules, At
    <2> QED
      BY <1>0, <1>2, <2>1
  <1>8. ASSUME NEW w \in Tabs \cup Operators, Drops(w) PROVE Alone' /\ Fresh'
    BY <1>0, <1>2, <1>8 DEF Drops
  <1>9. CASE Launched \/ LaunchMissed
    <2>1. ~At(Tick, "idle") /\ Ends(Tick)
      BY <1>9 DEF Launched, LaunchMissed, At
    <2> QED
      BY <1>0, <1>2, <2>1
  <1>10. CASE TickRead
    <2>1. AllIdle /\ Moved(Tick)
      BY <1>0, <1>10 DEF TickRead, Starts, AllIdle, Moved, TypeOK
    <2>2. Reading(Tick)'
      BY <1>0, <1>10 DEF TickRead, Reading, At, TypeOK, Jobs
    <2> QED
      BY <1>0, <2>1, <2>2, OnlyOneFresh
  <1>11. CASE PausedOrResumed \/ ForceClosed \/ Settles
    <2>1. AllIdle'
      BY <1>11 DEF PausedOrResumed, ForceClosed, Settles, Undisturbed, AllIdle, At
    <2> QED
      BY <1>1, <2>1
  <1>12. CASE ClockPasses \/ UNCHANGED vars
    <2>1. UNCHANGED <<job, status, feedback, rejections, appeals, course>>
      BY <1>12 DEF ClockPasses, vars, project, desk
    <2> QED
      BY <2>1 DEF Alone, Fresh, Reading, At, MayJudge
  <1> QED
    BY <1>3, <1>4, <1>5, <1>6, <1>7, <1>8, <1>9, <1>10, <1>11, <1>12 DEF Next, OperatorStarts

-----------------------------------------------------------------------------
(* The plain course: an open appeal is against the rejection that stands,   *)
(* and the creator waits for it.                                            *)

RejectionKnown == feedback => Len(rejections) > 0

Standing == course = Plain =>
  \A a \in Appeals : appeals[a].status \in Open =>
    /\ status = "DRAFT" /\ feedback /\ appeals[a].contests = Len(rejections)
    /\ \A t \in Tabs : At(t, "idle")

Judged == course = Plain =>
  \A a \in Appeals : appeals[a].judge # Nobody =>
    /\ appeals[a].contests \in 1..Len(rejections)
    /\ rejections[appeals[a].contests] # appeals[a].judge

PlainInv == TypeOK /\ OneLiveAppeal /\ Alone /\ Fresh /\ RejectionKnown /\ Standing /\ Judged

LEMMA KnownStep == TypeOK /\ RejectionKnown /\ [Next]_vars => RejectionKnown'
  <1> SUFFICES ASSUME TypeOK, RejectionKnown, [Next]_vars PROVE RejectionKnown'
    OBVIOUS
  <1> USE DEF RejectionKnown
  <1>1. Len(rejections) \in Nat /\ Len(rejections') >= Len(rejections)
    <2>1. CASE UNCHANGED rejections
      BY <2>1 DEF TypeOK
    <2>2. ASSUME NEW o \in Operators, rejections' = Append(rejections, o)
          PROVE Len(rejections') = Len(rejections) + 1
      BY <2>2 DEF TypeOK
    <2>3. UNCHANGED rejections \/ \E o \in Operators : rejections' = Append(rejections, o)
      BY NextDesk DEF DeskMoves, Inserted, Rules, desk
    <2> QED
      BY <2>1, <2>2, <2>3 DEF TypeOK
  <1>2. feedback' => feedback \/ \E o \in Operators : Rejected(o)
    <2>1. ASSUME UNCHANGED project PROVE feedback' = feedback
      BY <2>1 DEF project
    <2>2. ASSUME NEW t \in Tabs, TabStarts(t) PROVE feedback' = feedback
      BY <2>2, <2>1 DEF TabStarts, SubmitChecked, EditChecked, CancelChecked, AppealChecked, Reads, Starts
    <2>3. ASSUME NEW t \in Tabs, TabStep(t) PROVE feedback' => feedback
      BY <2>3, <2>1 DEF TabStep, Submitted, Edited, Deleted, Withdrawn, Cancelled, CancelFinished,
           AppealSubmitted
    <2>4. ASSUME NEW o \in Operators, OperatorStarts(o) PROVE feedback' = feedback
      BY <2>4, <2>1 DEF OperatorStarts, ReviewChecked, ClaimChecked, DecideChecked, Reads, TakesAppeal, Starts
    <2>5. ASSUME NEW o \in Operators, OperatorStep(o) PROVE feedback' => feedback \/ Rejected(o)
      BY <2>5, <2>1 DEF OperatorStep, Approved, Claimed, Upheld, Overturned
    <2>6. ASSUME NEW w \in Tabs \cup Operators, Drops(w) PROVE feedback' = feedback
      BY <2>6, <2>1 DEF Drops
    <2>7. CASE PausedOrResumed \/ ForceClosed \/ Settles \/ ClockPasses \/ UNCHANGED vars
      BY <2>7 DEF PausedOrResumed, ForceClosed, Settles, ClockPasses, vars, project
    <2>8. CASE TickRead \/ Launched \/ LaunchMissed
      BY <2>8, <2>1 DEF TickRead, Launched, LaunchMissed, Starts
    <2> QED
      BY <2>2, <2>3, <2>4, <2>5, <2>6, <2>7, <2>8 DEF Next
  <1>3. ASSUME NEW o \in Operators, Rejected(o) PROVE Len(rejections') = Len(rejections) + 1
    BY <1>3 DEF Rejected, TypeOK
  <1> QED
    BY <1>1, <1>2, <1>3

(* While an appeal is open nothing but appeals moves; otherwise only a      *)
(* submission opens one.                                                    *)
LEMMA StandingStep == PlainInv /\ [Next]_vars => Standing'
  <1> SUFFICES ASSUME PlainInv, [Next]_vars, course = Plain PROVE Standing'
    BY NextRest DEF Standing, PlainInv
  <1>0. Tick \in Workers /\ Operators \subseteq Workers /\ Tabs \subseteq Workers /\ course # Overlapping
    BY DEF Workers, Plain, Overlapping
  <1> USE DEF PlainInv
  <1>a. ASSUME ~AppealOpen, UNCHANGED appeals PROVE Standing'
    BY <1>a DEF AppealOpen, Standing
  <1>b. ASSUME UNCHANGED <<status, feedback, rejections, appeals>>,
               \A t \in Tabs : AppealOpen /\ At(t, "idle") => At(t, "idle")'
        PROVE Standing'
    BY <1>b DEF AppealOpen, Standing
  <1>c. ASSUME NEW w \in Workers, Ends(w) PROVE \A v \in Workers : At(v, "idle") => At(v, "idle")'
    BY <1>c DEF Ends, At, Resting, TypeOK
  <1>d. status # "DRAFT" => ~AppealOpen
    BY DEF Standing, AppealOpen
  <1>2. ASSUME NEW t \in Tabs, TabStarts(t) PROVE Standing'
    <2>1. ~AppealOpen /\ UNCHANGED appeals
      BY <1>2 DEF TabStarts, SubmitChecked, EditChecked, CancelChecked, AppealChecked, Reads, Starts, desk
    <2> QED
      BY <2>1, <1>a
  <1>3. ASSUME NEW t \in Tabs, TabStep(t) PROVE Standing'
    <2>1. ~At(t, "idle")
      BY <1>3 DEF TabStep, Submitted, Edited, Deleted, Withdrawn, Cancelled, CancelFinished,
           AppealSubmitted, At
    <2>2. ~AppealOpen
      BY <2>1 DEF Standing, AppealOpen
    <2>3. CASE AppealSubmitted(t)
      <3>1. PICK a \in Appeals : Inserted(a)
        BY <2>3 DEF AppealSubmitted, Inserted
      <3>2. \A b \in Appeals \ {a} : appeals'[b].status \notin Open
        BY <2>2, <3>1 DEF Inserted, AppealOpen, TypeOK
      <3>3. appeals'[a].contests = Len(rejections) /\ UNCHANGED rejections
        BY <3>1 DEF Inserted, TypeOK, Rows
      <3>4. status' = "DRAFT" /\ feedback'
        BY <1>0, <2>3 DEF AppealSubmitted, Fresh, Reading, project
      <3>5. AllIdle'
        BY <1>0, <2>1, <2>3, EndsIdle DEF AppealSubmitted
      <3> QED
        BY <1>0, <3>2, <3>3, <3>4, <3>5 DEF Standing, AllIdle, At
    <2>4. CASE ~AppealSubmitted(t)
      BY <1>3, <2>2, <2>4, <1>a DEF TabStep, Submitted, Edited, Deleted, Withdrawn, Cancelled,
           CancelFinished, desk
    <2> QED
      BY <2>3, <2>4
  <1>4. ASSUME NEW o \in Operators, OperatorStarts(o) PROVE Standing'
    <2>1. UNCHANGED <<project, desk>>
      BY <1>4 DEF OperatorStarts, ReviewChecked, ClaimChecked, DecideChecked, Reads, TakesAppeal, Starts
    <2>2. \A t \in Tabs : job'[t] = job[t]
      <3>1. \A t \in Tabs : t # o
        OBVIOUS
      <3> QED
        BY <1>0, <1>4, <3>1 DEF OperatorStarts, ReviewChecked, ClaimChecked, DecideChecked, Reads,
           TakesAppeal, TypeOK
    <2> QED
      BY <2>1, <2>2, <1>b DEF project, desk, At
  <1>5. ASSUME NEW o \in Operators, OperatorStep(o) PROVE Standing'
    <2>0. Ends(o)
      BY <1>5 DEF OperatorStep, Approved, Rejected, Claimed, Upheld, Overturned, Rules
    <2>1. CASE Approved(o) \/ Rejected(o)
      <3>1. status = "UNDER_REVIEW" /\ UNCHANGED appeals
        BY <1>0, <2>1 DEF Approved, Rejected, Fresh, Reading, At, desk
      <3> QED
        BY <3>1, <1>a, <1>d
    <2> DEFINE a == job[o].appeal
    <2>2. CASE Claimed(o)
      <3>1. a \in Appeals /\ appeals[a].status = "SUBMITTED"
        BY <1>0, <2>2 DEF Claimed, Fresh, Reading, At, TypeOK
      <3>2. \A b \in Appeals : appeals'[b].contests = appeals[b].contests
                             /\ (appeals'[b].status \in Open => appeals[b].status \in Open)
        BY <2>2, <3>1 DEF Claimed, Rules, TypeOK, Rows, Open
      <3>3. \A t \in Tabs : At(t, "idle") => At(t, "idle")'
        BY <1>0, <1>c, <2>0
      <3> QED
        BY <2>2, <3>2, <3>3 DEF Claimed, Rules, project, Standing
    <2>3. CASE Upheld(o) \/ Overturned(o)
      <3>1. a \in Appeals /\ appeals[a].status = "UNDER_REVIEW"
        BY <1>0, <2>3 DEF Upheld, Overturned, Fresh, Reading, At, TypeOK
      <3>2. \A b \in Appeals \ {a} : appeals[b].status \notin Open
        BY <3>1 DEF OneLiveAppeal, Open, Blocking
      <3>3. \A b \in Appeals : appeals'[b].status \notin Open
        BY SMTT(30), <2>3, <3>1, <3>2 DEF Upheld, Overturned, Rules, TypeOK, Rows, Open
      <3> QED
        BY <3>3 DEF Standing
    <2> QED
      BY <1>5, <2>1, <2>2, <2>3 DEF OperatorStep
  <1>6. ASSUME NEW w \in Tabs \cup Operators, Drops(w) PROVE Standing'
    BY <1>0, <1>6, <1>b, <1>c DEF Drops, project, desk
  <1>7. CASE PausedOrResumed \/ ForceClosed \/ Settles \/ Launched
    <2>1. status # "DRAFT" /\ UNCHANGED appeals
      BY <1>7 DEF PausedOrResumed, ForceClosed, Settles, Launched, Closeable, desk
    <2> QED
      BY <2>1, <1>a, <1>d
  <1>8. CASE ClockPasses \/ UNCHANGED vars
    <2>1. UNCHANGED <<job, status, feedback, rejections, appeals>>
      BY <1>8 DEF ClockPasses, vars, project, desk
    <2> QED
      BY <2>1, <1>b DEF At
  <1>9. CASE TickRead
    <2>1. status # "DRAFT" /\ UNCHANGED appeals
      BY <1>9 DEF TickRead, Starts, desk
    <2> QED
      BY <2>1, <1>a, <1>d
  <1>10. CASE LaunchMissed
    BY <1>0, <1>10, <1>b, <1>c DEF LaunchMissed, project, desk
  <1> QED
    BY <1>2, <1>3, <1>4, <1>5, <1>6, <1>7, <1>8, <1>9, <1>10 DEF Next

LEMMA JudgedStep == PlainInv /\ [Next]_vars => Judged'
  <1> SUFFICES ASSUME PlainInv, [Next]_vars, course = Plain PROVE Judged'
    BY NextRest DEF Judged, PlainInv
  <1>0. Operators \subseteq Workers /\ course # Overlapping /\ Len(rejections) \in Nat
    BY DEF Workers, Plain, Overlapping, PlainInv, TypeOK
  <1> USE DEF PlainInv
  <1>1. CASE UNCHANGED desk
    BY <1>1 DEF desk, Judged
  <1>2. ASSUME NEW a \in Appeals, Inserted(a) PROVE Judged'
    <2>1. \A b \in Appeals : appeals'[b].judge # Nobody => appeals'[b] = appeals[b]
      BY <1>2 DEF Inserted, TypeOK, Rows, NoRow
    <2> QED
      BY <1>2, <2>1 DEF Inserted, Judged
  <1>3. ASSUME NEW o \in Operators, rejections' = Append(rejections, o), UNCHANGED appeals
        PROVE Judged'
    <2>1. Len(rejections') = Len(rejections) + 1
          /\ \A i \in 1..Len(rejections) : rejections'[i] = rejections[i]
      BY <1>3 DEF TypeOK
    <2> QED
      BY <1>0, <1>3, <2>1 DEF Judged
  <1>4. ASSUME NEW o \in Operators, Rules(o, job[o].appeal, "UNDER_REVIEW") PROVE Judged'
    <2>1. \A b \in Appeals : appeals'[b].judge = appeals[b].judge
                           /\ appeals'[b].contests = appeals[b].contests
      BY <1>4 DEF Rules, TypeOK, Rows, Open
    <2> QED
      BY <1>4, <2>1 DEF Rules, Judged
  <1>5. ASSUME NEW o \in Operators, NEW s \in {"UPHELD", "OVERTURNED"},
               At(o, "decide"), Rules(o, job[o].appeal, s)
        PROVE Judged'
    <2> DEFINE a == job[o].appeal
    <2>1. a \in Appeals /\ appeals[a].status = "UNDER_REVIEW" /\ MayJudge(o)
      BY <1>0, <1>5 DEF Fresh, Reading, At, TypeOK
    <2>2. appeals[a].contests = Len(rejections) /\ Len(rejections) > 0
      BY <2>1 DEF Standing, RejectionKnown, Open
    <2>3. rejections[Len(rejections)] # o
      BY <2>1, <2>2 DEF MayJudge
    <2>4. appeals'[a].contests = appeals[a].contests /\ appeals'[a].judge = o
      BY <1>5, <2>1 DEF Rules, TypeOK, Rows, Open
    <2>5. \A b \in Appeals \ {a} : appeals'[b] = appeals[b]
      BY <1>5 DEF Rules, TypeOK
    <2>6. UNCHANGED rejections
      BY <1>5 DEF Rules
    <2>7. \A b \in Appeals : appeals'[b].judge # Nobody =>
            /\ appeals'[b].contests \in 1..Len(rejections)
            /\ rejections[appeals'[b].contests] # appeals'[b].judge
      BY <1>0, <2>2, <2>3, <2>4, <2>5 DEF Judged
    <2> QED
      BY <2>6, <2>7 DEF Judged
  <1> QED
    BY <1>1, <1>2, <1>3, <1>4, <1>5, NextDesk DEF DeskMoves

LEMMA PlainHolds == Spec => []PlainInv
  <1>1. Init => PlainInv
    <2> SUFFICES ASSUME Init PROVE PlainInv
      OBVIOUS
    <2>1. AllIdle
      BY DEF Init, AllIdle, At, Resting
    <2>2. Alone /\ Fresh
      BY <2>1, RestIsFresh DEF Fresh
    <2>3. OneLiveAppeal /\ Standing /\ Judged
      BY DEF Init, OneLiveAppeal, Standing, Judged, NoRow, Blocking, Open
    <2>4. RejectionKnown
      BY DEF Init, RejectionKnown
    <2> QED
      BY <2>2, <2>3, <2>4, InitTypes DEF PlainInv
  <1>2. PlainInv /\ [Next]_vars => PlainInv'
    BY NextTypes, OneLiveStep, FreshStep, KnownStep, StandingStep, JudgedStep DEF PlainInv
  <1> QED
    BY <1>1, <1>2, PTL DEF Spec

(* In the plain course - requests follow one another, and the creator does  *)
(* nothing while an appeal of his is open - nobody judges the appeal        *)
(* against a rejection of his own (JudgedByAnother).  Otherwise somebody    *)
(* may: MCReview_own_case.                                                  *)
THEOREM FourEyes == Spec => []JudgedByAnother
  <1>1. PlainInv => JudgedByAnother
    BY DEF PlainInv, Judged, JudgedByAnother, NotOwnCase
  <1> QED
    BY <1>1, PlainHolds, PTL

(* In the plain course nothing that was launched becomes a draft or a       *)
(* submission again (LaunchStands).  Otherwise it may: MCReview_late_appeal. *)
THEOREM Forward == Spec => LaunchStands
  <1>1. PlainInv /\ [Next]_vars =>
          [course = Plain /\ status \notin BeforeLaunch => status' \notin BeforeLaunch]_vars
    <2> SUFFICES ASSUME PlainInv, Next, course = Plain, status \notin BeforeLaunch
                 PROVE status' \notin BeforeLaunch
      OBVIOUS
    <2>0. Tick \in Workers /\ Operators \subseteq Workers /\ Tabs \subseteq Workers /\ course # Overlapping
      BY DEF Workers, Plain, Overlapping
    <2> USE DEF BeforeLaunch
    <2>1. ASSUME UNCHANGED project PROVE status' \notin BeforeLaunch
      BY <2>1 DEF project
    <2>2. ASSUME NEW t \in Tabs, TabStarts(t) PROVE status' \notin BeforeLaunch
      BY <2>2, <2>1 DEF TabStarts, SubmitChecked, EditChecked, CancelChecked, AppealChecked, Reads, Starts
    <2>3. ASSUME NEW t \in Tabs, TabStep(t) PROVE status' \notin BeforeLaunch
      <3>1. ~At(t, "submit") /\ ~At(t, "withdraw")
        BY <2>0 DEF PlainInv, Fresh, Reading, At
      <3> QED
        BY <2>1, <2>3, <3>1 DEF TabStep, Submitted, Edited, Deleted, Withdrawn, Cancelled,
             CancelFinished, AppealSubmitted, Becomes
    <2>4. ASSUME NEW o \in Operators, OperatorStarts(o) PROVE status' \notin BeforeLaunch
      BY <2>4, <2>1 DEF OperatorStarts, ReviewChecked, ClaimChecked, DecideChecked, Reads, TakesAppeal, Starts
    <2>5. ASSUME NEW o \in Operators, OperatorStep(o) PROVE status' \notin BeforeLaunch
      <3>1. ~At(o, "approve") /\ ~At(o, "reject")
        BY <2>0 DEF PlainInv, Fresh, Reading, At
      <3>2. ~At(o, "decide")
        BY <2>0 DEF PlainInv, Fresh, Reading, At, Standing, Open, TypeOK
      <3> QED
        BY <2>1, <2>5, <3>1, <3>2 DEF OperatorStep, Approved, Rejected, Claimed, Upheld, Overturned
    <2>6. ASSUME NEW w \in Tabs \cup Operators, Drops(w) PROVE status' \notin BeforeLaunch
      BY <2>6, <2>1 DEF Drops
    <2>7. CASE PausedOrResumed \/ ForceClosed \/ Settles \/ ClockPasses
      BY <2>7 DEF PausedOrResumed, ForceClosed, Settles, ClockPasses
    <2>8. CASE TickRead \/ Launched \/ LaunchMissed
      BY <2>8, <2>1 DEF TickRead, Launched, LaunchMissed, Starts
    <2> QED
      BY <2>2, <2>3, <2>4, <2>5, <2>6, <2>7, <2>8 DEF Next
  <1> QED
    BY <1>1, PlainHolds, PTL DEF Spec, LaunchStands
=============================================================================
