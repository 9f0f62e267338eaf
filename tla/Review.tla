-------------------------------- MODULE Review --------------------------------
(***************************************************************************)
(* A campaign before and around its launch: the creator drafts, submits,   *)
(* schedules, withdraws, deletes and cancels it; operators approve, reject *)
(* and close it; a cron tick launches what was scheduled; and a rejection  *)
(* may be appealed, the appeal being judged by another operator.           *)
(*                                                                         *)
(* The creator's handlers read the project and write it later by id; an    *)
(* operation reads its preconditions inside its transaction (READ          *)
(* COMMITTED) and then writes by id; the tick, pause, cancellation and     *)
(* force-close write only if the status is still the one they expect.      *)
(*                                                                         *)
(* Sources: projects/projects.service.ts, launch.scheduler.ts,             *)
(* appeals/appeals.service.ts, ops/operations/projects.ops.ts,             *)
(* projects-lifecycle.ops.ts, appeals.ops.ts, funding/funding.service.ts.  *)
(***************************************************************************)
EXTENDS Integers, Sequences, FiniteSets

CONSTANTS
  Operators,  \* people with projects.review, projects.lifecycle and trust.appeals
  Tabs,       \* requests the creator has open at a time
  Tick,       \* the launch cron
  Appeals,    \* bound: appeal rows
  NoAppeal, Nobody,
  Courses,    \* which of Plain, Impatient and Overlapping are considered
  MaxCalls,   \* bound: requests and operations
  MaxRejections

Plain == "plain"             \* requests one after the other; no request while an appeal is open
Impatient == "impatient"     \* requests one after the other
Overlapping == "overlapping" \* requests, operations and ticks overlap as they like

ASSUME ReviewAssumption ==
  /\ Operators \cap Tabs = {} /\ Tick \notin Operators \cup Tabs
  /\ NoAppeal \notin Appeals /\ Nobody \notin Operators
  /\ IsFiniteSet(Appeals)
  /\ Courses \subseteq {Plain, Impatient, Overlapping}
  /\ MaxCalls \in Nat /\ MaxRejections \in Nat

Workers == Operators \cup Tabs \cup {Tick}

VARIABLES
  status,     \* Project.status, GONE once the row is deleted
  feedback,   \* Project.reviewFeedback is set
  rejectedAt, \* Project.rejectedAt is set
  launch,     \* Project.scheduledLaunchAt: none, later (than now) or due
  rejections, \* AuditLog: who ran projects.review.reject, oldest first
  appeals,    \* Appeal rows; contests and judge say which rejection, and who decided
  review,     \* history: the decision written last since the last submission or return
  job,        \* each worker: how far it has come, and the appeal it is on
  course,     \* how the workers' steps interleave; never changes
  calls

project == <<status, feedback, rejectedAt, launch, review>>
desk == <<rejections, appeals>>
vars == <<project, desk, job, course, calls>>

Closeable == {"LIVE", "PAUSED", "UNDER_REVIEW", "SCHEDULED"}
Blocking == {"SUBMITTED", "UNDER_REVIEW", "UPHELD"}
Open == {"SUBMITTED", "UNDER_REVIEW"}

Resting == [at |-> "idle", appeal |-> NoAppeal]
NoRow == [status |-> "none", contests |-> 0, judge |-> Nobody]

Init ==
  /\ status = "DRAFT" /\ feedback = FALSE /\ rejectedAt = FALSE
  /\ launch = "none" /\ review = "none"
  /\ rejections = <<>>
  /\ appeals = [a \in Appeals |-> NoRow]
  /\ job = [w \in Workers |-> Resting]
  /\ course \in Courses
  /\ calls = 0

At(w, stage) == job[w].at = stage
AppealOpen == \E a \in Appeals : appeals[a].status \in Open

(* The next step of w is its read.  What is read here is written upon later, *)
(* in an overlapping course after whatever the others did.                  *)
Starts(w) ==
  /\ At(w, "idle")
  /\ course # Overlapping => \A v \in Workers : At(v, "idle")
  /\ course = Plain /\ w \in Tabs => ~AppealOpen
  /\ UNCHANGED <<project, desk, course>>

Calls == calls < MaxCalls /\ calls' = calls + 1
Reads(w, stage) == Starts(w) /\ Calls /\ job' = [job EXCEPT ![w].at = stage]
Ends(w) == job' = [job EXCEPT ![w] = Resting] /\ UNCHANGED <<course, calls>>

(* An update by id: it needs the row, and nothing else.                     *)
Becomes(s) == status # "GONE" /\ status' = s

(* Claims that one statement both checks and makes: nothing to hold.        *)
Undisturbed == course # Overlapping => \A v \in Workers : At(v, "idle")

(* A refusal, an error or a dead process: the worker writes nothing more.   *)
Drops(w) ==
  /\ ~At(w, "idle") /\ Ends(w)
  /\ UNCHANGED <<project, desk>>

-----------------------------------------------------------------------------
(* The creator.                                                             *)

SubmitChecked(t) == status = "DRAFT" /\ Reads(t, "submit")

Submitted(t) ==
  /\ At(t, "submit") /\ Becomes("UNDER_REVIEW")
  /\ feedback' = FALSE /\ rejectedAt' = FALSE /\ review' = "none"
  /\ Ends(t) /\ UNCHANGED <<launch, desk>>

(* The fields that are frozen after launch, the launch date among them.     *)
EditChecked(t) == status \in {"DRAFT", "UNDER_REVIEW"} /\ Reads(t, "edit")

Edited(t) ==
  /\ At(t, "edit") /\ status # "GONE"
  /\ launch' \in {"none", "later"}
  /\ Ends(t) /\ UNCHANGED <<status, feedback, rejectedAt, review, desk>>

(* cancelCampaign does what the status it read calls for.                   *)
CancelChecked(t) ==
  \/ status = "DRAFT" /\ Reads(t, "delete")
  \/ status \in {"UNDER_REVIEW", "SCHEDULED"} /\ Reads(t, "withdraw")
  \/ status \in {"LIVE", "PAUSED"} /\ Reads(t, "cancel")

Deleted(t) ==
  /\ At(t, "delete") /\ Becomes("GONE")
  /\ Ends(t) /\ UNCHANGED <<feedback, rejectedAt, launch, review, desk>>

Withdrawn(t) ==
  /\ At(t, "withdraw") /\ Becomes("DRAFT")
  /\ launch' = "none" /\ review' = "none"
  /\ Ends(t) /\ UNCHANGED <<feedback, rejectedAt, desk>>

Cancelled(t) ==
  /\ At(t, "cancel") /\ status \in {"LIVE", "PAUSED"}
  /\ status' = "FAILED"
  /\ job' = [job EXCEPT ![t].at = "refund"]
  /\ UNCHANGED <<feedback, rejectedAt, launch, review, desk, course, calls>>

(* After the refund sweeps.                                                 *)
CancelFinished(t) ==
  /\ At(t, "refund") /\ Becomes("REFUNDED")
  /\ Ends(t) /\ UNCHANGED <<feedback, rejectedAt, launch, review, desk>>

(* pauseCampaign, unpauseCampaign and their administrative versions.        *)
PausedOrResumed ==
  /\ Undisturbed /\ Calls
  /\ \/ status = "LIVE" /\ status' = "PAUSED"
     \/ status = "PAUSED" /\ status' = "LIVE"
  /\ UNCHANGED <<feedback, rejectedAt, launch, review, desk, job, course>>

(* The rejection must stand, and no appeal block another.  The partial      *)
(* unique index repeats the latter when the row is written.                 *)
Blocked == \E a \in Appeals : appeals[a].status \in Blocking

AppealChecked(t) == status = "DRAFT" /\ feedback /\ ~Blocked /\ Reads(t, "appeal")

AppealUnindexed(t) ==   \* MUTANT: the read before the insert is all there is
  /\ At(t, "appeal")
  /\ \E a \in Appeals :
       /\ appeals[a] = NoRow
       /\ appeals' = [appeals EXCEPT ![a].status = "SUBMITTED",
                                     ![a].contests = Len(rejections)]
  /\ Ends(t) /\ UNCHANGED <<project, rejections>>

AppealSubmitted(t) ==
  /\ At(t, "appeal") /\ ~Blocked
  /\ \E a \in Appeals :
       /\ appeals[a] = NoRow
       /\ appeals' = [appeals EXCEPT ![a].status = "SUBMITTED",
                                     ![a].contests = Len(rejections)]
  /\ Ends(t) /\ UNCHANGED <<project, rejections>>

-----------------------------------------------------------------------------
(* Operations: the preconditions, then the write, in one transaction.       *)

ReviewUnchecked(o) ==   \* MUTANT: any project can be reviewed
  Reads(o, "approve") \/ Reads(o, "reject")

ReviewChecked(o) ==
  status = "UNDER_REVIEW" /\ (Reads(o, "approve") \/ Reads(o, "reject"))

ApprovedForLater(o) ==   \* MUTANT: every approval waits for the tick
  /\ At(o, "approve") /\ Becomes("SCHEDULED")
  /\ feedback' = FALSE /\ review' = "approved"
  /\ Ends(o) /\ UNCHANGED <<rejectedAt, launch, desk>>

Approved(o) ==
  /\ At(o, "approve") /\ Becomes(IF launch = "later" THEN "SCHEDULED" ELSE "LIVE")
  /\ feedback' = FALSE /\ review' = "approved"
  /\ Ends(o) /\ UNCHANGED <<rejectedAt, launch, desk>>

Rejected(o) ==
  /\ At(o, "reject") /\ Becomes("DRAFT") /\ Len(rejections) < MaxRejections
  /\ feedback' = TRUE /\ rejectedAt' = TRUE /\ review' = "rejected"
  /\ rejections' = Append(rejections, o)
  /\ Ends(o) /\ UNCHANGED <<launch, appeals>>

ForceClosed ==
  /\ Undisturbed /\ Calls
  /\ status \in Closeable /\ status' = "FAILED"
  /\ UNCHANGED <<feedback, rejectedAt, launch, review, desk, job, course>>

(* Four eyes: whoever rejected the project last may not touch its appeal.   *)
MayJudge(o) == Len(rejections) > 0 => rejections[Len(rejections)] # o

TakesAppeal(o, a, stage) ==
  Starts(o) /\ Calls /\ job' = [job EXCEPT ![o].at = stage, ![o].appeal = a]

ClaimChecked(o, a) ==
  appeals[a].status = "SUBMITTED" /\ MayJudge(o) /\ TakesAppeal(o, a, "claim")

(* By id; the index still refuses a second row in a blocking status.        *)
Rules(o, a, s) ==
  /\ s \in Blocking => \A b \in Appeals \ {a} : appeals[b].status \notin Blocking
  /\ appeals' = [appeals EXCEPT ![a].status = s,
                                ![a].judge = IF s \in Open THEN @ ELSE o]
  /\ Ends(o) /\ UNCHANGED rejections

Claimed(o) ==
  /\ At(o, "claim") /\ Rules(o, job[o].appeal, "UNDER_REVIEW")
  /\ UNCHANGED project

DecideOwn(o, a) ==   \* MUTANT: four eyes at the claim only
  appeals[a].status = "UNDER_REVIEW" /\ TakesAppeal(o, a, "decide")

DecideChecked(o, a) ==
  appeals[a].status = "UNDER_REVIEW" /\ MayJudge(o) /\ TakesAppeal(o, a, "decide")

Upheld(o) ==
  /\ At(o, "decide") /\ Rules(o, job[o].appeal, "UPHELD")
  /\ UNCHANGED project

(* So is a partial grant.  The project is sent back whatever it has become. *)
Overturned(o) ==
  /\ At(o, "decide") /\ Rules(o, job[o].appeal, "OVERTURNED")
  /\ Becomes("UNDER_REVIEW")
  /\ feedback' = FALSE /\ review' = "none"
  /\ UNCHANGED <<rejectedAt, launch>>

-----------------------------------------------------------------------------
(* The launch tick, the clock and the settlement of an open campaign.       *)

TickRead ==
  /\ status = "SCHEDULED" /\ launch = "due"
  /\ Starts(Tick) /\ job' = [job EXCEPT ![Tick].at = "launch"]
  /\ UNCHANGED calls

LaunchedBlind ==   \* MUTANT: the tick launches by id
  /\ At(Tick, "launch") /\ Becomes("LIVE")
  /\ launch' = "none"
  /\ Ends(Tick) /\ UNCHANGED <<feedback, rejectedAt, review, desk>>

Launched ==
  /\ At(Tick, "launch") /\ status = "SCHEDULED"
  /\ status' = "LIVE" /\ launch' = "none"
  /\ Ends(Tick) /\ UNCHANGED <<feedback, rejectedAt, review, desk>>

LaunchMissed ==
  /\ At(Tick, "launch") /\ status # "SCHEDULED"
  /\ Ends(Tick) /\ UNCHANGED <<project, desk>>

ClockPasses ==
  /\ launch = "later" /\ launch' = "due"
  /\ UNCHANGED <<status, feedback, rejectedAt, review, desk, job, course, calls>>

Settles ==
  /\ Undisturbed
  /\ status \in {"LIVE", "PAUSED"} /\ status' \in {"SUCCESSFUL", "FAILED"}
  /\ UNCHANGED <<feedback, rejectedAt, launch, review, desk, job, course, calls>>

-----------------------------------------------------------------------------
TabStep(t) ==
  \/ Submitted(t) \/ Edited(t) \/ Deleted(t) \/ Withdrawn(t)
  \/ Cancelled(t) \/ CancelFinished(t) \/ AppealSubmitted(t)

TabStarts(t) == SubmitChecked(t) \/ EditChecked(t) \/ CancelChecked(t) \/ AppealChecked(t)

OperatorStep(o) ==
  Approved(o) \/ Rejected(o) \/ Claimed(o) \/ Upheld(o) \/ Overturned(o)

OperatorStarts(o) ==
  ReviewChecked(o) \/ \E a \in Appeals : ClaimChecked(o, a) \/ DecideChecked(o, a)

Next ==
  \/ \E t \in Tabs : TabStarts(t) \/ TabStep(t)
  \/ \E o \in Operators : OperatorStarts(o) \/ OperatorStep(o)
  \/ \E w \in Tabs \cup Operators : Drops(w)
  \/ PausedOrResumed \/ ForceClosed \/ Settles
  \/ TickRead \/ Launched \/ LaunchMissed \/ ClockPasses

Spec == Init /\ [][Next]_vars

(* The cron ticks each minute and its query and update return; so do the    *)
(* queries of every other handler; time passes.                             *)
FairSpec ==
  /\ Spec
  /\ WF_vars(TickRead) /\ WF_vars(ClockPasses)
  /\ WF_vars(Launched \/ LaunchMissed)
  /\ \A t \in Tabs : WF_vars(TabStep(t) \/ Drops(t))
  /\ \A o \in Operators : WF_vars(OperatorStep(o) \/ Drops(o))

-----------------------------------------------------------------------------
Statuses == {"DRAFT", "UNDER_REVIEW", "SCHEDULED", "LIVE", "PAUSED",
             "SUCCESSFUL", "FAILED", "REFUNDED", "GONE"}
Stages == {"idle", "submit", "edit", "delete", "withdraw", "cancel", "refund",
           "appeal", "approve", "reject", "claim", "decide", "launch"}
Jobs == [at : Stages, appeal : Appeals \cup {NoAppeal}]
Rows == [status : {"none", "SUBMITTED", "UNDER_REVIEW", "UPHELD", "OVERTURNED"},
         contests : Nat, judge : Operators \cup {Nobody}]

(* Rows and jobs keep their types, and whoever is on an appeal has one.     *)
TypeOK ==
  /\ status \in Statuses
  /\ feedback \in BOOLEAN /\ rejectedAt \in BOOLEAN
  /\ launch \in {"none", "later", "due"}
  /\ review \in {"none", "approved", "rejected"}
  /\ rejections \in Seq(Operators)
  /\ appeals \in [Appeals -> Rows]
  /\ job \in [Workers -> Jobs]
  /\ \A w \in Workers : job[w].at \in {"claim", "decide"} => job[w].appeal \in Appeals
  /\ course \in Courses
  /\ calls \in Nat

(* What the public sees as scheduled, live or paused was approved, and has  *)
(* neither been rejected nor withdrawn nor submitted again since, whatever  *)
(* the tick and the switches had read (launch.scheduler.ts: "atomic status  *)
(* claim").  It speaks of decisions, not of contents: an approval written   *)
(* late approves whatever submission it finds, and an edit that has passed  *)
(* its check still writes after it.                                         *)
LiveWasApproved == status \in {"SCHEDULED", "LIVE", "PAUSED"} => review = "approved"

(* "One live appeal per decision - enforced by the database, not by a       *)
(* read-then-write that two concurrent submissions can both pass"           *)
(* (docs/closeout-batch.md); nor by a claim or a ruling that comes late.    *)
OneLiveAppeal ==
  \A a, b \in Appeals :
    appeals[a].status \in Blocking /\ appeals[b].status \in Blocking => a = b

(* Nobody judges the appeal against a rejection of his own.  The code asks  *)
(* who rejected the project last, which is the rejection appealed against   *)
(* as long as the creator waits for the answer.                             *)
NotOwnCase ==
  \A a \in Appeals :
    appeals[a].judge # Nobody => rejections[appeals[a].contests] # appeals[a].judge

JudgedByAnother == course = Plain => NotOwnCase

(* README.md: DRAFT -> UNDER_REVIEW -> LIVE -> {SUCCESSFUL | FAILED}.  What *)
(* was launched, or is over, never becomes a draft or a submission again.   *)
BeforeLaunch == {"DRAFT", "UNDER_REVIEW", "SCHEDULED"}
OnlyForward == [][status \notin BeforeLaunch => status' \notin BeforeLaunch]_vars

LaunchStands ==
  [][course = Plain /\ status \notin BeforeLaunch => status' \notin BeforeLaunch]_vars

(* A scheduled campaign is launched, or taken back: none waits for ever     *)
(* (launch.scheduler.ts: "Every minute, flips SCHEDULED projects whose      *)
(* scheduledLaunchAt has arrived to LIVE").  An edit that overtakes its     *)
(* approval can take the date away, so not if requests overlap.             *)
ScheduledLaunches ==
  course # Overlapping /\ status = "SCHEDULED" ~> status # "SCHEDULED"

(* The clock of a rejection runs while the rejection stands                 *)
(* (projects.service.ts: "rejectedAt is cleared with the feedback it        *)
(* belongs to").  Overturning it clears only the feedback.                  *)
CooldownFits == rejectedAt => feedback \/ status = "GONE"

(* "If the platform later re-imposes the same action on the same subject,   *)
(* that is a new decision and must be appealable" (docs/closeout-batch.md). *)
(* An appeal upheld against an earlier rejection blocks the later ones.     *)
NewRejectionAppealable ==
  status = "DRAFT" /\ feedback /\ (\A a \in Appeals : appeals[a].contests # Len(rejections))
    => ~Blocked
=============================================================================
