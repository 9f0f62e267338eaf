----------------------------- MODULE Settlement -----------------------------
(***************************************************************************)
(* One campaign of the platform around its deadline: pledges arriving and  *)
(* being cancelled, the deadline settler, the creator's cancellation, the  *)
(* operator's force-close and residue sweep, and the payment provider's    *)
(* webhooks, all working on the same rows.  Every handler is split where   *)
(* the code awaits the database or the provider (Moyasar), so any two of   *)
(* them interleave there, and any of them may die there.                   *)
(*                                                                         *)
(* Sources: funding/funding.service.ts, escrow-payments/escrow.service.ts, *)
(* webhook.service.ts, moyasar.adapter.ts, funding/reauth.scheduler.ts,    *)
(* ops/operations/projects-lifecycle.ops.ts and money.ops.ts.              *)
(***************************************************************************)
EXTENDS Integers, FiniteSets, Functions

CONSTANTS
  Cards,          \* pledges paid by card: a hold, then a capture
  Intents,        \* buy-now-pay-later pledges: nothing is authorized up front
  Contribution,   \* amountHalalas + addOnsHalalas of each pledge
  Threshold,      \* goal * releaseThresholdPct / 100
  Settlers,       \* processes that settle, cancel, force-close or sweep
  Tabs,           \* concurrent cancel requests a backer may send for a pledge
  LossyPsp,       \* TRUE: the provider's answer may be lost after it acted
  HoldsAge,       \* TRUE: the campaign outlives a card authorization
  MaxCrashes,     \* bound: processes that die half-way
  MaxOverrides    \* bound: uses of money.deadline.override

Pledges == Cards \cup Intents

ASSUME PledgesAssumption ==
  /\ IsFiniteSet(Pledges)
  /\ Cards \cap Intents = {}
  /\ Contribution \in [Pledges -> Nat]
  /\ Threshold \in Nat
ASSUME BoundsAssumption ==
  /\ LossyPsp \in BOOLEAN /\ HoldsAge \in BOOLEAN
  /\ MaxCrashes \in Nat
  /\ MaxOverrides \in Nat

VARIABLES
  clock,      \* "open", "locked" (48 hours left) or "due" (deadline passed)
  project,    \* Project.status
  raised,     \* Project.raisedHalalas
  realized,   \* Project.realizedHalalas
  status,     \* Pledge.status, "NONE" before the row exists
  ref,        \* Pledge.paymentRef is the provider's id, no longer pending-...
  psp,        \* the payment as the provider knows it
  request,    \* how far POST /pledges has come for each pledge
  cancel,     \* how far each cancel request has come
  reauth,     \* how far the re-authorization tick has come with each pledge
  hook,       \* the payment_paid / payment_voided delivery of each payment
  settler,    \* locals of each settler process: how far it has come (at), what
              \* it is doing (job), capture or void (good), which sweep (pass)
  task,       \* its snapshot of the pledges to sweep, and how far each is
  crashes, overrides

pledgeVars == <<status, ref, psp>>
handlerVars == <<request, cancel, reauth, hook>>
settlerVars == <<settler, task>>
counterVars == <<raised, realized>>
boundVars == <<crashes, overrides>>
vars == <<clock, project, counterVars, pledgeVars, handlerVars, settlerVars, boundVars>>

Active == {"LIVE", "PAUSED"}
Succeeded == {"SUCCESSFUL", "FUNDED"}
Failed == {"FAILED", "REFUNDED"}
Sweepable == {"HELD", "PENDING_REAUTH"}
Cancellable == {"HELD", "PENDING_BNPL"}
Pledged == Sweepable \cup {"PENDING_BNPL"}

PledgeStatus == {"NONE", "HELD", "PENDING_BNPL", "PENDING_REAUTH", "CAPTURE_GRACE",
                 "CAPTURED", "REFUNDED", "FAILED"}

Total(S) == SumFunctionOnSet(Contribution, S)

NoTask == [p \in Pledges |-> "none"]
Idle == [at |-> "idle", job |-> "settle", good |-> FALSE, pass |-> 1]

Init ==
  /\ clock = "open" /\ project = "LIVE"
  /\ raised = 0 /\ realized = 0
  /\ status = [p \in Pledges |-> "NONE"]
  /\ ref = [p \in Pledges |-> FALSE]
  /\ psp = [p \in Pledges |-> "none"]
  /\ request = [p \in Pledges |-> "none"]
  /\ cancel = [p \in Pledges |-> [t \in Tabs |-> "none"]]
  /\ reauth = [p \in Pledges |-> "none"]
  /\ hook = [p \in Pledges |-> "none"]
  /\ settler = [s \in Settlers |-> Idle]
  /\ task = [s \in Settlers |-> NoTask]
  /\ crashes = 0 /\ overrides = 0

-----------------------------------------------------------------------------
(* The clock and the operator's hand on it. *)

CancelInFlight == \E p \in Pledges, t \in Tabs : cancel[p][t] \notin {"none", "over"}

(* A cancel request is admitted only before the lock; no request lasts the  *)
(* 48 hours from the lock to the deadline.                                  *)
ClockAdvances ==
  /\ \/ clock = "open" /\ clock' = "locked"
     \/ clock = "locked" /\ ~CancelInFlight /\ clock' = "due"
  /\ UNCHANGED <<project, counterVars, pledgeVars, handlerVars, settlerVars, boundVars>>

(* money.deadline.override: to any date up to the cap, the past included. *)
DeadlineOverride ==
  /\ overrides < MaxOverrides
  /\ project \in Active
  /\ clock' \in {"open", "locked", "due"} \ {clock}
  /\ overrides' = overrides + 1
  /\ UNCHANGED <<project, counterVars, pledgeVars, handlerVars, settlerVars, crashes>>

(* The creator's or the operator's pause and resume: compare-and-set. *)
Pause ==
  /\ project = "LIVE"
  /\ project' = "PAUSED"
  /\ UNCHANGED <<clock, counterVars, pledgeVars, handlerVars, settlerVars, boundVars>>

Unpause ==
  /\ project = "PAUSED"
  /\ project' = "LIVE"
  /\ UNCHANGED <<clock, counterVars, pledgeVars, handlerVars, settlerVars, boundVars>>

-----------------------------------------------------------------------------
(* POST /pledges: check, insert the row, authorize the card, commit.        *)

PledgeAdmitted(p) ==
  /\ request[p] = "none"
  /\ project = "LIVE"
  /\ clock # "due"
  /\ request' = [request EXCEPT ![p] = "admitted"]
  /\ UNCHANGED <<clock, project, counterVars, pledgeVars, cancel, reauth, hook,
                 settlerVars, boundVars>>

(* The row is HELD with a placeholder reference before the card is asked;   *)
(* an intent is PENDING_BNPL and asks nobody.                               *)
PledgeInserted(p) ==
  /\ request[p] = "admitted"
  /\ request' = [request EXCEPT ![p] = IF p \in Cards THEN "inserted" ELSE "authorized"]
  /\ status' = [status EXCEPT ![p] = IF p \in Cards THEN "HELD" ELSE "PENDING_BNPL"]
  /\ UNCHANGED <<clock, project, counterVars, ref, psp, cancel, reauth, hook,
                 settlerVars, boundVars>>

HoldAuthorized(p) ==
  /\ request[p] = "inserted"
  /\ psp' = [psp EXCEPT ![p] = "authorized"]
  /\ request' = [request EXCEPT ![p] = "authorized"]
  /\ UNCHANGED <<clock, project, counterVars, status, ref, cancel, reauth, hook,
                 settlerVars, boundVars>>

(* Declined, or thrown: with a lossy provider the card may be held anyway.  *)
HoldFails(p) ==
  /\ request[p] = "inserted"
  /\ \/ UNCHANGED psp
     \/ LossyPsp /\ psp' = [psp EXCEPT ![p] = "authorized"]
  /\ status' = [status EXCEPT ![p] = "FAILED"]
  /\ request' = [request EXCEPT ![p] = "over"]
  /\ UNCHANGED <<clock, project, counterVars, ref, cancel, reauth, hook,
                 settlerVars, boundVars>>

(* The reference and the counters, in one transaction that looks neither at *)
(* the campaign's status nor at the pledge's.                               *)
PledgeCommitted(p) ==
  /\ request[p] = "authorized"
  /\ ref' = [ref EXCEPT ![p] = TRUE]
  /\ raised' = raised + Contribution[p]
  /\ request' = [request EXCEPT ![p] = "over"]
  /\ UNCHANGED <<clock, project, realized, status, psp, cancel, reauth, hook,
                 settlerVars, boundVars>>

-----------------------------------------------------------------------------
(* POST /pledges/:id/cancel: check, void, flip the row, then the counters.  *)
(* A row whose reference is still a placeholder cannot be voided: the       *)
(* request fails and changes nothing.                                       *)

CancelAdmittedLate(p, t) ==   \* MUTANT: the 48-hour lock is forgotten
  /\ cancel[p][t] = "none"
  /\ status[p] \in Cancellable
  /\ p \in Cards => ref[p]
  /\ project \in Active
  /\ cancel' = [cancel EXCEPT ![p][t] = IF p \in Cards THEN "void" ELSE "flip"]
  /\ UNCHANGED <<clock, project, counterVars, pledgeVars, request, reauth, hook,
                 settlerVars, boundVars>>

CancelAdmitted(p, t) ==
  /\ cancel[p][t] = "none"
  /\ status[p] \in Cancellable
  /\ p \in Cards => ref[p]
  /\ project \in Active
  /\ clock = "open"
  /\ cancel' = [cancel EXCEPT ![p][t] = IF p \in Cards THEN "void" ELSE "flip"]
  /\ UNCHANGED <<clock, project, counterVars, pledgeVars, request, reauth, hook,
                 settlerVars, boundVars>>

(* The provider: a void releases an authorization, and voiding again is ok. *)
MayVoid(p) == psp[p] \in {"authorized", "voided"}

CancelVoided(p, t) ==
  /\ cancel[p][t] = "void"
  /\ MayVoid(p)
  /\ psp' = [psp EXCEPT ![p] = "voided"]
  /\ cancel' = [cancel EXCEPT ![p][t] = "flip"]
  /\ UNCHANGED <<clock, project, counterVars, status, ref, request, reauth, hook,
                 settlerVars, boundVars>>

CancelRefused(p, t) ==
  /\ cancel[p][t] = "void"
  /\ \/ UNCHANGED psp
     \/ LossyPsp /\ MayVoid(p) /\ psp' = [psp EXCEPT ![p] = "voided"]
  /\ cancel' = [cancel EXCEPT ![p][t] = "over"]
  /\ UNCHANGED <<clock, project, counterVars, status, ref, request, reauth, hook,
                 settlerVars, boundVars>>

CancelFlipped(p, t) ==
  /\ cancel[p][t] = "flip"
  /\ status' = [status EXCEPT ![p] = "REFUNDED"]
  /\ cancel' = [cancel EXCEPT ![p][t] = "count"]
  /\ UNCHANGED <<clock, project, counterVars, ref, psp, request, reauth, hook,
                 settlerVars, boundVars>>

CancelCounted(p, t) ==
  /\ cancel[p][t] = "count"
  /\ raised' = raised - Contribution[p]
  /\ cancel' = [cancel EXCEPT ![p][t] = "over"]
  /\ UNCHANGED <<clock, project, realized, pledgeVars, request, reauth, hook,
                 settlerVars, boundVars>>

-----------------------------------------------------------------------------
(* Holds age: the issuer drops them, and the daily tick renews or parks.    *)

HoldLapses(p) ==
  /\ HoldsAge
  /\ psp[p] = "authorized" /\ ref[p]
  /\ psp' = [psp EXCEPT ![p] = "lapsed"]
  /\ UNCHANGED <<clock, project, counterVars, status, ref, handlerVars,
                 settlerVars, boundVars>>

ReauthReads(p) ==
  /\ HoldsAge
  /\ status[p] = "HELD" /\ project \in Active /\ reauth[p] = "none"
  /\ reauth' = [reauth EXCEPT ![p] = "read"]
  /\ UNCHANGED <<clock, project, counterVars, pledgeVars, request, cancel, hook,
                 settlerVars, boundVars>>

Reauthorized(p) ==
  /\ reauth[p] = "read"
  /\ ref[p] /\ psp[p] \in {"authorized", "lapsed"}
  /\ psp' = [psp EXCEPT ![p] = "authorized"]
  /\ \/ reauth' = [reauth EXCEPT ![p] = "none"]
     \/ LossyPsp /\ reauth' = [reauth EXCEPT ![p] = "park"]
  /\ UNCHANGED <<clock, project, counterVars, status, ref, request, cancel, hook,
                 settlerVars, boundVars>>

ReauthRefused(p) ==
  /\ reauth[p] = "read"
  /\ reauth' = [reauth EXCEPT ![p] = "park"]
  /\ UNCHANGED <<clock, project, counterVars, pledgeVars, request, cancel, hook,
                 settlerVars, boundVars>>

(* Compare-and-set: only a row that is still HELD is parked. *)
ReauthParks(p) ==
  /\ reauth[p] = "park"
  /\ status' = [status EXCEPT ![p] = IF @ = "HELD" THEN "PENDING_REAUTH" ELSE @]
  /\ reauth' = [reauth EXCEPT ![p] = "none"]
  /\ UNCHANGED <<clock, project, counterVars, ref, psp, request, cancel, hook,
                 settlerVars, boundVars>>

-----------------------------------------------------------------------------
(* settleProject, cancelCampaign, projects.force-close, resettleResidue.    *)

Start(s, j, g, stage, n) ==
  /\ settler[s].at = "idle"
  /\ settler' = [settler EXCEPT ![s] = [at |-> stage, job |-> j, good |-> g, pass |-> n]]
  /\ UNCHANGED <<clock, counterVars, pledgeVars, handlerVars, task, boundVars>>

SettleReadsLiveOnly(s) ==   \* MUTANT: a paused campaign is not settled
  /\ project = "LIVE"
  /\ clock = "due"
  /\ Start(s, "settle", raised >= Threshold, "read", 1)
  /\ UNCHANGED project

(* The verdict is computed from the raised amount read here... *)
SettleReads(s) ==
  /\ project \in Active
  /\ clock = "due"
  /\ Start(s, "settle", raised >= Threshold, "read", 1)
  /\ UNCHANGED project

SettleClaimsBlind(s) ==   \* MUTANT: the claim is a plain update
  /\ settler[s].at = "read"
  /\ project' = IF settler[s].good THEN "SUCCESSFUL" ELSE "FAILED"
  /\ settler' = [settler EXCEPT ![s].at = "claimed"]
  /\ UNCHANGED <<clock, counterVars, pledgeVars, handlerVars, task, boundVars>>

(* ...and written here, by a compare-and-set on the status alone.           *)
SettleClaims(s) ==
  /\ settler[s].at = "read"
  /\ IF project \in Active
       THEN /\ project' = IF settler[s].good THEN "SUCCESSFUL" ELSE "FAILED"
            /\ settler' = [settler EXCEPT ![s].at = "claimed"]
       ELSE /\ settler' = [settler EXCEPT ![s] = Idle]
            /\ UNCHANGED project
  /\ UNCHANGED <<clock, counterVars, pledgeVars, handlerVars, task, boundVars>>

(* Intents fall due, or are discarded: one bulk update, once. *)
IntentsSettled(s) ==
  /\ settler[s].at = "claimed"
  /\ status' = [p \in Pledges |->
                  IF status[p] # "PENDING_BNPL" THEN status[p]
                  ELSE IF settler[s].good THEN "CAPTURE_GRACE" ELSE "REFUNDED"]
  /\ settler' = [settler EXCEPT ![s].at = "query"]
  /\ UNCHANGED <<clock, project, counterVars, ref, psp, handlerVars, task,
                 boundVars>>

(* The creator cancels a running campaign: two void sweeps, intents untouched. *)
CampaignCancelled(s) ==
  /\ project \in Active
  /\ Start(s, "cancel", FALSE, "query", 1)
  /\ project' = "FAILED"

ForceClosedAnytime(s) ==   \* MUTANT: CLOSEABLE lists SUCCESSFUL as well
  /\ project \in Active \cup {"SUCCESSFUL"}
  /\ Start(s, "close", FALSE, "query", 2)
  /\ project' = "FAILED"

(* The operator closes it by force: one compensating sweep, and it stays FAILED. *)
ForceClosed(s) ==
  /\ project \in Active
  /\ Start(s, "close", FALSE, "query", 2)
  /\ project' = "FAILED"

(* The operator sweeps what a settled campaign left behind. *)
ResidueSweepByAmount(s) ==   \* MUTANT: decides by the amount, not by the status
  /\ project \in Succeeded \cup Failed
  /\ Start(s, "residue", raised >= Threshold, "query", 2)
  /\ UNCHANGED project

ResidueSweep(s) ==
  /\ project \in Succeeded \cup Failed
  /\ Start(s, "residue", project \in Succeeded, "query", 2)
  /\ UNCHANGED project

-----------------------------------------------------------------------------
(* captureAllHeld / refundAllHeld: a snapshot, then every pledge at once.   *)
(* adminRefundProject: a list, then every row is read again.                *)

SweepQueries(s) ==
  /\ settler[s].at = "query"
  /\ task' = [task EXCEPT ![s] =
                [p \in Pledges |-> IF status[p] \notin Sweepable THEN "none"
                                   ELSE IF settler[s].job = "close" THEN "listed"
                                   ELSE IF ref[p] THEN "todo" ELSE "refused"]]
  /\ settler' = [settler EXCEPT ![s].at = "sweep"]
  /\ UNCHANGED <<clock, project, counterVars, pledgeVars, handlerVars, boundVars>>

RowReadAgain(s, p) ==
  /\ settler[s].at = "sweep" /\ task[s][p] = "listed"
  /\ task' = [task EXCEPT ![s][p] =
                IF status[p] \in Sweepable /\ ref[p] THEN "todo" ELSE "refused"]
  /\ UNCHANGED <<clock, project, counterVars, pledgeVars, handlerVars, settler, boundVars>>

MayCapture(p) == psp[p] \in {"authorized", "captured"}

Settles(s, p, answer) ==
  /\ settler[s].at = "sweep" /\ task[s][p] = "todo"
  /\ task' = [task EXCEPT ![s][p] = answer]
  /\ UNCHANGED <<clock, project, counterVars, status, ref, handlerVars, settler,
                 boundVars>>

PspCaptures(s, p) ==
  /\ settler[s].good /\ MayCapture(p)
  /\ psp' = [psp EXCEPT ![p] = "captured"]
  /\ \/ Settles(s, p, "ok")
     \/ LossyPsp /\ Settles(s, p, "refused")

PspVoids(s, p) ==
  /\ ~settler[s].good /\ MayVoid(p)
  /\ psp' = [psp EXCEPT ![p] = "voided"]
  /\ \/ Settles(s, p, "ok")
     \/ LossyPsp /\ Settles(s, p, "refused")

PspRefuses(s, p) ==
  /\ Settles(s, p, "refused")
  /\ UNCHANGED psp

WriteDone(s, p) ==
  /\ settler[s].at = "sweep"
  /\ task' = [task EXCEPT ![s][p] = "none"]
  /\ UNCHANGED <<clock, project, ref, psp, handlerVars, settler, boundVars>>

(* markCaptured: status and REALIZED in one transaction, whatever the row   *)
(* says by now.                                                             *)
MarkCaptured(s, p) ==
  /\ settler[s].good /\ task[s][p] = "ok"
  /\ status' = [status EXCEPT ![p] = "CAPTURED"]
  /\ realized' = realized + Contribution[p]
  /\ WriteDone(s, p)
  /\ UNCHANGED raised

(* enterGrace, on a refusal or an exception: whatever the row says by now.  *)
EnterGrace(s, p) ==
  /\ settler[s].good /\ task[s][p] = "refused"
  /\ status' = [status EXCEPT ![p] = "CAPTURE_GRACE"]
  /\ WriteDone(s, p)
  /\ UNCHANGED counterVars

MarkRefundedAnyway(s, p) ==   \* MUTANT: the provider's refusal is not looked at
  /\ ~settler[s].good /\ task[s][p] \in {"ok", "refused"}
  /\ status' = [status EXCEPT ![p] = "REFUNDED"]
  /\ raised' = IF settler[s].job = "close" THEN raised - Contribution[p] ELSE raised
  /\ WriteDone(s, p)
  /\ UNCHANGED realized

(* refundOne, or adminRefundPledge when the campaign is closed by force:    *)
(* the latter takes the contribution out of raised.                         *)
MarkRefunded(s, p) ==
  /\ ~settler[s].good /\ task[s][p] = "ok"
  /\ status' = [status EXCEPT ![p] = "REFUNDED"]
  /\ raised' = IF settler[s].job = "close" THEN raised - Contribution[p] ELSE raised
  /\ WriteDone(s, p)
  /\ UNCHANGED realized

LeaveHeld(s, p) ==
  /\ ~settler[s].good /\ task[s][p] = "refused"
  /\ WriteDone(s, p)
  /\ UNCHANGED <<status, counterVars>>

SecondSweep(s) ==
  /\ settler[s].at = "sweep" /\ task[s] = NoTask /\ settler[s].pass = 1
  /\ settler' = [settler EXCEPT ![s].at = "query", ![s].pass = 2]
  /\ UNCHANGED <<clock, project, counterVars, pledgeVars, handlerVars, task, boundVars>>

SettlerFinishesClean(s) ==   \* MUTANT: waits for the pledges in grace as well
  /\ settler[s].at = "sweep" /\ task[s] = NoTask /\ settler[s].pass = 2
  /\ project' = CASE settler[s].job \in {"close", "residue"} -> project
                  [] \E p \in Pledges : status[p] = "CAPTURE_GRACE" -> project
                  [] settler[s].good -> "FUNDED"
                  [] OTHER -> "REFUNDED"
  /\ settler' = [settler EXCEPT ![s] = Idle]
  /\ UNCHANGED <<clock, counterVars, pledgeVars, handlerVars, task, boundVars>>

(* The final status is a plain update by whoever made the claim. *)
SettlerFinishes(s) ==
  /\ settler[s].at = "sweep" /\ task[s] = NoTask /\ settler[s].pass = 2
  /\ project' = CASE settler[s].job \in {"close", "residue"} -> project
                  [] settler[s].good -> "FUNDED"
                  [] OTHER -> "REFUNDED"
  /\ settler' = [settler EXCEPT ![s] = Idle]
  /\ UNCHANGED <<clock, counterVars, pledgeVars, handlerVars, task, boundVars>>

-----------------------------------------------------------------------------
(* payment_paid and payment_voided: the delivery is claimed by its unique   *)
(* key and the row read, then the row is written.                           *)

HookReads(p) ==
  /\ hook[p] = "none"
  /\ ref[p] /\ psp[p] \in {"captured", "voided"}
  /\ hook' = [hook EXCEPT ![p] = IF status[p] = "HELD" THEN "write" ELSE "over"]
  /\ UNCHANGED <<clock, project, counterVars, pledgeVars, request, cancel, reauth,
                 settlerVars, boundVars>>

HookWritesUncredited(p) ==   \* MUTANT: the webhook flips the row, REALIZED stays
  /\ hook[p] = "write"
  /\ status' = [status EXCEPT ![p] = IF psp[p] = "captured" THEN "CAPTURED" ELSE "REFUNDED"]
  /\ hook' = [hook EXCEPT ![p] = "over"]
  /\ UNCHANGED <<clock, project, counterVars, ref, psp, request, cancel, reauth,
                 settlerVars, boundVars>>

HookWrites(p) ==
  /\ hook[p] = "write"
  /\ IF psp[p] = "captured"
       THEN /\ status' = [status EXCEPT ![p] = "CAPTURED"]
            /\ realized' = realized + Contribution[p]
       ELSE /\ status' = [status EXCEPT ![p] = "REFUNDED"]
            /\ UNCHANGED realized
  /\ hook' = [hook EXCEPT ![p] = "over"]
  /\ UNCHANGED <<clock, project, raised, ref, psp, request, cancel, reauth,
                 settlerVars, boundVars>>

-----------------------------------------------------------------------------
(* A process dies at an await.  What it had written stays.                  *)

Crash ==
  /\ crashes < MaxCrashes
  /\ crashes' = crashes + 1
  /\ \/ \E s \in Settlers :
          /\ settler[s].at # "idle"
          /\ settler' = [settler EXCEPT ![s] = Idle]
          /\ task' = [task EXCEPT ![s] = NoTask]
          /\ UNCHANGED handlerVars
     \/ \E p \in Pledges :
          /\ request[p] \notin {"none", "over"}
          /\ request' = [request EXCEPT ![p] = "over"]
          /\ UNCHANGED <<cancel, reauth, hook, settlerVars>>
     \/ \E p \in Pledges, t \in Tabs :
          /\ cancel[p][t] \notin {"none", "over"}
          /\ cancel' = [cancel EXCEPT ![p][t] = "over"]
          /\ UNCHANGED <<request, reauth, hook, settlerVars>>
     \/ \E p \in Pledges :
          /\ hook[p] = "write"
          /\ hook' = [hook EXCEPT ![p] = "over"]
          /\ UNCHANGED <<request, cancel, reauth, settlerVars>>
     \/ \E p \in Pledges :
          /\ reauth[p] # "none"
          /\ reauth' = [reauth EXCEPT ![p] = "none"]
          /\ UNCHANGED <<request, cancel, hook, settlerVars>>
  /\ UNCHANGED <<clock, project, counterVars, pledgeVars, overrides>>

-----------------------------------------------------------------------------
PledgeStep(p) ==
  \/ PledgeAdmitted(p) \/ PledgeInserted(p) \/ HoldAuthorized(p) \/ HoldFails(p)
  \/ PledgeCommitted(p)
  \/ HoldLapses(p) \/ ReauthReads(p) \/ Reauthorized(p) \/ ReauthRefused(p)
  \/ ReauthParks(p)
  \/ HookReads(p) \/ HookWrites(p)

CancelStep(p, t) ==
  \/ CancelAdmitted(p, t) \/ CancelVoided(p, t) \/ CancelRefused(p, t)
  \/ CancelFlipped(p, t) \/ CancelCounted(p, t)

SettlerStarts(s) ==
  SettleReads(s) \/ CampaignCancelled(s) \/ ForceClosed(s) \/ ResidueSweep(s)

SweepStep(s, p) ==
  \/ RowReadAgain(s, p) \/ PspCaptures(s, p) \/ PspVoids(s, p) \/ PspRefuses(s, p)
  \/ MarkCaptured(s, p) \/ EnterGrace(s, p) \/ MarkRefunded(s, p) \/ LeaveHeld(s, p)

(* What a settler that has started goes on to do. *)
SettlerStep(s) ==
  \/ SettleClaims(s) \/ IntentsSettled(s) \/ SweepQueries(s)
  \/ \E p \in Pledges : SweepStep(s, p)
  \/ SecondSweep(s) \/ SettlerFinishes(s)

Next ==
  \/ ClockAdvances \/ DeadlineOverride \/ Pause \/ Unpause \/ Crash
  \/ \E p \in Pledges : PledgeStep(p) \/ \E t \in Tabs : CancelStep(p, t)
  \/ \E s \in Settlers : SettlerStarts(s) \/ SettlerStep(s)

Spec == Init /\ [][Next]_vars

(* The deadline cron ticks every minute, and a process that has started     *)
(* goes on: every call it awaits returns or throws.                         *)
Fairness ==
  \A s \in Settlers : WF_vars(SettleReads(s)) /\ WF_vars(SettlerStep(s))

FairSpec == Spec /\ Fairness

(* RUNBOOK.md, section 1: the operator forces a settlement that did not run. *)
OperatedSpec == FairSpec /\ \A s \in Settlers : WF_vars(ResidueSweep(s))

-----------------------------------------------------------------------------
Locals == [at : {"idle", "read", "claimed", "query", "sweep"},
           job : {"settle", "cancel", "close", "residue"},
           good : BOOLEAN, pass : {1, 2}]

(* Every variable ranges over the values the rows, the provider and the     *)
(* handlers' locals can have; realized is never negative.                   *)
TypeOK ==
  /\ clock \in {"open", "locked", "due"}
  /\ project \in Active \cup Succeeded \cup Failed
  /\ raised \in Int /\ realized \in Nat
  /\ status \in [Pledges -> PledgeStatus]
  /\ ref \in [Pledges -> BOOLEAN]
  /\ psp \in [Pledges -> {"none", "authorized", "lapsed", "captured", "voided"}]
  /\ request \in [Pledges -> {"none", "admitted", "inserted", "authorized", "over"}]
  /\ cancel \in [Pledges -> [Tabs -> {"none", "void", "flip", "count", "over"}]]
  /\ reauth \in [Pledges -> {"none", "read", "park"}]
  /\ hook \in [Pledges -> {"none", "write", "over"}]
  /\ settler \in [Settlers -> Locals]
  /\ task \in [Settlers -> [Pledges -> {"none", "listed", "todo", "ok", "refused"}]]
  /\ crashes \in Nat /\ overrides \in Nat

(* The all-or-nothing rule (funding.service.ts, section 5 rule): no card is *)
(* charged for a campaign that was not judged successful, whoever settles,  *)
(* cancels, closes or sweeps it, in whatever order, and whoever dies.       *)
ChargedOnlyOnSuccess ==
  \A p \in Pledges : psp[p] = "captured" => project \in Succeeded

(* The settlers' compare-and-set claims (funding.service.ts, the P1-306     *)
(* atomic claim): a campaign is judged once; no later settle, cancellation, *)
(* force-close, pause or resume takes a verdict back.                       *)
VerdictFinal ==
  [][/\ project \in Succeeded => project' \in Succeeded
     /\ project \in Failed => project' \in Failed]_project

(* The database never runs ahead of the provider: a card pledge it calls    *)
(* CAPTURED was charged and one it calls REFUNDED was released, although    *)
(* every row is written from a snapshot that may be stale by then.          *)
RowsMatchProvider ==
  \A p \in Cards : /\ status[p] = "CAPTURED" => psp[p] = "captured"
                   /\ status[p] = "REFUNDED" => psp[p] = "voided"

(* REALIZED, from which milestones are paid out, never falls short of the   *)
(* captured pledges (escrow.service.ts, markCaptured: "or realizedHalalas   *)
(* under-counts and milestone releases short the creator").                 *)
RealizedNeverShort ==
  realized >= Total({p \in Pledges : status[p] = "CAPTURED"})

(* A campaign is declared successful only on money that is still pledged at *)
(* that moment: what cancellations took away before the 48-hour lock cannot *)
(* count, however settlement and cancellation overlap.                      *)
SuccessIsBacked ==
  [][(project \in Active /\ project' \in Succeeded) =>
       (Threshold <= Total({p \in Pledges : ref[p] /\ status[p] \in Pledged}))]_project

(* Every campaign whose deadline has passed is judged (deadline.scheduler). *)
DueIsJudged == (clock = "due") ~> (project \notin Active)

(* README.md, campaign life cycle: SUCCESSFUL -> FUNDED.                    *)
SuccessReachesFunded == (project = "SUCCESSFUL") ~> (project = "FUNDED")

(* webhook.service.ts: a capture confirmed by the webhook and by the sync   *)
(* path is credited to REALIZED once.                                       *)
RealizedCreditedOnce ==
  realized <= Total({p \in Pledges : psp[p] = "captured"})

(* funding.service.ts, straggler pass: no pledge is HELD once FUNDED is     *)
(* declared and every request has ended.                                    *)
NoStragglerOnceFunded ==
  project = "FUNDED" => \A p \in Pledges :
     ~(status[p] = "HELD" /\ psp[p] = "authorized" /\ request[p] = "over")

-----------------------------------------------------------------------------
(* The campaign as AllOrNothing sees it. *)
Verdict == CASE project \in Active -> "open"
             [] project \in Succeeded -> "success"
             [] OTHER -> "failure"

Money == [p \in Pledges |-> CASE psp[p] = "none" -> "free"
                              [] psp[p] = "captured" -> "charged"
                              [] psp[p] = "voided" -> "released"
                              [] OTHER -> "held"]

Promise == INSTANCE AllOrNothing WITH verdict <- Verdict, money <- Money

(* The sweeps, the cancellations and the provider's answers, together, do   *)
(* to each backer's money only what an all-or-nothing campaign may do: in   *)
(* particular no hold is released once the campaign has succeeded.          *)
KeepsPromise == Promise!Spec
=============================================================================
