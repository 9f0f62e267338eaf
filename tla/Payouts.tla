------------------------------- MODULE Payouts -------------------------------
(***************************************************************************)
(* How the money of a funded campaign reaches its creator: the creator     *)
(* submits evidence for a milestone, an operator approves and releases it, *)
(* which creates a payout, and the disburser, run by cron and by hand,     *)
(* transfers payouts through the provider.  Meanwhile late captures and    *)
(* refunds move REALIZED, the amount milestones are computed from.         *)
(*                                                                         *)
(* An operator's transaction runs at the database's default isolation,     *)
(* READ COMMITTED: what it checked may have changed when it writes.        *)
(*                                                                         *)
(* Sources: escrow-payments/payout.disburser.ts, ops/operations/money.ops  *)
(* and milestones.ops, milestones/milestones.service.ts, projects.service. *)
(***************************************************************************)
EXTENDS Integers, FiniteSets, Functions

CONSTANTS
  Milestones,
  ReleasePct,   \* Milestone.releasePct, summing to 100 (setMilestones)
  Captured,     \* realizedHalalas when the campaign is declared FUNDED
  Late,         \* amounts that recovered captures may still add, by pledge
  Refundable,   \* amounts of captured pledges an operator may refund, by pledge
  Operators,    \* money operators with a transaction open at a time
  Tabs,         \* concurrent evidence submissions of the creator
  Workers,      \* disburser ticks that may overlap: cron and manual
  Batch,        \* PayoutDisburser.BATCH
  Lossy,        \* TRUE: an answer of the provider, or the write after it, may fail
  MaxPayouts,   \* bound: payout rows
  MaxTransfers, \* bound: transfers of one payout
  MaxCrashes    \* bound: processes that die half-way

(* setMilestones refuses a plan whose percentages do not sum to 100; a      *)
(* campaign without a plan has none.                                        *)
ASSUME PlanAssumption ==
  /\ IsFiniteSet(Milestones)
  /\ ReleasePct \in [Milestones -> Nat] /\ SumFunction(ReleasePct) <= 100
  /\ Captured \in Nat
  /\ Late \in [DOMAIN Late -> Nat]
  /\ Refundable \in [DOMAIN Refundable -> Nat] /\ IsFiniteSet(DOMAIN Refundable)
  /\ SumFunction(Refundable) <= Captured   \* they are part of what was captured
ASSUME WorkAssumption ==
  /\ Batch \in Nat \ {0} /\ MaxPayouts \in Nat /\ MaxCrashes \in Nat
  /\ MaxTransfers \in Nat
  /\ Lossy \in BOOLEAN

Payouts == 1 .. MaxPayouts   \* in the order of Payout.createdAt

VARIABLES
  project,     \* Project.status, from FUNDED on
  realized,    \* Project.realizedHalalas
  milestone,   \* Milestone.status
  released,    \* Milestone.releasedHalalas
  evidence,    \* how far each evidence submission has come
  operator,    \* each operator's open transaction
  delivery,    \* the creator's close-out request
  late,        \* recovered captures that were credited
  refund,      \* how far the refund of each captured pledge has come
  status,      \* Payout.status, "NONE" before the row exists
  row,         \* Payout.milestoneId and amountHalalas
  transfers,   \* transfers of each payout the provider has taken on
  settled,     \* Project.settledAt is set
  worker,      \* each tick: how far it has come, its batch, its payout
  crashes

planVars == <<project, milestone, released, evidence, operator, delivery>>
moneyVars == <<realized, late, refund>>
payoutVars == <<status, row, transfers, settled>>
vars == <<planVars, moneyVars, payoutVars, worker, crashes>>

NoPayout == 0
NoRow == [milestone |-> "none", gross |-> 0]
Resting == [at |-> "idle", batch |-> {}, payout |-> NoPayout]
NoOperation ==
  [at |-> "idle", kind |-> "none", target |-> NoPayout, amount |-> 0, first |-> FALSE]

Unreleased == realized - SumFunction(released)

Init ==
  /\ project = "FUNDED" /\ realized = Captured
  /\ milestone = [m \in Milestones |-> "PENDING"]
  /\ released = [m \in Milestones |-> 0]
  /\ evidence = [m \in Milestones |-> [t \in Tabs |-> FALSE]]
  /\ operator = [o \in Operators |-> NoOperation]
  /\ delivery = FALSE
  /\ late = [c \in DOMAIN Late |-> FALSE]
  /\ refund = [c \in DOMAIN Refundable |-> "none"]
  /\ status = [p \in Payouts |-> "NONE"]
  /\ row = [p \in Payouts |-> NoRow]
  /\ transfers = [p \in Payouts |-> 0]
  /\ settled = FALSE
  /\ worker = [w \in Workers |-> Resting]
  /\ crashes = 0

-----------------------------------------------------------------------------
(* POST .../evidence: a check, then an update that does not repeat it.      *)

EvidenceChecked(m, t) ==
  /\ ~evidence[m][t] /\ milestone[m] = "PENDING"
  /\ evidence' = [evidence EXCEPT ![m][t] = TRUE]
  /\ UNCHANGED <<project, milestone, released, operator, delivery, moneyVars, payoutVars,
                 worker, crashes>>

EvidenceSubmitted(m, t) ==
  /\ evidence[m][t]
  /\ milestone' = [milestone EXCEPT ![m] = "SUBMITTED"]
  /\ evidence' = [evidence EXCEPT ![m][t] = FALSE]
  /\ UNCHANGED <<project, released, operator, delivery, moneyVars, payoutVars, worker, crashes>>

-----------------------------------------------------------------------------
(* The operator's transactions: preconditions, then the writes.             *)

OperationBegins(o, kind, x) ==
  /\ operator[o].at = "idle"
  /\ operator' = [operator EXCEPT ![o] =
                    [NoOperation EXCEPT !.at = "checked", !.kind = kind, !.target = x]]
  /\ UNCHANGED <<project, milestone, released, evidence, delivery, moneyVars,
                 payoutVars, worker, crashes>>

OperationEnds(o) ==
  /\ operator' = [operator EXCEPT ![o] = NoOperation]
  /\ UNCHANGED <<evidence, delivery, moneyVars, worker, crashes>>

ReviewChecked(o, m) ==
  /\ milestone[m] = "SUBMITTED"
  /\ OperationBegins(o, "approve", m) \/ OperationBegins(o, "reject", m)

EvidenceApproved(o, m) ==
  /\ operator[o].at = "checked" /\ operator[o].kind = "approve" /\ operator[o].target = m
  /\ milestone' = [milestone EXCEPT ![m] = "APPROVED"]
  /\ OperationEnds(o)
  /\ UNCHANGED <<project, released, payoutVars>>

EvidenceRejected(o, m) ==
  /\ operator[o].at = "checked" /\ operator[o].kind = "reject" /\ operator[o].target = m
  /\ milestone' = [milestone EXCEPT ![m] = "PENDING"]
  /\ OperationEnds(o)
  /\ UNCHANGED <<project, released, payoutVars>>

ReleaseCheckedLoosely(o, m) ==   \* MUTANT: not-approved lets RELEASED pass
  /\ project \in {"FUNDED", "IN_PRODUCTION"}
  /\ milestone[m] \in {"APPROVED", "RELEASED"}
  /\ realized > 0
  /\ OperationBegins(o, "release", m)

ReleaseChecked(o, m) ==
  /\ project \in {"FUNDED", "IN_PRODUCTION"}
  /\ milestone[m] = "APPROVED"
  /\ realized > 0
  /\ OperationBegins(o, "release", m)

ReleaseReadRaised(o, m) ==   \* MUTANT: pays from RAISED
  /\ operator[o].at = "checked" /\ operator[o].kind = "release" /\ operator[o].target = m
  /\ operator' = [operator EXCEPT ![o].at = "read",
        ![o].amount = ((Captured + SumFunction(Late)) * ReleasePct[m]) \div 100,
        ![o].first = (project = "FUNDED")]
  /\ UNCHANGED <<project, milestone, released, evidence, delivery, moneyVars,
                 payoutVars, worker, crashes>>

(* The percentage is taken of REALIZED as it stands at this read, which also *)
(* decides whether this release starts production.                          *)
ReleaseRead(o, m) ==
  /\ operator[o].at = "checked" /\ operator[o].kind = "release" /\ operator[o].target = m
  /\ operator' = [operator EXCEPT ![o].at = "read",
                                  ![o].amount = (realized * ReleasePct[m]) \div 100,
                                  ![o].first = (project = "FUNDED")]
  /\ UNCHANGED <<project, milestone, released, evidence, delivery, moneyVars,
                 payoutVars, worker, crashes>>

(* The milestone, a new payout and the project's status, together. *)
MilestoneReleased(o, m, p) ==
  /\ operator[o].at = "read" /\ operator[o].target = m
  /\ status[p] = "NONE" /\ \A q \in 1 .. (p - 1) : status[q] # "NONE"
  /\ milestone' = [milestone EXCEPT ![m] = "RELEASED"]
  /\ released' = [released EXCEPT ![m] = operator[o].amount]
  /\ status' = [status EXCEPT ![p] = "PENDING"]
  /\ row' = [row EXCEPT ![p] = [milestone |-> m, gross |-> operator[o].amount]]
  /\ project' = IF operator[o].first THEN "IN_PRODUCTION" ELSE project
  /\ OperationEnds(o)
  /\ UNCHANGED <<transfers, settled>>

RetryChecked(o, p) ==
  /\ status[p] = "FAILED"
  /\ OperationBegins(o, "retry", p)

PayoutRetried(o, p) ==
  /\ operator[o].at = "checked" /\ operator[o].kind = "retry" /\ operator[o].target = p
  /\ status' = [status EXCEPT ![p] = "PENDING"]
  /\ OperationEnds(o)
  /\ UNCHANGED <<project, milestone, released, row, transfers, settled>>

-----------------------------------------------------------------------------
(* completeDelivery: the creator closes the campaign out. *)

DeliveryCheckedEarly ==   \* MUTANT: an approved milestone counts as released
  /\ ~delivery
  /\ project = "IN_PRODUCTION"
  /\ \A m \in Milestones : milestone[m] \in {"APPROVED", "RELEASED"}
  /\ delivery' = TRUE
  /\ UNCHANGED <<project, milestone, released, evidence, operator, moneyVars, payoutVars,
                 worker, crashes>>

DeliveryChecked ==
  /\ ~delivery
  /\ project = "IN_PRODUCTION"
  /\ \A m \in Milestones : milestone[m] = "RELEASED"
  /\ delivery' = TRUE
  /\ UNCHANGED <<project, milestone, released, evidence, operator, moneyVars, payoutVars,
                 worker, crashes>>

Delivered ==
  /\ delivery
  /\ project' = "DELIVERED" /\ delivery' = FALSE
  /\ UNCHANGED <<milestone, released, evidence, operator, moneyVars, payoutVars, worker, crashes>>

-----------------------------------------------------------------------------
(* REALIZED moves meanwhile: markCaptured, and adminRefundPledge of a       *)
(* captured pledge behind its funds-already-released precondition.          *)

LateCapture(c) ==
  /\ ~late[c]
  /\ late' = [late EXCEPT ![c] = TRUE]
  /\ realized' = realized + Late[c]
  /\ UNCHANGED <<planVars, refund, payoutVars, worker, crashes>>

RefundChecked(c) ==
  /\ refund[c] = "none"
  /\ Unreleased >= Refundable[c]
  /\ refund' = [refund EXCEPT ![c] = "checked"]
  /\ UNCHANGED <<planVars, realized, late, payoutVars, worker, crashes>>

(* The provider refunds and the row and REALIZED follow, or it declines. *)
Refunded(c) ==
  /\ refund[c] = "checked"
  /\ \/ refund' = [refund EXCEPT ![c] = "over"] /\ realized' = realized - Refundable[c]
     \/ refund' = [refund EXCEPT ![c] = "none"] /\ UNCHANGED realized
  /\ UNCHANGED <<planVars, late, payoutVars, worker, crashes>>

-----------------------------------------------------------------------------
(* disbursePending: the oldest pending payouts, one after the other.        *)

Pending == {p \in Payouts : status[p] = "PENDING"}
Oldest == {p \in Pending : Cardinality({q \in Pending : q < p}) < Batch}


TickStarts(w) ==
  /\ worker[w].at = "idle"
  /\ worker' = [worker EXCEPT ![w] = [Resting EXCEPT !.at = "loop", !.batch = Oldest]]
  /\ UNCHANGED <<planVars, moneyVars, payoutVars, crashes>>

TickEnds(w) ==
  /\ worker[w].at = "loop" /\ worker[w].batch = {}
  /\ worker' = [worker EXCEPT ![w] = Resting]
  /\ UNCHANGED <<planVars, moneyVars, payoutVars, crashes>>

PayoutClaimedBlind(w, p) ==   \* MUTANT: the claim is a plain update
  /\ worker[w].at = "loop"
  /\ p \in worker[w].batch /\ \A q \in worker[w].batch : p <= q
  /\ status' = [status EXCEPT ![p] = "SENDING"]
  /\ worker' = [worker EXCEPT ![w].at = "send", ![w].payout = p, ![w].batch = @ \ {p}]
  /\ UNCHANGED <<planVars, moneyVars, row, transfers, settled, crashes>>

(* The claim: PENDING -> SENDING by compare-and-set, or the row is skipped. *)
PayoutClaimed(w, p) ==
  /\ worker[w].at = "loop"
  /\ p \in worker[w].batch /\ \A q \in worker[w].batch : p <= q
  /\ IF status[p] = "PENDING"
       THEN /\ status' = [status EXCEPT ![p] = "SENDING"]
            /\ worker' = [worker EXCEPT ![w].at = "send", ![w].payout = p,
                                        ![w].batch = @ \ {p}]
       ELSE /\ worker' = [worker EXCEPT ![w].batch = @ \ {p}]
            /\ UNCHANGED status
  /\ UNCHANGED <<planVars, moneyVars, row, transfers, settled, crashes>>

Answered(w, outcome) ==
  /\ worker' = [worker EXCEPT ![w].at = outcome]
  /\ UNCHANGED <<planVars, moneyVars, status, row, settled, crashes>>

TransferAcceptedUnread(w, p) ==   \* MUTANT: an accepted status is not recognised
  /\ worker[w].at = "send" /\ worker[w].payout = p
  /\ transfers[p] < MaxTransfers
  /\ transfers' = [transfers EXCEPT ![p] = @ + 1]
  /\ Answered(w, "release")

(* The provider takes the transfer on: initiated, queued, paid or no status. *)
TransferAccepted(w, p) ==
  /\ worker[w].at = "send" /\ worker[w].payout = p
  /\ transfers[p] < MaxTransfers
  /\ transfers' = [transfers EXCEPT ![p] = @ + 1]
  /\ Answered(w, "sent")

TransferRejectedUnnoticed(w, p) ==   \* MUTANT: the status in the answer is not read
  /\ worker[w].at = "send" /\ worker[w].payout = p
  /\ Answered(w, "sent")
  /\ UNCHANGED transfers

(* A 4xx, or a failed status: the provider made no transfer. *)
TransferRejected(w, p) ==
  /\ worker[w].at = "send" /\ worker[w].payout = p
  /\ Answered(w, "fail")
  /\ UNCHANGED transfers

(* No source, no beneficiary, no connection, a 5xx, a timeout after 15 s or *)
(* an answer that is not understood.  A lossy provider may have paid.       *)
TransferUnclear(w, p) ==
  /\ worker[w].at = "send" /\ worker[w].payout = p
  /\ Answered(w, "release")
  /\ \/ UNCHANGED transfers
     \/ Lossy /\ transfers[p] < MaxTransfers /\ transfers' = [transfers EXCEPT ![p] = @ + 1]

(* SENT is written, or the write throws inside the same try block. *)
SentWritten(w, p) ==
  /\ worker[w].at = "sent" /\ worker[w].payout = p
  /\ \/ /\ status' = [status EXCEPT ![p] = "SENT"]
        /\ worker' = [worker EXCEPT ![w].at = "settle"]
     \/ /\ Lossy
        /\ worker' = [worker EXCEPT ![w].at = "release"]
        /\ UNCHANGED status
  /\ UNCHANGED <<planVars, moneyVars, row, transfers, settled, crashes>>

NextPayout(w) ==
  /\ worker' = [worker EXCEPT ![w].at = "loop", ![w].payout = NoPayout]
  /\ UNCHANGED <<planVars, moneyVars, row, transfers, crashes>>

(* Project.settledAt: the first payout that lands stamps it, unless the     *)
(* write throws into the same handler.                                      *)
SettledStamped(w) ==
  /\ worker[w].at = "settle"
  /\ \/ settled' = TRUE /\ NextPayout(w) /\ UNCHANGED status
     \/ Lossy /\ Answered(w, "release") /\ UNCHANGED transfers

FailureWritten(w, p) ==
  /\ worker[w].at = "fail" /\ worker[w].payout = p
  /\ status' = [status EXCEPT ![p] = "FAILED"]
  /\ NextPayout(w)
  /\ UNCHANGED settled

(* The claim is given back, if the row is still SENDING. *)
ClaimReleased(w, p) ==
  /\ worker[w].at = "release" /\ worker[w].payout = p
  /\ status' = [status EXCEPT ![p] = IF @ = "SENDING" THEN "PENDING" ELSE @]
  /\ NextPayout(w)
  /\ UNCHANGED settled

(* A process dies, or a write outside the try block fails and ends the tick: *)
(* the row it was sending stays SENDING.                                     *)
Crash ==
  /\ crashes < MaxCrashes
  /\ crashes' = crashes + 1
  /\ \E w \in Workers : /\ worker[w].at # "idle"
                       /\ worker' = [worker EXCEPT ![w] = Resting]
  /\ UNCHANGED <<planVars, moneyVars, payoutVars>>

-----------------------------------------------------------------------------
EvidenceStep(m, t) == EvidenceChecked(m, t) \/ EvidenceSubmitted(m, t)

ReviewStep(o, m) ==
  \/ ReviewChecked(o, m) \/ EvidenceApproved(o, m) \/ EvidenceRejected(o, m)
  \/ ReleaseChecked(o, m) \/ ReleaseRead(o, m)
  \/ \E p \in Payouts : MilestoneReleased(o, m, p)

RetryStep(o, p) == RetryChecked(o, p) \/ PayoutRetried(o, p)

SendStep(w, p) ==
  \/ PayoutClaimed(w, p) \/ TransferAccepted(w, p) \/ TransferRejected(w, p)
  \/ TransferUnclear(w, p) \/ SentWritten(w, p) \/ FailureWritten(w, p)
  \/ ClaimReleased(w, p)

WorkerStep(w) ==
  \/ TickStarts(w) \/ TickEnds(w) \/ SettledStamped(w)
  \/ \E p \in Payouts : SendStep(w, p)

Next ==
  \/ \E m \in Milestones, t \in Tabs : EvidenceStep(m, t)
  \/ \E o \in Operators, m \in Milestones : ReviewStep(o, m)
  \/ \E o \in Operators, p \in Payouts : RetryStep(o, p)
  \/ DeliveryChecked \/ Delivered
  \/ \E c \in DOMAIN Late : LateCapture(c)
  \/ \E c \in DOMAIN Refundable : RefundChecked(c) \/ Refunded(c)
  \/ \E w \in Workers : WorkerStep(w)
  \/ Crash

Spec == Init /\ [][Next]_vars

(* The cron starts a tick every five minutes and a tick goes on. *)
FairSpec == Spec /\ \A w \in Workers : WF_vars(WorkerStep(w))

-----------------------------------------------------------------------------
OperatorLocals == [at : {"idle", "checked", "read"},
                   kind : {"none", "approve", "reject", "release", "retry"},
                   target : Milestones \cup Payouts \cup {NoPayout}, amount : Int,
                   first : BOOLEAN]
WorkerLocals == [at : {"idle", "loop", "send", "sent", "settle", "fail", "release"},
                 batch : SUBSET Payouts, payout : Payouts \cup {NoPayout}]

(* Every variable ranges over the values the rows and the handlers' locals  *)
(* can have.                                                                *)
TypeOK ==
  /\ project \in {"FUNDED", "IN_PRODUCTION", "DELIVERED"}
  /\ realized \in Int
  /\ milestone \in [Milestones -> {"PENDING", "SUBMITTED", "APPROVED", "RELEASED"}]
  /\ released \in [Milestones -> Int]
  /\ evidence \in [Milestones -> [Tabs -> BOOLEAN]]
  /\ operator \in [Operators -> OperatorLocals]
  /\ delivery \in BOOLEAN /\ settled \in BOOLEAN
  /\ late \in [DOMAIN Late -> BOOLEAN]
  /\ refund \in [DOMAIN Refundable -> {"none", "checked", "over"}]
  /\ status \in [Payouts -> {"NONE", "PENDING", "SENDING", "SENT", "FAILED"}]
  /\ row \in [Payouts -> [milestone : Milestones \cup {"none"}, gross : Int]]
  /\ transfers \in [Payouts -> Nat]
  /\ worker \in [Workers -> WorkerLocals]
  /\ crashes \in Nat

(* payout.disburser.ts, header: overlapping ticks, crashes and retries can  *)
(* never send a payout twice.                                               *)
TransferredOnce == \A p \in Payouts : transfers[p] <= 1

(* A payout the creator is told is SENT is one the provider took on,        *)
(* whatever answers were lost, ticks died or operators retried.             *)
SentIsTransferred == \A p \in Payouts : status[p] = "SENT" => transfers[p] > 0

(* A payout that was transferred is never offered to the next tick or to an *)
(* operator's retry.                                                        *)
TransferredIsNotOffered ==
  \A p \in Payouts : transfers[p] > 0 => status[p] \in {"SENDING", "SENT"}

(* A milestone creates one payout, however approval, rejection, resubmission*)
(* and release follow one another.                                          *)
ReleasedOnce ==
  \A p, q \in Payouts :
     (status[p] # "NONE" /\ status[q] # "NONE" /\ row[p].milestone = row[q].milestone)
       => p = q

PaidOut == SumFunction([p \in Payouts |-> row[p].gross])
Returned == SumFunctionOnSet(Refundable, {c \in DOMAIN Refundable : refund[c] = "over"})

(* Milestones release no more than was ever captured: whichever captures    *)
(* and refunds move REALIZED between the releases, between a refund's check *)
(* and its execution or between a release's read and its write, REALIZED is *)
(* overdrawn by no more than was refunded.                                  *)
OnlyRefundsOverdraw == PaidOut <= realized + Returned

(* money.ops.ts, unreleasedRealized: a refund "may only draw from" the      *)
(* realized money milestones have not released, so that these always stay   *)
(* covered.                                                                 *)
ReleasesCovered == PaidOut <= realized

(* A delivered campaign owes nothing: every milestone has its payout.       *)
DeliveredIsReleased ==
  project = "DELIVERED" => \A m \in Milestones :
     \E p \in Payouts : status[p] # "NONE" /\ row[p].milestone = m


(* Every payout that waits does.  False: a batch of older payouts whose     *)
(* creators have no beneficiary comes first at every tick.                  *)
EveryPayoutTried ==
  \A p \in Payouts : (status[p] = "PENDING") ~> (status[p] # "PENDING")
=============================================================================
