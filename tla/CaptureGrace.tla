----------------------------- MODULE CaptureGrace -----------------------------
(***************************************************************************)
(* The grace window of a funded campaign: pledges whose capture failed at  *)
(* settlement, and buy-now-pay-later intents that fell due.  The cron tick *)
(* retries cards at three marks and fails what has expired, an operator    *)
(* retries a campaign's cohort or revives a failed pledge, a backer pays   *)
(* with a new card, and a BNPL provider reports a paid checkout.  All of   *)
(* them end in markCaptured, and a pledge that fails gives its reward back *)
(* to the stock, from which a revival must take it again.                  *)
(*                                                                         *)
(* Sources: funding/grace.scheduler.ts, escrow-payments/escrow.service.ts, *)
(* bnpl.service.ts, funding/funding.service.ts.                            *)
(***************************************************************************)
EXTENDS Integers, FiniteSets

CONSTANTS
  Cards,       \* pledges whose capture was refused at settlement
  Intents,     \* BNPL pledges, due since settlement
  Limit,       \* RewardTier.limitQty of the reward they all chose
  Ticks,       \* runs of the cron job that may overlap
  Operators,   \* cohort retries and revivals open at a time
  Tabs,        \* new cards a backer may be trying at a time
  Deliveries,  \* deliveries of a BNPL provider's event: at least once
  NoPledge,
  RetryMarks,  \* RETRY_MARKS_MS.length
  MaxCalls,    \* bound: operator calls
  MaxFaults    \* bound: lost answers, failed writes and dead processes

Pledges == Cards \cup Intents

ASSUME GraceAssumption ==
  /\ Cards \cap Intents = {} /\ IsFiniteSet(Pledges) /\ IsFiniteSet(Operators)
  /\ Limit \in Nat /\ Cardinality(Pledges) <= Limit
  /\ Ticks \cap Operators = {} /\ NoPledge \notin Pledges
  /\ RetryMarks \in Nat \ {0}
  /\ MaxCalls \in Nat /\ MaxFaults \in Nat

VARIABLES
  clock,     \* retry marks passed since graceStartedAt; Expired: graceExpiresAt
  status,    \* Pledge.status
  attempts,  \* Pledge.captureAttempts
  claimed,   \* RewardTier.claimedQty
  charged,   \* pledges of which the provider captured a payment
  job,       \* each tick and operator call: how far it has come, and its lists
  card,      \* how far each new-card request has come
  checkout,  \* intents whose BNPL checkout was opened
  hook,      \* each delivery of its event
  calls, faults

clientVars == <<card, checkout, hook>>
vars == <<clock, status, attempts, claimed, charged, job, clientVars, calls, faults>>

Expired == RetryMarks + 1

Resting == [at |-> "idle", todo |-> {}, item |-> NoPledge]

InGrace == {p \in Pledges : status[p] = "CAPTURE_GRACE"}
FailedCapture == {p \in Pledges : status[p] = "FAILED_CAPTURE"}

Init ==
  /\ clock = 0
  /\ status = [p \in Pledges |-> "CAPTURE_GRACE"]
  /\ attempts = [p \in Pledges |-> IF p \in Cards THEN 1 ELSE 0]
  /\ claimed \in Cardinality(Pledges) .. Limit
  /\ charged = {}
  /\ job = [w \in Ticks \cup Operators |-> Resting]
  /\ card = [p \in Cards |-> [t \in Tabs |-> "none"]]
  /\ checkout = {}
  /\ hook = [p \in Intents |-> [d \in Deliveries |-> "none"]]
  /\ calls = 0 /\ faults = 0

(* graceWindowHours is a setting: the window may end before its marks. *)
TimePasses ==
  /\ clock < Expired
  /\ clock' \in {clock + 1, Expired}
  /\ UNCHANGED <<status, attempts, claimed, charged, job, clientVars, calls, faults>>

Fault == faults < MaxFaults /\ faults' = faults + 1

(* markCaptured: by id alone, whatever the status has become. *)
MarkCaptured(p) == status' = [status EXCEPT ![p] = "CAPTURED"]

-----------------------------------------------------------------------------
(* Jobs: the cron tick, the operator's cohort retry, the revival.           *)

At(w, stage) == job[w].at = stage
Goes(w, stage) == job' = [job EXCEPT ![w].at = stage]
Loops(w, stage) == job' = [job EXCEPT ![w].at = stage, ![w].item = NoPledge]
Takes(w, i, stage) ==
  job' = [job EXCEPT ![w].at = stage, ![w].item = i, ![w].todo = @ \ {i}]
Passes(w, i) == job' = [job EXCEPT ![w].todo = @ \ {i}]
JobStays == UNCHANGED <<clock, attempts, clientVars, calls>>

Starts(w, stage, S) ==
  /\ At(w, "idle")
  /\ job' = [job EXCEPT ![w].at = stage, ![w].todo = S]
  /\ UNCHANGED <<clock, status, attempts, claimed, charged, clientVars, faults>>

(* With no attempts yet the index of the mark is -1 and its time is NaN,    *)
(* which nothing is earlier than: the reminder of an intent is due at once. *)
Due(p) == attempts[p] <= RetryMarks /\ (attempts[p] = 0 \/ attempts[p] <= clock)

(* One window for all: a tick finds something to retry, something that has  *)
(* expired by its now, or nothing.                                          *)
TickReads(w) ==
  LET due == {p \in InGrace : Due(p)} IN
  /\ clock < Expired /\ due # {}
  /\ Starts(w, "retry", due)
  /\ UNCHANGED calls

TickListsExpired(w) ==
  /\ clock = Expired /\ InGrace # {}
  /\ Starts(w, "expire", InGrace)
  /\ UNCHANGED calls

CohortReads(w) ==
  /\ calls < MaxCalls /\ calls' = calls + 1
  /\ InGrace \cup FailedCapture # {}
  /\ Starts(w, "retry", InGrace)

ReviveReads(w, p) ==
  /\ calls < MaxCalls /\ calls' = calls + 1
  /\ p \in FailedCapture
  /\ Starts(w, "failed", {p})

(* A card may be charged; its answer may be lost.  A payment that was       *)
(* captured already answers that it was.                                    *)
CaptureForgotten(w, i) ==   \* MUTANT: the tick leaves its row to the next one
  /\ At(w, "retry") /\ i \in job[w].todo /\ i \in Cards
  /\ charged' = charged \cup {i}
  /\ \/ Takes(w, i, "bump") /\ UNCHANGED faults
     \/ Takes(w, i, "bump") /\ Fault
  /\ JobStays /\ UNCHANGED <<status, claimed>>

RetryCaptured(w, i) ==
  /\ At(w, "retry") /\ i \in job[w].todo /\ i \in Cards
  /\ charged' = charged \cup {i}
  /\ \/ Takes(w, i, "mark") /\ UNCHANGED faults
     \/ Takes(w, i, "bump") /\ Fault
  /\ JobStays /\ UNCHANGED <<status, claimed>>

RetryRefusalUnread(w, i) ==   \* MUTANT: any answer counts as a capture
  /\ At(w, "retry") /\ i \in job[w].todo
  /\ Takes(w, i, "mark")
  /\ JobStays /\ UNCHANGED <<status, claimed, charged, faults>>

(* Refused or thrown.  For an intent: the tick only reminds its backer, and *)
(* a cohort retry is refused, as no payment has its reference.              *)
RetryRefused(w, i) ==
  /\ At(w, "retry") /\ i \in job[w].todo
  /\ Takes(w, i, "bump")
  /\ JobStays /\ UNCHANGED <<status, claimed, charged, faults>>

(* The write may fail, or its answer be lost: the tick catches either and   *)
(* counts an attempt.                                                       *)
RetryMarked(w) ==
  /\ At(w, "mark")
  /\ \/ MarkCaptured(job[w].item) /\ Loops(w, "retry") /\ UNCHANGED faults
     \/ /\ w \in Ticks /\ Goes(w, "bump") /\ Fault
        /\ MarkCaptured(job[w].item) \/ UNCHANGED status
  /\ JobStays /\ UNCHANGED <<claimed, charged>>

AttemptCounted(w) ==
  /\ At(w, "bump")
  /\ attempts' = [attempts EXCEPT ![job[w].item] = IF @ > RetryMarks THEN @ ELSE @ + 1]
  /\ Loops(w, "retry")
  /\ UNCHANGED <<clock, status, claimed, charged, clientVars, calls, faults>>

(* The second query, if the operator asked for includeFailed. *)
CohortListsFailed(w) ==
  /\ w \in Operators /\ At(w, "retry") /\ job[w].todo = {}
  /\ \E S \in {FailedCapture, {}} :
       job' = [job EXCEPT ![w].at = "failed", ![w].todo = S]
  /\ JobStays /\ UNCHANGED <<status, claimed, charged, faults>>

-----------------------------------------------------------------------------
(* Expiry and revival: the reward goes back to stock and is taken again.    *)

ExpiresBlind(w, i) ==   \* MUTANT: the update does not ask for CAPTURE_GRACE
  /\ At(w, "expire") /\ i \in job[w].todo
  /\ Passes(w, i)
  /\ status' = [status EXCEPT ![i] = "FAILED_CAPTURE"]
  /\ claimed' = IF claimed > 0 THEN claimed - 1 ELSE 0
  /\ JobStays /\ UNCHANGED <<charged, faults>>

ExpiresTwice(w, i) ==   \* MUTANT: the stock is returned whoever won the claim
  /\ At(w, "expire") /\ i \in job[w].todo
  /\ Passes(w, i)
  /\ status' = [status EXCEPT ![i] = IF @ = "CAPTURE_GRACE" THEN "FAILED_CAPTURE" ELSE @]
  /\ claimed' = claimed - 1
  /\ JobStays /\ UNCHANGED <<charged, faults>>

(* Compare-and-set, and the stock with it. *)
Expires(w, i) ==
  /\ At(w, "expire") /\ i \in job[w].todo
  /\ Passes(w, i)
  /\ IF i \in InGrace
       THEN /\ status' = [status EXCEPT ![i] = "FAILED_CAPTURE"]
            /\ claimed' = claimed - 1
       ELSE UNCHANGED <<status, claimed>>
  /\ JobStays /\ UNCHANGED <<charged, faults>>

StockTaken(w, i) ==
  /\ At(w, "failed") /\ i \in job[w].todo
  /\ claimed < Limit
  /\ Takes(w, i, "revive")
  /\ claimed' = claimed + 1
  /\ JobStays /\ UNCHANGED <<status, charged, faults>>

StockExhausted(w, i) ==
  /\ At(w, "failed") /\ i \in job[w].todo
  /\ claimed >= Limit
  /\ Passes(w, i)
  /\ JobStays /\ UNCHANGED <<status, claimed, charged, faults>>

(* Re-authorized and captured; either answer may be lost. *)
ReviveCaptured(w) ==
  LET i == job[w].item IN
  /\ At(w, "revive") /\ i \in Cards
  /\ charged' = charged \cup {i}
  /\ \/ Goes(w, "revived") /\ UNCHANGED faults
     \/ Goes(w, "giveback") /\ Fault
  /\ JobStays /\ UNCHANGED <<status, claimed>>

ReviveRefused(w) ==
  /\ At(w, "revive")
  /\ Goes(w, "giveback")
  /\ JobStays /\ UNCHANGED <<status, claimed, charged, faults>>

ReviveMarked(w) ==
  /\ At(w, "revived")
  /\ MarkCaptured(job[w].item)
  /\ Loops(w, "failed")
  /\ JobStays /\ UNCHANGED <<claimed, charged, faults>>

StockGivenBack(w) ==
  /\ At(w, "giveback")
  /\ claimed' = IF claimed > 0 THEN claimed - 1 ELSE claimed
  /\ Loops(w, "failed")
  /\ JobStays /\ UNCHANGED <<status, charged, faults>>

JobEnds(w) ==
  /\ job[w].at \in {IF w \in Ticks THEN "retry" ELSE "failed", "expire"} /\ job[w].todo = {}
  /\ job' = [job EXCEPT ![w] = Resting]
  /\ JobStays /\ UNCHANGED <<status, claimed, charged, faults>>

-----------------------------------------------------------------------------
(* POST /pledges/:id/retry-capture: hold and capture a new card, replace    *)
(* the reference, then markCaptured.                                        *)

CardGoes(p, t, from, to) ==
  /\ card[p][t] = from
  /\ card' = [card EXCEPT ![p][t] = to]
  /\ UNCHANGED <<clock, attempts, claimed, job, checkout, hook, calls>>

NewCardChecked(p, t) ==
  /\ p \in InGrace
  /\ CardGoes(p, t, "none", "checked")
  /\ UNCHANGED <<status, charged, faults>>

NewCardDeclined(p, t) ==
  /\ CardGoes(p, t, "checked", "none")
  /\ UNCHANGED <<status, charged, faults>>

NewCardCaptured(p, t) ==
  /\ \/ CardGoes(p, t, "checked", "captured") /\ UNCHANGED faults
     \/ CardGoes(p, t, "checked", "none") /\ Fault
  /\ charged' = charged \cup {p}
  /\ UNCHANGED status

NewCardMarked(p, t) ==
  /\ CardGoes(p, t, "captured", "none")
  /\ MarkCaptured(p)
  /\ UNCHANGED <<charged, faults>>

-----------------------------------------------------------------------------
(* BNPL: the backer opens the checkout while the pledge is in grace and     *)
(* pays whenever he does; the provider reports it, perhaps more than once.  *)

CheckoutOpened(p) ==
  /\ p \in InGrace \ checkout
  /\ checkout' = checkout \cup {p}
  /\ UNCHANGED <<clock, status, attempts, claimed, charged, job, card, hook, calls, faults>>

CheckoutPaid(p) ==
  /\ p \in checkout \ charged
  /\ charged' = charged \cup {p}
  /\ UNCHANGED <<clock, status, attempts, claimed, job, clientVars, calls, faults>>

HookReads(p, d) ==
  /\ p \in checkout \cap charged \cap InGrace /\ hook[p][d] = "none"
  /\ hook' = [hook EXCEPT ![p][d] = "write"]
  /\ UNCHANGED <<clock, status, attempts, claimed, charged, job, card, checkout, calls, faults>>

HookWrites(p, d) ==
  /\ hook[p][d] = "write"
  /\ MarkCaptured(p)
  /\ hook' = [hook EXCEPT ![p][d] = "none"]
  /\ UNCHANGED <<clock, attempts, claimed, charged, job, card, checkout, calls, faults>>

(* A process dies at an await, or a write fails outside every try block. *)
Crash ==
  /\ Fault
  /\ \/ \E w \in Ticks \cup Operators :
          /\ ~At(w, "idle")
          /\ job' = [job EXCEPT ![w] = Resting]
          /\ UNCHANGED clientVars
     \/ \E p \in Cards, t \in Tabs :
          /\ card[p][t] # "none"
          /\ card' = [card EXCEPT ![p][t] = "none"]
          /\ UNCHANGED <<job, checkout, hook>>
     \/ \E p \in Intents, d \in Deliveries :
          /\ hook[p][d] = "write"
          /\ hook' = [hook EXCEPT ![p][d] = "none"]
          /\ UNCHANGED <<job, card, checkout>>
  /\ UNCHANGED <<clock, status, attempts, claimed, charged, calls>>

-----------------------------------------------------------------------------
ItemStep(w, i) ==
  \/ RetryCaptured(w, i) \/ RetryRefused(w, i)
  \/ Expires(w, i) \/ StockTaken(w, i) \/ StockExhausted(w, i)

(* What a job that has started goes on to do. *)
JobStep(w) ==
  \/ \E i \in job[w].todo : ItemStep(w, i)
  \/ RetryMarked(w) \/ AttemptCounted(w)
  \/ CohortListsFailed(w)
  \/ ReviveCaptured(w) \/ ReviveRefused(w) \/ ReviveMarked(w) \/ StockGivenBack(w)
  \/ JobEnds(w)

TickStarts(w) == TickReads(w) \/ TickListsExpired(w)

JobStarts(w) ==
  \/ w \in Ticks /\ TickStarts(w)
  \/ w \in Operators /\ (CohortReads(w) \/ \E p \in Pledges : ReviveReads(w, p))

(* What a new-card request that was admitted goes on to do. *)
CardStep(p, t) ==
  NewCardDeclined(p, t) \/ NewCardCaptured(p, t) \/ NewCardMarked(p, t)

Next ==
  \/ TimePasses \/ Crash
  \/ \E w \in Ticks \cup Operators : JobStarts(w) \/ JobStep(w)
  \/ \E p \in Cards, t \in Tabs : NewCardChecked(p, t) \/ CardStep(p, t)
  \/ \E p \in Intents : CheckoutOpened(p) \/ CheckoutPaid(p)
  \/ \E p \in Intents, d \in Deliveries : HookReads(p, d) \/ HookWrites(p, d)

Spec == Init /\ [][Next]_vars

-----------------------------------------------------------------------------
Jobs == [at : {"idle", "retry", "mark", "bump", "expire", "failed", "revive", "revived",
               "giveback"},
         todo : SUBSET Pledges, item : Pledges \cup {NoPledge}]

(* Every variable ranges over the values the rows and the handlers' locals  *)
(* can have.                                                                *)
TypeOK ==
  /\ clock \in 0 .. Expired
  /\ status \in [Pledges -> {"CAPTURE_GRACE", "CAPTURED", "FAILED_CAPTURE"}]
  /\ attempts \in [Pledges -> 0 .. RetryMarks + 1]
  /\ claimed \in Nat
  /\ charged \in SUBSET Pledges
  /\ job \in [Ticks \cup Operators -> Jobs]
  /\ card \in [Cards -> [Tabs -> {"none", "checked", "captured"}]]
  /\ checkout \in SUBSET Intents
  /\ hook \in [Intents -> [Deliveries -> {"none", "write"}]]
  /\ calls \in Nat /\ faults \in Nat

(* A captured pledge is never failed again by a tick that listed it while   *)
(* it was in grace (grace.scheduler.ts: "only the updateMany that still     *)
(* sees GRACE wins").                                                       *)
CapturedStays ==
  [][\A p \in Pledges : status[p] = "CAPTURED" => status'[p] = "CAPTURED"]_status

(* No pledge is captured, and so credited to REALIZED, unless one of its    *)
(* payments was captured at the provider: whichever of the five callers of  *)
(* markCaptured got there, and whatever it had read before.                 *)
CapturedWasCharged ==
  \A p \in Pledges : status[p] = "CAPTURED" => p \in charged

(* While a backer may still pay, and while an operator revives a pledge,    *)
(* the reward is kept for them: expiries, revivals and refusals that        *)
(* overlap never give the same unit back twice.                             *)
Reviving == {w \in Operators : job[w].at \in {"revive", "revived", "giveback"}}
RewardsReserved == Cardinality(InGrace) + Cardinality(Reviving) <= claimed

(* Unless an answer, a write or a process was lost, a card that was charged *)
(* is captured, or someone who knows it was charged has yet to write that,  *)
(* even if the window expires under the capture: no charge is forgotten.    *)
Knows(p) ==
  \/ \E w \in Ticks \cup Operators : job[w].at \in {"mark", "revived"} /\ job[w].item = p
  \/ \E t \in Tabs : card[p][t] = "captured"

ChargeIsRecorded ==
  \A p \in Cards : p \in charged /\ faults = 0 => status[p] = "CAPTURED" \/ Knows(p)
=============================================================================
