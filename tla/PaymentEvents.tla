---------------------------- MODULE PaymentEvents ----------------------------
(***************************************************************************)
(* What becomes of a pledge once it holds money: the PSP's events, stored  *)
(* in an inbox and applied once, an operator's refunds of one pledge or a  *)
(* project, disputes filed at the bank and ruled by an operator, replays   *)
(* of stored events, and the recount of the campaign's counters.  All of   *)
(* them read a pledge first and update it later by id alone, and only some *)
(* of them move the counters.                                              *)
(*                                                                         *)
(* A counter is kept as what each pledge contributes to it, in multiples   *)
(* of its amount: raisedHalalas is the sum of books[p].raised * amount(p). *)
(*                                                                         *)
(* Sources: escrow-payments/webhook.service.ts, escrow.service.ts,         *)
(* ledger.service.ts, ops/counters.recompute.ts, ops/operations/money.ops  *)
(* and integrity.ops.                                                      *)
(***************************************************************************)
EXTENDS Integers, FiniteSets

CONSTANTS
  Pledges,
  Backer,       \* Backer[p]: Pledge.backerId
  DisputeKinds, \* the events a provider sends of one dispute
  Operators,    \* operations open at a time
  Requests,     \* webhook deliveries being served at a time
  NoPledge,
  Orderly,      \* the usual course of events: see Alone, Replayed, DisputeDecided
  QuietRecount, \* recounts only while no pledge moves and none is disputed
  MaxCalls,     \* bound: operator calls
  MaxFaults     \* bound: lost answers, journal gaps and dead processes

Kinds == {"payment_paid", "payment_failed", "payment_voided", "payment_refunded"}
           \cup DisputeKinds

ASSUME EventsAssumption ==
  /\ NoPledge \notin Pledges /\ IsFiniteSet(Pledges)
  /\ Backer \in [Pledges -> Pledges]   \* a backer is named by one of his pledges
  /\ DisputeKinds \subseteq {"payment_disputed", "chargeback"}
  /\ Operators \cap Requests = {}
  /\ QuietRecount \in BOOLEAN /\ Orderly \in BOOLEAN
  /\ (Orderly => \A o, u \in Operators : o = u)
  /\ MaxCalls \in Nat /\ MaxFaults \in Nat

Backers == {Backer[p] : p \in Pledges}
Workers == Operators \cup Requests
Counters == {"raised", "realized", "backers", "claimed"}

VARIABLES
  status,   \* Pledge.status
  payment,  \* the provider's view of Pledge.paymentRef
  books,    \* what each pledge contributes to raised, realized and the user's total
  backers,  \* what each backer contributes to Project.backersCount
  claimed,  \* RewardTier.claimedQty of the reward they all chose
  journal,  \* LedgerEntry: <<pledge, entryType, source>>
  notices,  \* REFUND_COMPLETED notifications: <<pledge, who sent it>>
  sent,     \* events the provider emitted: <<pledge, kind>>
  inbox,    \* WebhookEvent.outcome, or stored: inserted, not yet processed
  job,      \* each worker: how far it has come, and what it read
  calls, faults

bookVars == <<books, backers, claimed>>
psp == <<payment, sent>>
traces == <<journal, notices>>
vars == <<status, psp, bookVars, traces, inbox, job, calls, faults>>

Resting == [at |-> "idle", pledge |-> NoPledge, kind |-> "none",
            list |-> {}, captured |-> {}, drift |-> {}]

Are(S) == {p \in Pledges : status[p] \in S}
Active == Are({"HELD", "CAPTURED"})   \* PENDING_BNPL and the others: before settlement

Init ==
  /\ status \in [Pledges -> {"HELD", "CAPTURED"}]
  /\ payment = [p \in Pledges |-> IF status[p] = "HELD" THEN "held" ELSE "captured"]
  /\ books = [p \in Pledges |->
       [raised |-> 1, realized |-> IF status[p] = "CAPTURED" THEN 1 ELSE 0, given |-> 1]]
  /\ backers = [b \in Backers |-> 1]
  /\ claimed = Cardinality(Pledges)
  /\ journal = {<<p, "CAPTURE", "sync-path">> : p \in Are({"CAPTURED"})}
  /\ notices = {} /\ sent = {}
  /\ inbox = [e \in Pledges \X Kinds |-> "none"]
  /\ job = [w \in Workers |-> Resting]
  /\ calls = 0 /\ faults = 0

Fault == faults < MaxFaults /\ faults' = faults + 1

At(w, stage) == job[w].at = stage
Holds(w, p) == job[w].pledge = p
Takes(w, stage, p, k) ==
  job' = [job EXCEPT ![w].at = stage, ![w].pledge = p, ![w].kind = k]
Goes(w, stage) == job' = [job EXCEPT ![w].at = stage]
Rests(w) == job' = [job EXCEPT ![w] = Resting]

-----------------------------------------------------------------------------
(* The provider and the bank.                                               *)

Pays(p, from, to, kinds) ==
  /\ payment[p] = from
  /\ payment' = [payment EXCEPT ![p] = to]
  /\ sent' = sent \cup {<<p, k>> : k \in kinds}

External == UNCHANGED <<status, bookVars, traces, inbox, job, calls, faults>>

(* The capture of a settlement whose answer was lost, an authorization that *)
(* lapses, a refund or void made at the provider's own console.             *)
PaymentMoves(p) ==
  /\ \/ Pays(p, "held", "captured", {"payment_paid"})
     \/ Pays(p, "held", "failed", {"payment_failed"})
     \/ Pays(p, "held", "voided", {"payment_voided"})
     \/ Pays(p, "captured", "refunded", {"payment_refunded"})
  /\ External

DisputeFiled(p) ==
  /\ \A k \in DisputeKinds : <<p, k>> \notin sent   \* bound: one dispute per payment
  /\ Pays(p, "captured", "disputed", DisputeKinds)
  /\ External

(* If orderly, the bank takes longer than the webhook.                      *)
DisputeDecided(p) ==
  /\ Orderly => \A k \in DisputeKinds : inbox[<<p, k>>] \notin {"none", "stored"}
  /\ \/ Pays(p, "disputed", "captured", {})
     \/ Pays(p, "disputed", "chargedback", {})
  /\ External

-----------------------------------------------------------------------------
(* POST /webhooks/moyasar and webhooks.replay.                              *)

From(k) ==
  IF k \in {"payment_paid", "payment_failed", "payment_voided"} THEN "HELD" ELSE "CAPTURED"

To(k) ==
  CASE k = "payment_paid" -> "CAPTURED"
    [] k = "payment_failed" -> "FAILED"
    [] k \in {"payment_voided", "payment_refunded"} -> "REFUNDED"
    [] OTHER -> "DISPUTED"

Entry(k) ==
  CASE k = "payment_paid" -> "CAPTURE"
    [] k = "payment_voided" -> "VOID"
    [] k = "payment_refunded" -> "REFUND"
    [] OTHER -> "DISPUTE"

OutcomeLenient(k, s) ==   \* MUTANT: what does not fit is ignored
  IF s = From(k) THEN "applied" ELSE "ignored"

Outcome(k, s) ==
  CASE s = To(k) -> "ignored"
    [] s = From(k) -> "applied"
    [] OTHER -> "mismatch"

(* If orderly, the events of one pledge are applied one at a time.          *)
Alone(p) == Orderly => \A w \in Workers : Holds(w, p) => job[w].kind \notin Kinds

(* The row is inserted first; a second delivery finds it and stops.         *)
Delivered(d, p, k) ==
  /\ At(d, "idle") /\ <<p, k>> \in sent /\ inbox[<<p, k>>] = "none" /\ Alone(p)
  /\ inbox' = [inbox EXCEPT ![<<p, k>>] = "stored"]
  /\ Takes(d, "apply", p, k)
  /\ UNCHANGED <<status, psp, bookVars, traces, calls, faults>>

(* If orderly, an operator replays only what was not applied.               *)
Replayed(o, p, k) ==
  /\ At(o, "idle") /\ inbox[<<p, k>>] # "none" /\ Alone(p)
  /\ Orderly => inbox[<<p, k>>] \in {"stored", "mismatch"}
  /\ calls < MaxCalls /\ calls' = calls + 1
  /\ Takes(o, "apply", p, k)
  /\ UNCHANGED <<status, psp, bookVars, traces, inbox, faults>>

EventDeclined(w) ==
  LET p == job[w].pledge k == job[w].kind IN
  /\ At(w, "apply") /\ Outcome(k, status[p]) # "applied"
  /\ inbox' = [inbox EXCEPT ![<<p, k>>] = Outcome(k, status[p])]
  /\ Rests(w)
  /\ UNCHANGED <<status, psp, bookVars, traces, calls, faults>>

EventAccepted(w) ==
  /\ At(w, "apply") /\ Outcome(job[w].kind, status[job[w].pledge]) = "applied"
  /\ Goes(w, "write")
  /\ UNCHANGED <<status, psp, bookVars, traces, inbox, calls, faults>>

EventUncounted(w) ==   \* MUTANT: a capture the webhook confirms never reaches REALIZED
  /\ At(w, "write")
  /\ status' = [status EXCEPT ![job[w].pledge] = To(job[w].kind)]
  /\ Goes(w, "record")
  /\ UNCHANGED <<psp, bookVars, traces, inbox, calls, faults>>

(* By id alone.  Only markCaptured moves a counter. *)
EventWritten(w) ==
  LET p == job[w].pledge k == job[w].kind IN
  /\ At(w, "write")
  /\ status' = [status EXCEPT ![p] = To(k)]
  /\ books' = IF k = "payment_paid" THEN [books EXCEPT ![p].realized = @ + 1] ELSE books
  /\ Goes(w, "record")
  /\ UNCHANGED <<psp, backers, claimed, traces, inbox, calls, faults>>

(* LedgerService.record swallows its errors: a gap.  Then the backer is     *)
(* told, and the event's row stamped.                                       *)
EventRecorded(w) ==
  LET p == job[w].pledge k == job[w].kind IN
  /\ At(w, "record")
  /\ \/ /\ journal' = IF k = "payment_failed" THEN journal
                       ELSE journal \cup {<<p, Entry(k), "webhook">>}
        /\ UNCHANGED faults
     \/ Fault /\ UNCHANGED journal
  /\ notices' = IF To(k) = "REFUNDED" THEN notices \cup {<<p, "webhook">>} ELSE notices
  /\ inbox' = [inbox EXCEPT ![<<p, k>>] = "applied"]
  /\ Rests(w)
  /\ UNCHANGED <<status, psp, bookVars, calls>>

-----------------------------------------------------------------------------
(* money.refund.pledge and money.refund.project: the PSP first, then status,*)
(* journal and counters in one transaction, then the backer is told.        *)

Refundable == Are({"HELD", "CAPTURED"})   \* PENDING_REAUTH: before settlement

OpStarts(o) ==
  /\ At(o, "idle")
  /\ calls < MaxCalls /\ calls' = calls + 1
  /\ UNCHANGED <<status, psp, bookVars, traces, inbox, faults>>

(* One pledge, or every refundable pledge of the project.  What milestones  *)
(* were released may refuse it first: not modelled here.                    *)
RefundCalled(o) ==
  /\ OpStarts(o) /\ Refundable # {}
  /\ \E S \in {{p} : p \in Refundable} \cup {Refundable} :
       job' = [job EXCEPT ![o].at = "refund", ![o].list = S]

OpKeeps == UNCHANGED <<calls, inbox, backers, claimed>>

RefundRead(o, p) ==
  /\ At(o, "refund") /\ p \in job[o].list
  /\ job' = [job EXCEPT ![o].list = @ \ {p},
                        ![o].at = IF p \in Refundable THEN "ask" ELSE "refund",
                        ![o].pledge = IF p \in Refundable THEN p ELSE NoPledge,
                        ![o].kind = IF p \notin Refundable THEN "none"
                                    ELSE IF status[p] = "CAPTURED" THEN "refund" ELSE "void"]
  /\ OpKeeps /\ UNCHANGED <<status, psp, books, traces, faults>>

Loops(o) == Takes(o, "refund", NoPledge, "none")

(* The answer may be lost: the retries then meet a payment already refunded. *)
RefundPaid(o) ==
  LET p == job[o].pledge IN
  /\ At(o, "ask")
  /\ IF job[o].kind = "refund"
       THEN Pays(p, "captured", "refunded", {"payment_refunded"})
       ELSE Pays(p, "held", "voided", {"payment_voided"})
  /\ \/ Goes(o, "book") /\ UNCHANGED faults
     \/ Loops(o) /\ Fault
  /\ OpKeeps /\ UNCHANGED <<status, books, traces>>

RefundRefusalUnread(o) ==   \* MUTANT: the answer is not looked at
  /\ At(o, "ask") /\ Goes(o, "book")
  /\ OpKeeps /\ UNCHANGED <<status, psp, books, traces, faults>>

RefundRefused(o) ==
  /\ At(o, "ask") /\ Loops(o)
  /\ OpKeeps /\ UNCHANGED <<status, psp, books, traces, faults>>

(* Every counter the pledge was ever added to, the backer's last active     *)
(* pledge taking him out of backersCount.                                   *)
Compensated(p, realized) ==
  /\ books' = [books EXCEPT ![p] = [raised |-> @.raised - 1, given |-> @.given - 1,
                                    realized |-> @.realized - realized]]
  /\ backers' = IF \E q \in Active \ {p} : Backer[q] = Backer[p]
                  THEN backers ELSE [backers EXCEPT ![Backer[p]] = @ - 1]
  /\ claimed' = IF claimed > 0 THEN claimed - 1 ELSE claimed

RefundBooked(o) ==
  LET p == job[o].pledge refund == job[o].kind = "refund" IN
  /\ At(o, "book")
  /\ status' = [status EXCEPT ![p] = "REFUNDED"]
  /\ journal' = journal \cup {<<p, IF refund THEN "REFUND" ELSE "VOID", "ops-refund">>}
  /\ Compensated(p, IF refund THEN 1 ELSE 0)
  /\ Goes(o, "notify")
  /\ UNCHANGED <<psp, notices, inbox, calls, faults>>

(* Under the unique dedupKey ops-refund-notify:<pledge>.                    *)
RefundNotified(o) ==
  /\ At(o, "notify")
  /\ notices' = notices \cup {<<job[o].pledge, "ops">>}
  /\ Loops(o)
  /\ OpKeeps /\ UNCHANGED <<status, psp, books, journal, faults>>

RefundEnds(o) ==
  /\ At(o, "refund") /\ job[o].list = {}
  /\ Rests(o)
  /\ OpKeeps /\ UNCHANGED <<status, psp, books, traces, faults>>

-----------------------------------------------------------------------------
(* money.dispute.resolve: the operator enters what the bank decided.        *)

DisputeRuled(o, p) ==
  /\ OpStarts(o)
  /\ status[p] = "DISPUTED" /\ payment[p] # "disputed"
  /\ Takes(o, IF payment[p] = "chargedback" THEN "lost" ELSE "won", p, "none")

DisputeWon(o) ==
  LET p == job[o].pledge IN
  /\ At(o, "won")
  /\ status' = [status EXCEPT ![p] = "CAPTURED"]
  /\ journal' = journal \cup {<<p, "DISPUTE", "dispute-won">>}
  /\ Rests(o)
  /\ OpKeeps /\ UNCHANGED <<psp, books, notices, faults>>

DisputeLost(o) ==
  LET p == job[o].pledge IN
  /\ At(o, "lost")
  /\ status' = [status EXCEPT ![p] = "REFUNDED"]
  /\ journal' = journal \cup {<<p, "REFUND", "dispute-lost">>}
  /\ Compensated(p, 1)
  /\ Rests(o)
  /\ UNCHANGED <<psp, notices, inbox, calls, faults>>

-----------------------------------------------------------------------------
(* money.counters.recompute: counts the pledges, then writes the absolute   *)
(* values of the counters that were off.                                    *)

In(p, S) == IF p \in S THEN 1 ELSE 0
BackersIn(S) == [b \in Backers |-> IF \E p \in S : Backer[p] = b THEN 1 ELSE 0]

Drifted == {c \in Counters :
  \/ c = "raised" /\ \E p \in Pledges : books[p].raised # In(p, Active)
  \/ c = "realized" /\ \E p \in Pledges : books[p].realized # In(p, Are({"CAPTURED"}))
  \/ c = "backers" /\ backers # BackersIn(Active)
  \/ c = "claimed" /\ claimed # Cardinality(Active)}

(* One count after the other in the code, here at once: under QuietRecount, *)
(* where no pledge changes before they are written, they agree.             *)
RecountRead(o) ==
  /\ OpStarts(o) /\ Drifted # {}
  /\ job' = [job EXCEPT ![o].at = "recount", ![o].list = Active,
                        ![o].captured = Are({"CAPTURED"}), ![o].drift = Drifted]

RecountWritten(o) ==
  LET seen == job[o] IN
  /\ At(o, "recount")
  /\ QuietRecount => /\ seen.list = Active /\ seen.captured = Are({"CAPTURED"})
                     /\ Are({"DISPUTED"}) = {}
  /\ books' = [p \in Pledges |->
       [books[p] EXCEPT !.raised = IF "raised" \in seen.drift THEN In(p, seen.list) ELSE @,
                        !.realized = IF "realized" \in seen.drift THEN In(p, seen.captured) ELSE @]]
  /\ backers' = IF "backers" \in seen.drift THEN BackersIn(seen.list) ELSE backers
  /\ claimed' = IF "claimed" \in seen.drift THEN Cardinality(seen.list) ELSE claimed
  /\ Rests(o)
  /\ UNCHANGED <<status, psp, traces, inbox, calls, faults>>

(* A process dies, or a write fails: the rest of its work is not done.      *)
Crash(w) ==
  /\ Fault /\ ~At(w, "idle")
  /\ Rests(w)
  /\ UNCHANGED <<status, psp, bookVars, traces, inbox, calls>>

-----------------------------------------------------------------------------
EventStep(w) == EventDeclined(w) \/ EventAccepted(w) \/ EventWritten(w) \/ EventRecorded(w)

OpStep(o) ==
  \/ \E p \in Pledges : RefundRead(o, p) \/ DisputeRuled(o, p)
  \/ RefundCalled(o) \/ RefundPaid(o) \/ RefundRefused(o) \/ RefundBooked(o)
  \/ RefundNotified(o) \/ RefundEnds(o)
  \/ DisputeWon(o) \/ DisputeLost(o)
  \/ RecountRead(o) \/ RecountWritten(o)

Next ==
  \/ \E p \in Pledges : PaymentMoves(p) \/ DisputeFiled(p) \/ DisputeDecided(p)
  \/ \E d \in Requests, p \in Pledges, k \in Kinds : Delivered(d, p, k)
  \/ \E o \in Operators, p \in Pledges, k \in Kinds : Replayed(o, p, k)
  \/ \E w \in Workers : EventStep(w) \/ Crash(w)
  \/ \E o \in Operators : OpStep(o)

Spec == Init /\ [][Next]_vars

-----------------------------------------------------------------------------
Stages == {"idle", "apply", "write", "record", "refund", "ask", "book", "notify",
           "won", "lost", "recount"}
Statuses == {"HELD", "CAPTURED", "FAILED", "REFUNDED", "DISPUTED"}
Payments == {"held", "captured", "failed", "voided", "refunded", "disputed", "chargedback"}
Jobs == [at : Stages, pledge : Pledges \cup {NoPledge},
         kind : Kinds \cup {"none", "refund", "void"},
         list : SUBSET Pledges, captured : SUBSET Pledges, drift : SUBSET Counters]

(* Every variable ranges over the values the rows and the handlers' locals  *)
(* can have; the reward's stock is floored at zero.                         *)
TypeOK ==
  /\ status \in [Pledges -> Statuses]
  /\ payment \in [Pledges -> Payments]
  /\ books \in [Pledges -> [raised : Int, realized : Int, given : Int]]
  /\ backers \in [Backers -> Int]
  /\ claimed \in Nat
  /\ journal \subseteq Pledges \X {"CAPTURE", "VOID", "REFUND", "DISPUTE"}
               \X {"sync-path", "webhook", "ops-refund", "dispute-won", "dispute-lost"}
  /\ notices \subseteq Pledges \X {"webhook", "ops"}
  /\ sent \subseteq Pledges \X Kinds
  /\ inbox \in [Pledges \X Kinds -> {"none", "stored", "applied", "ignored", "mismatch"}]
  /\ job \in [Workers -> Jobs]
  /\ calls \in Nat /\ faults \in Nat

Back == {"voided", "refunded", "chargedback"}

(* A pledge is REFUNDED only if its money really went back to the backer:   *)
(* whichever of the four paths wrote it, on whatever it had read before     *)
(* (escrow.service.ts: "PSP-first: a PSP failure mutates nothing").         *)
RefundedWasPaidBack ==
  \A p \in Pledges : status[p] = "REFUNDED" => payment[p] \in Back

(* The chokepoint's ledger: a captured or disputed pledge is in REALIZED    *)
(* exactly once, a held or failed one is not, and no refund, void, chargeback *)
(* or recount takes one out twice.                                          *)
BooksExact ==
  Orderly /\ QuietRecount => \A p \in Pledges :
    /\ status[p] \in {"CAPTURED", "DISPUTED"} => books[p].realized = 1
    /\ status[p] \in {"HELD", "FAILED"} => books[p].realized = 0
    /\ \A k \in {"raised", "realized", "given"} : books[p][k] \in {0, 1}
    /\ books[p].realized <= books[p].raised

(* Money that went back is never lost sight of: while the pledge does not   *)
(* say REFUNDED, an event that says so has yet to be delivered, or is in    *)
(* the inbox unprocessed or as a mismatch, or is being applied; or a dispute *)
(* waits for its ruling, or a refund for its transaction.                   *)
SaysBack(p) ==
  \/ \E k \in Kinds : /\ k \notin {"payment_paid", "payment_failed"}
                      /\ <<p, k>> \in sent
                      /\ inbox[<<p, k>>] \in {"none", "stored", "mismatch"}
  \/ status[p] = "DISPUTED" /\ payment[p] = "chargedback"

RefundLeavesTrace ==
  Orderly => \A p \in Pledges : payment[p] \in Back /\ status[p] # "REFUNDED" => SaysBack(p)

(* A dispute that was won leaves the pledge in REALIZED, where a capture had *)
(* put it (escrow.service.ts: "No counter moved (the webhook never          *)
(* decremented them)").                                                     *)
WonStaysRealized ==
  \A p \in Pledges :
    <<p, "DISPUTE", "dispute-won">> \in journal /\ status[p] = "CAPTURED"
      => books[p].realized = 1

(* escrow.service.ts: "Double-notify is prevented from both sides".         *)
NotifiedOnce == \A p \in Pledges : ~({<<p, "webhook">>, <<p, "ops">>} \subseteq notices)
=============================================================================
