------------------------------ MODULE Procurement ------------------------------
(***************************************************************************)
(* One request for quotation: suppliers bid and withdraw, operators        *)
(* shortlist, and the creator or an operator ends it with an award, or an  *)
(* operator by closing or cancelling it; after an award the bidders are    *)
(* told, unless something fails.  Every handler reads what allows it and   *)
(* writes later by id, so that the decisions of two people, or a decision  *)
(* and a late bid, overlap.  The transaction of a decision updates the     *)
(* RFQ's row first and then the bids it sees: until it commits, another    *)
(* decision and the writers of those bids wait, everybody reads what was   *)
(* there before, and a bid may be inserted that it has not seen.           *)
(*                                                                         *)
(* Sources: procurement/procurement.service.ts, award-notify.ts,           *)
(* ops/operations/procurement.ops.ts.                                      *)
(***************************************************************************)
EXTENDS Integers, FiniteSets

CONSTANTS
  Bids,     \* bound: SupplierBid rows of the RFQ
  Supplier, \* Supplier[b]: SupplierBid.supplierId
  NoBid,
  Desks,    \* requests of the creator and operations, open at a time
  Tabs,     \* requests of suppliers, open at a time
  Courses,  \* which of Prompt and Overlapping are considered
  Silences, \* the settings notifications.disabledKinds that are considered
  MaxCalls  \* bound: requests and operations

Prompt == "prompt"           \* no bid or shortlisting is written once a decision has seen the bids
Overlapping == "overlapping" \* they are written whenever they are

Notices == {"RFQ_AWARDED", "RFQ_DECIDED"}

ASSUME ProcurementAssumption ==
  /\ NoBid \notin Bids /\ Desks \cap Tabs = {}
  /\ Supplier \in [Bids -> Bids]   \* a supplier is named by one of his bids
  /\ Courses \subseteq {Prompt, Overlapping}
  /\ Silences \subseteq SUBSET Notices
  /\ MaxCalls \in Nat

Suppliers == {Supplier[b] : b \in Bids}
Workers == Desks \cup Tabs
Verdicts == {"AWARDED", "CLOSED", "CANCELLED"}
Live == {"SUBMITTED", "SHORTLISTED"}   \* LIVE_BID_STATUSES

VARIABLES
  rfq,    \* RFQ.status
  winner, \* RFQ.awardedBidId
  due,    \* RFQ.dueDate has passed
  bids,   \* SupplierBid.status; none: not yet inserted, gone: deleted
  told,   \* the RFQ_AWARDED and RFQ_DECIDED notifications of each supplier
  missed, \* history: suppliers whose own notice failed
  halted, \* history: what ended the telling of bidders before its end
  job,    \* each worker: what it is about to do, to which bid; others: the bids its
          \* transaction rejects, then the suppliers it has yet to tell
  course, \* this and silenced never change
  silenced,
  calls

head == <<rfq, winner, due>>
post == <<told, missed, halted>>
fixed == <<course, silenced>>
vars == <<head, bids, post, job, fixed, calls>>

Resting == [at |-> "idle", bid |-> NoBid, others |-> {}]

Init ==
  /\ rfq = "OPEN" /\ winner = NoBid /\ due = FALSE
  /\ bids = [b \in Bids |-> "none"]
  /\ told = [s \in Suppliers |-> {}] /\ missed = {} /\ halted = {}
  /\ job = [w \in Workers |-> Resting]
  /\ course \in Courses /\ silenced \in Silences
  /\ calls = 0

On(S) == {b \in Bids : bids[b] \in S}
Rows == On({"SUBMITTED", "SHORTLISTED", "AWARDED", "REJECTED"})

At(w, stage) == job[w].at = stage
Ends(w) == job' = [job EXCEPT ![w] = Resting] /\ UNCHANGED <<fixed, calls>>
Goes(w, stage, S) ==
  /\ job' = [job EXCEPT ![w] = [at |-> stage, bid |-> @.bid, others |-> S]]
  /\ UNCHANGED <<fixed, calls>>

(* Decisions whose transaction is open, and the rows it holds.              *)
Deciding == {d \in Desks : job[d].at \in Verdicts}
Held == UNION {job[d].others \cup {job[d].bid} : d \in Deciding}

InTime == course = Prompt => rfq = "OPEN" /\ Deciding = {}

(* A request that passed its checks, and will write.                        *)
Checked(w, stage, b) ==
  /\ At(w, "idle")
  /\ calls < MaxCalls /\ calls' = calls + 1
  /\ job' = [job EXCEPT ![w] = [at |-> stage, bid |-> b, others |-> {}]]
  /\ UNCHANGED <<head, bids, post, fixed>>

DuePasses ==
  /\ ~due /\ due' = TRUE
  /\ UNCHANGED <<rfq, winner, bids, post, job, fixed, calls>>

-----------------------------------------------------------------------------
(* Suppliers.                                                               *)

(* Row b is the one that will be inserted: nothing but this check keeps a   *)
(* supplier to one bid.                                                     *)
SubmitChecked(t, b) ==
  /\ rfq = "OPEN" /\ ~due
  /\ bids[b] = "none" /\ \A v \in Workers : job[v].bid # b
  /\ \A c \in Rows : Supplier[c] # Supplier[b]
  /\ Checked(t, "submit", b)

Submitted(t) ==
  /\ At(t, "submit") /\ InTime
  /\ bids' = [bids EXCEPT ![job[t].bid] = "SUBMITTED"]
  /\ Ends(t) /\ UNCHANGED <<head, post>>

WithdrawChecked(t, b) == bids[b] = "SUBMITTED" /\ Checked(t, "withdraw", b)

(* Whatever has become of it. *)
Withdrawn(t) ==
  /\ At(t, "withdraw") /\ job[t].bid \in Rows \ Held
  /\ bids' = [bids EXCEPT ![job[t].bid] = "gone"]
  /\ Ends(t) /\ UNCHANGED <<head, post>>

-----------------------------------------------------------------------------
(* The creator and the operators.                                           *)

ShortlistChecked(d, b) ==
  /\ rfq = "OPEN" /\ bids[b] = "SUBMITTED"
  /\ Checked(d, "shortlist", b)

Shortlisted(d) ==
  /\ At(d, "shortlist") /\ InTime /\ job[d].bid \in Rows \ Held
  /\ bids' = [bids EXCEPT ![job[d].bid] = "SHORTLISTED"]
  /\ Ends(d) /\ UNCHANGED <<head, post>>

(* rfq.award asks for a live bid, the creator's award for any of the RFQ.   *)
AwardChecked(d, b) ==
  /\ rfq = "OPEN" /\ b \in Rows
  /\ Checked(d, "award", b)

(* The transaction updates the RFQ, then the bids S it sees.                *)
Decides(d, verdict, S) ==
  /\ Deciding = {}
  /\ Goes(d, verdict, S) /\ UNCHANGED <<head, bids, post>>

AwardDecidedOverLive(d) ==   \* MUTANT: as closing does, only what is live is rejected
  /\ At(d, "award") /\ job[d].bid \in Rows
  /\ Decides(d, "AWARDED", On(Live) \ {job[d].bid})

(* Every other bid is rejected, whatever its status.  If the winning bid is *)
(* gone its update fails, and the transaction with it (RowMissing).         *)
AwardDecided(d) ==
  /\ At(d, "award") /\ job[d].bid \in Rows
  /\ Decides(d, "AWARDED", Rows \ {job[d].bid})

Awarded(d) ==
  /\ At(d, "AWARDED")
  /\ rfq' = "AWARDED" /\ winner' = job[d].bid
  /\ bids' = [b \in Bids |-> IF b = job[d].bid THEN "AWARDED"
                              ELSE IF b \in job[d].others THEN "REJECTED" ELSE bids[b]]
  /\ Goes(d, "notify", {}) /\ UNCHANGED <<due, post>>

EndChecked(d, s) ==
  /\ rfq = "OPEN" /\ s \in {"close", "cancel"}
  /\ Checked(d, s, NoBid)

EndDecidedOverSubmitted(d) ==   \* MUTANT: the shortlisted bids are forgotten
  \/ At(d, "close") /\ Decides(d, "CLOSED", On({"SUBMITTED"}))
  \/ At(d, "cancel") /\ Decides(d, "CANCELLED", On({"SUBMITTED"}))

EndDecided(d) ==
  \/ At(d, "close") /\ Decides(d, "CLOSED", On(Live))
  \/ At(d, "cancel") /\ Decides(d, "CANCELLED", On(Live))

Ended(d) ==
  /\ job[d].at \in {"CLOSED", "CANCELLED"}
  /\ rfq' = job[d].at
  /\ bids' = [b \in Bids |-> IF b \in job[d].others THEN "REJECTED" ELSE bids[b]]
  /\ Ends(d) /\ UNCHANGED <<winner, due, post>>

-----------------------------------------------------------------------------
(* Telling the bidders of an award, after the commit and from what the      *)
(* table then holds.  A notice fails when writing it, reading a setting or  *)
(* looking up the supplier's address does; sending the mail never fails.    *)

Told(S, kind) ==
  told' = [s \in Suppliers |->
             told[s] \cup (IF s \in S /\ kind \notin silenced THEN {kind} ELSE {})]

(* Nobody wins whose bid is gone. *)
Won(d) == IF job[d].bid \in Rows THEN {Supplier[job[d].bid]} ELSE {}

WinnerToldOnly(d) ==   \* MUTANT: the losing bidders are left in silence
  /\ At(d, "notify")
  /\ Told(Won(d), "RFQ_AWARDED")
  /\ Ends(d) /\ UNCHANGED <<head, bids, missed, halted>>

WinnerTold(d) ==
  /\ At(d, "notify")
  /\ Told(Won(d), "RFQ_AWARDED")
  /\ Goes(d, "losers", {Supplier[b] : b \in Rows} \ Won(d))
  /\ UNCHANGED <<head, bids, missed, halted>>

(* The winner's notice is not isolated from the others': if it fails, or    *)
(* the lookup after it does, nobody else is told.                           *)
WinnerFails(d) ==
  /\ At(d, "notify") /\ Won(d) # {}
  /\ halted' = halted \cup {"winner"}
  /\ \/ missed' = missed \cup Won(d) /\ UNCHANGED told
     \/ Told(Won(d), "RFQ_AWARDED") /\ UNCHANGED missed
  /\ Ends(d) /\ UNCHANGED <<head, bids>>

(* Each loser's is: those in F are not told.                                *)
LosersTold(d) ==
  /\ At(d, "losers")
  /\ \E F \in SUBSET job[d].others :
       /\ Told(job[d].others \ F, "RFQ_DECIDED")
       /\ missed' = missed \cup F
  /\ Ends(d) /\ UNCHANGED <<head, bids, halted>>

-----------------------------------------------------------------------------
(* A write by id finds no row.                                              *)
RowMissing(w) ==
  /\ job[w].at \in {"withdraw", "shortlist", "award"} /\ job[w].bid \notin Rows
  /\ Ends(w) /\ UNCHANGED <<head, bids, post>>

(* The process dies, or a statement fails: an open transaction is undone,   *)
(* and bidders not yet told are not told.  One that dies before it has      *)
(* written anything is a request that does not go on.                       *)
Died(d) ==
  /\ job[d].at \in Verdicts \cup {"notify", "losers"}
  /\ halted' = IF d \in Deciding THEN halted ELSE halted \cup {"process"}
  /\ Ends(d) /\ UNCHANGED <<head, bids, told, missed>>

-----------------------------------------------------------------------------
TabStep(t) ==
  \/ \E b \in Bids : SubmitChecked(t, b) \/ WithdrawChecked(t, b)
  \/ Submitted(t) \/ Withdrawn(t)

DeskStep(d) ==
  \/ \E b \in Bids : ShortlistChecked(d, b) \/ AwardChecked(d, b)
  \/ \E s \in {"close", "cancel"} : EndChecked(d, s)
  \/ Shortlisted(d) \/ AwardDecided(d) \/ Awarded(d) \/ EndDecided(d) \/ Ended(d)
  \/ WinnerTold(d) \/ WinnerFails(d) \/ LosersTold(d) \/ Died(d)

Next ==
  \/ DuePasses
  \/ \E t \in Tabs : TabStep(t)
  \/ \E d \in Desks : DeskStep(d)
  \/ \E w \in Workers : RowMissing(w)

Spec == Init /\ [][Next]_vars

(* A request that has committed an award goes on to tell the bidders, or    *)
(* dies; nothing is asked of the others.                                    *)
FairSpec ==
  Spec /\ \A d \in Desks :
            WF_vars(WinnerTold(d) \/ WinnerFails(d) \/ LosersTold(d))

-----------------------------------------------------------------------------
(* The variables range over the values of the rows and the handlers.        *)
TypeOK ==
  /\ rfq \in {"OPEN", "AWARDED", "CLOSED", "CANCELLED"}
  /\ winner \in Bids \cup {NoBid} /\ due \in BOOLEAN
  /\ bids \in [Bids -> {"none", "SUBMITTED", "SHORTLISTED", "AWARDED", "REJECTED", "gone"}]
  /\ told \in [Suppliers -> SUBSET Notices]
  /\ missed \subseteq Bids /\ halted \subseteq {"process", "winner"}
  /\ job \in [Workers ->
       [at : {"idle", "submit", "withdraw", "shortlist", "award", "close", "cancel",
              "AWARDED", "CLOSED", "CANCELLED", "notify", "losers"},
        bid : Bids \cup {NoBid}, others : SUBSET Bids]]
  /\ course \in {Prompt, Overlapping} /\ silenced \subseteq Notices /\ calls \in Nat

(* However many awards, closings, withdrawals and shortlistings overlap, at *)
(* most one bid is AWARDED, and it is the one the RFQ names: the last award *)
(* takes back the one before it.                                            *)
OneWinner == \A b \in Bids : bids[b] = "AWARDED" => winner = b

(* Once the RFQ is decided nobody is left thinking he may win (rfq.close:   *)
(* no supplier is left who believes he is in the competition), whichever of *)
(* several overlapping decisions came last.                                 *)
NobodyLeftHoping == course = Prompt /\ rfq # "OPEN" => On(Live) = {}

(* Bidder b is to hear of the award: operators have not disabled the notice *)
(* he is due.  The winner is due the losers' if he withdraws that bid.      *)
Owed(b) ==
  /\ course = Prompt /\ rfq = "AWARDED" /\ b \in Rows
  /\ "RFQ_DECIDED" \notin silenced
  /\ Supplier[b] = Supplier[winner] => silenced = {}

Settled(b) == told[Supplier[b]] # {} \/ b \notin Rows \/ Supplier[b] \in missed

(* Whoever has a bid in an RFQ that was awarded hears of it, the losers too *)
(* (award-notify.ts: "the losing bidders were left in silence"), whoever    *)
(* withdraws and whichever other notices fail meanwhile, unless his own     *)
(* fails, the winner's does, or the process dies before the end.            *)
EveryBidderHears == \A b \in Bids : Owed(b) ~> Settled(b) \/ halted # {}

(* award-notify.ts: "One slow/failing recipient must not cost the others    *)
(* their notice, so each is isolated."                                      *)
FailureIsIsolated == \A b \in Bids : Owed(b) ~> Settled(b) \/ "process" \in halted

(* procurement.service.ts: "Exactly one path fires per RFQ (a second award  *)
(* is refused once status=AWARDED), so no cross-path dedup is needed".      *)
OneTold ==
  \A r, s \in Suppliers : "RFQ_AWARDED" \in told[r] /\ "RFQ_AWARDED" \in told[s] => r = s
=============================================================================
