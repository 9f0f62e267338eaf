--------------------------------- MODULE Intake ---------------------------------
(***************************************************************************)
(* Pledges come in while a campaign is open, and their backers cancel them *)
(* again; every pledge takes one unit of a reward tier, some an add-on as  *)
(* well, and the creator edits the tier meanwhile.  The stock is compared  *)
(* before the pledge is inserted and counted after the provider has        *)
(* authorized it; a cancellation voids first and counts afterwards; and    *)
(* what a creator may edit depends on a count read before the edit.        *)
(*                                                                         *)
(* The verdict and the sweeps of the deadline are Settlement's; refunds    *)
(* after it are PaymentEvents'.  Here is what is counted meanwhile.        *)
(*                                                                         *)
(* Sources: funding/funding.service.ts (pledge, cancelPledge),             *)
(* rewards/rewards.service.ts (update), escrow-payments/escrow.service.ts. *)
(***************************************************************************)
EXTENDS Integers, FiniteSets

CONSTANTS
  Pledges,   \* bound: pledges made
  Backer,    \* Backer[p]: Pledge.backerId
  Deferred,  \* the BNPL intents: no provider is asked until the deadline
  WithAddOn, \* the pledges that take the add-on too
  NoPledge,
  Requests,  \* requests of backers, open at a time
  Creator,   \* the creator's request
  Limits,    \* the values of RewardTier.limitQty considered
  Unlimited, \* limitQty is null
  AddOns,    \* AddOn.limitQty
  Strands,   \* whether a process may die before the commit of a BNPL intent
  Courses,   \* which of Serial, Apart and Overlapping are considered
  MaxCalls, MaxEdits, MaxFaults \* bounds

Serial == "serial"           \* requests one after the other
Apart == "apart"             \* they overlap, but each pledge has one request at a time
Overlapping == "overlapping" \* they overlap as they like

ASSUME IntakeAssumption ==
  /\ IsFiniteSet(Pledges) /\ NoPledge \notin Pledges
  /\ Backer \in [Pledges -> Pledges]   \* a backer is named by one of his pledges
  /\ Deferred \subseteq Pledges /\ WithAddOn \subseteq Pledges
  /\ IsFiniteSet(Requests) /\ Requests # {} /\ Creator \notin Requests
  /\ Unlimited \notin Nat /\ Limits \subseteq Nat \cup {Unlimited}
  /\ AddOns \in Nat /\ Strands \in BOOLEAN
  /\ Courses \subseteq {Serial, Apart, Overlapping}
  /\ MaxCalls \in Nat /\ MaxEdits \in Nat /\ MaxFaults \in Nat

Workers == Requests \cup {Creator}

VARIABLES
  phase,   \* open; locked: the last 48 hours; ended: past the deadline; over: settled
  status,  \* Pledge.status; none: not inserted
  payment, \* the provider's view of the pledge's payment
  known,   \* the pledges whose paymentRef is the provider's
  counted, \* what each pledge contributes to raisedHalalas and the user's total
  backers, \* Project.backersCount
  addOn,   \* AddOn.claimedQty
  claimed, \* RewardTier.claimedQty
  limit,   \* RewardTier.limitQty
  isActive,\* RewardTier.isActive
  terms,   \* RewardTier's price, contents and delivery date: the edit that last set them
  shipsTo, \* RewardTier.shipsTo: likewise
  deal,    \* history: the terms each pledge was made on
  area,    \* history: the shipsTo each pledge was made on
  crossed, \* history: pledges being made while an edit of the terms was
  undercut,\* history: the limit in force was below what was sold and being sold when it was set
  job,     \* each worker: how far it has come, and on what
  course,  \* never changes
  calls, faults

counters == <<counted, backers, addOn, claimed>>
tier == <<limit, isActive, terms, shipsTo, undercut>>
past == <<deal, area, crossed>>
rows == <<status, known>>
vars == <<phase, rows, past, payment, counters, tier, job, course, calls, faults>>

Resting == [at |-> "idle", pledge |-> NoPledge, limit |-> Unlimited]

Init ==
  /\ phase = "open"
  /\ status = [p \in Pledges |-> "none"] /\ payment = [p \in Pledges |-> "none"]
  /\ known = {} /\ counted = [p \in Pledges |-> 0]
  /\ backers = 0 /\ addOn = 0 /\ claimed = 0
  /\ limit \in Limits /\ isActive = TRUE /\ terms = 0 /\ shipsTo = 0
  /\ deal = [p \in Pledges |-> 0] /\ area = [p \in Pledges |-> 0]
  /\ crossed = {} /\ undercut = FALSE
  /\ job = [w \in Workers |-> Resting]
  /\ course \in Courses
  /\ calls = 0 /\ faults = 0

Active == {p \in Pledges : status[p] \in {"HELD", "PENDING_BNPL"}}
At(w, stage) == job[w].at = stage

(* A pledge that found the tier in stock and is not counted yet.            *)
Pledging(w) == job[w].at \in {"insert", "hold", "commit"}
InFlight == {w \in Requests : Pledging(w)}

Starts(w, stage, p) ==
  /\ At(w, "idle")
  /\ course = Serial => \A v \in Workers : At(v, "idle")
  /\ course = Apart => \A v \in Workers : job[v].pledge # p
  /\ calls < MaxCalls /\ calls' = calls + 1
  /\ job' = [job EXCEPT ![w] = [at |-> stage, pledge |-> p, limit |-> Unlimited]]
  /\ UNCHANGED <<phase, status, known, payment, counters, tier, course, faults>>

Goes(w, stage) == job' = [job EXCEPT ![w].at = stage]
Rests(w) == job' = [job EXCEPT ![w] = Resting]
Fault == faults < MaxFaults /\ faults' = faults + 1
Calm == UNCHANGED <<phase, tier, past, course, calls>>

ClockPasses ==
  /\ \/ phase = "open" /\ phase' = "locked"
     \/ phase = "locked" /\ phase' = "ended"
     \/ phase = "ended" /\ phase' = "over"
  /\ UNCHANGED <<rows, past, payment, counters, tier, job, course, calls, faults>>

-----------------------------------------------------------------------------
(* FundingService.pledge                                                    *)

InStockToo == limit # Unlimited => claimed <= limit   \* MUTANT: one too many

InStock == limit # Unlimited => claimed < limit

PledgeChecked(r, p) ==
  /\ phase \in {"open", "locked"} /\ status[p] = "none" /\ \A v \in Workers : job[v].pledge # p
  /\ isActive /\ InStock
  /\ p \in WithAddOn => addOn < AddOns
  /\ deal' = [deal EXCEPT ![p] = terms] /\ area' = [area EXCEPT ![p] = shipsTo]
  /\ crossed' = IF At(Creator, "terms") THEN crossed \cup {p} ELSE crossed
  /\ Starts(r, "insert", p)

Inserted(r) ==
  LET p == job[r].pledge IN
  /\ At(r, "insert")
  /\ status' = [status EXCEPT ![p] = IF p \in Deferred THEN "PENDING_BNPL" ELSE "HELD"]
  /\ Goes(r, IF p \in Deferred THEN "commit" ELSE "hold")
  /\ Calm /\ UNCHANGED <<known, payment, counters, faults>>

(* The provider authorizes, or does not, or does and its answer is lost.    *)
Answered(r) ==
  LET p == job[r].pledge IN
  /\ At(r, "hold")
  /\ \/ /\ payment' = [payment EXCEPT ![p] = "held"]
        /\ \/ Goes(r, "commit") /\ UNCHANGED faults
           \/ Goes(r, "fail") /\ Fault
     \/ Goes(r, "fail") /\ UNCHANGED <<payment, faults>>
  /\ Calm /\ UNCHANGED <<status, known, counters>>

HoldFailed(r) ==
  /\ At(r, "fail")
  /\ status' = [status EXCEPT ![job[r].pledge] = "FAILED"]
  /\ Rests(r)
  /\ Calm /\ UNCHANGED <<known, payment, counters, faults>>

CommittedUntiered(r) ==   \* MUTANT: the tier's unit is not counted
  LET p == job[r].pledge IN
  /\ At(r, "commit") /\ known' = known \cup {p}
  /\ counted' = [counted EXCEPT ![p] = @ + 1]
  /\ backers' = backers + 1
  /\ addOn' = IF p \in WithAddOn THEN addOn + 1 ELSE addOn
  /\ Rests(r)
  /\ Calm /\ UNCHANGED <<claimed, status, payment, faults>>

(* One transaction, on whatever the pledge has become meanwhile.            *)
Committed(r) ==
  LET p == job[r].pledge IN
  /\ At(r, "commit") /\ known' = known \cup {p}
  /\ counted' = [counted EXCEPT ![p] = @ + 1]
  /\ backers' = backers + 1
  /\ claimed' = claimed + 1
  /\ addOn' = IF p \in WithAddOn THEN addOn + 1 ELSE addOn
  /\ Rests(r)
  /\ Calm /\ UNCHANGED <<status, payment, faults>>

-----------------------------------------------------------------------------
(* FundingService.cancelPledge                                              *)

CancelChecked(r, p) ==
  /\ phase = "open" /\ p \in Active
  /\ status[p] = "HELD" => p \in known   \* or the provider refuses: nothing happens
  /\ Starts(r, IF status[p] = "HELD" THEN "void" ELSE "flip", p)
  /\ UNCHANGED past

(* A second void of one payment succeeds as the first did.                  *)
Voided(r) ==
  LET p == job[r].pledge IN
  /\ At(r, "void") /\ payment[p] \in {"held", "voided"}
  /\ payment' = [payment EXCEPT ![p] = "voided"]
  /\ Goes(r, "flip")
  /\ Calm /\ UNCHANGED <<status, known, counters, faults>>

VoidRefused(r) ==
  /\ At(r, "void") /\ payment[job[r].pledge] # "held"
  /\ Rests(r)
  /\ Calm /\ UNCHANGED <<status, known, payment, counters, faults>>

Flipped(r) ==
  /\ At(r, "flip")
  /\ status' = [status EXCEPT ![job[r].pledge] = "REFUNDED"]
  /\ Goes(r, "give")
  /\ Calm /\ UNCHANGED <<known, payment, counters, faults>>

GivenBackTwice(r) ==   \* MUTANT: the add-on's unit is given back to the tier
  LET p == job[r].pledge IN
  /\ At(r, "give")
  /\ counted' = [counted EXCEPT ![p] = @ - 1]
  /\ backers' = IF \E q \in Active : Backer[q] = Backer[p] THEN backers ELSE backers - 1
  /\ claimed' = IF p \in WithAddOn THEN claimed - 2 ELSE claimed - 1
  /\ Rests(r)
  /\ Calm /\ UNCHANGED <<addOn, status, known, payment, faults>>

(* One transaction; the backer leaves backersCount with his last active     *)
(* pledge, and the add-on keeps its unit.                                   *)
GivenBack(r) ==
  LET p == job[r].pledge IN
  /\ At(r, "give")
  /\ counted' = [counted EXCEPT ![p] = @ - 1]
  /\ backers' = IF \E q \in Active : Backer[q] = Backer[p] THEN backers ELSE backers - 1
  /\ claimed' = claimed - 1
  /\ Rests(r)
  /\ Calm /\ UNCHANGED <<addOn, status, known, payment, faults>>

-----------------------------------------------------------------------------
(* RewardsService.update: what a tier with backers is locked to is judged   *)
(* by the count read first.                                                 *)

Raises(n) == limit # Unlimited => n # Unlimited /\ n >= limit

EditStarts(stage, n) ==
  /\ phase # "over" /\ At(Creator, "idle")
  /\ course = Serial => \A v \in Workers : At(v, "idle")
  /\ calls < MaxCalls /\ calls' = calls + 1
  /\ job' = [job EXCEPT ![Creator] = [at |-> stage, pledge |-> NoPledge, limit |-> n]]
  /\ crossed' = IF stage = "terms" THEN crossed \cup {job[w].pledge : w \in InFlight} ELSE crossed
  /\ UNCHANGED <<phase, rows, deal, area, payment, counters, tier, course, faults>>

(* The terms are locked, the limit may be raised, and what the checks do    *)
(* not name may be changed: whether the tier sells, and where it ships to.  *)
EditChecked(n) ==
  \/ claimed <= 0 /\ n = Unlimited /\ terms + shipsTo < MaxEdits /\ EditStarts("terms", n)
  \/ n \in Limits /\ (claimed > 0 => Raises(n)) /\ EditStarts("limit", n)
  \/ n = Unlimited /\ EditStarts("active", n)
  \/ n = Unlimited /\ terms + shipsTo < MaxEdits /\ EditStarts("ships", n)

LimitEdited(n) ==
  /\ limit' = n
  /\ undercut' = (n # Unlimited /\ claimed + Cardinality(InFlight) > n)
  /\ UNCHANGED <<terms, shipsTo, isActive>>

Edited ==
  /\ \/ At(Creator, "terms") /\ terms' = terms + 1 /\ UNCHANGED <<limit, isActive, shipsTo, undercut>>
     \/ At(Creator, "limit") /\ LimitEdited(job[Creator].limit)
     \/ At(Creator, "active") /\ isActive' = ~isActive /\ UNCHANGED <<limit, terms, shipsTo, undercut>>
     \/ At(Creator, "ships") /\ shipsTo' = shipsTo + 1 /\ UNCHANGED <<limit, isActive, terms, undercut>>
  /\ Rests(Creator)
  /\ UNCHANGED <<phase, rows, past, payment, counters, course, calls, faults>>

(* A process dies, or a statement fails: an insert meets the backer number  *)
(* another pledge has just taken.                                           *)
Crash(w) ==
  /\ Fault /\ ~At(w, "idle")
  /\ At(w, "commit") /\ job[w].pledge \in Deferred => Strands
  /\ Rests(w)
  /\ Calm /\ UNCHANGED <<status, known, payment, counters>>

-----------------------------------------------------------------------------
RequestStep(r) ==
  \/ \E p \in Pledges : PledgeChecked(r, p) \/ CancelChecked(r, p)
  \/ Inserted(r) \/ Answered(r) \/ HoldFailed(r) \/ Committed(r)
  \/ Voided(r) \/ VoidRefused(r) \/ Flipped(r) \/ GivenBack(r)

Next ==
  \/ ClockPasses
  \/ \E r \in Requests : RequestStep(r)
  \/ \E n \in Limits \cup {Unlimited} : EditChecked(n)
  \/ Edited
  \/ \E w \in Workers : Crash(w)

Spec == Init /\ [][Next]_vars

-----------------------------------------------------------------------------
Stages == {"idle", "insert", "hold", "fail", "commit", "void", "flip", "give",
           "terms", "limit", "active", "ships"}

(* The variables range over the values of the rows and the handlers.        *)
TypeOK ==
  /\ phase \in {"open", "locked", "ended", "over"}
  /\ status \in [Pledges -> {"none", "HELD", "PENDING_BNPL", "FAILED", "REFUNDED"}]
  /\ known \subseteq Pledges /\ payment \in [Pledges -> {"none", "held", "voided"}]
  /\ counted \in [Pledges -> Int]
  /\ backers \in Int /\ addOn \in Int /\ claimed \in Int
  /\ limit \in Limits \cup {Unlimited} /\ isActive \in BOOLEAN /\ terms \in Nat
  /\ shipsTo \in Nat /\ undercut \in BOOLEAN
  /\ deal \in [Pledges -> Nat] /\ area \in [Pledges -> Nat] /\ crossed \subseteq Pledges
  /\ job \in [Workers -> [at : Stages, pledge : Pledges \cup {NoPledge},
                          limit : Limits \cup {Unlimited}]]
  /\ course \in {Serial, Apart, Overlapping}
  /\ calls \in Nat /\ faults \in Nat

Sold == {p \in Active : counted[p] = 1}

(* The tier counts at least the pledges that hold a unit of it, whichever   *)
(* requests died on the way: a unit is given back only once it was taken    *)
(* and after its pledge is cancelled, so that nothing is sold twice.        *)
StockHeld == course # Overlapping => claimed >= Cardinality(Sold)

(* A tier of limited stock is oversold by less than the number of requests  *)
(* that may overlap, each having found the last unit (pledge compares the   *)
(* stock before the insert and never again), and by none if they follow one *)
(* another: whatever fails, is cancelled, or is edited meanwhile, unless    *)
(* the creator has put the limit below what was sold and being sold.        *)
Overlap == IF course = Serial THEN 0 ELSE Cardinality(Requests) - 1
OversoldByOverlap ==
  course # Overlapping /\ limit # Unlimited /\ ~undercut =>
    Cardinality(Sold) <= limit + Overlap

(* rewards.service.ts: "a tier WITH backers is locked ...: only a limit     *)
(* INCREASE ... allowed", so that even the creator's edits sell no unit     *)
(* there is not.                                                            *)
NotOversold == course = Serial /\ limit # Unlimited => claimed <= limit

(* Price, contents and delivery date of a tier are not changed under a      *)
(* backer who pledged for it (rewards.service.ts: "a tier WITH backers is   *)
(* locked to protect the deal they bought"), whichever requests overlap or  *)
(* die, except by an edit that was under way while he pledged.              *)
DealStands == course # Overlapping => \A p \in Sold \ crossed : deal[p] = terms

(* rewards.service.ts: "Price, contents, delivery and early-bird are        *)
(* frozen", where it is delivered to included.                              *)
DeliveryStands == course = Serial => \A p \in Sold : area[p] = shipsTo

Quiet == \A w \in Workers : At(w, "idle")

(* counters.recompute.ts: "backersCount = COUNT(DISTINCT backerId)".        *)
BackersDistinct == Quiet /\ faults = 0 => backers = Cardinality({Backer[p] : p \in Active})

(* counters.recompute.ts: "AddOn.claimedQty = (the quantities) joined to    *)
(* pledges in the ACTIVE set".                                              *)
AddOnsReturned == Quiet /\ faults = 0 => addOn = Cardinality(Active \cap WithAddOn)
=============================================================================
