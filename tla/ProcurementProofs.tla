--------------------------- MODULE ProcurementProofs ---------------------------
(***************************************************************************)
(* For any bids, suppliers, requests and operations: the variables keep    *)
(* their types, at most one bid is AWARDED, and no decided RFQ leaves a    *)
(* live bid.  A decision is two steps, what its transaction sees and its   *)
(* commit; the invariant says what stays true of what it has seen.         *)
(***************************************************************************)
EXTENDS Procurement, TLAPS

Stages == {"idle", "submit", "withdraw", "shortlist", "award", "close", "cancel",
           "AWARDED", "CLOSED", "CANCELLED", "notify", "losers"}
Jobs == [Workers -> [at : Stages, bid : Bids \cup {NoBid}, others : SUBSET Bids]]
BidRows == [Bids -> {"none", "SUBMITTED", "SHORTLISTED", "AWARDED", "REJECTED", "gone"}]

(* What takes a request leaves the jobs well typed.                         *)
LEMMA CheckedTypes ==
  ASSUME TypeOK, NEW w \in Workers, NEW b \in Bids \cup {NoBid},
         NEW stage \in {"submit", "withdraw", "shortlist", "award", "close", "cancel"},
         Checked(w, stage, b)
  PROVE  TypeOK'
<1>1. job' \in Jobs
  BY DEF TypeOK, Checked, Jobs, Stages
<1> QED BY <1>1 DEF TypeOK, Checked, head, post, fixed, Jobs, Stages

(* A request that ends leaves them so too.                                  *)
LEMMA EndsTypes ==
  ASSUME TypeOK, NEW w \in Workers, Ends(w)
  PROVE  /\ job' \in Jobs
         /\ course' \in {Prompt, Overlapping} /\ silenced' \subseteq Notices /\ calls' \in Nat
  BY DEF TypeOK, Ends, Resting, fixed, Jobs, Stages

(* So does one that goes on to its next stage.                              *)
LEMMA GoesTypes ==
  ASSUME TypeOK, NEW w \in Workers, NEW stage \in Stages, NEW S \in SUBSET Bids,
         Goes(w, stage, S)
  PROVE  /\ job' \in Jobs
         /\ course' \in {Prompt, Overlapping} /\ silenced' \subseteq Notices /\ calls' \in Nat
<1>1. job[w].bid \in Bids \cup {NoBid}
  BY DEF TypeOK
<1>2. [at |-> stage, bid |-> job[w].bid, others |-> S]
        \in [at : Stages, bid : Bids \cup {NoBid}, others : SUBSET Bids]
  BY <1>1
<1>3. job \in Jobs
  BY DEF TypeOK, Jobs, Stages
<1>4. job' \in Jobs
  BY <1>2, <1>3 DEF Goes, Jobs
<1> QED BY <1>4 DEF TypeOK, Goes, fixed

(* Notices keep their types.                                               *)
LEMMA ToldTypes ==
  ASSUME TypeOK, NEW S, NEW kind \in Notices, Told(S, kind)
  PROVE  told' \in [Suppliers -> SUBSET Notices]
  BY DEF TypeOK, Told

(* Type correctness, kept by every request of suppliers, creator and         *)
(* operators, and by every fault.                                           *)
THEOREM Types == Spec => []TypeOK
<1>1. Init => TypeOK
  <2> SUFFICES ASSUME Init PROVE TypeOK
    OBVIOUS
  <2>1. rfq \in {"OPEN"} /\ winner \in Bids \cup {NoBid} /\ due \in BOOLEAN
    BY DEF Init
  <2>2. bids \in [Bids -> {"none"}] /\ told \in [Suppliers -> {{}}] /\ missed = {} /\ halted = {}
    BY DEF Init
  <2>3. job \in [Workers -> [at : {"idle"}, bid : {NoBid}, others : {{}}]]
    BY DEF Init, Resting
  <2>4. course \in {Prompt, Overlapping} /\ silenced \subseteq Notices /\ calls \in Nat
    BY ProcurementAssumption DEF Init
  <2> QED BY <2>1, <2>2, <2>3, <2>4 DEF TypeOK
<1>2. TypeOK /\ [Next]_vars => TypeOK'
  <2> SUFFICES ASSUME TypeOK, [Next]_vars PROVE TypeOK'
    OBVIOUS
  <2>1. CASE UNCHANGED vars
    BY <2>1 DEF vars, head, post, fixed, TypeOK
  <2>2. CASE DuePasses
    BY <2>2 DEF DuePasses, post, fixed, TypeOK
  <2>3. ASSUME NEW t \in Tabs, NEW b \in Bids, SubmitChecked(t, b) \/ WithdrawChecked(t, b)
        PROVE  TypeOK'
    BY <2>3, CheckedTypes DEF SubmitChecked, WithdrawChecked, Workers
  <2>4. ASSUME NEW t \in Tabs, Submitted(t) \/ Withdrawn(t) PROVE TypeOK'
    <3>1. t \in Workers /\ Ends(t) /\ UNCHANGED <<head, post>>
      BY <2>4 DEF Submitted, Withdrawn, Workers
    <3>2. bids' \in BidRows
      BY <2>4 DEF Submitted, Withdrawn, TypeOK, BidRows
    <3> QED BY <3>1, <3>2, EndsTypes DEF TypeOK, head, post, BidRows, Jobs, Stages
  <2>5. ASSUME NEW d \in Desks, NEW b \in Bids, ShortlistChecked(d, b) \/ AwardChecked(d, b)
        PROVE  TypeOK'
    BY <2>5, CheckedTypes DEF ShortlistChecked, AwardChecked, Workers
  <2>6. ASSUME NEW d \in Desks, NEW s \in {"close", "cancel"}, EndChecked(d, s)
        PROVE  TypeOK'
    BY <2>6, CheckedTypes DEF EndChecked, Workers
  <2>7. ASSUME NEW d \in Desks, Shortlisted(d) PROVE TypeOK'
    <3>1. d \in Workers /\ Ends(d) /\ UNCHANGED <<head, post>>
      BY <2>7 DEF Shortlisted, Workers
    <3>2. bids' \in BidRows
      BY <2>7 DEF Shortlisted, TypeOK, BidRows
    <3> QED BY <3>1, <3>2, EndsTypes DEF TypeOK, head, post, BidRows, Jobs, Stages
  <2>8. ASSUME NEW d \in Desks, AwardDecided(d) \/ EndDecided(d) PROVE TypeOK'
    <3>1. d \in Workers /\ Rows \ {job[d].bid} \in SUBSET Bids /\ On(Live) \in SUBSET Bids
      BY DEF Rows, On, Workers
    <3>2. PICK verdict \in {"AWARDED", "CLOSED", "CANCELLED"}, S \in SUBSET Bids : Decides(d, verdict, S)
      BY <2>8, <3>1 DEF AwardDecided, EndDecided
    <3>3. verdict \in Stages
      BY DEF Stages
    <3> QED BY <3>1, <3>2, <3>3, GoesTypes DEF Decides, TypeOK, head, post, Jobs, Stages
  <2>9. ASSUME NEW d \in Desks, Awarded(d) PROVE TypeOK'
    <3>1. d \in Workers /\ job[d].bid \in Bids \cup {NoBid}
      BY DEF TypeOK, Workers
    <3>2. bids' \in BidRows
      BY <2>9 DEF Awarded, TypeOK, BidRows
    <3>3. Goes(d, "notify", {}) /\ rfq' = "AWARDED" /\ winner' = job[d].bid /\ UNCHANGED <<due, post>>
      BY <2>9 DEF Awarded
    <3>4. "notify" \in Stages
      BY DEF Stages
    <3> QED BY <3>1, <3>2, <3>3, <3>4, GoesTypes DEF TypeOK, post, BidRows, Jobs, Stages
  <2>10. ASSUME NEW d \in Desks, Ended(d) PROVE TypeOK'
    <3>1. d \in Workers /\ Ends(d) /\ UNCHANGED <<winner, due, post>>
      BY <2>10 DEF Ended, Workers
    <3>2. bids' \in BidRows
      BY <2>10 DEF Ended, TypeOK, BidRows
    <3>3. rfq' \in {"OPEN", "AWARDED", "CLOSED", "CANCELLED"}
      BY <2>10 DEF Ended
    <3> QED BY <3>1, <3>2, <3>3, EndsTypes DEF TypeOK, post, BidRows, Jobs, Stages
  <2>11. ASSUME NEW d \in Desks, WinnerTold(d) PROVE TypeOK'
    <3>1. d \in Workers
      BY DEF Workers
    <3>2. {Supplier[b] : b \in Rows} \ Won(d) \subseteq Bids
      BY ProcurementAssumption DEF Rows, On
    <3>3. "losers" \in Stages
      BY DEF Stages
    <3>4. told' \in [Suppliers -> SUBSET Notices]
      BY <2>11, ToldTypes DEF WinnerTold, Notices
    <3> QED BY <2>11, <3>1, <3>2, <3>3, <3>4, GoesTypes DEF WinnerTold, TypeOK, head, Jobs, Stages
  <2>12. ASSUME NEW d \in Desks, WinnerFails(d) PROVE TypeOK'
    <3>1. d \in Workers /\ Ends(d) /\ UNCHANGED <<head, bids>>
      BY <2>12 DEF WinnerFails, Workers
    <3>2. told' \in [Suppliers -> SUBSET Notices]
      BY <2>12, ToldTypes DEF WinnerFails, Notices, TypeOK
    <3>3. Won(d) \subseteq Bids
      BY ProcurementAssumption DEF Won, Rows, On
    <3>4. missed' \subseteq Bids /\ halted' \subseteq {"process", "winner"}
      BY <2>12, <3>3 DEF WinnerFails, TypeOK
    <3> QED BY <3>1, <3>2, <3>4, EndsTypes DEF TypeOK, head, Jobs, Stages
  <2>13. ASSUME NEW d \in Desks, LosersTold(d) PROVE TypeOK'
    <3>1. d \in Workers /\ Ends(d) /\ UNCHANGED <<head, bids, halted>>
      BY <2>13 DEF LosersTold, Workers
    <3>2. PICK F \in SUBSET job[d].others :
            Told(job[d].others \ F, "RFQ_DECIDED") /\ missed' = missed \cup F
      BY <2>13 DEF LosersTold
    <3>3. told' \in [Suppliers -> SUBSET Notices]
      BY <3>2, ToldTypes DEF Notices
    <3> QED BY <3>1, <3>2, <3>3, EndsTypes DEF TypeOK, head, Jobs, Stages
  <2>14. ASSUME NEW w \in Workers, RowMissing(w) PROVE TypeOK'
    BY <2>14, EndsTypes DEF RowMissing, TypeOK, head, post, Jobs, Stages
  <2>15. ASSUME NEW d \in Desks, Died(d) PROVE TypeOK'
    <3>1. d \in Workers
      BY DEF Workers
    <3>2. halted' \subseteq {"process", "winner"}
      BY <2>15 DEF Died, TypeOK
    <3> QED BY <2>15, <3>1, <3>2, EndsTypes DEF Died, TypeOK, head, Jobs, Stages
  <2> QED
    BY <2>1, <2>2, <2>3, <2>4, <2>5, <2>6, <2>7, <2>8, <2>9, <2>10, <2>11, <2>12, <2>13, <2>14, <2>15
       DEF Next, TabStep, DeskStep
<1> QED BY <1>1, <1>2, PTL DEF Spec
-----------------------------------------------------------------------------
(* The transactions that are open, and what they have seen.                 *)

(* A step that opens no transaction and changes none.                       *)
Kept == \A d \in Desks : job'[d].at \in Verdicts => job'[d] = job[d]

(* One transaction at a time; an award's has seen every bid that is         *)
(* AWARDED, and in the prompt course each has seen every live one.          *)
Alone == \A d, e \in Deciding : d = e
SeenAwarded ==
  \A d \in Desks : At(d, "AWARDED") =>
    \A b \in Bids : bids[b] = "AWARDED" => b \in job[d].others \cup {job[d].bid}
SeenLive ==
  course = Prompt => \A d \in Deciding :
    \A b \in Bids : bids[b] \in Live =>
      b \in job[d].others \/ (At(d, "AWARDED") /\ b = job[d].bid)

IInv == Alone /\ SeenAwarded /\ OneWinner /\ SeenLive /\ NobodyLeftHoping

LEMMA CheckedKeeps ==
  ASSUME TypeOK, NEW w \in Workers, NEW stage, stage \notin Verdicts, NEW b, Checked(w, stage, b)
  PROVE  Kept /\ UNCHANGED <<rfq, winner, bids, course>>
  BY DEF TypeOK, Checked, Kept, head, fixed, Workers

LEMMA EndsKeeps ==
  ASSUME TypeOK, NEW w \in Workers, Ends(w)
  PROVE  Kept /\ UNCHANGED course
  BY DEF TypeOK, Ends, Kept, Resting, Verdicts, fixed, Workers

LEMMA GoesKeeps ==
  ASSUME TypeOK, NEW w \in Workers, NEW stage, stage \notin Verdicts, NEW S, Goes(w, stage, S)
  PROVE  Kept /\ UNCHANGED course
  BY DEF TypeOK, Goes, Kept, fixed, Workers

(* Every step is one of these: it writes neither bid nor RFQ nor            *)
(* transaction; it writes one bid; it opens a transaction; or it commits.   *)
LEMMA Steps ==
  ASSUME TypeOK, [Next]_vars
  PROVE  \/ Kept /\ UNCHANGED <<rfq, winner, bids, course>>
         \/ \E t \in Tabs : Submitted(t) \/ Withdrawn(t)
         \/ \E d \in Desks : Shortlisted(d) \/ AwardDecided(d) \/ EndDecided(d)
                              \/ Awarded(d) \/ Ended(d)
<1>1. Tabs \subseteq Workers /\ Desks \subseteq Workers
  BY DEF Workers
<1>2. ASSUME NEW t \in Tabs, NEW b \in Bids, SubmitChecked(t, b) \/ WithdrawChecked(t, b)
      PROVE  Kept /\ UNCHANGED <<rfq, winner, bids, course>>
  BY <1>1, <1>2, CheckedKeeps DEF SubmitChecked, WithdrawChecked, Verdicts
<1>3. ASSUME NEW d \in Desks, NEW b \in Bids, ShortlistChecked(d, b) \/ AwardChecked(d, b)
      PROVE  Kept /\ UNCHANGED <<rfq, winner, bids, course>>
  BY <1>1, <1>3, CheckedKeeps DEF ShortlistChecked, AwardChecked, Verdicts
<1>4. ASSUME NEW d \in Desks, NEW s \in {"close", "cancel"}, EndChecked(d, s)
      PROVE  Kept /\ UNCHANGED <<rfq, winner, bids, course>>
  BY <1>1, <1>4, CheckedKeeps DEF EndChecked, Verdicts
<1>5. ASSUME NEW d \in Desks, WinnerTold(d) PROVE Kept /\ UNCHANGED <<rfq, winner, bids, course>>
  BY <1>1, <1>5, GoesKeeps DEF WinnerTold, Verdicts, head
<1>6. ASSUME NEW d \in Desks, WinnerFails(d) \/ LosersTold(d) \/ Died(d)
      PROVE  Kept /\ UNCHANGED <<rfq, winner, bids, course>>
  BY <1>1, <1>6, EndsKeeps DEF WinnerFails, LosersTold, Died, head
<1>7. ASSUME NEW w \in Workers, RowMissing(w) PROVE Kept /\ UNCHANGED <<rfq, winner, bids, course>>
  BY <1>7, EndsKeeps DEF RowMissing, head
<1>8. CASE DuePasses \/ UNCHANGED vars
  BY <1>8 DEF DuePasses, vars, head, fixed, Kept
<1> QED BY <1>2, <1>3, <1>4, <1>5, <1>6, <1>7, <1>8 DEF Next, TabStep, DeskStep

(* A transaction found open after a step that opens none was open before.   *)
LEMMA KeptOpen ==
  ASSUME Kept, NEW d \in Deciding'
  PROVE  d \in Deciding /\ job'[d] = job[d]
  BY DEF Kept, Deciding

LEMMA Inductive == TypeOK /\ IInv /\ [Next]_vars => IInv'
<1> SUFFICES ASSUME TypeOK, IInv, [Next]_vars PROVE IInv'
  OBVIOUS
<1>1. CASE Kept /\ UNCHANGED <<rfq, winner, bids, course>>
  <2>1. Alone'
    BY <1>1, KeptOpen DEF IInv, Alone
  <2>2. SeenAwarded'
    BY <1>1 DEF IInv, SeenAwarded, At, Kept, Verdicts
  <2>3. SeenLive'
    BY <1>1, KeptOpen DEF IInv, SeenLive, At
  <2>4. OneWinner' /\ NobodyLeftHoping'
    BY <1>1 DEF IInv, OneWinner, NobodyLeftHoping, On
  <2> QED BY <2>1, <2>2, <2>3, <2>4 DEF IInv
<1>2. ASSUME NEW w \in Workers, NEW b \in Bids, NEW s \in {"SUBMITTED", "SHORTLISTED", "gone"},
             Ends(w), s # "gone" => InTime, bids' = [bids EXCEPT ![b] = s], UNCHANGED <<rfq, winner>>
      PROVE  IInv'
  <2>0. Kept /\ course' = course
    BY <1>2, EndsKeeps
  <2>1. Alone'
    BY <2>0, KeptOpen DEF IInv, Alone
  <2>2. \A c \in Bids : bids'[c] = "AWARDED" => bids[c] = "AWARDED"
    BY <1>2 DEF TypeOK
  <2>3. SeenAwarded'
    BY <2>0, <2>2 DEF IInv, SeenAwarded, At, Kept, Verdicts
  <2>4. OneWinner'
    BY <1>2, <2>2 DEF IInv, OneWinner
  <2>5. ASSUME course = Prompt, ~InTime PROVE \A c \in Bids : bids'[c] \in Live => bids[c] \in Live
    BY <1>2, <2>5 DEF TypeOK, Live
  <2>6. SeenLive'
    <3> SUFFICES ASSUME course' = Prompt, NEW d \in Deciding', NEW c \in Bids, bids'[c] \in Live
                 PROVE  (c \in job[d].others \/ (At(d, "AWARDED") /\ c = job[d].bid))'
      BY DEF SeenLive
    <3>1. d \in Deciding /\ job'[d] = job[d]
      BY <2>0, KeptOpen
    <3>2. bids[c] \in Live
      BY <2>0, <2>5, <3>1 DEF InTime
    <3> QED BY <2>0, <3>1, <3>2 DEF IInv, SeenLive, At
  <2>7. NobodyLeftHoping'
    <3> SUFFICES ASSUME course' = Prompt, rfq' # "OPEN", NEW c \in Bids, bids'[c] \in Live
                 PROVE  FALSE
      BY DEF NobodyLeftHoping, On
    <3>1. bids[c] \in Live
      BY <1>2, <2>0, <2>5 DEF InTime
    <3> QED BY <1>2, <2>0, <3>1 DEF IInv, NobodyLeftHoping, On
  <2> QED BY <2>1, <2>3, <2>4, <2>6, <2>7 DEF IInv
<1>3. ASSUME NEW t \in Tabs, Submitted(t) \/ Withdrawn(t) PROVE IInv'
  <2>1. t \in Workers /\ UNCHANGED <<rfq, winner>> /\ Ends(t)
    BY <1>3 DEF Submitted, Withdrawn, head, Workers
  <2>2. CASE job[t].bid \in Bids
    BY <1>2, <1>3, <2>1, <2>2 DEF Submitted, Withdrawn
  <2>3. CASE job[t].bid \notin Bids
    <3>1. bids' = bids
      BY <1>3, <2>3 DEF Submitted, Withdrawn, TypeOK, Rows, On
    <3> QED BY <1>1, <2>1, <3>1, EndsKeeps
  <2> QED BY <2>2, <2>3
<1>4. ASSUME NEW d \in Desks, Shortlisted(d) PROVE IInv'
  <2>1. d \in Workers /\ UNCHANGED <<rfq, winner>> /\ Ends(d) /\ job[d].bid \in Bids
    BY <1>4 DEF Shortlisted, head, Workers, Rows, On
  <2> QED BY <1>2, <1>4, <2>1 DEF Shortlisted
<1>5. ASSUME NEW d \in Desks, AwardDecided(d) \/ EndDecided(d) PROVE IInv'
  <2>1. PICK verdict \in Verdicts, S \in SUBSET Bids :
          /\ Decides(d, verdict, S)
          /\ verdict = "AWARDED" => Rows \ {job[d].bid} = S
          /\ verdict # "AWARDED" => On(Live) = S
    BY <1>5 DEF AwardDecided, EndDecided, Verdicts, Rows, On
  <2>2. Deciding = {} /\ UNCHANGED <<rfq, winner, bids, course>>
    BY <2>1 DEF Decides, Goes, head, fixed
  <2>3. job'[d] = [at |-> verdict, bid |-> job[d].bid, others |-> S]
        /\ \A e \in Desks \ {d} : job'[e] = job[e]
    BY <2>1 DEF Decides, Goes, TypeOK, Workers
  <2>4. \A e \in Desks : job'[e].at \in Verdicts => e = d
    BY <2>2, <2>3 DEF Deciding
  <2>5. Alone'
    BY <2>4 DEF Alone, Deciding
  <2>6. \A b \in Bids : bids[b] = "AWARDED" => b \in Rows
    BY DEF Rows, On
  <2>7. SeenAwarded'
    BY <2>1, <2>2, <2>3, <2>4, <2>6 DEF SeenAwarded, At, Verdicts
  <2>8. \A b \in Bids : bids[b] \in Live => b \in Rows /\ b \in On(Live)
    BY DEF Rows, On, Live
  <2>9. SeenLive'
    <3>1. \A b \in Bids : bids[b] \in Live => b \in S \/ (verdict = "AWARDED" /\ b = job[d].bid)
      <4>1. CASE verdict = "AWARDED"
        <5>1. S = Rows \ {job[d].bid}
          BY <2>1, <4>1
        <5> QED BY <2>8, <4>1, <5>1
      <4>2. CASE verdict # "AWARDED"
        <5>1. S = On(Live)
          BY <2>1, <4>2
        <5> QED BY <2>8, <5>1
      <4> QED BY <4>1, <4>2
    <3>2. \A e \in Deciding' : e = d
      BY <2>4 DEF Deciding
    <3>3. job'[d].others = S /\ job'[d].at = verdict /\ job'[d].bid = job[d].bid
      BY <2>3
    <3> QED BY <2>2, <3>1, <3>2, <3>3 DEF SeenLive, At
  <2>10. OneWinner' /\ NobodyLeftHoping'
    BY <2>2 DEF IInv, OneWinner, NobodyLeftHoping, On
  <2> QED BY <2>5, <2>7, <2>9, <2>10 DEF IInv
<1>6. ASSUME NEW d \in Desks, Awarded(d) \/ Ended(d) PROVE IInv'
  <2>1. d \in Deciding /\ d \in Workers
    BY <1>6 DEF Awarded, Ended, At, Deciding, Verdicts, Workers
  <2>2. Kept /\ course' = course
    BY <1>6, <2>1, EndsKeeps, GoesKeeps DEF Awarded, Ended, Verdicts
  <2>3. job'[d].at \notin Verdicts
    BY <1>6, <2>1 DEF Awarded, Ended, Ends, Goes, Resting, Verdicts, TypeOK
  <2>4. Deciding' = {}
    BY <2>1, <2>2, <2>3, KeptOpen DEF IInv, Alone, Deciding
  <2>5. Alone' /\ SeenAwarded' /\ SeenLive'
    BY <2>4 DEF Alone, SeenAwarded, SeenLive, At, Deciding, Verdicts
  <2>6. ASSUME NEW b \in Bids, bids'[b] = "AWARDED" PROVE winner' = b
    <3>1. CASE Awarded(d)
      <4>1. bids[b] = "AWARDED" => b \in job[d].others \cup {job[d].bid}
        BY <3>1 DEF Awarded, IInv, SeenAwarded
      <4> QED BY <3>1, <2>6, <4>1 DEF Awarded
    <3>2. CASE Ended(d)
      BY <3>2, <2>6 DEF Ended, IInv, OneWinner
    <3> QED BY <1>6, <3>1, <3>2
  <2>7. ASSUME course' = Prompt, NEW b \in Bids, bids'[b] \in Live PROVE FALSE
    <3>1. bids[b] \in Live => b \in job[d].others \/ (At(d, "AWARDED") /\ b = job[d].bid)
      BY <2>1, <2>2, <2>7 DEF IInv, SeenLive
    <3>2. CASE Awarded(d)
      BY <2>7, <3>1, <3>2 DEF Awarded, Live
    <3>3. CASE Ended(d)
      BY <2>7, <3>1, <3>3 DEF Ended, Live, At
    <3> QED BY <1>6, <3>2, <3>3
  <2> QED BY <2>5, <2>6, <2>7 DEF IInv, OneWinner, NobodyLeftHoping, On
<1> QED BY <1>1, <1>3, <1>4, <1>5, <1>6, Steps

LEMMA InvHolds == Spec => []IInv
<1>1. Init => IInv
  <2> SUFFICES ASSUME Init PROVE IInv
    OBVIOUS
  <2>1. \A w \in Workers : job[w].at = "idle"
    BY DEF Init, Resting
  <2>2. Deciding = {}
    BY <2>1 DEF Deciding, Verdicts, Workers
  <2>3. \A b \in Bids : bids[b] = "none"
    BY DEF Init
  <2> QED BY <2>1, <2>2, <2>3
          DEF Init, IInv, Alone, SeenAwarded, SeenLive, OneWinner, NobodyLeftHoping, At, Workers, Live
<1> QED BY <1>1, Inductive, Types, PTL DEF Spec

(* At most one bid is AWARDED, whatever overlaps: an award rejects every     *)
(* other bid whatever its status, nothing else awards one, and no other     *)
(* transaction can be open between what an award sees and its commit.       *)
THEOREM Single == Spec => []OneWinner
<1>1. IInv => OneWinner
  BY DEF IInv
<1> QED BY <1>1, InvHolds, PTL

(* A decided RFQ has no live bid, if no bid or shortlisting is written once  *)
(* a decision has seen the bids: every decision rejects whatever is live.   *)
THEOREM NobodyHopes == Spec => []NobodyLeftHoping
<1>1. IInv => NobodyLeftHoping
  BY DEF IInv
<1> QED BY <1>1, InvHolds, PTL
=============================================================================
