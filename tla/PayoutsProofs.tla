---------------------------- MODULE PayoutsProofs ----------------------------
(***************************************************************************)
(* What Payouts guarantees for every number of milestones, payouts,        *)
(* overlapping ticks and crashes: its types, and that what a row calls     *)
(* SENT was transferred; while the provider's answers are not lost and one *)
(* operator works at a time, that no payout is transferred twice; and with *)
(* one operator and one form of evidence at a time, that no milestone is   *)
(* released twice and that the releases exceed what is realized by no more *)
(* than was refunded.                                                      *)
(***************************************************************************)
EXTENDS Payouts, FiniteSetTheorems, WellFoundedInduction, TLAPS

(* An operator's locals are replaced or updated within their type. *)
LEMMA OperatorUpdated ==
  ASSUME operator \in [Operators -> OperatorLocals], NEW o \in Operators,
         NEW l \in OperatorLocals, operator' = [operator EXCEPT ![o] = l]
  PROVE  operator' \in [Operators -> OperatorLocals]
  OBVIOUS

(* So are a tick's. *)
LEMMA WorkerUpdated ==
  ASSUME worker \in [Workers -> WorkerLocals], NEW w \in Workers,
         NEW l \in WorkerLocals, worker' = [worker EXCEPT ![w] = l]
  PROVE  worker' \in [Workers -> WorkerLocals]
  OBVIOUS

Stages == {"idle", "loop", "send", "sent", "settle", "fail", "release"}

(* What a tick writes: a new stage, a new payout, a smaller batch; the other *)
(* ticks are left alone.                                                     *)
Moves(w, at, payout, batch) ==
  /\ worker'[w].at = at /\ worker'[w].payout = payout /\ worker'[w].batch = batch
  /\ \A v \in Workers \ {w} : worker'[v] = worker[v]
  /\ worker' \in [Workers -> WorkerLocals]

(* Each write of the disburser to its own locals is such a move. *)
LEMMA WorkerMoves ==
  ASSUME worker \in [Workers -> WorkerLocals], NEW w \in Workers,
         NEW at \in Stages, NEW p \in Payouts
  PROVE  /\ worker' = [worker EXCEPT ![w].at = at]
              => Moves(w, at, worker[w].payout, worker[w].batch)
         /\ worker' = [worker EXCEPT ![w].at = at, ![w].payout = p, ![w].batch = @ \ {p}]
              => Moves(w, at, p, worker[w].batch \ {p})
         /\ worker' = [worker EXCEPT ![w].batch = @ \ {p}]
              => Moves(w, worker[w].at, worker[w].payout, worker[w].batch \ {p})
  <1> USE DEF Moves, WorkerLocals, Stages
  <1>1. ASSUME worker' = [worker EXCEPT ![w].at = at]
        PROVE  Moves(w, at, worker[w].payout, worker[w].batch)
    BY <1>1
  <1>2. ASSUME worker' = [worker EXCEPT ![w].at = at, ![w].payout = p, ![w].batch = @ \ {p}]
        PROVE  Moves(w, at, p, worker[w].batch \ {p})
    <2>1. worker' = [worker EXCEPT ![w] =
                       [worker[w] EXCEPT !.at = at, !.payout = p, !.batch = @ \ {p}]]
      BY <1>2
    <2>2. [worker[w] EXCEPT !.at = at, !.payout = p, !.batch = @ \ {p}] \in WorkerLocals
      OBVIOUS
    <2> QED
      BY <2>1, <2>2
  <1>3. ASSUME worker' = [worker EXCEPT ![w].batch = @ \ {p}]
        PROVE  Moves(w, worker[w].at, worker[w].payout, worker[w].batch \ {p})
    BY <1>3
  <1> QED
    BY <1>1, <1>2, <1>3

(* Giving up the payout is a move whatever the payout was. *)
LEMMA NoPayoutMoves ==
  ASSUME worker \in [Workers -> WorkerLocals], NEW w \in Workers, NEW at \in Stages
  PROVE  /\ worker' = [worker EXCEPT ![w].at = at, ![w].payout = NoPayout]
              => Moves(w, at, NoPayout, worker[w].batch)
         /\ worker' = [worker EXCEPT ![w].at = at]
              => Moves(w, at, worker[w].payout, worker[w].batch)
  BY DEF Moves, WorkerLocals, Stages

(* The creator's and the operators' steps keep the types. *)
LEMMA PlanKeepsTypes ==
  ASSUME TypeOK,
         \/ \E m \in Milestones, t \in Tabs : EvidenceStep(m, t)
         \/ \E o \in Operators, m \in Milestones : ReviewStep(o, m)
         \/ \E o \in Operators, p \in Payouts : RetryStep(o, p)
         \/ DeliveryChecked \/ Delivered
  PROVE  TypeOK'
  <1> USE DEF TypeOK, planVars, moneyVars, payoutVars
  <1>1. ASSUME NEW m \in Milestones, NEW t \in Tabs, EvidenceStep(m, t) PROVE TypeOK'
    <2>1. evidence' \in [Milestones -> [Tabs -> BOOLEAN]]
      <3>1. \A b \in BOOLEAN : [evidence[m] EXCEPT ![t] = b] \in [Tabs -> BOOLEAN]
        OBVIOUS
      <3>2. \E b \in BOOLEAN : evidence' = [evidence EXCEPT ![m] = [evidence[m] EXCEPT ![t] = b]]
        BY <1>1 DEF EvidenceStep, EvidenceChecked, EvidenceSubmitted
      <3> QED
        BY <3>1, <3>2
    <2>2. milestone' \in [Milestones -> {"PENDING", "SUBMITTED", "APPROVED", "RELEASED"}]
      BY <1>1 DEF EvidenceStep, EvidenceChecked, EvidenceSubmitted
    <2> QED
      BY <1>1, <2>1, <2>2 DEF EvidenceStep, EvidenceChecked, EvidenceSubmitted
  <1>2. ASSUME NEW o \in Operators, NEW x \in Milestones \cup Payouts,
               NEW kind \in {"approve", "reject", "release", "retry"},
               OperationBegins(o, kind, x)
        PROVE TypeOK'
    <2>1. [NoOperation EXCEPT !.at = "checked", !.kind = kind, !.target = x] \in OperatorLocals
      <3>1. NoOperation \in OperatorLocals
        BY DEF NoOperation, OperatorLocals
      <3>2. \A l \in OperatorLocals : [l EXCEPT !.at = "checked"] \in OperatorLocals
        BY DEF OperatorLocals
      <3>3. \A l \in OperatorLocals : [l EXCEPT !.kind = kind] \in OperatorLocals
        BY DEF OperatorLocals
      <3>4. \A l \in OperatorLocals : [l EXCEPT !.target = x] \in OperatorLocals
        BY DEF OperatorLocals
      <3> QED
        BY <3>1, <3>2, <3>3, <3>4
    <2>2. operator' \in [Operators -> OperatorLocals]
      BY <1>2, <2>1, OperatorUpdated DEF OperationBegins
    <2> QED
      BY <1>2, <2>2 DEF OperationBegins
  <1>3. ASSUME NEW o \in Operators, OperationEnds(o) PROVE operator' \in [Operators -> OperatorLocals]
    <2>1. NoOperation \in OperatorLocals
      BY DEF NoOperation, OperatorLocals
    <2> QED
      BY <1>3, <2>1, OperatorUpdated DEF OperationEnds
  <1>4. ASSUME NEW o \in Operators, NEW m \in Milestones, ReviewStep(o, m) PROVE TypeOK'
    <2>1. CASE ReviewChecked(o, m)
      BY <1>2, <2>1 DEF ReviewChecked
    <2>2. CASE EvidenceApproved(o, m)
      BY <1>3, <2>2 DEF EvidenceApproved, OperationEnds
    <2>3. CASE EvidenceRejected(o, m)
      BY <1>3, <2>3 DEF EvidenceRejected, OperationEnds
    <2>4. CASE ReleaseChecked(o, m)
      BY <1>2, <2>4 DEF ReleaseChecked
    <2>5. CASE ReleaseRead(o, m)
      <3>1. (realized * ReleasePct[m]) \div 100 \in Int
        BY PlanAssumption
      <3>2. PICK x \in Int :
              operator' = [operator EXCEPT ![o].at = "read", ![o].amount = x,
                                           ![o].first = (project = "FUNDED")]
        BY <2>5, <3>1 DEF ReleaseRead
      <3> DEFINE f == (project = "FUNDED")
      <3>3. operator' = [operator EXCEPT ![o] =
                           [operator[o] EXCEPT !.at = "read", !.amount = x, !.first = f]]
        BY <3>2
      <3>4. [operator[o] EXCEPT !.at = "read", !.amount = x, !.first = f] \in OperatorLocals
        <4>1. operator[o] \in OperatorLocals
          OBVIOUS
        <4>2. \A l \in OperatorLocals : [l EXCEPT !.at = "read"] \in OperatorLocals
          BY DEF OperatorLocals
        <4>3. \A l \in OperatorLocals : [l EXCEPT !.amount = x] \in OperatorLocals
          BY DEF OperatorLocals
        <4>4. \A l \in OperatorLocals : [l EXCEPT !.first = f] \in OperatorLocals
          BY DEF OperatorLocals
        <4> QED
          BY <4>1, <4>2, <4>3, <4>4
      <3>5. operator' \in [Operators -> OperatorLocals]
        BY <3>3, <3>4
      <3> QED
        BY <2>5, <3>5 DEF ReleaseRead
    <2>6. ASSUME NEW p \in Payouts, MilestoneReleased(o, m, p) PROVE TypeOK'
      <3>1. operator[o].amount \in Int
        BY DEF OperatorLocals
      <3> QED
        BY <1>3, <2>6, <3>1 DEF MilestoneReleased, OperationEnds
    <2> QED
      BY <1>4, <2>1, <2>2, <2>3, <2>4, <2>5, <2>6 DEF ReviewStep
  <1>5. ASSUME NEW o \in Operators, NEW p \in Payouts, RetryStep(o, p) PROVE TypeOK'
    <2>1. CASE RetryChecked(o, p)
      BY <1>2, <2>1 DEF RetryChecked
    <2>2. CASE PayoutRetried(o, p)
      BY <1>3, <2>2 DEF PayoutRetried, OperationEnds
    <2> QED
      BY <1>5, <2>1, <2>2 DEF RetryStep
  <1>6. CASE DeliveryChecked \/ Delivered
    BY <1>6 DEF DeliveryChecked, Delivered
  <1> QED
    BY <1>1, <1>4, <1>5, <1>6

(* So do the disburser's. *)
LEMMA TicksKeepTypes ==
  ASSUME TypeOK, (\E w \in Workers : WorkerStep(w)) \/ Crash
  PROVE  TypeOK'
  <1> USE DEF TypeOK, planVars, moneyVars, payoutVars
  <1>1. Resting \in WorkerLocals
    BY DEF Resting, WorkerLocals
  <1>2. CASE Crash
    BY <1>1, <1>2, WorkerUpdated DEF Crash
  <1>3. ASSUME NEW w \in Workers, TickStarts(w) PROVE TypeOK'
    <2>1. [Resting EXCEPT !.at = "loop", !.batch = Oldest] \in WorkerLocals
      BY DEF Resting, WorkerLocals, Oldest, Pending
    <2> QED
      BY <1>3, <2>1, WorkerUpdated DEF TickStarts
  <1>4. ASSUME NEW w \in Workers, TickEnds(w) PROVE TypeOK'
    BY <1>1, <1>4, WorkerUpdated DEF TickEnds
  <1>5. ASSUME NEW w \in Workers, SettledStamped(w) PROVE TypeOK'
    <2>1. worker' \in [Workers -> WorkerLocals]
      BY <1>5, NoPayoutMoves DEF SettledStamped, NextPayout, Answered, Moves, Stages
    <2> QED
      BY <1>5, <2>1 DEF SettledStamped, NextPayout, Answered
  <1>6. ASSUME NEW w \in Workers, NEW p \in Payouts, SendStep(w, p) PROVE TypeOK'
    <2>1. CASE PayoutClaimed(w, p)
      <3>1. worker' \in [Workers -> WorkerLocals]
        BY ZenonT(60), <2>1, WorkerMoves DEF PayoutClaimed, Moves, Stages
      <3> QED
        BY <2>1, <3>1 DEF PayoutClaimed
    <2>2. CASE TransferAccepted(w, p)
      <3>1. worker' \in [Workers -> WorkerLocals]
        BY <2>2, WorkerMoves DEF TransferAccepted, Answered, Moves, Stages
      <3> QED
        BY <2>2, <3>1 DEF TransferAccepted, Answered
    <2>3. CASE TransferRejected(w, p)
      <3>1. worker' \in [Workers -> WorkerLocals]
        BY <2>3, WorkerMoves DEF TransferRejected, Answered, Moves, Stages
      <3> QED
        BY <2>3, <3>1 DEF TransferRejected, Answered
    <2>4. CASE TransferUnclear(w, p)
      <3>1. worker' \in [Workers -> WorkerLocals]
        BY <2>4, WorkerMoves DEF TransferUnclear, Answered, Moves, Stages
      <3> QED
        BY <2>4, <3>1 DEF TransferUnclear, Answered
    <2>5. CASE SentWritten(w, p)
      <3>1. worker' \in [Workers -> WorkerLocals]
        BY <2>5, WorkerMoves DEF SentWritten, Moves, Stages
      <3> QED
        BY <2>5, <3>1 DEF SentWritten
    <2>6. CASE FailureWritten(w, p)
      <3>1. worker' \in [Workers -> WorkerLocals]
        BY <2>6, NoPayoutMoves DEF FailureWritten, NextPayout, Moves, Stages
      <3> QED
        BY <2>6, <3>1 DEF FailureWritten, NextPayout
    <2>7. CASE ClaimReleased(w, p)
      <3>1. worker' \in [Workers -> WorkerLocals]
        BY <2>7, NoPayoutMoves DEF ClaimReleased, NextPayout, Moves, Stages
      <3> QED
        BY <2>7, <3>1 DEF ClaimReleased, NextPayout
    <2> QED
      BY <1>6, <2>1, <2>2, <2>3, <2>4, <2>5, <2>6, <2>7 DEF SendStep
  <1> QED
    BY <1>2, <1>3, <1>4, <1>5, <1>6 DEF WorkerStep

(* Types are preserved by every step (TypeOK): checked or unchecked, stale  *)
(* or fresh, a handler writes only values its rows can hold.                *)
THEOREM PayoutTypes == Spec => []TypeOK
<1>1. Init => TypeOK
  <2> SUFFICES ASSUME Init PROVE TypeOK
    OBVIOUS
  <2>1. NoOperation \in OperatorLocals /\ Resting \in WorkerLocals
    BY DEF NoOperation, OperatorLocals, Resting, WorkerLocals
  <2>2. operator \in [Operators -> OperatorLocals] /\ worker \in [Workers -> WorkerLocals]
    BY <2>1 DEF Init
  <2>3. row \in [Payouts -> [milestone : Milestones \cup {"none"}, gross : Int]]
    BY DEF Init, NoRow
  <2>4. evidence \in [Milestones -> [Tabs -> BOOLEAN]]
    BY DEF Init
  <2>5. released \in [Milestones -> Int] /\ realized \in Int /\ crashes \in Nat
    BY PlanAssumption DEF Init
  <2>6. /\ milestone \in [Milestones -> {"PENDING", "SUBMITTED", "APPROVED", "RELEASED"}]
        /\ late \in [DOMAIN Late -> BOOLEAN]
        /\ refund \in [DOMAIN Refundable -> {"none", "checked", "over"}]
    BY DEF Init
  <2>7. /\ status \in [Payouts -> {"NONE", "PENDING", "SENDING", "SENT", "FAILED"}]
        /\ transfers \in [Payouts -> Nat]
    BY DEF Init
  <2> QED
    BY <2>2, <2>3, <2>4, <2>5, <2>6, <2>7 DEF Init, TypeOK
<1>2. TypeOK /\ [Next]_vars => TypeOK'
  <2> SUFFICES ASSUME TypeOK, [Next]_vars PROVE TypeOK'
    OBVIOUS
  <2>1. CASE UNCHANGED vars
    BY <2>1 DEF TypeOK, vars, planVars, moneyVars, payoutVars
  <2>2. ASSUME NEW c \in DOMAIN Late, LateCapture(c) PROVE TypeOK'
    BY <2>2, PlanAssumption DEF TypeOK, LateCapture, planVars, moneyVars, payoutVars
  <2>3. ASSUME NEW c \in DOMAIN Refundable, RefundChecked(c) \/ Refunded(c) PROVE TypeOK'
    BY <2>3, PlanAssumption DEF TypeOK, RefundChecked, Refunded, planVars, moneyVars,
       payoutVars
  <2> QED
    BY <2>1, <2>2, <2>3, PlanKeepsTypes, TicksKeepTypes DEF Next
<1> QED
  BY <1>1, <1>2, PTL DEF Spec

-----------------------------------------------------------------------------
(* A tick between its claim and its last write owns the row: it is SENDING, *)
(* no other tick has it, and whether the provider has paid shows in how far *)
(* the tick has come.  A retry in flight finds its payout FAILED still.     *)
Owns(w, p) == worker[w].at \in {"send", "sent", "fail", "release"} /\ worker[w].payout = p

RowIsTrue(p) ==
  /\ transfers[p] \in {0, 1}
  /\ status[p] \in {"NONE", "PENDING", "FAILED"} => transfers[p] = 0
  /\ status[p] = "SENT" => transfers[p] = 1

TickIsTrue(w, p) ==
  Owns(w, p) => /\ status[p] = "SENDING"
                /\ transfers[p] = IF worker[w].at = "sent" THEN 1 ELSE 0

OneOwner(p) == \A v, w \in Workers : Owns(v, p) /\ Owns(w, p) => v = w

Retrying(o, p) == operator[o].kind = "retry" /\ operator[o].target = p

RowInv(p) ==
  /\ RowIsTrue(p) /\ OneOwner(p)
  /\ \A w \in Workers : TickIsTrue(w, p)
  /\ \A o \in Operators : Retrying(o, p) => status[p] = "FAILED"

SendInv == \A p \in Payouts : RowInv(p)

(* A row no step touches, and no tick takes up, stays as it is. *)
LEMMA UntouchedRow ==
  ASSUME NEW p \in Payouts, RowInv(p),
         status'[p] = status[p], transfers'[p] = transfers[p],
         \A o \in Operators : Retrying(o, p)' => Retrying(o, p),
         \A w \in Workers : Owns(w, p)' => Owns(w, p) /\ worker'[w].at = worker[w].at
  PROVE  RowInv(p)'
  BY DEF RowInv, RowIsTrue, OneOwner, TickIsTrue

(* What a tick writes to its own row concerns no other row, and leaves an   *)
(* invariant that only this row has to be checked for.                      *)
LEMMA OwnRow ==
  ASSUME SendInv, UNCHANGED operator, NEW w \in Workers, NEW p \in Payouts,
         NEW at \in Stages, NEW n \in {p, NoPayout}, NEW b, Moves(w, at, n, b),
         status[p] \in {"PENDING", "SENDING"},
         \A v \in Workers \ {w} : ~Owns(v, p),
         \A q \in Payouts \ {p} : /\ status'[q] = status[q] /\ transfers'[q] = transfers[q]
                                   /\ ~Owns(w, q),
         RowIsTrue(p)', TickIsTrue(w, p)'
  PROVE  SendInv'
  <1>1. ASSUME NEW q \in Payouts \ {p} PROVE RowInv(q)'
    <2>1. \A o \in Operators : Retrying(o, q)' => Retrying(o, q)
      BY DEF Retrying
    <2>2. ~Owns(w, q)'
      BY DEF Moves, Owns, NoPayout, Payouts
    <2>3. \A v \in Workers : Owns(v, q)' => Owns(v, q) /\ worker'[v].at = worker[v].at
      BY <2>2 DEF Moves, Owns
    <2> QED
      BY <2>1, <2>3, UntouchedRow DEF SendInv
  <1>2. RowInv(p)'
    <2>1. \A v \in Workers \ {w} : ~Owns(v, p)'
      BY DEF Moves, Owns
    <2>2. \A o \in Operators : ~Retrying(o, p)'
      BY DEF SendInv, RowInv, Retrying
    <2> QED
      BY <2>1, <2>2 DEF RowInv, OneOwner, TickIsTrue
  <1> QED
    BY <1>1, <1>2 DEF SendInv

(* A tick that owns a row is its only owner and owns no other. *)
LEMMA OwnersAlone ==
  ASSUME SendInv, NEW w \in Workers, NEW p \in Payouts, Owns(w, p)
  PROVE  /\ status[p] = "SENDING"
         /\ \A v \in Workers \ {w} : ~Owns(v, p)
         /\ \A q \in Payouts \ {p} : ~Owns(w, q)
         /\ RowIsTrue(p)
         /\ transfers[p] = IF worker[w].at = "sent" THEN 1 ELSE 0
  BY DEF SendInv, RowInv, OneOwner, TickIsTrue, Owns

(* The disburser's steps keep it. *)
LEMMA TicksKeepOwnership ==
  ASSUME ~Lossy, TypeOK, SendInv, (\E w \in Workers : WorkerStep(w)) \/ Crash
  PROVE  SendInv'
  <1> USE DEF TypeOK, planVars, moneyVars, payoutVars
  <1>1. CASE \/ Crash
             \/ \E w \in Workers : TickStarts(w) \/ TickEnds(w) \/ SettledStamped(w)
    <2>1. UNCHANGED <<status, transfers, operator>>
      BY <1>1 DEF Crash, TickStarts, TickEnds, SettledStamped, NextPayout, Answered
    <2>2. \A p \in Payouts, w \in Workers :
             Owns(w, p)' => Owns(w, p) /\ worker'[w].at = worker[w].at
      <3>1. PICK w \in Workers : /\ \A v \in Workers \ {w} : worker'[v] = worker[v]
                                 /\ worker'[w].at \in {"idle", "loop"}
        <4>1. CASE Crash
          BY <4>1 DEF Crash, Resting
        <4>2. ASSUME NEW w \in Workers, TickStarts(w) \/ TickEnds(w)
              PROVE  /\ \A v \in Workers \ {w} : worker'[v] = worker[v]
                     /\ worker'[w].at \in {"idle", "loop"}
          <5>1. [Resting EXCEPT !.at = "loop", !.batch = Oldest].at = "loop"
            BY DEF Resting
          <5>2. Resting.at = "idle"
            BY DEF Resting
          <5> QED
            BY <4>2, <5>1, <5>2 DEF TickStarts, TickEnds
        <4>3. ASSUME NEW w \in Workers, SettledStamped(w)
              PROVE  /\ \A v \in Workers \ {w} : worker'[v] = worker[v]
                     /\ worker'[w].at \in {"idle", "loop"}
          BY <4>3, NoPayoutMoves DEF SettledStamped, NextPayout, Answered, Moves, Stages
        <4> QED
          BY <1>1, <4>1, <4>2, <4>3
      <3> QED
        BY <3>1 DEF Owns
    <2> QED
      BY <2>1, <2>2, UntouchedRow DEF SendInv, Retrying
  <1>2. ASSUME NEW w \in Workers, NEW p \in Payouts, PayoutClaimed(w, p) PROVE SendInv'
    <2>1. CASE status[p] = "PENDING"
      <3>1. Moves(w, "send", p, worker[w].batch \ {p})
        BY <1>2, <2>1, WorkerMoves DEF PayoutClaimed, Stages
      <3>2. \A v \in Workers : ~Owns(v, p)
        BY <2>1 DEF SendInv, RowInv, TickIsTrue
      <3>3. status'[p] = "SENDING" /\ transfers'[p] = 0 /\ operator' = operator
        BY <1>2, <2>1 DEF PayoutClaimed, SendInv, RowInv, RowIsTrue
      <3>4. \A q \in Payouts \ {p} : /\ status'[q] = status[q] /\ transfers'[q] = transfers[q]
                                      /\ ~Owns(w, q)
        BY <1>2, <2>1 DEF PayoutClaimed, Owns
      <3>5. RowIsTrue(p)' /\ TickIsTrue(w, p)'
        BY <3>1, <3>3 DEF RowIsTrue, TickIsTrue, Moves
      <3> QED
        BY <2>1, <3>1, <3>2, <3>3, <3>4, <3>5, OwnRow DEF Stages
    <2>2. CASE status[p] # "PENDING"
      <3>1. Moves(w, worker[w].at, worker[w].payout, worker[w].batch \ {p})
        BY <1>2, <2>2, WorkerMoves DEF PayoutClaimed, Stages
      <3>2. UNCHANGED <<status, transfers, operator>>
        BY <1>2, <2>2 DEF PayoutClaimed
      <3>3. \A q \in Payouts, v \in Workers :
              Owns(v, q)' => Owns(v, q) /\ worker'[v].at = worker[v].at
        BY <3>1 DEF Owns, Moves
      <3> QED
        BY <3>2, <3>3, UntouchedRow DEF SendInv, Retrying
    <2> QED
      BY <2>1, <2>2
  <1>3. ASSUME NEW w \in Workers, NEW p \in Payouts, TransferAccepted(w, p) PROVE SendInv'
    <2>1. Owns(w, p) /\ UNCHANGED operator
      BY <1>3 DEF TransferAccepted, Answered, Owns
    <2>2. Moves(w, "sent", p, worker[w].batch)
      BY <1>3, WorkerMoves DEF TransferAccepted, Answered, Stages
    <2>3. \A q \in Payouts \ {p} : status'[q] = status[q] /\ transfers'[q] = transfers[q]
      BY <1>3 DEF TransferAccepted, Answered
    <2>4. RowIsTrue(p)' /\ TickIsTrue(w, p)'
      <3>1. worker[w].at = "send" /\ status[p] = "SENDING"
        BY <1>3, <2>1, OwnersAlone DEF TransferAccepted
      <3>2. transfers[p] = 0
        BY <2>1, <3>1, OwnersAlone
      <3>3. status'[p] = "SENDING" /\ transfers'[p] = 1
        BY <1>3, <3>1, <3>2 DEF TransferAccepted, Answered
      <3> QED
        BY <2>2, <3>3 DEF RowIsTrue, TickIsTrue, Owns, Moves
    <2> QED
      BY <2>1, <2>2, <2>3, <2>4, OwnersAlone, OwnRow DEF Stages
  <1>4. ASSUME NEW w \in Workers, NEW p \in Payouts, TransferRejected(w, p) PROVE SendInv'
    <2>1. Owns(w, p) /\ UNCHANGED operator
      BY <1>4 DEF TransferRejected, Answered, Owns
    <2>2. Moves(w, "fail", p, worker[w].batch)
      BY <1>4, WorkerMoves DEF TransferRejected, Answered, Stages
    <2>3. \A q \in Payouts \ {p} : status'[q] = status[q] /\ transfers'[q] = transfers[q]
      BY <1>4 DEF TransferRejected, Answered
    <2>4. RowIsTrue(p)' /\ TickIsTrue(w, p)'
      BY <1>4, <2>1, <2>2, OwnersAlone DEF TransferRejected, Answered, RowIsTrue, TickIsTrue,
         Owns, Moves
    <2> QED
      BY <2>1, <2>2, <2>3, <2>4, OwnersAlone, OwnRow DEF Stages
  <1>5. ASSUME NEW w \in Workers, NEW p \in Payouts, TransferUnclear(w, p) PROVE SendInv'
    <2>1. Owns(w, p) /\ UNCHANGED operator
      BY <1>5 DEF TransferUnclear, Answered, Owns
    <2>2. Moves(w, "release", p, worker[w].batch)
      BY <1>5, WorkerMoves DEF TransferUnclear, Answered, Stages
    <2>3. \A q \in Payouts \ {p} : status'[q] = status[q] /\ transfers'[q] = transfers[q]
      BY <1>5 DEF TransferUnclear, Answered
    <2>4. RowIsTrue(p)' /\ TickIsTrue(w, p)'
      <3>1. worker[w].at = "send" /\ status[p] = "SENDING"
        BY <1>5, <2>1, OwnersAlone DEF TransferUnclear
      <3>2. transfers[p] = 0
        BY <2>1, <3>1, OwnersAlone
      <3>3. status'[p] = "SENDING" /\ transfers'[p] = 0
        BY <1>5, <3>1, <3>2 DEF TransferUnclear, Answered
      <3> QED
        BY <2>2, <3>3 DEF RowIsTrue, TickIsTrue, Owns, Moves
    <2> QED
      BY <2>1, <2>2, <2>3, <2>4, OwnersAlone, OwnRow DEF Stages
  <1>6. ASSUME NEW w \in Workers, NEW p \in Payouts, SentWritten(w, p) PROVE SendInv'
    <2>1. Owns(w, p) /\ UNCHANGED operator
      BY <1>6 DEF SentWritten, Owns
    <2>2. Moves(w, "settle", p, worker[w].batch)
      BY <1>6, WorkerMoves DEF SentWritten, Stages
    <2>3. \A q \in Payouts \ {p} : status'[q] = status[q] /\ transfers'[q] = transfers[q]
      BY <1>6 DEF SentWritten
    <2>4. RowIsTrue(p)' /\ TickIsTrue(w, p)'
      <3>1. worker[w].at = "sent" /\ status[p] = "SENDING"
        BY <1>6, <2>1, OwnersAlone DEF SentWritten
      <3>2. transfers[p] = 1
        BY <2>1, <3>1, OwnersAlone
      <3>3. status'[p] = "SENT" /\ transfers'[p] = 1
        BY <1>6, <3>1, <3>2 DEF SentWritten
      <3> QED
        BY <2>2, <3>3 DEF RowIsTrue, TickIsTrue, Owns, Moves
    <2> QED
      BY <2>1, <2>2, <2>3, <2>4, OwnersAlone, OwnRow DEF Stages
  <1>7. ASSUME NEW w \in Workers, NEW p \in Payouts, FailureWritten(w, p) PROVE SendInv'
    <2>1. Owns(w, p) /\ UNCHANGED operator
      BY <1>7 DEF FailureWritten, NextPayout, Owns
    <2>2. Moves(w, "loop", NoPayout, worker[w].batch)
      BY <1>7, NoPayoutMoves DEF FailureWritten, NextPayout, Stages
    <2>3. \A q \in Payouts \ {p} : status'[q] = status[q] /\ transfers'[q] = transfers[q]
      BY <1>7 DEF FailureWritten, NextPayout
    <2>4. RowIsTrue(p)' /\ TickIsTrue(w, p)'
      <3>1. worker[w].at = "fail" /\ status[p] = "SENDING"
        BY <1>7, <2>1, OwnersAlone DEF FailureWritten
      <3>2. transfers[p] = 0
        BY <2>1, <3>1, OwnersAlone
      <3>3. status'[p] = "FAILED" /\ transfers'[p] = 0
        BY <1>7, <3>1, <3>2 DEF FailureWritten, NextPayout
      <3> QED
        BY <2>2, <3>3 DEF RowIsTrue, TickIsTrue, Owns, Moves
    <2> QED
      BY <2>1, <2>2, <2>3, <2>4, OwnersAlone, OwnRow DEF Stages
  <1>8. ASSUME NEW w \in Workers, NEW p \in Payouts, ClaimReleased(w, p) PROVE SendInv'
    <2>1. Owns(w, p) /\ UNCHANGED operator
      BY <1>8 DEF ClaimReleased, NextPayout, Owns
    <2>2. Moves(w, "loop", NoPayout, worker[w].batch)
      BY <1>8, NoPayoutMoves DEF ClaimReleased, NextPayout, Stages
    <2>3. \A q \in Payouts \ {p} : status'[q] = status[q] /\ transfers'[q] = transfers[q]
      BY <1>8 DEF ClaimReleased, NextPayout
    <2>4. RowIsTrue(p)' /\ TickIsTrue(w, p)'
      <3>1. worker[w].at = "release" /\ status[p] = "SENDING"
        BY <1>8, <2>1, OwnersAlone DEF ClaimReleased
      <3>2. transfers[p] = 0
        BY <2>1, <3>1, OwnersAlone
      <3>3. status'[p] = "PENDING" /\ transfers'[p] = 0
        BY <1>8, <3>1, <3>2 DEF ClaimReleased, NextPayout
      <3> QED
        BY <2>2, <3>3 DEF RowIsTrue, TickIsTrue, Owns, Moves
    <2> QED
      BY <2>1, <2>2, <2>3, <2>4, OwnersAlone, OwnRow DEF Stages
  <1> QED
    BY <1>1, <1>2, <1>3, <1>4, <1>5, <1>6, <1>7, <1>8 DEF WorkerStep, SendStep

(* So do the operators', as long as one works at a time: a second retry of  *)
(* the same payout, checked before the first, could undo a transfer.        *)
LEMMA OperatorsKeepOwnership ==
  ASSUME \A o, q \in Operators : o = q, TypeOK, SendInv,
         \/ \E o \in Operators, m \in Milestones : ReviewStep(o, m)
         \/ \E o \in Operators, p \in Payouts : RetryStep(o, p)
  PROVE  SendInv'
  <1> USE DEF TypeOK, planVars, moneyVars, payoutVars
  <1>1. ASSUME UNCHANGED <<status, transfers, worker>>,
               \A o \in Operators, p \in Payouts : Retrying(o, p)' => Retrying(o, p)
        PROVE SendInv'
    BY <1>1, UntouchedRow DEF SendInv, Owns
  <1>2. ASSUME NEW o \in Operators, NEW m \in Milestones,
               ReviewChecked(o, m) \/ ReleaseChecked(o, m)
        PROVE SendInv'
    <2>1. \A q \in Operators : operator'[q].kind # "retry"
      <3>1. \A k \in {"approve", "reject", "release"} :
              [NoOperation EXCEPT !.at = "checked", !.kind = k, !.target = m].kind # "retry"
        BY DEF NoOperation
      <3> QED
        BY <1>2, <3>1 DEF ReviewChecked, ReleaseChecked, OperationBegins
    <2> QED
      BY <1>1, <1>2, <2>1 DEF ReviewChecked, ReleaseChecked, OperationBegins, Retrying
  <1>3. ASSUME NEW o \in Operators, NEW m \in Milestones,
               EvidenceApproved(o, m) \/ EvidenceRejected(o, m)
        PROVE SendInv'
    BY <1>1, <1>3 DEF EvidenceApproved, EvidenceRejected, OperationEnds, NoOperation, Retrying
  <1>4. ASSUME NEW o \in Operators, NEW m \in Milestones, ReleaseRead(o, m) PROVE SendInv'
    <2>1. \A q \in Operators : operator'[q].kind # "retry"
      BY <1>4 DEF ReleaseRead, OperatorLocals
    <2> QED
      BY <1>1, <1>4, <2>1 DEF ReleaseRead, Retrying
  <1>5. ASSUME NEW o \in Operators, NEW m \in Milestones, NEW p \in Payouts,
               MilestoneReleased(o, m, p)
        PROVE SendInv'
    <2>1. \A q \in Operators : operator'[q].kind # "retry"
      BY <1>5 DEF MilestoneReleased, OperationEnds, NoOperation
    <2> QED
      BY <1>5, <2>1 DEF MilestoneReleased, OperationEnds, SendInv, RowInv, RowIsTrue,
         OneOwner, TickIsTrue, Owns, Retrying
  <1>6. ASSUME NEW o \in Operators, NEW p \in Payouts, RetryChecked(o, p) PROVE SendInv'
    <2>1. \A q \in Operators, r \in Payouts : Retrying(q, r)' => r = p
      BY <1>6 DEF RetryChecked, OperationBegins, Retrying
    <2> QED
      BY <1>6, <2>1 DEF RetryChecked, OperationBegins, SendInv, RowInv, RowIsTrue, OneOwner,
         TickIsTrue, Owns
  <1>7. ASSUME NEW o \in Operators, NEW p \in Payouts, PayoutRetried(o, p) PROVE SendInv'
    <2>1. \A q \in Operators : operator'[q].kind # "retry"
      BY <1>7 DEF PayoutRetried, OperationEnds, NoOperation
    <2>2. status[p] = "FAILED"
      BY <1>7 DEF PayoutRetried, SendInv, RowInv, Retrying
    <2> QED
      BY <1>7, <2>1, <2>2 DEF PayoutRetried, OperationEnds, SendInv, RowInv, RowIsTrue,
         OneOwner, TickIsTrue, Owns, Retrying
  <1> QED
    BY <1>2, <1>3, <1>4, <1>5, <1>6, <1>7 DEF ReviewStep, RetryStep

(* Ownership is an invariant when no answer is lost and one operator works. *)
LEMMA OwnershipAlways ==
  ASSUME ~Lossy, \A o, q \in Operators : o = q
  PROVE  Spec => []SendInv
<1>1. Init => SendInv
  BY DEF Init, SendInv, RowInv, RowIsTrue, OneOwner, TickIsTrue, Owns, Retrying, Resting,
     NoOperation
<1>2. TypeOK /\ SendInv /\ [Next]_vars => SendInv'
  <2> SUFFICES ASSUME TypeOK, SendInv, [Next]_vars PROVE SendInv'
    OBVIOUS
  <2>1. CASE UNCHANGED <<payoutVars, operator, worker>>
    BY <2>1, UntouchedRow DEF SendInv, Owns, Retrying, payoutVars
  <2>2. ASSUME NEW m \in Milestones, NEW t \in Tabs, EvidenceStep(m, t) PROVE SendInv'
    BY <2>1, <2>2 DEF EvidenceStep, EvidenceChecked, EvidenceSubmitted
  <2>3. CASE DeliveryChecked \/ Delivered
    BY <2>1, <2>3 DEF DeliveryChecked, Delivered
  <2>4. ASSUME NEW c \in DOMAIN Late, LateCapture(c) PROVE SendInv'
    BY <2>1, <2>4 DEF LateCapture, planVars
  <2>5. ASSUME NEW c \in DOMAIN Refundable, RefundChecked(c) \/ Refunded(c) PROVE SendInv'
    BY <2>1, <2>5 DEF RefundChecked, Refunded, planVars
  <2>6. CASE UNCHANGED vars
    BY <2>1, <2>6 DEF vars, planVars
  <2> QED
    BY <2>2, <2>3, <2>4, <2>5, <2>6, TicksKeepOwnership, OperatorsKeepOwnership DEF Next
<1> QED
  BY PayoutTypes, <1>1, <1>2, PTL DEF Spec

(* However ticks overlap and die, no payout is transferred twice            *)
(* (TransferredOnce), provided the provider's answers arrive and operators  *)
(* do not overlap: the two assumptions the code does not secure.            *)
THEOREM PayoutsTransferOnce ==
  ASSUME ~Lossy, \A o, q \in Operators : o = q
  PROVE  Spec => []TransferredOnce
<1>1. SendInv => TransferredOnce
  BY DEF SendInv, RowInv, RowIsTrue, TransferredOnce
<1> QED
  BY OwnershipAlways, <1>1, PTL

(* Under the same assumptions a payout that was transferred stays claimed   *)
(* or SENT (TransferredIsNotOffered).                                       *)
THEOREM TransferredStaysClaimed ==
  ASSUME ~Lossy, \A o, q \in Operators : o = q
  PROVE  Spec => []TransferredIsNotOffered
<1>1. TypeOK /\ SendInv => TransferredIsNotOffered
  BY DEF TypeOK, SendInv, RowInv, RowIsTrue, TransferredIsNotOffered
<1> QED
  BY PayoutTypes, OwnershipAlways, <1>1, PTL

-----------------------------------------------------------------------------
(* A payout row stays once it exists, whatever stale submission or retry    *)
(* comes after, so a milestone seen RELEASED by the close-out has one for   *)
(* good.                                                                    *)
HasPayout(m) == \E p \in Payouts : status[p] # "NONE" /\ row[p].milestone = m

DeliveryInv ==
  /\ \A m \in Milestones : milestone[m] = "RELEASED" => HasPayout(m)
  /\ delivery \/ project = "DELIVERED" => \A m \in Milestones : HasPayout(m)

(* No step but a release touches a row or makes a status NONE. *)
LEMMA RowsStay ==
  ASSUME TypeOK, [Next]_vars, NEW p \in Payouts, status[p] # "NONE"
  PROVE  status'[p] # "NONE" /\ row'[p] = row[p]
  <1> USE DEF TypeOK, planVars, moneyVars, payoutVars
  <1>1. ASSUME NEW o \in Operators, NEW m \in Milestones, NEW q \in Payouts,
               MilestoneReleased(o, m, q)
        PROVE  status'[p] # "NONE" /\ row'[p] = row[p]
    BY <1>1 DEF MilestoneReleased
  <1>2. ASSUME NEW o \in Operators, NEW q \in Payouts, RetryStep(o, q)
        PROVE  status'[p] # "NONE" /\ row'[p] = row[p]
    BY <1>2 DEF RetryStep, RetryChecked, PayoutRetried, OperationBegins
  <1>3. ASSUME NEW w \in Workers, NEW q \in Payouts, SendStep(w, q)
        PROVE  status'[p] # "NONE" /\ row'[p] = row[p]
    BY <1>3 DEF SendStep, PayoutClaimed, TransferAccepted, TransferRejected, TransferUnclear,
       SentWritten, FailureWritten, ClaimReleased, Answered, NextPayout
  <1>4. ASSUME NEW o \in Operators, NEW m \in Milestones,
               \/ ReviewChecked(o, m) \/ EvidenceApproved(o, m) \/ EvidenceRejected(o, m)
               \/ ReleaseChecked(o, m) \/ ReleaseRead(o, m)
        PROVE  UNCHANGED payoutVars
    BY <1>4 DEF ReviewChecked, EvidenceApproved, EvidenceRejected, ReleaseChecked, ReleaseRead,
       OperationBegins
  <1>5. ASSUME \/ \E m \in Milestones, t \in Tabs : EvidenceStep(m, t)
               \/ DeliveryChecked \/ Delivered \/ Crash \/ UNCHANGED vars
               \/ \E c \in DOMAIN Late : LateCapture(c)
               \/ \E c \in DOMAIN Refundable : RefundChecked(c) \/ Refunded(c)
               \/ \E w \in Workers : TickStarts(w) \/ TickEnds(w) \/ SettledStamped(w)
        PROVE  UNCHANGED <<status, row>>
    BY <1>5 DEF EvidenceStep, EvidenceChecked, EvidenceSubmitted, DeliveryChecked, Delivered,
       Crash, vars, LateCapture, RefundChecked, Refunded, TickStarts, TickEnds,
       SettledStamped, NextPayout, Answered
  <1> QED
    BY <1>1, <1>2, <1>3, <1>4, <1>5 DEF Next, ReviewStep, WorkerStep

(* Only a release makes a milestone RELEASED; only the close-out's check    *)
(* opens a delivery, and only its write delivers.                           *)
LEMMA ReleasedOrDelivered ==
  ASSUME TypeOK, [Next]_vars
  PROVE  /\ \A m \in Milestones : milestone'[m] = "RELEASED" =>
              \/ milestone[m] = "RELEASED"
              \/ \E o \in Operators, p \in Payouts : MilestoneReleased(o, m, p)
         /\ delivery' => delivery \/ \A m \in Milestones : milestone[m] = "RELEASED"
         /\ project' = "DELIVERED" => project = "DELIVERED" \/ delivery
  <1> DEFINE Kept == UNCHANGED <<milestone, delivery, project>>
  <1> USE DEF TypeOK, planVars, moneyVars, payoutVars
  <1>1. ASSUME NEW m \in Milestones, NEW t \in Tabs, EvidenceStep(m, t)
        PROVE  /\ UNCHANGED <<delivery, project>>
               /\ \A n \in Milestones : milestone'[n] = "RELEASED" => milestone[n] = "RELEASED"
    BY <1>1 DEF EvidenceStep, EvidenceChecked, EvidenceSubmitted
  <1>2. ASSUME NEW o \in Operators, NEW m \in Milestones,
               EvidenceApproved(o, m) \/ EvidenceRejected(o, m)
        PROVE  /\ UNCHANGED <<delivery, project>>
               /\ \A n \in Milestones : milestone'[n] = "RELEASED" => milestone[n] = "RELEASED"
    BY <1>2 DEF EvidenceApproved, EvidenceRejected, OperationEnds
  <1>3. ASSUME NEW o \in Operators, NEW m \in Milestones,
               ReviewChecked(o, m) \/ ReleaseChecked(o, m) \/ ReleaseRead(o, m)
        PROVE  Kept
    BY <1>3 DEF ReviewChecked, ReleaseChecked, ReleaseRead, OperationBegins
  <1>4. ASSUME NEW o \in Operators, NEW m \in Milestones, NEW p \in Payouts,
               MilestoneReleased(o, m, p)
        PROVE  /\ UNCHANGED delivery /\ (project' = "DELIVERED" => project = "DELIVERED")
               /\ \A n \in Milestones \ {m} : milestone'[n] = milestone[n]
    BY <1>4 DEF MilestoneReleased, OperationEnds
  <1>5. ASSUME NEW o \in Operators, NEW p \in Payouts, RetryStep(o, p) PROVE Kept
    BY <1>5 DEF RetryStep, RetryChecked, PayoutRetried, OperationBegins, OperationEnds
  <1>6. CASE DeliveryChecked \/ Delivered
    BY <1>6 DEF DeliveryChecked, Delivered
  <1>7. ASSUME NEW w \in Workers, NEW p \in Payouts, SendStep(w, p) PROVE Kept
    BY <1>7 DEF SendStep, PayoutClaimed, TransferAccepted, TransferRejected, TransferUnclear,
       SentWritten, FailureWritten, ClaimReleased, Answered, NextPayout
  <1>8. ASSUME \/ Crash \/ UNCHANGED vars
               \/ \E c \in DOMAIN Late : LateCapture(c)
               \/ \E c \in DOMAIN Refundable : RefundChecked(c) \/ Refunded(c)
               \/ \E w \in Workers : TickStarts(w) \/ TickEnds(w) \/ SettledStamped(w)
        PROVE  Kept
    BY <1>8 DEF Crash, vars, LateCapture, RefundChecked, Refunded, TickStarts, TickEnds,
       SettledStamped, NextPayout, Answered
  <1> QED
    BY <1>1, <1>2, <1>3, <1>4, <1>5, <1>6, <1>7, <1>8 DEF Next, ReviewStep, RetryStep, WorkerStep

(* A delivered campaign has a payout for every milestone                    *)
(* (DeliveredIsReleased), with any number of operators and whatever the     *)
(* provider answers.                                                        *)
THEOREM DeliveryOwesNothing == Spec => []DeliveredIsReleased
<1>1. Init => DeliveryInv
  BY DEF Init, DeliveryInv
<1>2. TypeOK /\ DeliveryInv /\ [Next]_vars => DeliveryInv'
  <2> SUFFICES ASSUME TypeOK, DeliveryInv, [Next]_vars PROVE DeliveryInv'
    OBVIOUS
  <2>1. ASSUME NEW m \in Milestones, HasPayout(m) PROVE HasPayout(m)'
    BY <2>1, RowsStay DEF HasPayout
  <2>2. ASSUME NEW o \in Operators, NEW m \in Milestones, NEW p \in Payouts,
               MilestoneReleased(o, m, p)
        PROVE  HasPayout(m)'
    BY <2>2 DEF MilestoneReleased, HasPayout, TypeOK
  <2> QED
    BY <2>1, <2>2, ReleasedOrDelivered DEF DeliveryInv
<1>3. DeliveryInv => DeliveredIsReleased
  BY DEF DeliveryInv, DeliveredIsReleased, HasPayout
<1> QED
  BY PayoutTypes, <1>1, <1>2, <1>3, PTL DEF Spec

-----------------------------------------------------------------------------
(* A tick that has the provider's yes knows of a transfer, and transfers    *)
(* are never taken back.                                                    *)
YesIsTransferred == \A w \in Workers, p \in Payouts :
  worker[w].at = "sent" /\ worker[w].payout = p => transfers[p] > 0

(* What the creator, the operators and the campaign's money do leaves the   *)
(* transfers and the ticks alone, and marks no payout SENT.                 *)
LEMMA PlanSendsNothing ==
  ASSUME TypeOK,
         \/ \E m \in Milestones, t \in Tabs : EvidenceStep(m, t)
         \/ \E o \in Operators, m \in Milestones : ReviewStep(o, m)
         \/ \E o \in Operators, q \in Payouts : RetryStep(o, q)
         \/ DeliveryChecked \/ Delivered \/ UNCHANGED vars
         \/ \E c \in DOMAIN Late : LateCapture(c)
         \/ \E c \in DOMAIN Refundable : RefundChecked(c) \/ Refunded(c)
  PROVE  /\ UNCHANGED <<transfers, worker>>
         /\ \A p \in Payouts : status'[p] = "SENT" => status[p] = "SENT"
  <1> DEFINE Silent == /\ UNCHANGED <<transfers, worker>>
                     /\ \A p \in Payouts : status'[p] = "SENT" => status[p] = "SENT"
  <1> USE DEF planVars, moneyVars, payoutVars
  <1>1. ASSUME NEW m \in Milestones, NEW t \in Tabs, EvidenceStep(m, t) PROVE Silent
    BY <1>1 DEF EvidenceStep, EvidenceChecked, EvidenceSubmitted
  <1>2. ASSUME NEW o \in Operators, NEW m \in Milestones,
               \/ ReviewChecked(o, m) \/ EvidenceApproved(o, m) \/ EvidenceRejected(o, m)
               \/ ReleaseChecked(o, m) \/ ReleaseRead(o, m)
        PROVE  Silent
    BY <1>2 DEF ReviewChecked, EvidenceApproved, EvidenceRejected, ReleaseChecked, ReleaseRead,
       OperationBegins, OperationEnds
  <1>3. ASSUME NEW o \in Operators, NEW m \in Milestones, NEW p \in Payouts,
               MilestoneReleased(o, m, p)
        PROVE  Silent
    BY <1>3 DEF TypeOK, MilestoneReleased, OperationEnds
  <1>4. ASSUME NEW o \in Operators, NEW p \in Payouts, RetryStep(o, p) PROVE Silent
    BY <1>4 DEF TypeOK, RetryStep, RetryChecked, PayoutRetried, OperationBegins, OperationEnds
  <1>5. ASSUME DeliveryChecked \/ Delivered \/ UNCHANGED vars PROVE Silent
    BY <1>5 DEF DeliveryChecked, Delivered, vars
  <1>6. ASSUME NEW c \in DOMAIN Late, LateCapture(c) PROVE Silent
    BY <1>6 DEF LateCapture
  <1>7. ASSUME NEW c \in DOMAIN Refundable, RefundChecked(c) \/ Refunded(c) PROVE Silent
    BY <1>7 DEF RefundChecked, Refunded
  <1> HIDE DEF Silent
  <1>8. Silent
    BY <1>1, <1>2, <1>3, <1>4, <1>5, <1>6, <1>7 DEF ReviewStep
  <1> QED
    BY <1>8 DEF Silent

(* The bookkeeping of a tick sends nothing either. *)
LEMMA TickSendsNothing ==
  ASSUME (\E w \in Workers : TickStarts(w) \/ TickEnds(w) \/ SettledStamped(w)) \/ Crash
  PROVE  UNCHANGED <<transfers, status>>
  BY DEF TickStarts, TickEnds, SettledStamped, NextPayout, Answered, Crash, payoutVars

LEMMA TransfersGrow ==
  ASSUME TypeOK, [Next]_vars, NEW p \in Payouts, transfers[p] > 0
  PROVE  transfers'[p] > 0
  <1>1. ASSUME NEW w \in Workers, NEW q \in Payouts, SendStep(w, q)
        PROVE  transfers'[p] > 0
    <2>1. transfers' = transfers \/ transfers' = [transfers EXCEPT ![q] = @ + 1]
      BY <1>1 DEF SendStep, PayoutClaimed, TransferAccepted, TransferRejected,
         TransferUnclear, SentWritten, FailureWritten, ClaimReleased, NextPayout
    <2> QED
      BY <2>1 DEF TypeOK
  <1> QED
    BY <1>1, PlanSendsNothing, TickSendsNothing DEF Next, WorkerStep

(* A tick says yes only after the transfer, and no other step moves it there. *)
LEMMA YesStep ==
  ASSUME TypeOK, YesIsTransferred, [Next]_vars
  PROVE  YesIsTransferred'
  <1> USE DEF TypeOK, planVars, moneyVars, payoutVars
  <1>1. ASSUME \A w \in Workers : worker'[w].at = "sent" => worker'[w] = worker[w]
        PROVE  YesIsTransferred'
    <2> SUFFICES ASSUME NEW w \in Workers, NEW p \in Payouts,
                        worker'[w].at = "sent", worker'[w].payout = p
                 PROVE  transfers'[p] > 0
      BY DEF YesIsTransferred
    <2>1. transfers[p] > 0
      BY <1>1 DEF YesIsTransferred
    <2> QED
      BY <2>1, TransfersGrow
  <1>2. ASSUME NEW w \in Workers, NEW at \in Stages \ {"sent"}, NEW n, NEW b, Moves(w, at, n, b)
        PROVE  YesIsTransferred'
    <2>1. \A v \in Workers : worker'[v].at = "sent" => worker'[v] = worker[v]
      BY <1>2 DEF Moves
    <2> QED
      BY <1>1, <2>1
  <1>3. ASSUME NEW w \in Workers, NEW p \in Payouts, SendStep(w, p) PROVE YesIsTransferred'
    <2>1. CASE TransferAccepted(w, p)
      <3>1. Moves(w, "sent", p, worker[w].batch)
        BY <2>1, WorkerMoves DEF TransferAccepted, Answered, Stages
      <3>2. transfers'[p] > 0
        BY <2>1 DEF TransferAccepted
      <3> SUFFICES ASSUME NEW v \in Workers, NEW q \in Payouts,
                          worker'[v].at = "sent", worker'[v].payout = q
                   PROVE  transfers'[q] > 0
        BY DEF YesIsTransferred
      <3>3. v # w => transfers[q] > 0
        BY <3>1 DEF Moves, YesIsTransferred
      <3>4. v = w => q = p
        BY <3>1 DEF Moves
      <3> QED
        BY <3>2, <3>3, <3>4, TransfersGrow
    <2>2. CASE TransferRejected(w, p)
      BY <1>2, <2>2, WorkerMoves DEF TransferRejected, Answered, Stages
    <2>3. CASE TransferUnclear(w, p)
      BY <1>2, <2>3, WorkerMoves DEF TransferUnclear, Answered, Stages
    <2>4. CASE SentWritten(w, p)
      BY ZenonT(60), <1>2, <2>4, WorkerMoves DEF SentWritten, Stages
    <2>5. CASE FailureWritten(w, p) \/ ClaimReleased(w, p)
      BY <1>2, <2>5, NoPayoutMoves DEF FailureWritten, ClaimReleased, NextPayout, Stages
    <2>6. CASE PayoutClaimed(w, p)
      <3>1. worker[w].at = "loop"
        BY <2>6 DEF PayoutClaimed
      <3> QED
        BY ZenonT(60), <1>2, <2>6, <3>1, WorkerMoves DEF PayoutClaimed, Stages
    <2> QED
      BY <1>3, <2>1, <2>2, <2>3, <2>4, <2>5, <2>6 DEF SendStep
  <1>4. ASSUME NEW w \in Workers, SettledStamped(w) PROVE YesIsTransferred'
    BY <1>2, <1>4, NoPayoutMoves DEF SettledStamped, NextPayout, Answered, Stages
  <1>5. ASSUME (\E w \in Workers : TickStarts(w) \/ TickEnds(w)) \/ Crash
        PROVE  YesIsTransferred'
    <2>1. \A w \in Workers : worker'[w].at = "sent" => worker'[w] = worker[w]
      <3> DEFINE loop == [Resting EXCEPT !.at = "loop", !.batch = Oldest]
      <3>1. Resting.at # "sent" /\ loop.at # "sent"
        BY DEF Resting
      <3>2. \E w \in Workers : \/ worker' = [worker EXCEPT ![w] = Resting]
                              \/ worker' = [worker EXCEPT ![w] = loop]
        BY <1>5 DEF TickStarts, TickEnds, Crash
      <3> HIDE DEF loop
      <3> QED
        BY <3>1, <3>2
    <2> QED
      BY <1>1, <2>1
  <1>6. UNCHANGED worker => YesIsTransferred'
    BY <1>1
  <1> QED
    BY <1>3, <1>4, <1>5, <1>6, PlanSendsNothing DEF Next, WorkerStep

(* A status of SENT is written by a tick that has the provider's yes, and   *)
(* by nothing else.                                                         *)
LEMMA SentStep ==
  ASSUME TypeOK, YesIsTransferred, SentIsTransferred, [Next]_vars
  PROVE  SentIsTransferred'
  <1> USE DEF TypeOK, planVars, moneyVars, payoutVars
  <1> SUFFICES ASSUME NEW p \in Payouts, status'[p] = "SENT" PROVE transfers'[p] > 0
    BY DEF SentIsTransferred
  <1>1. ASSUME NEW w \in Workers, NEW q \in Payouts, SendStep(w, q), status[p] # "SENT"
        PROVE  transfers[p] > 0
    <2>1. SentWritten(w, q) /\ q = p
      BY <1>1 DEF SendStep, PayoutClaimed, TransferAccepted, TransferRejected,
         TransferUnclear, SentWritten, FailureWritten, ClaimReleased, NextPayout, Answered
    <2> QED
      BY <2>1 DEF SentWritten, YesIsTransferred
  <1>2. status[p] = "SENT" \/ \E w \in Workers, q \in Payouts : SendStep(w, q)
    BY PlanSendsNothing, TickSendsNothing DEF Next, WorkerStep
  <1>3. transfers[p] > 0
    BY <1>1, <1>2 DEF SentIsTransferred
  <1> QED
    BY <1>3, TransfersGrow

(* A payout the creator is told is SENT was transferred (SentIsTransferred),*)
(* with any number of operators and ticks, lost answers and crashes.        *)
THEOREM SentWasTransferred == Spec => []SentIsTransferred
<1>1. Init => YesIsTransferred /\ SentIsTransferred
  BY DEF Init, YesIsTransferred, SentIsTransferred, Resting
<1>2. TypeOK /\ YesIsTransferred /\ SentIsTransferred /\ [Next]_vars
        => (YesIsTransferred /\ SentIsTransferred)'
  BY YesStep, SentStep
<1> QED
  BY PayoutTypes, <1>1, <1>2, PTL DEF Spec

-----------------------------------------------------------------------------
(* With one operator and one submission of a milestone at a time, what each *)
(* of them checked still holds when it writes; and a milestone that has a   *)
(* payout is RELEASED, from where nothing leads back.                       *)
Serial == (\A o, q \in Operators : o = q) /\ (\A t, u \in Tabs : t = u)

Exists(p) == status[p] # "NONE"

ChecksHold ==
  /\ \A m \in Milestones, t \in Tabs : evidence[m][t] => milestone[m] = "PENDING"
  /\ \A o \in Operators : operator[o].at # "idle" =>
       /\ operator[o].kind # "none"
       /\ operator[o].kind \in {"approve", "reject"} =>
            /\ operator[o].at = "checked"
            /\ operator[o].target \in Milestones => milestone[operator[o].target] = "SUBMITTED"
       /\ operator[o].kind = "release" /\ operator[o].target \in Milestones =>
            milestone[operator[o].target] = "APPROVED"
       /\ operator[o].kind = "retry" =>
            /\ operator[o].at = "checked"
            /\ operator[o].target \in Payouts => Exists(operator[o].target)

RowsReleased == \A p \in Payouts : Exists(p) =>
  row[p].milestone \in Milestones /\ milestone[row[p].milestone] = "RELEASED"

Works(w, p) == worker[w].at \notin {"idle", "loop"} /\ worker[w].payout = p
ClaimsExist == \A w \in Workers, p \in Payouts : Works(w, p) => Exists(p)

ReleaseInv == ChecksHold /\ RowsReleased /\ ClaimsExist /\ ReleasedOnce

(* A tick adds no row and touches none. *)
LEMMA TicksAddNothing ==
  ASSUME TypeOK, ClaimsExist, (\E w \in Workers : WorkerStep(w)) \/ Crash
  PROVE  /\ \A p \in Payouts : Exists(p)' <=> Exists(p)
         /\ UNCHANGED <<row, milestone, evidence, operator>>
         /\ ClaimsExist'
  <1> DEFINE Same == /\ \A p \in Payouts : Exists(p)' <=> Exists(p)
                    /\ UNCHANGED <<row, milestone, evidence, operator>>
                    /\ ClaimsExist'
  <1> USE DEF TypeOK, planVars, moneyVars, payoutVars
  <1>1. ASSUME NEW w \in Workers, NEW at \in Stages, NEW n, NEW b, Moves(w, at, n, b),
               at \notin {"idle", "loop"} => \A p \in Payouts : n = p => Exists(p)',
               \A p \in Payouts : Exists(p)' <=> Exists(p)
        PROVE  ClaimsExist'
    <2> SUFFICES ASSUME NEW v \in Workers, NEW p \in Payouts, Works(v, p)' PROVE Exists(p)'
      BY DEF ClaimsExist
    <2>1. CASE v = w
      BY <1>1, <2>1 DEF Moves, Works
    <2>2. CASE v # w
      BY <1>1, <2>2 DEF Moves, Works, ClaimsExist
    <2> QED
      BY <2>1, <2>2
  <1>2. ASSUME NEW w \in Workers, NEW p \in Payouts, SendStep(w, p) PROVE Same
    <2>1. CASE PayoutClaimed(w, p)
      <3>1. \A q \in Payouts : Exists(q)' <=> Exists(q)
        BY <2>1 DEF PayoutClaimed, Exists
      <3>2. \/ Moves(w, "send", p, worker[w].batch \ {p}) /\ Exists(p)'
            \/ Moves(w, "loop", worker[w].payout, worker[w].batch \ {p})
        BY <2>1, WorkerMoves DEF PayoutClaimed, Stages, Exists
      <3>3. ClaimsExist'
        BY <1>1, <3>1, <3>2 DEF Stages
      <3> QED
        BY <2>1, <3>1, <3>3 DEF PayoutClaimed
    <2>2. CASE TransferAccepted(w, p) \/ TransferRejected(w, p) \/ TransferUnclear(w, p)
      <3>1. UNCHANGED <<status, row, milestone, evidence, operator>>
        BY <2>2 DEF TransferAccepted, TransferRejected, TransferUnclear, Answered
      <3>2. Exists(p)
        BY <2>2 DEF TransferAccepted, TransferRejected, TransferUnclear, ClaimsExist, Works
      <3>3. \E at \in Stages : Moves(w, at, p, worker[w].batch)
        BY <2>2, WorkerMoves DEF TransferAccepted, TransferRejected, TransferUnclear,
           Answered, Stages
      <3>4. \A q \in Payouts : Exists(q)' <=> Exists(q)
        BY <3>1 DEF Exists
      <3> QED
        BY <1>1, <3>1, <3>2, <3>3, <3>4
    <2>3. CASE SentWritten(w, p)
      <3>1. Exists(p)
        BY <2>3 DEF SentWritten, ClaimsExist, Works
      <3>2. \A q \in Payouts : Exists(q)' <=> Exists(q)
        BY <2>3, <3>1 DEF SentWritten, Exists
      <3>3. \E at \in Stages : Moves(w, at, p, worker[w].batch)
        BY <2>3, WorkerMoves DEF SentWritten, Stages
      <3>4. ClaimsExist'
        BY <1>1, <3>1, <3>2, <3>3
      <3> QED
        BY <2>3, <3>2, <3>4 DEF SentWritten
    <2>4. CASE FailureWritten(w, p) \/ ClaimReleased(w, p)
      <3>1. Exists(p)
        BY <2>4 DEF FailureWritten, ClaimReleased, ClaimsExist, Works
      <3>2. \A q \in Payouts : Exists(q)' <=> Exists(q)
        BY <2>4, <3>1 DEF FailureWritten, ClaimReleased, Exists
      <3>3. Moves(w, "loop", NoPayout, worker[w].batch)
        BY <2>4, NoPayoutMoves DEF FailureWritten, ClaimReleased, NextPayout, Stages
      <3>4. ClaimsExist'
        BY <1>1, <3>2, <3>3 DEF Stages
      <3> QED
        BY <2>4, <3>2, <3>4 DEF FailureWritten, ClaimReleased, NextPayout
    <2> QED
      BY <1>2, <2>1, <2>2, <2>3, <2>4 DEF SendStep
  <1>3. ASSUME NEW w \in Workers, SettledStamped(w) PROVE Same
    <2>1. UNCHANGED <<status, row, milestone, evidence, operator>>
      BY <1>3 DEF SettledStamped, NextPayout, Answered
    <2>2. \A q \in Payouts : Exists(q)' <=> Exists(q)
      BY <2>1 DEF Exists
    <2>3. \/ Moves(w, "loop", NoPayout, worker[w].batch)
          \/ Moves(w, "release", worker[w].payout, worker[w].batch)
      BY <1>3, NoPayoutMoves DEF SettledStamped, NextPayout, Answered, Stages
    <2>4. \A p \in Payouts : worker[w].payout = p => Exists(p)
      BY <1>3 DEF SettledStamped, ClaimsExist, Works
    <2>5. ClaimsExist'
      BY <1>1, <2>2, <2>3, <2>4 DEF Stages
    <2> QED
      BY <2>1, <2>2, <2>5
  <1>4. ASSUME (\E w \in Workers : TickStarts(w) \/ TickEnds(w)) \/ Crash PROVE Same
    <2>1. UNCHANGED <<status, row, milestone, evidence, operator>>
      BY <1>4 DEF TickStarts, TickEnds, Crash
    <2>2. \A q \in Payouts : Exists(q)' <=> Exists(q)
      BY <2>1 DEF Exists
    <2>3. ClaimsExist'
      <3> DEFINE loop == [Resting EXCEPT !.at = "loop", !.batch = Oldest]
      <3>1. Resting.at = "idle" /\ loop.at = "loop"
        BY DEF Resting
      <3>2. \E w \in Workers : \/ worker' = [worker EXCEPT ![w] = Resting]
                              \/ worker' = [worker EXCEPT ![w] = loop]
        BY <1>4 DEF TickStarts, TickEnds, Crash
      <3> HIDE DEF loop
      <3> QED
        BY <2>2, <3>1, <3>2 DEF ClaimsExist, Works
    <2> QED
      BY <2>1, <2>2, <2>3
  <1> HIDE DEF Same
  <1>5. Same
    BY <1>2, <1>3, <1>4 DEF WorkerStep
  <1> QED
    BY <1>5 DEF Same

(* What adds no row and moves no milestone changes nothing for releases. *)
LEMMA QuietKeepsReleases ==
  ASSUME ReleaseInv, UNCHANGED <<row, milestone, evidence, operator>>,
         \A p \in Payouts : Exists(p)' <=> Exists(p), ClaimsExist'
  PROVE  ReleaseInv'
  <1>1. ChecksHold'
    BY DEF ReleaseInv, ChecksHold
  <1>2. RowsReleased'
    BY DEF ReleaseInv, RowsReleased
  <1>3. ReleasedOnce'
    BY DEF ReleaseInv, ReleasedOnce, Exists
  <1> QED
    BY <1>1, <1>2, <1>3 DEF ReleaseInv

(* The creator's submission moves a milestone that nobody else has in hand. *)
LEMMA EvidenceKeepsReleases ==
  ASSUME Serial, TypeOK, ReleaseInv, NEW m \in Milestones, NEW t \in Tabs, EvidenceStep(m, t)
  PROVE  ReleaseInv'
  <1> USE DEF TypeOK, planVars, moneyVars, payoutVars
  <1>1. UNCHANGED <<status, row, operator, worker>>
    BY DEF EvidenceStep, EvidenceChecked, EvidenceSubmitted
  <1>2. ClaimsExist' /\ ReleasedOnce'
    BY <1>1 DEF ReleaseInv, ClaimsExist, Works, Exists, ReleasedOnce
  <1>3. CASE EvidenceChecked(m, t)
    <2>1. \A n \in Milestones, u \in Tabs : evidence'[n][u] => milestone[n] = "PENDING"
      BY <1>3 DEF EvidenceChecked, ReleaseInv, ChecksHold
    <2>2. ChecksHold' /\ RowsReleased'
      BY <1>1, <1>3, <2>1 DEF EvidenceChecked, ReleaseInv, ChecksHold, RowsReleased, Exists
    <2> QED
      BY <1>2, <2>2 DEF ReleaseInv
  <1>4. CASE EvidenceSubmitted(m, t)
    <2>1. milestone[m] = "PENDING"
      BY <1>4 DEF EvidenceSubmitted, ReleaseInv, ChecksHold
    <2>2. \A n \in Milestones : milestone[n] # "PENDING" => milestone'[n] = milestone[n]
      BY <1>4, <2>1 DEF EvidenceSubmitted
    <2>3. \A n \in Milestones, u \in Tabs : evidence'[n][u] => milestone'[n] = "PENDING"
      <3>1. \A u \in Tabs : ~evidence'[m][u]
        BY <1>4 DEF EvidenceSubmitted, Serial
      <3>2. \A n \in Milestones \ {m} : evidence'[n] = evidence[n] /\ milestone'[n] = milestone[n]
        BY <1>4 DEF EvidenceSubmitted
      <3> QED
        BY <3>1, <3>2 DEF ReleaseInv, ChecksHold
    <2>4. ChecksHold' /\ RowsReleased'
      BY <1>1, <2>2, <2>3 DEF ReleaseInv, ChecksHold, RowsReleased, Exists
    <2> QED
      BY <1>2, <2>4 DEF ReleaseInv
  <1> QED
    BY <1>3, <1>4 DEF EvidenceStep

(* An operator's check: the milestone is where the write will find it. *)
LEMMA ChecksKeepReleases ==
  ASSUME Serial, TypeOK, ReleaseInv, NEW o \in Operators,
         \/ \E m \in Milestones : ReviewChecked(o, m) \/ ReleaseChecked(o, m)
         \/ \E p \in Payouts : RetryChecked(o, p)
  PROVE  ReleaseInv'
  <1> USE DEF TypeOK, planVars, moneyVars, payoutVars
  <1>1. UNCHANGED <<status, row, milestone, evidence, worker>>
    BY DEF ReviewChecked, ReleaseChecked, RetryChecked, OperationBegins
  <1>2. ClaimsExist' /\ RowsReleased' /\ ReleasedOnce'
    BY <1>1 DEF ReleaseInv, ClaimsExist, Works, Exists, RowsReleased, ReleasedOnce
  <1>3. ASSUME NEW kind, NEW x, OperationBegins(o, kind, x)
        PROVE  /\ operator'[o].at = "checked" /\ operator'[o].kind = kind
               /\ operator'[o].target = x
    BY <1>3 DEF OperationBegins, NoOperation
  <1>4. /\ operator'[o].kind # "none"
        /\ operator'[o].kind \in {"approve", "reject"} =>
             /\ operator'[o].at = "checked"
             /\ operator'[o].target \in Milestones
             /\ milestone[operator'[o].target] = "SUBMITTED"
        /\ operator'[o].kind = "release" =>
             operator'[o].target \in Milestones /\ milestone[operator'[o].target] = "APPROVED"
        /\ operator'[o].kind = "retry" =>
             /\ operator'[o].at = "checked"
             /\ operator'[o].target \in Payouts /\ Exists(operator'[o].target)
    <2>1. ASSUME NEW m \in Milestones, ReviewChecked(o, m)
          PROVE  \E k \in {"approve", "reject"} : OperationBegins(o, k, m) /\ milestone[m] = "SUBMITTED"
      BY <2>1 DEF ReviewChecked
    <2>2. ASSUME NEW m \in Milestones, ReleaseChecked(o, m)
          PROVE  OperationBegins(o, "release", m) /\ milestone[m] = "APPROVED"
      BY <2>2 DEF ReleaseChecked
    <2>3. ASSUME NEW p \in Payouts, RetryChecked(o, p)
          PROVE  OperationBegins(o, "retry", p) /\ Exists(p)
      BY <2>3 DEF RetryChecked, Exists
    <2> QED
      BY <1>3, <2>1, <2>2, <2>3
  <1>5. ChecksHold'
    <2>1. \A q \in Operators : q = o
      BY DEF Serial
    <2>2. \A p \in Payouts : Exists(p)' <=> Exists(p)
      BY <1>1 DEF Exists
    <2> QED
      BY <1>1, <1>4, <2>1, <2>2 DEF ReleaseInv, ChecksHold
  <1> QED
    BY <1>2, <1>5 DEF ReleaseInv

(* An operator's write: what it checked still holds, so a milestone leaves  *)
(* APPROVED for RELEASED once and for all.                                  *)
LEMMA WritesKeepReleases ==
  ASSUME Serial, TypeOK, ReleaseInv, NEW o \in Operators,
         \/ \E m \in Milestones : \/ EvidenceApproved(o, m) \/ EvidenceRejected(o, m)
                                  \/ \E p \in Payouts : MilestoneReleased(o, m, p)
         \/ \E p \in Payouts : PayoutRetried(o, p)
  PROVE  ReleaseInv'
  <1> USE DEF TypeOK, planVars, moneyVars, payoutVars
  <1>1. UNCHANGED <<evidence, worker>> /\ \A q \in Operators : operator'[q].at = "idle"
    BY DEF EvidenceApproved, EvidenceRejected, MilestoneReleased, PayoutRetried, OperationEnds,
       NoOperation, Serial
  <1>2. ASSUME NEW m \in Milestones, milestone[m] \in {"SUBMITTED", "APPROVED"}, NEW s,
               milestone' = [milestone EXCEPT ![m] = s]
        PROVE  /\ \A n \in Milestones : milestone[n] \in {"PENDING", "RELEASED"}
                                          => milestone'[n] = milestone[n]
               /\ ChecksHold'
    <2>1. \A n \in Milestones : milestone[n] \in {"PENDING", "RELEASED"}
                                  => milestone'[n] = milestone[n]
      BY <1>2
    <2> QED
      BY <1>1, <2>1 DEF ReleaseInv, ChecksHold
  <1>3. ASSUME NEW m \in Milestones, EvidenceApproved(o, m) \/ EvidenceRejected(o, m)
        PROVE  ReleaseInv'
    <2>1. milestone[m] = "SUBMITTED"
      BY <1>3 DEF EvidenceApproved, EvidenceRejected, ReleaseInv, ChecksHold
    <2>2. UNCHANGED <<status, row>> /\ \E s : milestone' = [milestone EXCEPT ![m] = s]
      BY <1>3 DEF EvidenceApproved, EvidenceRejected
    <2>3. ChecksHold' /\ RowsReleased'
      BY <1>2, <2>1, <2>2 DEF ReleaseInv, RowsReleased, Exists
    <2>4. ClaimsExist' /\ ReleasedOnce'
      BY <1>1, <2>2 DEF ReleaseInv, ClaimsExist, Works, Exists, ReleasedOnce
    <2> QED
      BY <2>3, <2>4 DEF ReleaseInv
  <1>4. ASSUME NEW m \in Milestones, NEW p \in Payouts, MilestoneReleased(o, m, p)
        PROVE  ReleaseInv'
    <2>1. milestone[m] = "APPROVED"
      <3>1. operator[o].at = "read" /\ operator[o].target = m
        BY <1>4 DEF MilestoneReleased
      <3>2. operator[o].kind \in {"approve", "reject", "release", "retry", "none"}
        BY DEF OperatorLocals
      <3>3. operator[o].kind = "release"
        BY <3>1, <3>2 DEF ReleaseInv, ChecksHold
      <3> QED
        BY <3>1, <3>3 DEF ReleaseInv, ChecksHold
    <2>2. milestone' = [milestone EXCEPT ![m] = "RELEASED"]
      BY <1>4 DEF MilestoneReleased
    <2>3. ChecksHold' /\ \A n \in Milestones : milestone[n] = "RELEASED" => milestone'[n] = "RELEASED"
      BY <1>2, <2>1, <2>2
    <2>4. /\ Exists(p)' /\ row'[p].milestone = m
          /\ \A q \in Payouts \ {p} : (Exists(q)' <=> Exists(q)) /\ row'[q] = row[q]
      BY <1>4 DEF MilestoneReleased, Exists
    <2>5. RowsReleased'
      BY <2>2, <2>3, <2>4 DEF ReleaseInv, RowsReleased
    <2>6. \A q \in Payouts \ {p} : Exists(q)' => row'[q].milestone # m
      BY <2>1, <2>4 DEF ReleaseInv, RowsReleased
    <2>7. ReleasedOnce'
      BY ZenonT(60), <2>4, <2>6 DEF ReleaseInv, ReleasedOnce, Exists
    <2>8. ClaimsExist'
      BY <1>1, <2>4 DEF ReleaseInv, ClaimsExist, Works
    <2> QED
      BY <2>3, <2>5, <2>7, <2>8 DEF ReleaseInv
  <1>5. ASSUME NEW p \in Payouts, PayoutRetried(o, p) PROVE ReleaseInv'
    <2>1. Exists(p)
      BY <1>5 DEF PayoutRetried, ReleaseInv, ChecksHold
    <2>2. UNCHANGED <<row, milestone>> /\ \A q \in Payouts : Exists(q)' <=> Exists(q)
      BY <1>5, <2>1 DEF PayoutRetried, Exists
    <2>3. ChecksHold'
      BY <1>1, <2>2 DEF ReleaseInv, ChecksHold
    <2>4. RowsReleased' /\ ClaimsExist'
      BY <1>1, <2>2 DEF ReleaseInv, RowsReleased, ClaimsExist, Works
    <2>5. ReleasedOnce'
      BY <2>2 DEF ReleaseInv, ReleasedOnce, Exists
    <2> QED
      BY <2>3, <2>4, <2>5 DEF ReleaseInv
  <1> QED
    BY <1>3, <1>4, <1>5

(* Reading REALIZED changes only how far the operator has come. *)
LEMMA ReadKeepsReleases ==
  ASSUME TypeOK, ReleaseInv, NEW o \in Operators, NEW m \in Milestones, ReleaseRead(o, m)
  PROVE  ReleaseInv'
  <1> USE DEF TypeOK, planVars, moneyVars, payoutVars
  <1>1. UNCHANGED <<status, row, milestone, evidence, worker>>
    BY DEF ReleaseRead
  <1>2. ClaimsExist' /\ RowsReleased' /\ ReleasedOnce'
    BY <1>1 DEF ReleaseInv, ClaimsExist, Works, Exists, RowsReleased, ReleasedOnce
  <1>3. /\ operator'[o].kind = operator[o].kind /\ operator[o].kind = "release"
        /\ operator'[o].target = operator[o].target /\ operator[o].at # "idle"
        /\ \A q \in Operators \ {o} : operator'[q] = operator[q]
    BY DEF ReleaseRead, OperatorLocals
  <1>4. ChecksHold'
    <2>1. \A p \in Payouts : Exists(p)' <=> Exists(p)
      BY <1>1 DEF Exists
    <2>2. \A q \in Operators \ {o} : operator'[q] = operator[q]
      BY <1>3
    <2>3. operator[o].target \in Milestones => milestone'[operator[o].target] = "APPROVED"
      BY <1>1, <1>3 DEF ReleaseInv, ChecksHold
    <2> HIDE DEF TypeOK
    <2> QED
      BY <1>1, <1>3, <2>1, <2>2, <2>3 DEF ReleaseInv, ChecksHold
  <1> QED
    BY <1>2, <1>4 DEF ReleaseInv

(* Every step keeps it. *)
LEMMA ReleasesKept ==
  ASSUME Serial, TypeOK, ReleaseInv, [Next]_vars
  PROVE  ReleaseInv'
<1>1. ASSUME UNCHANGED <<status, row, milestone, evidence, operator, worker>>
      PROVE  ReleaseInv'
  BY <1>1, QuietKeepsReleases DEF ReleaseInv, ClaimsExist, Works, Exists
<1>2. ASSUME NEW o \in Operators, NEW m \in Milestones, ReviewStep(o, m) PROVE ReleaseInv'
  BY <1>2, ChecksKeepReleases, WritesKeepReleases, ReadKeepsReleases DEF ReviewStep
<1>3. ASSUME NEW o \in Operators, NEW p \in Payouts, RetryStep(o, p) PROVE ReleaseInv'
  BY <1>3, ChecksKeepReleases, WritesKeepReleases DEF RetryStep
<1>4. ASSUME NEW m \in Milestones, NEW t \in Tabs, EvidenceStep(m, t) PROVE ReleaseInv'
  BY <1>4, EvidenceKeepsReleases
<1>5. CASE (\E w \in Workers : WorkerStep(w)) \/ Crash
  <2>1. ClaimsExist
    BY DEF ReleaseInv
  <2> QED
    BY <1>5, <2>1, TicksAddNothing, QuietKeepsReleases
<1>6. CASE DeliveryChecked \/ Delivered
  BY <1>1, <1>6 DEF DeliveryChecked, Delivered, payoutVars
<1>7. ASSUME NEW c \in DOMAIN Late, LateCapture(c) PROVE ReleaseInv'
  BY <1>1, <1>7 DEF LateCapture, planVars, payoutVars
<1>8. ASSUME NEW c \in DOMAIN Refundable, RefundChecked(c) \/ Refunded(c) PROVE ReleaseInv'
  BY <1>1, <1>8 DEF RefundChecked, Refunded, planVars, payoutVars
<1>9. CASE UNCHANGED vars
  BY <1>1, <1>9 DEF vars, planVars, payoutVars
<1> QED
  BY <1>2, <1>3, <1>4, <1>5, <1>6, <1>7, <1>8, <1>9 DEF Next

(* It is an invariant while operators and tabs do not overlap. *)
LEMMA ReleasesAlways ==
  ASSUME Serial PROVE Spec => []ReleaseInv
<1>1. Init => ReleaseInv
  BY DEF Init, ReleaseInv, ChecksHold, RowsReleased, ClaimsExist, Works, Exists, ReleasedOnce,
     Resting, NoOperation
<1>2. TypeOK /\ ReleaseInv /\ [Next]_vars => ReleaseInv'
  BY ReleasesKept
<1> QED
  BY PayoutTypes, <1>1, <1>2, PTL DEF Spec

(* A milestone creates one payout (ReleasedOnce), however approval,         *)
(* rejection, resubmission, retry and the disburser's ticks follow one      *)
(* another, provided operators do not overlap and a milestone's evidence is *)
(* submitted from one tab: the two assumptions the code does not secure.    *)
THEOREM OnePayoutPerMilestone ==
  ASSUME \A o, q \in Operators : o = q, \A t, u \in Tabs : t = u
  PROVE  Spec => []ReleasedOnce
<1>1. Spec => []ReleaseInv
  BY ReleasesAlways DEF Serial
<1>2. ReleaseInv => ReleasedOnce
  BY DEF ReleaseInv
<1> QED
  BY <1>1, <1>2, PTL

-----------------------------------------------------------------------------
(* Sums over finite sets.  SumFunction is a fold, a recursive function      *)
(* chosen by its equation: that the equation has a solution and that the    *)
(* order of the elements does not matter are proved by minimal              *)
(* counterexample, as in SettlementProofs, a module about another component *)
(* that cannot be extended here; then how one sum bounds another.           *)

(* The element the fold takes next. *)
Picked(s) == CHOOSE x \in s : TRUE

(* g is the running sum the community fold computes over the subsets of S.  *)
RunningSum(f, S, g) ==
  g = [s \in SUBSET S |-> IF s = {} THEN 0 ELSE f[Picked(s)] + g[s \ {Picked(s)}]]

(* A sum is the value at S of some function the recursion describes. *)
LEMMA SumUnfolds ==
  ASSUME NEW f, NEW S
  PROVE SumFunctionOnSet(f, S) = (CHOOSE g : RunningSum(f, S, g))[S]
BY DEF SumFunctionOnSet, FoldFunctionOnSet, MapThenFoldSet, RunningSum, Picked

(* A non-empty family of subsets of a finite set has a minimal member.  *)
LEMMA MinimalSubset ==
  ASSUME NEW S, IsFiniteSet(S), NEW T, T \subseteq SUBSET S, T # {}
  PROVE  \E U \in T : \A V \in T : V \subseteq U => V = U
<1>1. IsWellFoundedOn(StrictSubsetOrdering(S), SUBSET S)
  BY FS_FiniteSubsetsOfFinite, FS_StrictSubsetOrderingWellFounded
<1>2. \E U \in T : \A V \in T : <<V, U>> \notin StrictSubsetOrdering(S)
  BY <1>1, WFMin
<1> QED
  BY <1>2 DEF StrictSubsetOrdering

(* The element picked from a non-empty set belongs to it. *)
LEMMA PickedIn == ASSUME NEW s, s # {} PROVE Picked(s) \in s
BY DEF Picked

(* A running sum starts at zero and adds the element picked. *)
LEMMA RunningSumEquations ==
  ASSUME NEW f, NEW S, NEW g, RunningSum(f, S, g)
  PROVE  /\ g[{}] = 0
         /\ \A s \in SUBSET S :
              s # {} => g[s] = f[Picked(s)] + g[s \ {Picked(s)}]
BY DEF RunningSum

(* Two running sums agree wherever both are defined.  *)
LEMMA RunningSumsAgree ==
  ASSUME NEW f, NEW S, IsFiniteSet(S), NEW g, RunningSum(f, S, g),
         NEW S2, NEW h, RunningSum(f, S2, h), NEW s, s \subseteq S, s \subseteq S2
  PROVE  g[s] = h[s]
<1> DEFINE Differ == {t \in SUBSET S : t \subseteq S2 /\ g[t] # h[t]}
<1> SUFFICES ASSUME Differ # {} PROVE FALSE
  OBVIOUS
<1>1. PICK U \in Differ : \A V \in Differ : V \subseteq U => V = U
  <2> Differ \subseteq SUBSET S
    OBVIOUS
  <2> HIDE DEF Differ
  <2> QED
    BY MinimalSubset
<1>2. U # {}
  BY RunningSumEquations
<1>3. Picked(U) \in U
  BY <1>2, PickedIn
<1>4. g[U \ {Picked(U)}] = h[U \ {Picked(U)}]
  BY <1>1, <1>3
<1> QED
  BY <1>1, <1>2, <1>4, RunningSumEquations

(* The fold's recursion has a solution on every finite set.  *)
LEMMA RunningSumExists ==
  ASSUME NEW f, NEW S, IsFiniteSet(S)
  PROVE  \E g : RunningSum(f, S, g)
<1> DEFINE None == {t \in SUBSET S : ~\E g : RunningSum(f, t, g)}
<1> SUFFICES ASSUME None # {} PROVE FALSE
  OBVIOUS
<1>1. PICK U \in None : \A V \in None : V \subseteq U => V = U
  <2> None \subseteq SUBSET S
    OBVIOUS
  <2> HIDE DEF None
  <2> QED
    BY MinimalSubset
<1> DEFINE G(V) == CHOOSE g : RunningSum(f, V, g)
           h == [s \in SUBSET U |-> IF s = {} THEN 0
                   ELSE f[Picked(s)] + G(s \ {Picked(s)})[s \ {Picked(s)}]]
<1>2. \A V \in SUBSET U : V # U => RunningSum(f, V, G(V)) /\ IsFiniteSet(V)
  <2>1. \A V \in SUBSET U : V # U => (\E g : RunningSum(f, V, g)) /\ IsFiniteSet(V)
    BY <1>1, FS_Subset
  <2> QED
    BY <2>1
<1>3. ASSUME NEW V \in SUBSET U, V # U PROVE h[V] = G(V)[V]
  <2>1. CASE V = {}
    <3>1. h[V] = 0
      BY <2>1
    <3>2. G(V)[V] = 0
      <4> HIDE DEF G
      <4> QED
        BY <2>1, <1>2, <1>3, RunningSumEquations
    <3> QED
      BY <3>1, <3>2
  <2>2. CASE V # {}
    <3> DEFINE W == V \ {Picked(V)}
    <3>1. W \in SUBSET U /\ W # U /\ W \subseteq V
      <4>1. W \subseteq V /\ V \subseteq U /\ V # U
        BY <1>3
      <4> HIDE DEF W
      <4> QED
        BY <4>1
    <3>2. G(V)[W] = G(W)[W]
      <4>1. RunningSum(f, V, G(V)) /\ RunningSum(f, W, G(W)) /\ IsFiniteSet(V)
        BY <3>1, <1>2, <1>3
      <4> HIDE DEF G, W
      <4> QED
        BY ONLY <3>1, <4>1, W \subseteq W, RunningSumsAgree
    <3>3. G(V)[V] = f[Picked(V)] + G(V)[W]
      <4> HIDE DEF G
      <4> QED
        BY <2>2, <1>2, <1>3, RunningSumEquations
    <3> HIDE DEF G
    <3> QED
      BY <2>2, <3>2, <3>3
  <2> QED
    BY <2>1, <2>2
<1>4. \A s \in SUBSET U : s # {} => s \ {Picked(s)} \in SUBSET U /\ s \ {Picked(s)} # U
  BY PickedIn
<1>5. RunningSum(f, U, h)
  <2> HIDE DEF G
  <2>1. \A s \in SUBSET U : s # {} => G(s \ {Picked(s)})[s \ {Picked(s)}] = h[s \ {Picked(s)}]
    BY <1>3, <1>4
  <2> QED
    BY <2>1 DEF RunningSum
<1> QED
  BY <1>1, <1>5

(* Nothing sums to zero. *)
LEMMA SumEmpty == ASSUME NEW f PROVE SumFunctionOnSet(f, {}) = 0
<1>1. \E g : RunningSum(f, {}, g)
  BY RunningSumExists, FS_EmptySet
<1> QED
  BY <1>1, SumUnfolds, RunningSumEquations

(* The sum over a set adds the element picked to the sum over the rest. *)
LEMMA SumStep ==
  ASSUME NEW f, NEW S, IsFiniteSet(S), S # {}
  PROVE  SumFunctionOnSet(f, S) = f[Picked(S)] + SumFunctionOnSet(f, S \ {Picked(S)})
<1> DEFINE G(V) == CHOOSE g : RunningSum(f, V, g)
           W == S \ {Picked(S)}
<1>1. IsFiniteSet(W)
  BY FS_Subset
<1>2. RunningSum(f, S, G(S)) /\ RunningSum(f, W, G(W))
  <2>1. (\E g : RunningSum(f, S, g)) /\ (\E g : RunningSum(f, W, g))
    BY <1>1, RunningSumExists
  <2> QED
    BY <2>1
<1>3. G(S)[W] = G(W)[W]
  <2> W \subseteq S /\ W \subseteq W
    OBVIOUS
  <2> HIDE DEF G, W
  <2> QED
    BY ONLY IsFiniteSet(S), W \subseteq S, W \subseteq W, <1>2, RunningSumsAgree
<1>4. G(S)[S] = f[Picked(S)] + G(S)[W]
  <2> HIDE DEF G
  <2> QED
    BY <1>2, RunningSumEquations
<1> QED
  BY <1>3, <1>4, SumUnfolds

(* A sum of naturals is a natural. *)
LEMMA SumNat ==
  ASSUME NEW f, NEW S, IsFiniteSet(S), \A x \in S : f[x] \in Nat
  PROVE  SumFunctionOnSet(f, S) \in Nat
<1> DEFINE Bad == {t \in SUBSET S : SumFunctionOnSet(f, t) \notin Nat}
<1> SUFFICES ASSUME Bad # {} PROVE FALSE
  OBVIOUS
<1>1. PICK U \in Bad : \A V \in Bad : V \subseteq U => V = U
  <2> Bad \subseteq SUBSET S
    OBVIOUS
  <2> HIDE DEF Bad
  <2> QED
    BY MinimalSubset
<1>2. U # {}
  BY SumEmpty
<1>3. Picked(U) \in U
  BY <1>2, PickedIn
<1>4. SumFunctionOnSet(f, U \ {Picked(U)}) \in Nat
  BY <1>1, <1>3
<1>5. IsFiniteSet(U)
  BY FS_Subset
<1> QED
  BY <1>2, <1>3, <1>4, <1>5, SumStep

(* The order in which the elements are taken does not matter.  *)
LEMMA SumRemove ==
  ASSUME NEW f, NEW S, IsFiniteSet(S), \A x \in S : f[x] \in Nat, NEW y \in S
  PROVE  SumFunctionOnSet(f, S) = f[y] + SumFunctionOnSet(f, S \ {y})
<1> DEFINE Sum(t) == SumFunctionOnSet(f, t)
           Bad == {t \in SUBSET S : \E x \in t : Sum(t) # f[x] + Sum(t \ {x})}
<1> SUFFICES ASSUME Bad # {} PROVE FALSE
  OBVIOUS
<1>1. PICK U \in Bad : \A V \in Bad : V \subseteq U => V = U
  <2> Bad \subseteq SUBSET S
    OBVIOUS
  <2> HIDE DEF Bad
  <2> QED
    BY MinimalSubset
<1>2. PICK x \in U : Sum(U) # f[x] + Sum(U \ {x})
  OBVIOUS
<1> DEFINE p == Picked(U)
<1>3. p \in U
  BY PickedIn
<1>4. \A t \in SUBSET S : IsFiniteSet(t) /\ Sum(t) \in Nat
  BY FS_Subset, SumNat
<1>5. Sum(U) = f[p] + Sum(U \ {p})
  BY <1>3, <1>4, SumStep
<1>6. x # p
  BY <1>2, <1>5
<1>7. Sum(U \ {p}) = f[x] + Sum((U \ {p}) \ {x})
  <2> U \ {p} \notin Bad /\ x \in U \ {p} /\ U \ {p} \in SUBSET S
    BY <1>1, <1>3, <1>6
  <2> QED
    OBVIOUS
<1>8. Sum(U \ {x}) = f[p] + Sum((U \ {x}) \ {p})
  <2> U \ {x} \notin Bad /\ p \in U \ {x} /\ U \ {x} \in SUBSET S
    BY <1>1, <1>3, <1>6
  <2> QED
    OBVIOUS
<1>9. (U \ {x}) \ {p} = (U \ {p}) \ {x}
  OBVIOUS
<1>10. f[x] \in Nat /\ f[p] \in Nat /\ Sum((U \ {p}) \ {x}) \in Nat
  BY <1>3, <1>4
<1>11. Sum((U \ {x}) \ {p}) = Sum((U \ {p}) \ {x})
  BY <1>9
<1> HIDE DEF Sum, p
<1> QED
  BY <1>2, <1>5, <1>7, <1>8, <1>10, <1>11


(* When each term of one sum is charged to a term of another that bounds    *)
(* it, in hundredths, and no two to the same, so is the sum.                *)
LEMMA SumCharged ==
  ASSUME NEW P, IsFiniteSet(P), NEW M, IsFiniteSet(M), NEW f, NEW g, NEW h, NEW r \in Nat,
         \A p \in P : f[p] \in Nat, \A m \in M : g[m] \in Nat,
         \A p \in P : f[p] # 0 => h[p] \in M /\ 100 * f[p] <= r * g[h[p]],
         \A p, q \in P : f[p] # 0 /\ f[q] # 0 /\ h[p] = h[q] => p = q
  PROVE  100 * SumFunctionOnSet(f, P) <= r * SumFunctionOnSet(g, M)
<1> DEFINE F(t) == SumFunctionOnSet(f, t)
           G(t) == SumFunctionOnSet(g, t)
           Charges(U, V) == \A p \in U : f[p] # 0 => h[p] \in V
           Bad == {U \in SUBSET P : \E V \in SUBSET M :
                     Charges(U, V) /\ ~(100 * F(U) <= r * G(V))}
<1>1. \A U \in SUBSET P : IsFiniteSet(U) /\ F(U) \in Nat
  BY FS_Subset, SumNat
<1>2. \A V \in SUBSET M : IsFiniteSet(V) /\ G(V) \in Nat
  BY FS_Subset, SumNat
<1>3. ASSUME Bad # {} PROVE FALSE
  <2>1. PICK U \in Bad : \A V \in Bad : V \subseteq U => V = U
    <3> Bad \subseteq SUBSET P
      OBVIOUS
    <3> HIDE DEF Bad
    <3> QED
      BY <1>3, MinimalSubset
  <2>2. PICK V \in SUBSET M : Charges(U, V) /\ ~(100 * F(U) <= r * G(V))
    OBVIOUS
  <2>3. U \in SUBSET P
    OBVIOUS
  <2>4. U # {}
    <3> SUFFICES ASSUME U = {} PROVE FALSE
      OBVIOUS
    <3>1. F(U) = 0
      BY SumEmpty
    <3>2. r * G(V) \in Nat
      BY <1>2
    <3> DEFINE n == r * G(V)
    <3>3. ~(100 * 0 <= n)
      BY <2>2, <3>1
    <3> HIDE DEF n
    <3> QED
      BY <3>2, <3>3 DEF n
  <2>5. PICK x \in U : TRUE
    BY <2>4
  <2> DEFINE W == U \ {x}
  <2>6. W \in SUBSET P /\ \A Z \in SUBSET M : Charges(W, Z) => 100 * F(W) <= r * G(Z)
    <3> W \in SUBSET P /\ W \notin Bad
      BY <2>1, <2>3, <2>5
    <3> HIDE DEF W, F, G, Charges
    <3> QED
      OBVIOUS
  <2>7. F(U) = f[x] + F(W)
    BY <1>1, <2>3, SumRemove
  <2>8. F(W) \in Nat /\ f[x] \in Nat /\ G(V) \in Nat
    BY <1>1, <1>2, <2>3, <2>6
  <2>9. CASE f[x] = 0
    <3>1. 100 * F(W) <= r * G(V)
      BY <2>2, <2>6
    <3> HIDE DEF F, G, W
    <3> QED
      BY <2>2, <2>7, <2>8, <2>9, <3>1
  <2>10. CASE f[x] # 0
    <3> DEFINE y == h[x]
              Z == V \ {y}
    <3>1. y \in V /\ 100 * f[x] <= r * g[y]
      BY <2>2, <2>3, <2>10
    <3>2. Charges(W, Z)
      BY <2>2, <2>3, <2>10
    <3>3. 100 * F(W) <= r * G(Z)
      <4> Z \in SUBSET M
        OBVIOUS
      <4> HIDE DEF Z, W, F, G, Charges
      <4> QED
        BY <2>6, <3>2
    <3>4. G(V) = g[y] + G(Z)
      BY <1>2, <3>1, SumRemove
    <3>5. g[y] \in Nat /\ G(Z) \in Nat
      BY <1>2, <3>1
    <3> HIDE DEF F, G, W, y, Z
    <3>6. r * G(V) = r * g[y] + r * G(Z)
      BY <3>4, <3>5
    <3>7. r * g[y] \in Nat /\ r * G(Z) \in Nat
      BY <3>5
    <3> QED
      BY <2>2, <2>7, <2>8, <3>1, <3>3, <3>6, <3>7
  <2> QED
    BY <2>9, <2>10
<1>4. P \in SUBSET P /\ M \in SUBSET M /\ P \notin Bad
  BY <1>3
<1>5. Charges(P, M)
  OBVIOUS
<1> HIDE DEF F, G, Charges
<1>6. 100 * F(P) <= r * G(M)
  BY <1>4, <1>5
<1> QED
  BY <1>6 DEF F, G

-----------------------------------------------------------------------------
(* What a release pays is at most its percentage of what was ever earned:   *)
(* REALIZED and what was refunded from it.  A late capture adds to it, a     *)
(* refund moves a part of it from the one to the other.  What an operator   *)
(* has read and not written yet is such a share too.                        *)
Earned == realized + Returned

Share(a, m) == a \in Nat /\ 100 * a <= Earned * ReleasePct[m]

SharesHold ==
  /\ Captured <= Earned
  /\ \A p \in Payouts : IF Exists(p) THEN Share(row[p].gross, row[p].milestone)
                                      ELSE row[p].gross = 0
  /\ \A o \in Operators : operator[o].at = "read" /\ operator[o].target \in Milestones
                            => Share(operator[o].amount, operator[o].target)

(* Dividing by a hundred rounds down. *)
LEMMA RoundedDown ==
  ASSUME NEW x \in Nat PROVE x \div 100 \in Nat /\ 100 * (x \div 100) <= x
  OBVIOUS

(* A part of what may be refunded is no more than what was captured. *)
LEMMA PartRefunded ==
  ASSUME NEW C \in SUBSET DOMAIN Refundable
  PROVE  SumFunctionOnSet(Refundable, C) \in Nat /\ SumFunctionOnSet(Refundable, C) <= Captured
<1> DEFINE f == Refundable
           D == DOMAIN Refundable
           h == [c \in D |-> c]
<1>1. IsFiniteSet(D) /\ IsFiniteSet(C) /\ \A c \in D : f[c] \in Nat
  BY PlanAssumption, FS_Subset
<1>2. \A c \in C : f[c] \in Nat /\ h[c] = c /\ c \in D /\ 100 * f[c] <= 100 * f[h[c]]
  BY <1>1
<1> HIDE DEF f, D, h
<1>3. 100 * SumFunctionOnSet(f, C) <= 100 * SumFunctionOnSet(f, D)
  BY <1>1, <1>2, SumCharged
<1>4. SumFunctionOnSet(f, C) \in Nat /\ SumFunctionOnSet(f, D) \in Nat
  BY <1>1, <1>2, SumNat
<1>5. SumFunctionOnSet(f, D) <= Captured
  BY PlanAssumption DEF SumFunction, f, D
<1>6. SumFunctionOnSet(f, C) <= Captured
  <2> DEFINE x == SumFunctionOnSet(f, C)
            y == SumFunctionOnSet(f, D)
  <2>1. x \in Nat /\ y \in Nat /\ 100 * x <= 100 * y /\ y <= Captured /\ Captured \in Nat
    BY <1>3, <1>4, <1>5, PlanAssumption
  <2> HIDE DEF x, y
  <2>2. x <= Captured
    BY <2>1
  <2> QED BY <2>2 DEF x
<1> QED BY <1>4, <1>6 DEF f

(* So REALIZED is never negative. *)
LEMMA EarnedIsNat ==
  ASSUME TypeOK, Captured <= Earned
  PROVE  Returned \in Nat /\ realized \in Nat /\ Earned \in Nat /\ realized <= Earned
<1>1. Returned \in Nat /\ Returned <= Captured
  BY PartRefunded DEF Returned
<1>2. realized \in Int /\ Captured \in Nat
  BY PlanAssumption DEF TypeOK
<1> QED BY <1>1, <1>2 DEF Earned

(* A share stays one when more is earned. *)
LEMMA ShareGrows ==
  ASSUME NEW m \in Milestones, NEW a, Earned \in Nat, Share(a, m),
         NEW d \in Nat, Earned' = Earned + d
  PROVE  Share(a, m)'
  <1> DEFINE k == ReleasePct[m]
            e == Earned
            f == Earned'
  <1>1. k \in Nat
    BY PlanAssumption
  <1>2. a \in Nat /\ 100 * a <= e * k /\ e \in Nat /\ f = e + d
    BY DEF Share
  <1>3. Share(a, m)' <=> a \in Nat /\ 100 * a <= f * k
    BY DEF Share
  <1> HIDE DEF k, e, f
  <1>4. f * k = e * k + d * k /\ d * k \in Nat /\ e * k \in Nat
    BY <1>1, <1>2
  <1> QED
    BY <1>2, <1>3, <1>4

(* Whatever leaves what was earned, the rows and what operators have read.  *)
LEMMA QuietKeepsShares ==
  ASSUME SharesHold, Earned' = Earned, UNCHANGED row,
         \A p \in Payouts : Exists(p)' <=> Exists(p),
         \A o \in Operators : operator'[o].at = "read" => operator'[o] = operator[o]
  PROVE  SharesHold'
  BY DEF SharesHold, Share

(* REALIZED and the refunds unmoved, so is what was earned. *)
LEMMA EarnedStays == ASSUME UNCHANGED <<realized, refund>> PROVE Earned' = Earned
  BY DEF Earned, Returned

(* The amount is computed of REALIZED as it is read, a part of what was     *)
(* earned.                                                                  *)
LEMMA ReadKeepsShares ==
  ASSUME TypeOK, SharesHold, NEW o \in Operators, NEW m \in Milestones, ReleaseRead(o, m)
  PROVE  SharesHold'
  <1>1. UNCHANGED <<row, status>> /\ Earned' = Earned
    BY EarnedStays DEF ReleaseRead, moneyVars, payoutVars
  <1> DEFINE x == realized * ReleasePct[m]
            y == Earned * ReleasePct[m]
  <1>2. x \in Nat /\ y \in Nat /\ x <= y
    <2> DEFINE k == ReleasePct[m]
              e == Earned
              d == Returned
    <2>1. k \in Nat /\ realized \in Nat /\ d \in Nat /\ e = realized + d
      BY EarnedIsNat, PlanAssumption DEF SharesHold, Earned
    <2> HIDE DEF k, e, d
    <2>2. e * k = realized * k + d * k /\ realized * k \in Nat /\ d * k \in Nat
      BY <2>1
    <2>3. realized * k \in Nat /\ e * k \in Nat /\ realized * k <= e * k
      BY <2>2
    <2> QED BY <2>3 DEF k, e
  <1>3. x \div 100 \in Nat /\ 100 * (x \div 100) <= x
    <2> HIDE DEF x
    <2> QED
      BY <1>2, RoundedDown
  <1>4. /\ operator'[o].target = m /\ operator'[o].amount = x \div 100
        /\ \A q \in Operators \ {o} : operator'[q] = operator[q]
    BY DEF ReleaseRead, TypeOK, OperatorLocals
  <1>5. Share(operator'[o].amount, m)
    <2> HIDE DEF x, y
    <2>1. x \div 100 \in Nat /\ 100 * (x \div 100) <= y
      BY <1>2, <1>3
    <2> QED BY <1>4, <2>1 DEF Share, y
  <1> HIDE DEF x, y
  <1> QED
    BY <1>1, <1>4, <1>5 DEF SharesHold, Share, Exists

(* The share that was read becomes the payout's. *)
LEMMA ReleaseKeepsShares ==
  ASSUME TypeOK, SharesHold, NEW o \in Operators, NEW m \in Milestones,
         NEW p \in Payouts, MilestoneReleased(o, m, p)
  PROVE  SharesHold'
  <1> USE DEF MilestoneReleased, OperationEnds
  <1>1. Earned' = Earned
    BY EarnedStays DEF moneyVars
  <1>2. Share(operator[o].amount, m)
    BY DEF SharesHold
  <1>3. /\ Exists(p)' /\ row'[p].milestone = m /\ row'[p].gross = operator[o].amount
        /\ \A q \in Payouts \ {p} : (Exists(q)' <=> Exists(q)) /\ row'[q] = row[q]
    BY DEF TypeOK, Exists
  <1>4. \A q \in Operators : operator'[q].at = "read" => operator'[q] = operator[q]
    BY DEF TypeOK, NoOperation
  <1> HIDE DEF MilestoneReleased, OperationEnds
  <1>5. \A q \in Payouts : IF Exists(q)' THEN Share(row'[q].gross, row'[q].milestone)
                                           ELSE row'[q].gross = 0
    BY <1>2, <1>3 DEF SharesHold
  <1> QED
    BY <1>1, <1>4, <1>5 DEF SharesHold, Share

(* A capture that comes late enlarges every share. *)
LEMMA CaptureKeepsShares ==
  ASSUME TypeOK, RowsReleased, SharesHold, NEW c \in DOMAIN Late, LateCapture(c)
  PROVE  SharesHold'
  <1>1. Late[c] \in Nat /\ Earned' = Earned + Late[c] /\ Earned \in Nat
    <2>1. realized' = realized + Late[c] /\ UNCHANGED refund /\ Late[c] \in Nat
      BY PlanAssumption DEF LateCapture
    <2>2. Returned' = Returned
      BY <2>1 DEF Returned
    <2>3. Returned \in Nat /\ realized \in Nat /\ Earned \in Nat
      BY EarnedIsNat DEF SharesHold
    <2> QED BY <2>1, <2>2, <2>3 DEF Earned
  <1>2. UNCHANGED <<row, status, operator>>
    BY DEF LateCapture, planVars, payoutVars
  <1>3. ASSUME NEW p \in Payouts, Exists(p)
        PROVE  Share(row[p].gross, row[p].milestone)'
    <2>1. Share(row[p].gross, row[p].milestone) /\ row[p].milestone \in Milestones
      BY <1>3 DEF SharesHold, RowsReleased
    <2> QED
      BY <1>1, <1>2, <2>1, ShareGrows DEF Share
  <1>4. ASSUME NEW o \in Operators, operator[o].at = "read", operator[o].target \in Milestones
        PROVE  Share(operator[o].amount, operator[o].target)'
    BY <1>1, <1>2, <1>4, ShareGrows DEF SharesHold, Share
  <1>5. (Captured <= Earned)'
    BY <1>1, PlanAssumption DEF SharesHold
  <1> QED
    BY <1>1, <1>2, <1>3, <1>4, <1>5 DEF SharesHold, Exists

(* A refund takes off REALIZED what it adds to the returned money. *)
LEMMA RefundKeepsEarned ==
  ASSUME TypeOK, NEW c \in DOMAIN Refundable, RefundChecked(c) \/ Refunded(c)
  PROVE  Earned' = Earned
<1> DEFINE D == DOMAIN Refundable
           Over == {d \in D : refund[d] = "over"}
<1>1. refund \in [D -> {"none", "checked", "over"}] /\ refund[c] # "over"
  BY DEF TypeOK, RefundChecked, Refunded
<1>2. Returned = SumFunctionOnSet(Refundable, Over)
      /\ Returned' = SumFunctionOnSet(Refundable, {d \in D : refund'[d] = "over"})
  BY DEF Returned
<1>3. ASSUME UNCHANGED realized, NEW stage \in {"none", "checked"},
             refund' = [refund EXCEPT ![c] = stage]
      PROVE  Earned' = Earned
  <2>1. {d \in D : refund'[d] = "over"} = Over
    BY <1>1, <1>3
  <2> QED BY <1>2, <1>3, <2>1 DEF Earned
<1>4. ASSUME refund' = [refund EXCEPT ![c] = "over"], realized' = realized - Refundable[c]
      PROVE  Earned' = Earned
  <2> DEFINE New == {d \in D : refund'[d] = "over"}
  <2>1. New = Over \cup {c} /\ New \ {c} = Over /\ c \in New
    BY <1>1, <1>4
  <2>2. IsFiniteSet(New) /\ \A d \in New : Refundable[d] \in Nat
    BY PlanAssumption, FS_Subset
  <2>3. Returned \in Nat /\ realized \in Int /\ Refundable[c] \in Nat
    BY PartRefunded, PlanAssumption, <1>2 DEF TypeOK
  <2> HIDE DEF New, Over
  <2>4. SumFunctionOnSet(Refundable, New)
          = Refundable[c] + SumFunctionOnSet(Refundable, New \ {c})
    BY <2>1, <2>2, SumRemove
  <2>5. Returned' = Refundable[c] + Returned
    BY <1>2, <2>1, <2>4 DEF New
  <2> QED BY <1>4, <2>3, <2>5 DEF Earned
<1> QED BY <1>3, <1>4 DEF RefundChecked, Refunded

(* Every step keeps the shares. *)
LEMMA SharesKept ==
  ASSUME TypeOK, ReleaseInv, SharesHold, [Next]_vars
  PROVE  SharesHold'
<1>1. ASSUME Earned' = Earned, UNCHANGED <<row, status, operator>> PROVE SharesHold'
  BY <1>1, QuietKeepsShares DEF Exists
<1>2. ASSUME NEW o \in Operators, NEW kind, NEW x, OperationBegins(o, kind, x)
      PROVE  SharesHold'
  <2>1. UNCHANGED <<row, status>> /\ Earned' = Earned
    BY <1>2, EarnedStays DEF OperationBegins, moneyVars, payoutVars
  <2>2. \A q \in Operators : operator'[q].at = "read" => operator'[q] = operator[q]
    BY <1>2 DEF OperationBegins, NoOperation, TypeOK
  <2> QED
    BY <2>1, <2>2, QuietKeepsShares DEF Exists
<1>3. ASSUME NEW o \in Operators, OperationEnds(o), UNCHANGED row,
             \A p \in Payouts : Exists(p)' <=> Exists(p)
      PROVE  SharesHold'
  <2>1. Earned' = Earned
    BY <1>3, EarnedStays DEF OperationEnds, moneyVars
  <2>2. \A q \in Operators : operator'[q].at = "read" => operator'[q] = operator[q]
    BY <1>3 DEF OperationEnds, NoOperation, TypeOK
  <2> QED
    BY <1>3, <2>1, <2>2, QuietKeepsShares
<1>4. ASSUME NEW o \in Operators, NEW m \in Milestones, ReviewStep(o, m) PROVE SharesHold'
  <2>1. CASE ReviewChecked(o, m) \/ ReleaseChecked(o, m)
    BY <1>2, <2>1 DEF ReviewChecked, ReleaseChecked
  <2>2. CASE EvidenceApproved(o, m) \/ EvidenceRejected(o, m)
    BY <1>3, <2>2 DEF EvidenceApproved, EvidenceRejected, payoutVars, Exists
  <2>3. CASE ReleaseRead(o, m)
    BY <2>3, ReadKeepsShares
  <2>4. ASSUME NEW p \in Payouts, MilestoneReleased(o, m, p) PROVE SharesHold'
    BY <2>4, ReleaseKeepsShares
  <2> QED
    BY <1>4, <2>1, <2>2, <2>3, <2>4 DEF ReviewStep
<1>5. ASSUME NEW o \in Operators, NEW p \in Payouts, RetryStep(o, p) PROVE SharesHold'
  <2>1. CASE RetryChecked(o, p)
    BY <1>2, <2>1 DEF RetryChecked
  <2>2. CASE PayoutRetried(o, p)
    <3>1. Exists(p)
      BY <2>2 DEF PayoutRetried, ReleaseInv, ChecksHold
    <3>2. \A q \in Payouts : Exists(q)' <=> Exists(q)
      BY <2>2, <3>1 DEF PayoutRetried, TypeOK, Exists
    <3> QED
      BY <1>3, <2>2, <3>2 DEF PayoutRetried
  <2> QED
    BY <1>5, <2>1, <2>2 DEF RetryStep
<1>6. CASE (\E w \in Workers : WorkerStep(w)) \/ Crash
  <2>1. /\ \A p \in Payouts : Exists(p)' <=> Exists(p)
        /\ UNCHANGED <<row, operator>>
    BY <1>6, TicksAddNothing DEF ReleaseInv
  <2>2. UNCHANGED <<realized, refund>>
    <3> USE DEF NextPayout, Answered, moneyVars
    <3>1. CASE Crash
      BY <3>1 DEF Crash
    <3>2. ASSUME NEW w \in Workers, NEW p \in Payouts, SendStep(w, p)
          PROVE  UNCHANGED <<realized, refund>>
      BY <3>2 DEF SendStep, PayoutClaimed, TransferAccepted, TransferRejected,
         TransferUnclear, SentWritten, FailureWritten, ClaimReleased
    <3>3. ASSUME NEW w \in Workers, TickStarts(w) \/ TickEnds(w) \/ SettledStamped(w)
          PROVE  UNCHANGED <<realized, refund>>
      BY <3>3 DEF TickStarts, TickEnds, SettledStamped
    <3> QED
      BY <1>6, <3>1, <3>2, <3>3 DEF WorkerStep
  <2> QED
    BY <2>1, <2>2, EarnedStays, QuietKeepsShares
<1>7. ASSUME NEW m \in Milestones, NEW t \in Tabs, EvidenceStep(m, t) PROVE SharesHold'
  BY <1>1, <1>7, EarnedStays DEF EvidenceStep, EvidenceChecked, EvidenceSubmitted, moneyVars, payoutVars
<1>8. CASE DeliveryChecked \/ Delivered
  BY <1>1, <1>8, EarnedStays DEF DeliveryChecked, Delivered, moneyVars, payoutVars
<1>9. ASSUME NEW c \in DOMAIN Late, LateCapture(c) PROVE SharesHold'
  BY <1>9, CaptureKeepsShares DEF ReleaseInv
<1>10. CASE UNCHANGED vars
  BY <1>1, <1>10, EarnedStays DEF vars, planVars, moneyVars, payoutVars
<1>11. ASSUME NEW c \in DOMAIN Refundable, RefundChecked(c) \/ Refunded(c) PROVE SharesHold'
  BY <1>1, <1>11, RefundKeepsEarned DEF RefundChecked, Refunded, planVars, payoutVars
<1> QED
  BY <1>4, <1>5, <1>6, <1>7, <1>8, <1>9, <1>10, <1>11 DEF Next

(* Shares of a plan that adds up to a hundred per cent at most, one per     *)
(* milestone, add up to what was earned at most.                            *)
LEMMA SharesFit ==
  ASSUME TypeOK, ReleaseInv, SharesHold
  PROVE  OnlyRefundsOverdraw
<1> DEFINE f == [p \in Payouts |-> row[p].gross]
           h == [p \in Payouts |-> row[p].milestone]
           g == ReleasePct
           earned == Earned
<1>1. IsFiniteSet(Payouts) /\ IsFiniteSet(Milestones)
  <2>1. 1 \in Int /\ MaxPayouts \in Int
    BY WorkAssumption
  <2> QED
    BY <2>1, PlanAssumption, FS_Interval DEF Payouts
<1>2. \A p \in Payouts : f[p] \in Nat
  BY DEF SharesHold, Share
<1>3. \A m \in Milestones : g[m] \in Nat
  BY PlanAssumption
<1>4. \A p \in Payouts : f[p] # 0 =>
        Exists(p) /\ h[p] \in Milestones /\ 100 * f[p] <= earned * g[h[p]]
  BY DEF SharesHold, Share, ReleaseInv, RowsReleased
<1>5. \A p, q \in Payouts : f[p] # 0 /\ f[q] # 0 /\ h[p] = h[q] => p = q
  BY <1>4 DEF ReleaseInv, ReleasedOnce, Exists
<1>6. earned \in Nat
  BY EarnedIsNat DEF SharesHold
<1> HIDE DEF f, g, h, earned
<1>7. 100 * SumFunctionOnSet(f, Payouts) <= earned * SumFunctionOnSet(g, Milestones)
  BY <1>1, <1>2, <1>3, <1>4, <1>5, <1>6, SumCharged
<1>8. SumFunctionOnSet(f, Payouts) \in Nat /\ SumFunctionOnSet(g, Milestones) \in Nat
  BY <1>1, <1>2, <1>3, SumNat
<1>9. SumFunctionOnSet(g, Milestones) <= 100
  BY PlanAssumption DEF g, SumFunction
<1>10. earned * SumFunctionOnSet(g, Milestones) <= 100 * earned
  <2> DEFINE s == SumFunctionOnSet(g, Milestones)
  <2>1. PICK d \in Nat : s + d = 100
    <3>1. s \in Nat /\ s <= 100
      BY <1>8, <1>9
    <3> HIDE DEF s
    <3>2. 100 - s \in Nat /\ s + (100 - s) = 100
      BY <3>1
    <3> QED
      BY <3>2
  <2>2. s \in Nat
    BY <1>8
  <2> HIDE DEF s
  <2>3. earned * s + earned * d = earned * 100 /\ earned * d \in Nat
    BY <1>6, <2>1, <2>2
  <2>4. earned * s \in Nat
    BY <1>6, <2>2
  <2>5. earned * s <= 100 * earned
    BY <1>6, <2>3, <2>4
  <2> QED
    BY <2>5 DEF s
<1>11. SumFunctionOnSet(f, Payouts) <= earned
  <2> DEFINE a == SumFunctionOnSet(f, Payouts)
            b == earned * SumFunctionOnSet(g, Milestones)
  <2>1. a \in Nat /\ b \in Nat /\ 100 * a <= b /\ b <= 100 * earned
    BY <1>6, <1>7, <1>8, <1>10
  <2> HIDE DEF a, b
  <2>2. a <= earned
    BY <1>6, <2>1
  <2> QED
    BY <2>2 DEF a
<1> QED
  BY <1>11 DEF OnlyRefundsOverdraw, PaidOut, Earned, SumFunction, f, earned

(* What milestones release never exceeds what was ever captured             *)
(* (OnlyRefundsOverdraw), for every plan, every campaign and every order of *)
(* late captures, refunds, reviews and releases, while operators and tabs   *)
(* do not overlap, so that no milestone is released twice.                  *)
THEOREM RefundsAloneOverdraw ==
  ASSUME \A o, q \in Operators : o = q, \A t, u \in Tabs : t = u
  PROVE  Spec => []OnlyRefundsOverdraw
<1>1. Init => SharesHold
  <2> SUFFICES ASSUME Init PROVE SharesHold
    OBVIOUS
  <2>1. {c \in DOMAIN Refundable : refund[c] = "over"} = {}
    BY DEF Init
  <2>2. Earned = Captured
    <3>1. realized = Captured /\ Captured \in Nat
      BY PlanAssumption DEF Init
    <3>2. Returned = 0
      BY <2>1, SumEmpty DEF Returned
    <3> QED BY <3>1, <3>2 DEF Earned
  <2> QED
    BY <2>2, PlanAssumption DEF Init, SharesHold, Exists, NoRow, NoOperation
<1>2. TypeOK /\ ReleaseInv /\ SharesHold /\ [Next]_vars => SharesHold'
  BY SharesKept
<1>3. TypeOK /\ ReleaseInv /\ SharesHold => OnlyRefundsOverdraw
  BY SharesFit
<1>4. Spec => []ReleaseInv
  BY ReleasesAlways DEF Serial
<1> QED
  BY PayoutTypes, <1>1, <1>2, <1>3, <1>4, PTL DEF Spec
=============================================================================
