-------------------------- MODULE CaptureGraceProofs --------------------------
(***************************************************************************)
(* What CaptureGrace guarantees for every number of pledges, overlapping   *)
(* ticks, operators and faults: its types, that nothing is captured        *)
(* without a charge, that no charge is forgotten, and that the rewards of  *)
(* those who may still pay are kept.                                       *)
(***************************************************************************)
EXTENDS CaptureGrace, FiniteSetTheorems, TLAPS

Workers == Ticks \cup Operators
Stages == {"idle", "retry", "mark", "bump", "expire", "failed", "revive", "revived",
           "giveback"}

(* A job's write to its own locals: the other jobs are left alone. *)
Moves(w, at, item, todo) ==
  /\ job'[w].at = at /\ job'[w].item = item /\ job'[w].todo = todo
  /\ \A v \in Workers \ {w} : job'[v] = job[v]
  /\ job' \in [Workers -> Jobs]

(* Each write of a job is such a move. *)
LEMMA JobMoves ==
  ASSUME job \in [Workers -> Jobs], NEW w \in Workers, NEW at \in Stages
  PROVE  /\ Goes(w, at) => Moves(w, at, job[w].item, job[w].todo)
         /\ Loops(w, at) => Moves(w, at, NoPledge, job[w].todo)
         /\ \A i \in Pledges :
              /\ Takes(w, i, at) => Moves(w, at, i, job[w].todo \ {i})
              /\ Passes(w, i) => Moves(w, job[w].at, job[w].item, job[w].todo \ {i})
         /\ \A S \in SUBSET Pledges :
              job' = [job EXCEPT ![w].at = at, ![w].todo = S]
                => Moves(w, at, job[w].item, S)
         /\ job' = [job EXCEPT ![w] = Resting] => Moves(w, "idle", NoPledge, {})
  <1> USE DEF Jobs, Stages
  <1>1. ASSUME Goes(w, at) PROVE Moves(w, at, job[w].item, job[w].todo)
    <2>1. job' = [job EXCEPT ![w] = [job[w] EXCEPT !.at = at]]
      BY <1>1 DEF Goes
    <2>2. [job[w] EXCEPT !.at = at] \in Jobs
      OBVIOUS
    <2> QED
      BY <2>1, <2>2 DEF Moves
  <1>2. ASSUME Loops(w, at) PROVE Moves(w, at, NoPledge, job[w].todo)
    <2>1. job' = [job EXCEPT ![w] = [job[w] EXCEPT !.at = at, !.item = NoPledge]]
      BY <1>2 DEF Loops
    <2>2. [job[w] EXCEPT !.at = at, !.item = NoPledge] \in Jobs
      OBVIOUS
    <2> QED
      BY <2>1, <2>2 DEF Moves
  <1>3. ASSUME NEW i \in Pledges, Takes(w, i, at)
        PROVE  Moves(w, at, i, job[w].todo \ {i})
    <2>1. job' = [job EXCEPT ![w] = [job[w] EXCEPT !.at = at, !.item = i, !.todo = @ \ {i}]]
      BY <1>3 DEF Takes
    <2>2. [job[w] EXCEPT !.at = at, !.item = i, !.todo = @ \ {i}] \in Jobs
      OBVIOUS
    <2> QED
      BY <2>1, <2>2 DEF Moves
  <1>4. ASSUME NEW i \in Pledges, Passes(w, i)
        PROVE  Moves(w, job[w].at, job[w].item, job[w].todo \ {i})
    <2>1. job' = [job EXCEPT ![w] = [job[w] EXCEPT !.todo = @ \ {i}]]
      BY <1>4 DEF Passes
    <2>2. [job[w] EXCEPT !.todo = @ \ {i}] \in Jobs
      OBVIOUS
    <2> QED
      BY <2>1, <2>2 DEF Moves
  <1>5. ASSUME NEW S \in SUBSET Pledges, job' = [job EXCEPT ![w].at = at, ![w].todo = S]
        PROVE  Moves(w, at, job[w].item, S)
    <2>1. job' = [job EXCEPT ![w] = [job[w] EXCEPT !.at = at, !.todo = S]]
      BY <1>5
    <2>2. [job[w] EXCEPT !.at = at, !.todo = S] \in Jobs
      OBVIOUS
    <2> QED
      BY <2>1, <2>2 DEF Moves
  <1>6. ASSUME job' = [job EXCEPT ![w] = Resting] PROVE Moves(w, "idle", NoPledge, {})
    <2>1. Resting \in Jobs
      BY DEF Resting
    <2> QED
      BY <1>6, <2>1 DEF Moves, Resting
  <1> QED
    BY <1>1, <1>2, <1>3, <1>4, <1>5, <1>6

(* Where each action of a job takes it. *)
LEMMA StepMoves ==
  ASSUME TypeOK, NEW w \in Workers
  PROVE  /\ JobStarts(w) => \E at \in {"retry", "expire", "failed"}, S \in SUBSET Pledges :
                              /\ Moves(w, at, job[w].item, S)
                              /\ at = "failed" => w \in Operators
         /\ \A i \in job[w].todo :
              /\ i \in Pledges
              /\ RetryCaptured(w, i) => \/ Moves(w, "mark", i, job[w].todo \ {i})
                                        \/ Moves(w, "bump", i, job[w].todo \ {i}) /\ Fault
              /\ RetryRefused(w, i) => Moves(w, "bump", i, job[w].todo \ {i})
              /\ Expires(w, i) \/ StockExhausted(w, i)
                   => Moves(w, job[w].at, job[w].item, job[w].todo \ {i})
              /\ StockTaken(w, i) => Moves(w, "revive", i, job[w].todo \ {i})
         /\ RetryMarked(w) => \/ Moves(w, "retry", NoPledge, job[w].todo)
                              \/ Moves(w, "bump", job[w].item, job[w].todo) /\ Fault
         /\ AttemptCounted(w) => Moves(w, "retry", NoPledge, job[w].todo)
         /\ CohortListsFailed(w) =>
              \E S \in SUBSET Pledges : Moves(w, "failed", job[w].item, S) /\ w \in Operators
         /\ ReviveCaptured(w) => \/ Moves(w, "revived", job[w].item, job[w].todo)
                                 \/ Moves(w, "giveback", job[w].item, job[w].todo) /\ Fault
         /\ ReviveRefused(w) => Moves(w, "giveback", job[w].item, job[w].todo)
         /\ ReviveMarked(w) \/ StockGivenBack(w) => Moves(w, "failed", NoPledge, job[w].todo)
         /\ JobEnds(w) => Moves(w, "idle", NoPledge, {})
  <1> USE DEF Stages
  <1>0. job \in [Workers -> Jobs] /\ job[w].todo \in SUBSET Pledges
    BY DEF TypeOK, Jobs, Workers
  <1>1. ASSUME JobStarts(w)
        PROVE  \E at \in {"retry", "expire", "failed"}, S \in SUBSET Pledges :
                 Moves(w, at, job[w].item, S) /\ (at = "failed" => w \in Operators)
    <2>1. InGrace \in SUBSET Pledges
      BY DEF InGrace
    <2>2. \A at \in Stages, S \in SUBSET Pledges :
            Starts(w, at, S) => Moves(w, at, job[w].item, S)
      BY <1>0, JobMoves DEF Starts
    <2>3. CASE TickReads(w)
      <3> DEFINE due == {p \in InGrace : Due(p)}
      <3>1. due \in SUBSET Pledges /\ Starts(w, "retry", due)
        BY <2>1, <2>3 DEF TickReads
      <3> QED
        BY <2>2, <3>1
    <2>4. CASE TickListsExpired(w)
      BY <2>1, <2>2, <2>4 DEF TickListsExpired
    <2>5. CASE CohortReads(w)
      BY <2>1, <2>2, <2>5 DEF CohortReads
    <2>6. CASE w \in Operators /\ \E p \in Pledges : ReviveReads(w, p)
      BY <2>2, <2>6 DEF ReviveReads
    <2> QED
      BY <1>1, <2>3, <2>4, <2>5, <2>6 DEF JobStarts, TickStarts
  <1>2. ASSUME NEW i \in job[w].todo
        PROVE /\ i \in Pledges
              /\ RetryCaptured(w, i) => \/ Moves(w, "mark", i, job[w].todo \ {i})
                                        \/ Moves(w, "bump", i, job[w].todo \ {i}) /\ Fault
              /\ RetryRefused(w, i) => Moves(w, "bump", i, job[w].todo \ {i})
              /\ Expires(w, i) \/ StockExhausted(w, i)
                   => Moves(w, job[w].at, job[w].item, job[w].todo \ {i})
              /\ StockTaken(w, i) => Moves(w, "revive", i, job[w].todo \ {i})
    BY <1>0, <1>2, JobMoves
       DEF RetryCaptured, RetryRefused, Expires, StockExhausted, StockTaken
  <1>3. /\ RetryMarked(w) => \/ Moves(w, "retry", NoPledge, job[w].todo)
                             \/ Moves(w, "bump", job[w].item, job[w].todo) /\ Fault
        /\ AttemptCounted(w) => Moves(w, "retry", NoPledge, job[w].todo)
    BY <1>0, JobMoves DEF RetryMarked, AttemptCounted
  <1>4. CohortListsFailed(w) =>
          \E S \in SUBSET Pledges : Moves(w, "failed", job[w].item, S) /\ w \in Operators
    <2>1. FailedCapture \in SUBSET Pledges /\ {} \in SUBSET Pledges
      BY DEF FailedCapture
    <2>2. \A S \in SUBSET Pledges :
            job' = [job EXCEPT ![w].at = "failed", ![w].todo = S]
              => Moves(w, "failed", job[w].item, S)
      BY <1>0, JobMoves
    <2> QED
      BY <2>1, <2>2 DEF CohortListsFailed
  <1>5. /\ ReviveCaptured(w) => \/ Moves(w, "revived", job[w].item, job[w].todo)
                                \/ Moves(w, "giveback", job[w].item, job[w].todo) /\ Fault
        /\ ReviveRefused(w) => Moves(w, "giveback", job[w].item, job[w].todo)
        /\ ReviveMarked(w) \/ StockGivenBack(w) => Moves(w, "failed", NoPledge, job[w].todo)
    BY <1>0, JobMoves DEF ReviveCaptured, ReviveRefused, ReviveMarked, StockGivenBack
  <1>6. JobEnds(w) => Moves(w, "idle", NoPledge, {})
    BY <1>0, JobMoves DEF JobEnds
  <1> QED
    BY <1>1, <1>2, <1>3, <1>4, <1>5, <1>6

-----------------------------------------------------------------------------
(* What a job, a request or a delivery that is about to write knows.        *)
LocalsInv ==
  /\ \A w \in Workers :
       /\ job[w].at \in {"mark", "bump", "revive", "revived", "giveback"}
            => job[w].item \in Pledges
       /\ job[w].at \in {"mark", "revived"} => job[w].item \in charged
       /\ job[w].at \in {"failed", "revive", "revived", "giveback"} => w \in Operators
  /\ \A p \in Cards, t \in Tabs : card[p][t] = "captured" => p \in charged
  /\ \A p \in Intents, d \in Deliveries : hook[p][d] = "write" => p \in charged

IInv == TypeOK /\ LocalsInv /\ CapturedWasCharged /\ RewardsReserved /\ ChargeIsRecorded

(* The reserved rewards can be counted, and a unit is reserved for each.    *)
LEMMA Counted ==
  ASSUME TypeOK
  PROVE  /\ IsFiniteSet(InGrace) /\ Cardinality(InGrace) \in Nat
         /\ IsFiniteSet(Reviving) /\ Cardinality(Reviving) \in Nat
         /\ RewardsReserved /\ InGrace # {} => claimed >= 1
         /\ RewardsReserved /\ Reviving # {} => claimed >= 1
  <1>1. IsFiniteSet(InGrace) /\ IsFiniteSet(Reviving)
    <2>1. InGrace \in SUBSET Pledges /\ Reviving \in SUBSET Operators
      BY DEF InGrace, Reviving
    <2> QED
      BY <2>1, FS_Subset, GraceAssumption
  <1>2. Cardinality(InGrace) \in Nat /\ Cardinality(Reviving) \in Nat
    BY <1>1, FS_CardinalityType
  <1>3. /\ InGrace # {} => Cardinality(InGrace) # 0
        /\ Reviving # {} => Cardinality(Reviving) # 0
    BY <1>1, FS_EmptySet
  <1>4. claimed \in Nat
    BY DEF TypeOK
  <1> HIDE DEF InGrace, Reviving
  <1>5. ASSUME RewardsReserved, InGrace # {} \/ Reviving # {} PROVE claimed >= 1
    <2> DEFINE m == Cardinality(InGrace)
               n == Cardinality(Reviving)
    <2>1. m \in Nat /\ n \in Nat /\ (m # 0 \/ n # 0) /\ m + n <= claimed
      BY <1>2, <1>3, <1>5 DEF RewardsReserved
    <2> HIDE DEF m, n
    <2> QED
      BY <1>4, <2>1
  <1> QED
    BY <1>1, <1>2, <1>5

(* Every action keeps the types. *)
LEMMA TypesKept == IInv /\ [Next]_vars => TypeOK'
  <1> SUFFICES ASSUME IInv, [Next]_vars PROVE TypeOK'
    OBVIOUS
  <1>0. TypeOK /\ LocalsInv /\ RewardsReserved
    BY DEF IInv
  <1> USE DEF TypeOK, clientVars, JobStays, Workers
  <1>1. CASE TimePasses
    BY <1>0, <1>1, GraceAssumption DEF TimePasses, Expired
  <1>2. CASE Crash
    <2>0. CASE \E w \in Workers : job' = [job EXCEPT ![w] = Resting] /\ UNCHANGED clientVars
      <3>1. job' \in [Workers -> Jobs]
        BY <1>0, <2>0, JobMoves DEF Moves, Stages
      <3> QED
        BY <1>0, <1>2, <2>0, <3>1, GraceAssumption DEF Crash, Fault
    <2>1. CASE \E p \in Cards, t \in Tabs :
                 /\ card' = [card EXCEPT ![p][t] = "none"]
                 /\ UNCHANGED <<job, checkout, hook>>
      <3>1. card' \in [Cards -> [Tabs -> {"none", "checked", "captured"}]]
        BY <1>0, <2>1
      <3> QED
        BY <1>0, <1>2, <2>1, <3>1, GraceAssumption DEF Crash, Fault
    <2>2. CASE \E p \in Intents, d \in Deliveries :
                 /\ hook' = [hook EXCEPT ![p][d] = "none"]
                 /\ UNCHANGED <<job, card, checkout>>
      <3>1. hook' \in [Intents -> [Deliveries -> {"none", "write"}]]
        BY <1>0, <2>2
      <3> QED
        BY <1>0, <1>2, <2>2, <3>1, GraceAssumption DEF Crash, Fault
    <2> QED
      BY <1>2, <2>0, <2>1, <2>2 DEF Crash
  <1>3. ASSUME NEW w \in Workers, JobStarts(w) PROVE TypeOK'
    <2>1. job' \in [Workers -> Jobs]
      BY <1>0, <1>3, StepMoves DEF Moves
    <2> QED
      BY <1>0, <1>3, <2>1 DEF JobStarts, TickStarts, TickReads, TickListsExpired, CohortReads,
         ReviveReads, Starts
  <1>4. ASSUME NEW w \in Workers, NEW i \in job[w].todo, ItemStep(w, i) PROVE TypeOK'
    <2>1. job' \in [Workers -> Jobs] /\ i \in Pledges
      BY <1>0, <1>4, StepMoves DEF Moves, ItemStep
    <2>2. CASE RetryCaptured(w, i) \/ RetryRefused(w, i)
      BY <1>0, <2>1, <2>2, GraceAssumption DEF RetryCaptured, RetryRefused, Fault
    <2>3. CASE Expires(w, i)
      <3>1. i \in InGrace => claimed >= 1
        BY <1>0, Counted
      <3> QED
        BY <1>0, <2>1, <2>3, <3>1 DEF Expires
    <2>4. CASE StockTaken(w, i) \/ StockExhausted(w, i)
      BY <1>0, <2>1, <2>4 DEF StockTaken, StockExhausted
    <2> QED
      BY <1>4, <2>2, <2>3, <2>4 DEF ItemStep
  <1>5. ASSUME NEW w \in Workers,
               RetryMarked(w) \/ AttemptCounted(w) \/ CohortListsFailed(w) \/ ReviveCaptured(w)
                 \/ ReviveRefused(w) \/ ReviveMarked(w) \/ StockGivenBack(w) \/ JobEnds(w)
        PROVE TypeOK'
    <2>1. job' \in [Workers -> Jobs]
      BY <1>0, <1>5, StepMoves DEF Moves
    <2>2. CASE RetryMarked(w) \/ ReviveMarked(w) \/ ReviveCaptured(w)
      BY <1>0, <2>1, <2>2, GraceAssumption
         DEF RetryMarked, ReviveMarked, ReviveCaptured, MarkCaptured, Fault, At, LocalsInv
    <2>3. CASE AttemptCounted(w)
      BY <1>0, <2>1, <2>3, GraceAssumption DEF AttemptCounted, At, LocalsInv
    <2>4. CASE CohortListsFailed(w) \/ ReviveRefused(w) \/ StockGivenBack(w) \/ JobEnds(w)
      BY <1>0, <2>1, <2>4 DEF CohortListsFailed, ReviveRefused, StockGivenBack, JobEnds
    <2> QED
      BY <1>5, <2>2, <2>3, <2>4
  <1>6. ASSUME NEW p \in Cards, NEW t \in Tabs, NewCardChecked(p, t) \/ CardStep(p, t)
        PROVE TypeOK'
    <2>1. \A to \in {"none", "checked", "captured"} :
            card' = [card EXCEPT ![p][t] = to]
              => card' \in [Cards -> [Tabs -> {"none", "checked", "captured"}]]
      BY <1>0, <1>6
    <2>2. p \in Pledges
      BY <1>6 DEF Pledges
    <2>3. CASE NewCardChecked(p, t) \/ NewCardDeclined(p, t)
      BY <1>0, <2>1, <2>3 DEF NewCardChecked, NewCardDeclined, CardGoes
    <2>4. CASE NewCardCaptured(p, t)
      BY <1>0, <2>1, <2>2, <2>4, GraceAssumption DEF NewCardCaptured, CardGoes, Fault
    <2>5. CASE NewCardMarked(p, t)
      BY <1>0, <2>1, <2>2, <2>5 DEF NewCardMarked, CardGoes, MarkCaptured
    <2> QED
      BY <1>6, <2>3, <2>4, <2>5 DEF CardStep
  <1>7. ASSUME NEW p \in Intents, CheckoutOpened(p) \/ CheckoutPaid(p) PROVE TypeOK'
    BY <1>0, <1>7 DEF CheckoutOpened, CheckoutPaid, Pledges
  <1>8. ASSUME NEW p \in Intents, NEW d \in Deliveries, HookReads(p, d) \/ HookWrites(p, d)
        PROVE TypeOK'
    BY <1>0, <1>8 DEF HookReads, HookWrites, MarkCaptured, Pledges
  <1>9. CASE UNCHANGED vars
    BY <1>0, <1>9 DEF vars
  <1> QED
    BY <1>1, <1>2, <1>3, <1>4, <1>5, <1>6, <1>7, <1>8, <1>9 DEF Next, JobStep

(* Nobody marks a pledge captured, and nobody is about to, without knowing  *)
(* that it was charged; and no job is in a stage that is not its own.       *)
LEMMA LocalsKept == IInv /\ [Next]_vars => LocalsInv' /\ CapturedWasCharged'
  <1> SUFFICES ASSUME IInv, [Next]_vars PROVE LocalsInv' /\ CapturedWasCharged'
    OBVIOUS
  <1>0. TypeOK /\ LocalsInv /\ CapturedWasCharged
    BY DEF IInv
  <1> USE DEF LocalsInv, CapturedWasCharged, clientVars, JobStays
  <1>1. CASE TimePasses \/ UNCHANGED vars
    BY <1>0, <1>1 DEF TimePasses, vars
  <1>2. CASE Crash
    <2>1. UNCHANGED <<status, charged>>
      BY <1>2 DEF Crash
    <2>2. CASE \E w \in Workers : job' = [job EXCEPT ![w] = Resting] /\ UNCHANGED clientVars
      <3>1. \E w \in Workers : Moves(w, "idle", NoPledge, {})
        BY <1>0, <2>2, JobMoves DEF Stages, TypeOK, Workers
      <3> QED
        BY <1>0, <2>1, <2>2, <3>1 DEF Moves
    <2>3. CASE \E p \in Cards, t \in Tabs :
                 /\ card' = [card EXCEPT ![p][t] = "none"]
                 /\ UNCHANGED <<job, checkout, hook>>
      BY <1>0, <2>1, <2>3 DEF TypeOK
    <2>4. CASE \E p \in Intents, d \in Deliveries :
                 /\ hook' = [hook EXCEPT ![p][d] = "none"]
                 /\ UNCHANGED <<job, card, checkout>>
      BY <1>0, <2>1, <2>4 DEF TypeOK
    <2> QED
      BY <1>2, <2>2, <2>3, <2>4 DEF Crash, Workers
  <1>3. ASSUME NEW w \in Workers, JobStarts(w)
        PROVE  LocalsInv' /\ CapturedWasCharged'
    <2>1. UNCHANGED <<status, charged, card, hook>>
      BY <1>3 DEF JobStarts, TickStarts, TickReads, TickListsExpired, CohortReads, ReviveReads,
         Starts
    <2> QED
      BY <1>0, <1>3, <2>1, StepMoves DEF Moves
  <1>4. ASSUME NEW w \in Workers, NEW i \in job[w].todo, ItemStep(w, i)
        PROVE  LocalsInv' /\ CapturedWasCharged'
    <2>1. i \in Pledges /\ UNCHANGED <<card, hook>>
      BY <1>0, <1>4, StepMoves DEF ItemStep, RetryCaptured, RetryRefused, Expires, StockTaken,
         StockExhausted
    <2>2. CASE RetryCaptured(w, i)
      <3>1. charged' = charged \cup {i} /\ UNCHANGED status
        BY <2>2 DEF RetryCaptured
      <3> QED
        BY <1>0, <2>1, <2>2, <3>1, StepMoves DEF Moves
    <2>3. CASE RetryRefused(w, i)
      BY <1>0, <2>1, <2>3, StepMoves DEF Moves, RetryRefused
    <2>4. CASE Expires(w, i)
      <3>1. \A p \in Pledges : status'[p] = "CAPTURED" => status[p] = "CAPTURED"
        BY <1>0, <2>1, <2>4 DEF Expires, TypeOK
      <3> QED
        BY <1>0, <2>1, <2>4, <3>1, StepMoves DEF Moves, Expires
    <2>5. CASE StockTaken(w, i) \/ StockExhausted(w, i)
      BY <1>0, <2>1, <2>5, StepMoves DEF Moves, StockTaken, StockExhausted, At
    <2> QED
      BY <1>4, <2>2, <2>3, <2>4, <2>5 DEF ItemStep
  <1>5. ASSUME NEW w \in Workers, RetryMarked(w) \/ ReviveMarked(w)
        PROVE  LocalsInv' /\ CapturedWasCharged'
    <2>1. job[w].item \in charged /\ UNCHANGED <<charged, card, hook>>
      BY <1>0, <1>5 DEF RetryMarked, ReviveMarked, At
    <2>2. \A p \in Pledges : status'[p] = "CAPTURED" => p \in charged
      BY <1>0, <1>5, <2>1 DEF RetryMarked, ReviveMarked, MarkCaptured, TypeOK
    <2> QED
      BY <1>0, <1>5, <2>1, <2>2, StepMoves DEF Moves, RetryMarked, ReviveMarked, At
  <1>6. ASSUME NEW w \in Workers, ReviveCaptured(w)
        PROVE  LocalsInv' /\ CapturedWasCharged'
    BY <1>0, <1>6, StepMoves DEF Moves, ReviveCaptured, At
  <1>7. ASSUME NEW w \in Workers,
               AttemptCounted(w) \/ CohortListsFailed(w) \/ ReviveRefused(w)
                 \/ StockGivenBack(w) \/ JobEnds(w)
        PROVE  LocalsInv' /\ CapturedWasCharged'
    <2>1. UNCHANGED <<status, charged, card, hook>>
      BY <1>7 DEF AttemptCounted, CohortListsFailed, ReviveRefused, StockGivenBack, JobEnds
    <2> QED
      BY <1>0, <1>7, <2>1, StepMoves DEF Moves, ReviveRefused, StockGivenBack, At
  <1>8. ASSUME NEW p \in Cards, NEW t \in Tabs, NewCardChecked(p, t) \/ CardStep(p, t)
        PROVE  LocalsInv' /\ CapturedWasCharged'
    <2>1. p \in Pledges /\ UNCHANGED <<job, hook>>
      BY <1>8 DEF Pledges, NewCardChecked, CardStep, NewCardDeclined, NewCardCaptured,
         NewCardMarked, CardGoes
    <2>2. CASE NewCardChecked(p, t) \/ NewCardDeclined(p, t)
      BY <1>0, <2>1, <2>2 DEF NewCardChecked, NewCardDeclined, CardGoes, TypeOK
    <2>3. CASE NewCardCaptured(p, t)
      BY <1>0, <2>1, <2>3 DEF NewCardCaptured, CardGoes, TypeOK
    <2>4. CASE NewCardMarked(p, t)
      <3>1. p \in charged /\ UNCHANGED charged
        BY <1>0, <2>4 DEF NewCardMarked, CardGoes
      <3> QED
        BY <1>0, <2>1, <2>4, <3>1 DEF NewCardMarked, CardGoes, MarkCaptured, TypeOK
    <2> QED
      BY <1>8, <2>2, <2>3, <2>4 DEF CardStep
  <1>9. ASSUME NEW p \in Intents, CheckoutOpened(p) \/ CheckoutPaid(p)
        PROVE  LocalsInv' /\ CapturedWasCharged'
    BY <1>0, <1>9 DEF CheckoutOpened, CheckoutPaid
  <1>10. ASSUME NEW p \in Intents, NEW d \in Deliveries, HookReads(p, d) \/ HookWrites(p, d)
         PROVE  LocalsInv' /\ CapturedWasCharged'
    BY <1>0, <1>10 DEF HookReads, HookWrites, MarkCaptured, TypeOK, Pledges
  <1> QED
    BY <1>1, <1>2, <1>3, <1>4, <1>5, <1>6, <1>7, <1>8, <1>9, <1>10 DEF Next, JobStep, Workers

(* A captured pledge is left captured by every action. *)
CapturedStep == \A p \in Pledges : status[p] = "CAPTURED" => status'[p] = "CAPTURED"

LEMMA CapturedKept == IInv /\ [Next]_vars => CapturedStep
  <1> SUFFICES ASSUME IInv, [Next]_vars PROVE CapturedStep
    OBVIOUS
  <1>0. status \in [Pledges -> {"CAPTURE_GRACE", "CAPTURED", "FAILED_CAPTURE"}]
    BY DEF IInv, TypeOK
  <1> USE DEF CapturedStep
  <1>1. CASE UNCHANGED status
    BY <1>1
  <1>2. ASSUME NEW p, MarkCaptured(p) PROVE CapturedStep
    BY <1>0, <1>2 DEF MarkCaptured
  <1>3. ASSUME NEW w \in Workers, NEW i \in job[w].todo, Expires(w, i) PROVE CapturedStep
    BY <1>0, <1>3 DEF Expires, InGrace
  <1>4. ASSUME NEW w \in Workers, JobStarts(w) PROVE UNCHANGED status
    BY <1>4 DEF JobStarts, TickStarts, TickReads, TickListsExpired, CohortReads, ReviveReads,
       Starts
  <1>5. ASSUME NEW w \in Workers, JobStep(w) PROVE CapturedStep
    <2>1. \/ \E p : MarkCaptured(p)
          \/ \E i \in job[w].todo : Expires(w, i)
          \/ UNCHANGED status
      BY <1>5 DEF JobStep, ItemStep, RetryCaptured, RetryRefused, StockTaken, StockExhausted,
         RetryMarked, AttemptCounted, CohortListsFailed, ReviveCaptured, ReviveRefused,
         ReviveMarked, StockGivenBack, JobEnds
    <2> QED
      BY <2>1, <1>1, <1>2, <1>3
  <1>6. ASSUME NEW p \in Pledges, NEW t,
               \/ NewCardChecked(p, t) \/ CardStep(p, t)
               \/ CheckoutOpened(p) \/ CheckoutPaid(p)
               \/ HookReads(p, t) \/ HookWrites(p, t)
        PROVE CapturedStep
    BY <1>1, <1>2, <1>6 DEF NewCardChecked, CardStep, NewCardDeclined, NewCardCaptured,
       NewCardMarked, CheckoutOpened, CheckoutPaid, HookReads, HookWrites
  <1> QED
    BY <1>1, <1>4, <1>5, <1>6 DEF Next, Workers, TimePasses, Crash, Pledges, vars

-----------------------------------------------------------------------------
(* Fewer pledges in grace and fewer revivals need no more of the stock.     *)
LEMMA NeedsShrink ==
  ASSUME TypeOK, RewardsReserved, InGrace' \subseteq InGrace, Reviving' \subseteq Reviving,
         claimed' >= claimed, claimed' \in Nat
  PROVE  RewardsReserved'
  <1> DEFINE m == Cardinality(InGrace)   m2 == Cardinality(InGrace')
             n == Cardinality(Reviving)  n2 == Cardinality(Reviving')
  <1>1. m \in Nat /\ n \in Nat /\ m + n <= claimed /\ claimed \in Nat
    BY Counted DEF RewardsReserved, TypeOK
  <1>2. IsFiniteSet(InGrace') /\ IsFiniteSet(Reviving') /\ m2 <= m /\ n2 <= n
    BY Counted, FS_Subset
  <1>3. m2 \in Nat /\ n2 \in Nat
    BY <1>2, FS_CardinalityType
  <1> HIDE DEF m, n, m2, n2
  <1>4. m2 + n2 <= claimed'
    BY <1>1, <1>2, <1>3
  <1> QED
    BY <1>4 DEF m2, n2, RewardsReserved

(* A pledge that expires, or a revival that ends, frees the unit it gives   *)
(* back, and a revival that begins has taken one.                           *)
LEMMA NeedsMove ==
  ASSUME TypeOK, RewardsReserved,
         \/ \E i \in InGrace : /\ InGrace' = InGrace \ {i} /\ Reviving' \subseteq Reviving
                               /\ claimed' = claimed - 1
         \/ \E w \in Reviving : /\ InGrace' = InGrace /\ Reviving' = Reviving \ {w}
                                /\ claimed' = claimed - 1
         \/ \E w : /\ InGrace' = InGrace /\ Reviving' \subseteq Reviving \cup {w}
                   /\ claimed' = claimed + 1
  PROVE  RewardsReserved'
  <1> DEFINE m == Cardinality(InGrace)   m2 == Cardinality(InGrace')
             n == Cardinality(Reviving)  n2 == Cardinality(Reviving')
  <1>1. m \in Nat /\ n \in Nat /\ m + n <= claimed /\ claimed \in Nat
    BY Counted DEF RewardsReserved, TypeOK
  <1>2. CASE \E i \in InGrace : /\ InGrace' = InGrace \ {i} /\ Reviving' \subseteq Reviving
                                /\ claimed' = claimed - 1
    <2>1. m2 = m - 1
      BY <1>2, Counted, FS_RemoveElement
    <2>2. n2 <= n /\ n2 \in Nat
      BY <1>2, Counted, FS_Subset, FS_CardinalityType
    <2> HIDE DEF m, n, m2, n2
    <2>3. m2 + n2 <= claimed'
      BY <1>1, <1>2, <2>1, <2>2
    <2> QED
      BY <2>3 DEF m2, n2, RewardsReserved
  <1>3. CASE \E w \in Reviving : /\ InGrace' = InGrace /\ Reviving' = Reviving \ {w}
                                 /\ claimed' = claimed - 1
    <2>1. n2 = n - 1 /\ m2 = m
      BY <1>3, Counted, FS_RemoveElement
    <2> HIDE DEF m, n, m2, n2
    <2>2. m2 + n2 <= claimed'
      BY <1>1, <1>3, <2>1
    <2> QED
      BY <2>2 DEF m2, n2, RewardsReserved
  <1>4. CASE \E w : /\ InGrace' = InGrace /\ Reviving' \subseteq Reviving \cup {w}
                    /\ claimed' = claimed + 1
    <2>1. PICK w : Reviving' \subseteq Reviving \cup {w}
      BY <1>4
    <2>2. /\ IsFiniteSet(Reviving \cup {w}) /\ Cardinality(Reviving \cup {w}) <= n + 1
          /\ Cardinality(Reviving \cup {w}) \in Nat
      <3>1. /\ IsFiniteSet(Reviving \cup {w})
            /\ Cardinality(Reviving \cup {w}) = IF w \in Reviving THEN n ELSE n + 1
        BY Counted, FS_AddElement
      <3> HIDE DEF n
      <3> QED
        BY <1>1, <3>1
    <2>3. /\ n2 <= Cardinality(Reviving \cup {w}) /\ n2 \in Nat
          /\ m2 = m
      BY <1>4, <2>1, <2>2, FS_Subset, FS_CardinalityType
    <2> DEFINE k == Cardinality(Reviving \cup {w})
    <2> HIDE DEF m, n, m2, n2, k
    <2>4. k <= n + 1 /\ k \in Nat /\ n2 <= k /\ n2 \in Nat /\ m2 = m
      BY <2>2, <2>3 DEF k
    <2>5. m2 + n2 <= claimed'
      BY <1>1, <1>4, <2>4
    <2> QED
      BY <2>5 DEF m2, n2, RewardsReserved
  <1> QED
    BY <1>2, <1>3, <1>4

(* Every action keeps the rewards reserved. *)
LEMMA ReservedKept == IInv /\ [Next]_vars => RewardsReserved'
  <1> SUFFICES ASSUME IInv, [Next]_vars PROVE RewardsReserved'
    OBVIOUS
  <1>0. TypeOK /\ LocalsInv /\ RewardsReserved /\ claimed' \in Nat /\ claimed \in Nat
    BY TypesKept DEF IInv, TypeOK
  <1>a. ASSUME UNCHANGED claimed, UNCHANGED status \/ \E p : MarkCaptured(p),
               Reviving' \subseteq Reviving
        PROVE  RewardsReserved'
    <2>1. InGrace' \subseteq InGrace
      BY <1>0, <1>a DEF InGrace, MarkCaptured, TypeOK
    <2> QED
      BY <1>0, <1>a, <2>1, NeedsShrink
  <1>b. UNCHANGED job => Reviving' = Reviving
    BY DEF Reviving
  <1>1. CASE TimePasses \/ UNCHANGED vars
    BY <1>1, <1>a, <1>b DEF TimePasses, vars
  <1>2. CASE Crash
    <2>1. CASE UNCHANGED job
      BY <1>2, <2>1, <1>a, <1>b DEF Crash
    <2>2. CASE \E w \in Workers : job' = [job EXCEPT ![w] = Resting]
      <3>1. \E w \in Workers : Moves(w, "idle", NoPledge, {})
        BY <1>0, <2>2, JobMoves DEF Stages, TypeOK, Workers
      <3>2. Reviving' \subseteq Reviving
        BY <3>1 DEF Moves, Reviving, Workers
      <3> QED
        BY <1>2, <1>a, <3>2 DEF Crash
    <2> QED
      BY <1>2, <2>1, <2>2 DEF Crash, Workers
  <1>3. ASSUME NEW w \in Workers, JobStarts(w) PROVE RewardsReserved'
    <2>1. Reviving' \subseteq Reviving
      BY <1>0, <1>3, StepMoves DEF Moves, Reviving, Workers
    <2> QED
      BY <1>3, <1>a, <2>1 DEF JobStarts, TickStarts, TickReads, TickListsExpired, CohortReads,
         ReviveReads, Starts
  <1>4. ASSUME NEW w \in Workers, NEW i \in job[w].todo, ItemStep(w, i)
        PROVE  RewardsReserved'
    <2>0. i \in Pledges
      BY <1>0, StepMoves
    <2>1. CASE RetryCaptured(w, i) \/ RetryRefused(w, i) \/ StockExhausted(w, i)
      <3>1. Reviving' \subseteq Reviving
        BY <1>0, <2>1, StepMoves DEF Moves, Reviving, Workers
      <3> QED
        BY <2>1, <3>1, <1>a DEF RetryCaptured, RetryRefused, StockExhausted
    <2>2. CASE Expires(w, i)
      <3>1. Reviving' \subseteq Reviving
        BY <1>0, <2>2, StepMoves DEF Moves, Reviving, Workers
      <3>2. CASE i \in InGrace
        <4>1. InGrace' = InGrace \ {i} /\ claimed' = claimed - 1
          BY <1>0, <2>0, <2>2, <3>2 DEF Expires, InGrace, TypeOK
        <4> QED
          BY <1>0, <3>1, <3>2, <4>1, NeedsMove
      <3>3. CASE i \notin InGrace
        BY <2>2, <3>1, <3>3, <1>a DEF Expires
      <3> QED
        BY <3>2, <3>3
    <2>3. CASE StockTaken(w, i)
      <3>1. Reviving' \subseteq Reviving \cup {w}
        BY <1>0, <2>3, StepMoves DEF Moves, Reviving, Workers
      <3>2. InGrace' = InGrace /\ claimed' = claimed + 1
        BY <2>3 DEF StockTaken, InGrace
      <3> QED
        BY <1>0, <3>1, <3>2, NeedsMove
    <2> QED
      BY <1>4, <2>1, <2>2, <2>3 DEF ItemStep
  <1>5. ASSUME NEW w \in Workers, StockGivenBack(w) PROVE RewardsReserved'
    <2>1. w \in Reviving
      BY <1>0, <1>5 DEF StockGivenBack, At, LocalsInv, Reviving
    <2>2. Reviving' = Reviving \ {w}
      BY <1>0, <1>5, StepMoves DEF Moves, Reviving, Workers
    <2>3. claimed >= 1
      BY <1>0, <2>1, Counted
    <2>4. InGrace' = InGrace /\ claimed' = claimed - 1
      BY <1>0, <1>5, <2>3 DEF StockGivenBack, InGrace
    <2> QED
      BY <1>0, <2>1, <2>2, <2>4, NeedsMove
  <1>6. ASSUME NEW w \in Workers,
               RetryMarked(w) \/ AttemptCounted(w) \/ CohortListsFailed(w) \/ ReviveCaptured(w)
                 \/ ReviveRefused(w) \/ ReviveMarked(w) \/ JobEnds(w)
        PROVE  RewardsReserved'
    <2>1. Reviving' \subseteq Reviving
      BY <1>0, <1>6, StepMoves DEF Moves, Reviving, Workers, ReviveCaptured, ReviveRefused, At
    <2> QED
      BY <1>6, <1>a, <2>1 DEF RetryMarked, AttemptCounted, CohortListsFailed, ReviveCaptured,
         ReviveRefused, ReviveMarked, JobEnds
  <1>7. ASSUME NEW p, NEW t,
               \/ NewCardChecked(p, t) \/ CardStep(p, t)
               \/ CheckoutOpened(p) \/ CheckoutPaid(p)
               \/ HookReads(p, t) \/ HookWrites(p, t)
        PROVE  RewardsReserved'
    BY <1>7, <1>a, <1>b DEF NewCardChecked, CardStep, NewCardDeclined, NewCardCaptured,
       NewCardMarked, CardGoes, CheckoutOpened, CheckoutPaid, HookReads, HookWrites
  <1> QED
    BY <1>1, <1>2, <1>3, <1>4, <1>5, <1>6, <1>7 DEF Next, JobStep, Workers

-----------------------------------------------------------------------------
(* Whoever knows of a charge still knows it after a step, or has recorded   *)
(* it, or something was lost.                                               *)
LEMMA RecordedKept == IInv /\ [Next]_vars => ChargeIsRecorded'
  <1> SUFFICES ASSUME IInv, [Next]_vars, NEW p \in Cards, p \in charged', faults' = 0
               PROVE  status'[p] = "CAPTURED" \/ Knows(p)'
    BY DEF ChargeIsRecorded
  <1>0. /\ TypeOK /\ LocalsInv /\ p \in Pledges
        /\ p \in charged /\ faults = 0 => status[p] = "CAPTURED" \/ Knows(p)
        /\ status[p] = "CAPTURED" => status'[p] = "CAPTURED"
    BY CapturedKept DEF IInv, ChargeIsRecorded, Pledges, CapturedStep
  <1> USE DEF Knows, Workers, clientVars, JobStays
  <1>f. ~Fault
    BY <1>0 DEF Fault, TypeOK
  <1>a. ASSUME UNCHANGED <<charged, faults, job, card>>
        PROVE  status'[p] = "CAPTURED" \/ Knows(p)'
    BY <1>0, <1>a
  <1>1. CASE TimePasses \/ UNCHANGED vars
    BY <1>1, <1>a DEF TimePasses, vars
  <1>2. CASE Crash
    BY <1>2, <1>f DEF Crash
  <1>3. ASSUME NEW w \in Workers, JobStarts(w)
        PROVE  status'[p] = "CAPTURED" \/ Knows(p)'
    <2>1. UNCHANGED <<charged, faults, card>> /\ job[w].at = "idle"
      BY <1>3 DEF JobStarts, TickStarts, TickReads, TickListsExpired, CohortReads, ReviveReads,
         Starts, At
    <2> QED
      BY <1>0, <1>3, <2>1, StepMoves DEF Moves
  <1>4. ASSUME NEW w \in Workers, NEW i \in job[w].todo, ItemStep(w, i)
        PROVE  status'[p] = "CAPTURED" \/ Knows(p)'
    <2>1. job[w].at \notin {"mark", "revived"} /\ UNCHANGED card
      BY <1>4 DEF ItemStep, RetryCaptured, RetryRefused, Expires, StockTaken, StockExhausted, At
    <2>2. CASE RetryCaptured(w, i)
      <3>1. charged' = charged \cup {i} /\ UNCHANGED faults
        BY <1>f, <2>2 DEF RetryCaptured
      <3> QED
        BY <1>0, <1>f, <2>1, <2>2, <3>1, StepMoves DEF Moves
    <2>3. CASE RetryRefused(w, i) \/ Expires(w, i) \/ StockTaken(w, i) \/ StockExhausted(w, i)
      <3>1. UNCHANGED <<charged, faults>>
        BY <2>3 DEF RetryRefused, Expires, StockTaken, StockExhausted
      <3> QED
        BY <1>0, <2>1, <2>3, <3>1, StepMoves DEF Moves
    <2> QED
      BY <1>4, <2>2, <2>3 DEF ItemStep
  <1>5. ASSUME NEW w \in Workers, RetryMarked(w) \/ ReviveMarked(w)
        PROVE  status'[p] = "CAPTURED" \/ Knows(p)'
    <2>1. MarkCaptured(job[w].item) /\ UNCHANGED <<charged, faults, card>>
      BY <1>5, <1>f DEF RetryMarked, ReviveMarked
    <2>2. job[w].item = p => status'[p] = "CAPTURED"
      BY <1>0, <2>1 DEF MarkCaptured, TypeOK
    <2> QED
      BY <1>0, <1>5, <1>f, <2>1, <2>2, StepMoves DEF Moves
  <1>6. ASSUME NEW w \in Workers, ReviveCaptured(w)
        PROVE  status'[p] = "CAPTURED" \/ Knows(p)'
    <2>1. /\ charged' = charged \cup {job[w].item} /\ UNCHANGED <<faults, card>>
          /\ job[w].at = "revive"
      BY <1>6, <1>f DEF ReviveCaptured, At
    <2> QED
      BY <1>0, <1>6, <1>f, <2>1, StepMoves DEF Moves
  <1>7. ASSUME NEW w \in Workers,
               AttemptCounted(w) \/ CohortListsFailed(w) \/ ReviveRefused(w)
                 \/ StockGivenBack(w) \/ JobEnds(w)
        PROVE  status'[p] = "CAPTURED" \/ Knows(p)'
    <2>1. job[w].at \notin {"mark", "revived"} /\ UNCHANGED <<charged, faults, card>>
      BY <1>7 DEF AttemptCounted, CohortListsFailed, ReviveRefused, StockGivenBack, JobEnds, At
    <2> QED
      BY <1>0, <1>7, <2>1, StepMoves DEF Moves
  <1>8. ASSUME NEW q \in Cards, NEW t \in Tabs, NewCardChecked(q, t) \/ CardStep(q, t)
        PROVE  status'[p] = "CAPTURED" \/ Knows(p)'
    <2>1. UNCHANGED <<job, faults>>
      BY <1>8, <1>f DEF NewCardChecked, CardStep, NewCardDeclined, NewCardCaptured,
         NewCardMarked, CardGoes
    <2>2. CASE NewCardChecked(q, t) \/ NewCardDeclined(q, t)
      BY <1>0, <2>1, <2>2 DEF NewCardChecked, NewCardDeclined, CardGoes, TypeOK
    <2>3. CASE NewCardCaptured(q, t)
      BY <1>0, <1>f, <2>1, <2>3 DEF NewCardCaptured, CardGoes, TypeOK
    <2>4. CASE NewCardMarked(q, t)
      BY <1>0, <2>1, <2>4 DEF NewCardMarked, CardGoes, MarkCaptured, TypeOK
    <2> QED
      BY <1>8, <2>2, <2>3, <2>4 DEF CardStep
  <1>9. ASSUME NEW q \in Intents, CheckoutOpened(q) \/ CheckoutPaid(q)
        PROVE  status'[p] = "CAPTURED" \/ Knows(p)'
    <2>1. p \in charged /\ UNCHANGED <<faults, job, card>>
      BY <1>9, GraceAssumption DEF CheckoutOpened, CheckoutPaid
    <2> QED
      BY <1>0, <2>1
  <1>10. ASSUME NEW q \in Intents, NEW d \in Deliveries, HookReads(q, d) \/ HookWrites(q, d)
         PROVE  status'[p] = "CAPTURED" \/ Knows(p)'
    BY <1>10, <1>a DEF HookReads, HookWrites
  <1> QED
    BY <1>1, <1>2, <1>3, <1>4, <1>5, <1>6, <1>7, <1>8, <1>9, <1>10 DEF Next, JobStep

-----------------------------------------------------------------------------
(* The strengthened invariant holds from the start and is kept.             *)
LEMMA IInvInit == Init => IInv
  <1> SUFFICES ASSUME Init PROVE IInv
    OBVIOUS
  <1> USE DEF Init, Resting
  <1>1. Cardinality(Pledges) \in Nat
    BY FS_CardinalityType, GraceAssumption
  <1>2. TypeOK
    BY <1>1, GraceAssumption DEF TypeOK, Jobs, Expired
  <1>3. LocalsInv /\ CapturedWasCharged /\ ChargeIsRecorded
    BY DEF LocalsInv, CapturedWasCharged, ChargeIsRecorded, Workers
  <1>4. RewardsReserved
    <2>1. InGrace = Pledges
      BY DEF InGrace
    <2>2. Reviving = {}
      BY DEF Reviving
    <2>3. Cardinality({}) = 0
      BY FS_EmptySet
    <2>4. claimed >= Cardinality(Pledges) /\ claimed \in Nat
      BY <1>1, GraceAssumption
    <2> HIDE DEF Init
    <2> QED
      BY <1>1, <2>1, <2>2, <2>3, <2>4 DEF RewardsReserved
  <1> QED
    BY <1>2, <1>3, <1>4 DEF IInv

LEMMA IInvKept == IInv /\ [Next]_vars => IInv'
  BY TypesKept, LocalsKept, ReservedKept, RecordedKept DEF IInv

LEMMA Inductive == Spec => []IInv
  BY IInvInit, IInvKept, PTL DEF Spec

(* Every variable keeps its type; above all, expiries never take more from  *)
(* the claimed stock than there is.                                         *)
THEOREM Types == Spec => []TypeOK
  <1>1. IInv => TypeOK
    BY DEF IInv
  <1> QED
    BY Inductive, <1>1, PTL

(* No caller of markCaptured marks a pledge that was not charged.           *)
THEOREM NothingUncharged == Spec => []CapturedWasCharged
  <1>1. IInv => CapturedWasCharged
    BY DEF IInv
  <1> QED
    BY Inductive, <1>1, PTL

(* Expiries, revivals and refusals never give back a unit that somebody     *)
(* still counts on.                                                         *)
THEOREM Reserved == Spec => []RewardsReserved
  <1>1. IInv => RewardsReserved
    BY DEF IInv
  <1> QED
    BY Inductive, <1>1, PTL

(* Without faults no charge of a card is forgotten.                         *)
THEOREM Recorded == Spec => []ChargeIsRecorded
  <1>1. IInv => ChargeIsRecorded
    BY DEF IInv
  <1> QED
    BY Inductive, <1>1, PTL

(* No tick, however late, fails a captured pledge.                          *)
THEOREM CapturedForGood == Spec => CapturedStays
  <1>1. IInv /\ [Next]_vars =>
          [\A p \in Pledges : status[p] = "CAPTURED" => status'[p] = "CAPTURED"]_status
    BY CapturedKept DEF CapturedStep
  <1> QED
    BY Inductive, <1>1, PTL DEF Spec, CapturedStays
=============================================================================
