-------------------------- MODULE PaymentEventsProofs --------------------------
(***************************************************************************)
(* What PaymentEvents guarantees for any pledges, operators, deliveries    *)
(* and faults.  Orderly or not: its types, and that a pledge is refunded   *)
(* in the books only after its money went back.  Orderly: that money gone  *)
(* back is never lost sight of, and, with quiet recounts, that the         *)
(* counters are exact.                                                     *)
(***************************************************************************)
EXTENDS PaymentEvents, FiniteSetTheorems, TLAPS

Marks == Kinds \cup {"none", "refund", "void"}

(* A worker's write to its own locals: the others are left alone. *)
Moves(w, at, p, k) ==
  /\ job'[w].at = at /\ job'[w].pledge = p /\ job'[w].kind = k
  /\ \A v \in Workers \ {w} : job'[v] = job[v]
  /\ job' \in [Workers -> Jobs]

(* Each write of a worker is such a move. *)
LEMMA JobMoves ==
  ASSUME job \in [Workers -> Jobs], NEW w \in Workers, NEW at \in Stages
  PROVE  /\ Goes(w, at) => Moves(w, at, job[w].pledge, job[w].kind)
         /\ \A p \in Pledges \cup {NoPledge}, k \in Marks :
              /\ Takes(w, at, p, k) => Moves(w, at, p, k)
              /\ \A S \in SUBSET Pledges :
                   job' = [job EXCEPT ![w].list = S, ![w].at = at,
                                      ![w].pledge = p, ![w].kind = k]
                     => Moves(w, at, p, k)
         /\ \A S, T \in SUBSET Pledges, D \in SUBSET Counters :
              /\ job' = [job EXCEPT ![w].at = at, ![w].list = S]
                   => Moves(w, at, job[w].pledge, job[w].kind)
              /\ job' = [job EXCEPT ![w].at = at, ![w].list = S, ![w].captured = T, ![w].drift = D]
                   => Moves(w, at, job[w].pledge, job[w].kind)
         /\ Rests(w) => Moves(w, "idle", NoPledge, "none")
  <1> USE DEF Jobs, Stages, Marks
  <1>1. ASSUME Goes(w, at) PROVE Moves(w, at, job[w].pledge, job[w].kind)
    <2>1. job' = [job EXCEPT ![w] = [job[w] EXCEPT !.at = at]]
      BY <1>1 DEF Goes
    <2>2. [job[w] EXCEPT !.at = at] \in Jobs
      OBVIOUS
    <2> QED
      BY <2>1, <2>2 DEF Moves
  <1>2. ASSUME NEW p \in Pledges \cup {NoPledge}, NEW k \in Marks, Takes(w, at, p, k)
        PROVE  Moves(w, at, p, k)
    <2>1. job' = [job EXCEPT ![w] = [job[w] EXCEPT !.at = at, !.pledge = p, !.kind = k]]
      BY <1>2 DEF Takes
    <2>2. [job[w] EXCEPT !.at = at, !.pledge = p, !.kind = k] \in Jobs
      BY ZenonT(60)
    <2> QED
      BY <2>1, <2>2 DEF Moves
  <1>3. ASSUME NEW p \in Pledges \cup {NoPledge}, NEW k \in Marks, NEW S \in SUBSET Pledges,
               job' = [job EXCEPT ![w].list = S, ![w].at = at, ![w].pledge = p, ![w].kind = k]
        PROVE  Moves(w, at, p, k)
    <2>1. job' = [job EXCEPT ![w] = [job[w] EXCEPT !.list = S, !.at = at, !.pledge = p, !.kind = k]]
      BY <1>3
    <2>2. [job[w] EXCEPT !.list = S, !.at = at, !.pledge = p, !.kind = k] \in Jobs
      BY ZenonT(60)
    <2> QED
      BY <2>1, <2>2 DEF Moves
  <1>4. ASSUME NEW S \in SUBSET Pledges, job' = [job EXCEPT ![w].at = at, ![w].list = S]
        PROVE  Moves(w, at, job[w].pledge, job[w].kind)
    <2>1. job' = [job EXCEPT ![w] = [job[w] EXCEPT !.at = at, !.list = S]]
      BY <1>4
    <2>2. [job[w] EXCEPT !.at = at, !.list = S] \in Jobs
      BY ZenonT(60)
    <2> QED
      BY <2>1, <2>2 DEF Moves
  <1>5. ASSUME NEW S \in SUBSET Pledges, NEW T \in SUBSET Pledges, NEW D \in SUBSET Counters,
               job' = [job EXCEPT ![w].at = at, ![w].list = S, ![w].captured = T, ![w].drift = D]
        PROVE  Moves(w, at, job[w].pledge, job[w].kind)
    <2>1. job' = [job EXCEPT ![w] = [job[w] EXCEPT !.at = at, !.list = S, !.captured = T, !.drift = D]]
      BY <1>5
    <2>2. [job[w] EXCEPT !.at = at, !.list = S, !.captured = T, !.drift = D] \in Jobs
      BY ZenonT(60)
    <2> QED
      BY <2>1, <2>2 DEF Moves
  <1>6. ASSUME Rests(w) PROVE Moves(w, "idle", NoPledge, "none")
    <2>1. Resting \in Jobs /\ Resting.at = "idle" /\ Resting.pledge = NoPledge /\ Resting.kind = "none"
      BY DEF Resting
    <2> QED
      BY <1>6, <2>1 DEF Rests, Moves
  <1> QED
    BY <1>1, <1>2, <1>3, <1>4, <1>5, <1>6

-----------------------------------------------------------------------------
Applying == {"apply", "write", "record"}
Busy == Applying \cup {"ask", "book", "notify", "won", "lost"}

(* A worker past its first read knows its pledge, and its event was sent. *)
StagedJob(w) ==
  /\ job[w].at \in Busy => job[w].pledge \in Pledges
  /\ job[w].at \in Applying => job[w].kind \in Kinds /\ <<job[w].pledge, job[w].kind>> \in sent

Staged ==
  /\ \A w \in Workers : StagedJob(w)
  /\ \A e \in Pledges \X Kinds : inbox[e] # "none" => e \in sent

(* No action forgets an event that was sent. *)
LEMMA SentStays ==
  ASSUME [Next]_vars
  PROVE  sent \subseteq sent'
  <1> USE DEF psp
  <1>1. ASSUME NEW p \in Pledges, PaymentMoves(p) \/ DisputeFiled(p) \/ DisputeDecided(p)
        PROVE  sent \subseteq sent'
    BY <1>1 DEF PaymentMoves, DisputeFiled, DisputeDecided, Pays
  <1>2. ASSUME NEW d \in Requests, NEW p \in Pledges, NEW k \in Kinds, Delivered(d, p, k)
        PROVE  sent \subseteq sent'
    BY <1>2 DEF Delivered
  <1>3. ASSUME NEW o \in Operators, NEW p \in Pledges, NEW k \in Kinds, Replayed(o, p, k)
        PROVE  sent \subseteq sent'
    BY <1>3 DEF Replayed
  <1>4. ASSUME NEW w \in Workers, EventStep(w) \/ Crash(w)
        PROVE  sent \subseteq sent'
    BY <1>4 DEF EventStep, EventDeclined, EventAccepted, EventWritten, EventRecorded, Crash
  <1>5. ASSUME NEW o \in Operators, OpStep(o)
        PROVE  sent \subseteq sent'
    BY <1>5 DEF OpStep, RefundRead, DisputeRuled, OpStarts, RefundCalled, RefundPaid, Pays,
       RefundRefused, RefundBooked, RefundNotified, RefundEnds, DisputeWon, DisputeLost,
       RecountRead, RecountWritten
  <1>6. CASE UNCHANGED vars
    BY <1>6 DEF vars
  <1> QED
    BY <1>1, <1>2, <1>3, <1>4, <1>5, <1>6 DEF Next

LEMMA Finite ==
  ASSUME TypeOK
  PROVE  \A S \in SUBSET Pledges : Cardinality(S) \in Nat
  BY EventsAssumption, FS_Subset, FS_CardinalityType

(* Where each action takes the worker that performs it. *)
LEMMA StepMoves ==
  ASSUME TypeOK, NEW w \in Workers
  PROVE  /\ \A p \in Pledges, k \in Kinds :
              Delivered(w, p, k) \/ Replayed(w, p, k) => Moves(w, "apply", p, k)
         /\ EventDeclined(w) \/ EventRecorded(w) \/ Crash(w) \/ RefundEnds(w)
              \/ DisputeWon(w) \/ DisputeLost(w) \/ RecountWritten(w)
              => Moves(w, "idle", NoPledge, "none")
         /\ EventAccepted(w) => Moves(w, "write", job[w].pledge, job[w].kind)
         /\ EventWritten(w) => Moves(w, "record", job[w].pledge, job[w].kind)
         /\ RefundCalled(w) => Moves(w, "refund", job[w].pledge, job[w].kind)
         /\ \A p \in Pledges : RefundRead(w, p) =>
              IF p \in Refundable
                THEN Moves(w, "ask", p, IF status[p] = "CAPTURED" THEN "refund" ELSE "void")
                ELSE Moves(w, "refund", NoPledge, "none")
         /\ RefundPaid(w) => \/ Moves(w, "book", job[w].pledge, job[w].kind)
                             \/ Moves(w, "refund", NoPledge, "none")
         /\ RefundRefused(w) \/ RefundNotified(w) => Moves(w, "refund", NoPledge, "none")
         /\ RefundBooked(w) => Moves(w, "notify", job[w].pledge, job[w].kind)
         /\ \A p \in Pledges : DisputeRuled(w, p) =>
              Moves(w, IF payment[p] = "chargedback" THEN "lost" ELSE "won", p, "none")
         /\ RecountRead(w) => Moves(w, "recount", job[w].pledge, job[w].kind)
  <1> USE JobMoves DEF Stages, Marks, Loops
  <1>0. job \in [Workers -> Jobs]
    BY DEF TypeOK
  <1>1. ASSUME NEW p \in Pledges, NEW k \in Kinds, Delivered(w, p, k) \/ Replayed(w, p, k)
        PROVE  Moves(w, "apply", p, k)
    BY <1>0, <1>1 DEF Delivered, Replayed
  <1>2. ASSUME EventDeclined(w) \/ EventRecorded(w) \/ Crash(w) \/ RefundEnds(w)
                 \/ DisputeWon(w) \/ DisputeLost(w) \/ RecountWritten(w)
        PROVE  Moves(w, "idle", NoPledge, "none")
    <2>1. Rests(w)
      BY <1>2 DEF EventDeclined, EventRecorded, Crash, RefundEnds, DisputeWon, DisputeLost,
         RecountWritten
    <2> QED
      BY <1>0, <2>1
  <1>3. ASSUME EventAccepted(w) PROVE Moves(w, "write", job[w].pledge, job[w].kind)
    BY <1>0, <1>3 DEF EventAccepted
  <1>4. ASSUME EventWritten(w) PROVE Moves(w, "record", job[w].pledge, job[w].kind)
    BY <1>0, <1>4 DEF EventWritten
  <1>5. ASSUME RefundCalled(w) PROVE Moves(w, "refund", job[w].pledge, job[w].kind)
    <2>1. PICK S \in SUBSET Pledges : job' = [job EXCEPT ![w].at = "refund", ![w].list = S]
      BY <1>5 DEF RefundCalled, Refundable, Are
    <2> QED
      BY <1>0, <2>1
  <1>6. ASSUME NEW p \in Pledges, RefundRead(w, p)
        PROVE  IF p \in Refundable
                 THEN Moves(w, "ask", p, IF status[p] = "CAPTURED" THEN "refund" ELSE "void")
                 ELSE Moves(w, "refund", NoPledge, "none")
    <2>1. job[w].list \ {p} \in SUBSET Pledges
      BY <1>0 DEF Jobs
    <2>2. CASE p \in Refundable
      <3>1. job' = [job EXCEPT ![w].list = job[w].list \ {p}, ![w].at = "ask", ![w].pledge = p,
                       ![w].kind = IF status[p] = "CAPTURED" THEN "refund" ELSE "void"]
        BY <1>0, <1>6, <2>2 DEF RefundRead
      <3> QED
        BY <1>0, <2>1, <2>2, <3>1
    <2>3. CASE p \notin Refundable
      <3>1. job' = [job EXCEPT ![w].list = job[w].list \ {p}, ![w].at = "refund",
                              ![w].pledge = NoPledge, ![w].kind = "none"]
        BY <1>0, <1>6, <2>3 DEF RefundRead
      <3> QED
        BY <1>0, <2>1, <2>3, <3>1
    <2> QED
      BY <2>2, <2>3
  <1>7. ASSUME RefundPaid(w)
        PROVE  \/ Moves(w, "book", job[w].pledge, job[w].kind)
               \/ Moves(w, "refund", NoPledge, "none")
    BY <1>0, <1>7 DEF RefundPaid
  <1>8. ASSUME RefundRefused(w) \/ RefundNotified(w) PROVE Moves(w, "refund", NoPledge, "none")
    BY <1>0, <1>8 DEF RefundRefused, RefundNotified
  <1>9. ASSUME RefundBooked(w) PROVE Moves(w, "notify", job[w].pledge, job[w].kind)
    BY <1>0, <1>9 DEF RefundBooked
  <1>10. ASSUME NEW p \in Pledges, DisputeRuled(w, p)
         PROVE  Moves(w, IF payment[p] = "chargedback" THEN "lost" ELSE "won", p, "none")
    BY <1>0, <1>10 DEF DisputeRuled
  <1>11. ASSUME RecountRead(w) PROVE Moves(w, "recount", job[w].pledge, job[w].kind)
    <2>1. /\ Active \in SUBSET Pledges /\ Are({"CAPTURED"}) \in SUBSET Pledges
          /\ Drifted \in SUBSET Counters
      BY DEF Active, Are, Drifted
    <2>2. job' = [job EXCEPT ![w].at = "recount", ![w].list = Active,
                            ![w].captured = Are({"CAPTURED"}), ![w].drift = Drifted]
      BY <1>11 DEF RecountRead
    <2> QED
      BY <1>0, <2>1, <2>2
  <1> QED
    BY <1>1, <1>2, <1>3, <1>4, <1>5, <1>6, <1>7, <1>8, <1>9, <1>10, <1>11

-----------------------------------------------------------------------------
LEMMA InitTypes == Init => TypeOK /\ Staged
  <1> SUFFICES ASSUME Init PROVE TypeOK /\ Staged
    OBVIOUS
  <1>1. job \in [Workers -> Jobs]
    BY DEF Init, Resting, Jobs, Stages
  <1>2. claimed \in Nat
    BY EventsAssumption, FS_CardinalityType DEF Init
  <1>3. books \in [Pledges -> [raised : Int, realized : Int, given : Int]]
    BY DEF Init
  <1>4. TypeOK
    BY <1>1, <1>2, <1>3 DEF Init, TypeOK, Statuses, Payments, Are
  <1> QED
    BY <1>4 DEF Init, Staged, StagedJob, Resting, Busy, Applying

LEMMA TypesStep ==
  ASSUME TypeOK, Staged, [Next]_vars
  PROVE  TypeOK'
  <1> USE DEF TypeOK
  <1>1. ASSUME NEW p \in Pledges, PaymentMoves(p) \/ DisputeFiled(p) \/ DisputeDecided(p)
        PROVE  TypeOK'
    <2>1. DisputeKinds \subseteq Kinds /\ {"payment_paid", "payment_failed", "payment_voided", "payment_refunded"} \subseteq Kinds
      BY DEF Kinds
    <2>2. PICK to \in Payments, S \in SUBSET Kinds : 
            /\ payment' = [payment EXCEPT ![p] = to]
            /\ sent' = sent \cup {<<p, k>> : k \in S}
      BY <1>1, <2>1 DEF PaymentMoves, DisputeFiled, DisputeDecided, Pays, Payments
    <2>3. payment' \in [Pledges -> Payments] /\ sent' \subseteq Pledges \X Kinds
      BY <2>2
    <2> QED
      BY <1>1, <2>3 DEF PaymentMoves, DisputeFiled, DisputeDecided, External, bookVars, traces
  <1>2. ASSUME NEW w \in Workers, NEW p \in Pledges, NEW k \in Kinds,
               Delivered(w, p, k) \/ Replayed(w, p, k)
        PROVE  TypeOK'
    <2>1. Moves(w, "apply", p, k)
      BY <1>2, StepMoves
    <2> QED
      <3>1. <<p, k>> \in Pledges \X Kinds
        OBVIOUS
      <3>2. inbox' \in [Pledges \X Kinds -> {"none", "stored", "applied", "ignored", "mismatch"}]
        <4>1. inbox' = inbox \/ inbox' = [inbox EXCEPT ![<<p, k>>] = "stored"]
          BY <1>2 DEF Delivered, Replayed
        <4> QED
          BY <3>1, <4>1
      <3>3. calls' \in Nat
        BY <1>2 DEF Delivered, Replayed
      <3> QED
        BY <1>2, <2>1, <3>2, <3>3 DEF Moves, Delivered, Replayed, psp, bookVars, traces
  <1>3. ASSUME NEW w \in Workers, EventStep(w) PROVE TypeOK'
    <2> DEFINE p == job[w].pledge  k == job[w].kind
    <2>1. job' \in [Workers -> Jobs]
      BY <1>3, StepMoves DEF EventStep, Moves
    <2>2. p \in Pledges /\ k \in Kinds
      BY <1>3 DEF EventStep, EventDeclined, EventAccepted, EventWritten, EventRecorded, At,
         Staged, StagedJob, Applying, Busy
    <2>3. To(k) \in Statuses /\ Entry(k) \in {"CAPTURE", "VOID", "REFUND", "DISPUTE"}
            /\ Outcome(k, status[p]) \in {"applied", "ignored", "mismatch"}
      BY DEF To, Entry, Outcome, Statuses
    <2> HIDE DEF p, k
    <2>4. CASE EventDeclined(w)
      BY <2>1, <2>2, <2>3, <2>4 DEF EventDeclined, psp, bookVars, traces, p, k
    <2>5. CASE EventAccepted(w)
      BY <2>1, <2>5 DEF EventAccepted, psp, bookVars, traces
    <2>6. CASE EventWritten(w)
      <3>1. books' \in [Pledges -> [raised : Int, realized : Int, given : Int]]
        <4>1. [books[p] EXCEPT !.realized = @ + 1] \in [raised : Int, realized : Int, given : Int]
          BY <2>2
        <4>2. [books EXCEPT ![p].realized = @ + 1]
                = [books EXCEPT ![p] = [books[p] EXCEPT !.realized = @ + 1]]
          OBVIOUS
        <4> QED
          BY <2>2, <2>6, <4>1, <4>2 DEF EventWritten, p, k
      <3>2. status' \in [Pledges -> Statuses]
        BY <2>3, <2>6 DEF EventWritten, p, k
      <3> QED
        BY <2>1, <2>6, <3>1, <3>2 DEF EventWritten, psp, traces
    <2>7. CASE EventRecorded(w)
      <3>1. journal' = journal \/ journal' = journal \cup {<<p, Entry(k), "webhook">>}
        BY <2>7 DEF EventRecorded, p, k
      <3>2. notices' = notices \/ notices' = notices \cup {<<p, "webhook">>}
        BY <2>7 DEF EventRecorded, p, k
      <3>3. inbox' = [inbox EXCEPT ![<<p, k>>] = "applied"]
        BY <2>7 DEF EventRecorded, p, k
      <3>4. faults' \in Nat
        BY <2>7 DEF EventRecorded, Fault
      <3>5. inbox' \in [Pledges \X Kinds -> {"none", "stored", "applied", "ignored", "mismatch"}]
        <4>1. <<p, k>> \in Pledges \X Kinds
          BY <2>2
        <4> QED
          BY <3>3, <4>1
      <3>6. journal' \subseteq Pledges \X {"CAPTURE", "VOID", "REFUND", "DISPUTE"}
               \X {"sync-path", "webhook", "ops-refund", "dispute-won", "dispute-lost"}
        BY <2>2, <2>3, <3>1
      <3>7. notices' \subseteq Pledges \X {"webhook", "ops"}
        BY <2>2, <3>2
      <3> QED
        BY <2>1, <2>7, <3>4, <3>5, <3>6, <3>7 DEF EventRecorded, psp, bookVars
    <2> QED
      BY <1>3, <2>4, <2>5, <2>6, <2>7 DEF EventStep
  <1>4. ASSUME NEW w \in Workers, Crash(w) PROVE TypeOK'
    BY <1>4, StepMoves DEF Crash, Fault, Moves, psp, bookVars, traces
  <1>5. ASSUME NEW p \in Pledges, NEW r \in {0, 1}, Compensated(p, r)
        PROVE  /\ books' \in [Pledges -> [raised : Int, realized : Int, given : Int]]
               /\ backers' \in [Backers -> Int]
               /\ claimed' \in Nat
    <2>0. books[p] \in [raised : Int, realized : Int, given : Int]
      OBVIOUS
    <2> DEFINE b == [raised |-> books[p].raised - 1, given |-> books[p].given - 1,
                     realized |-> books[p].realized - r]
    <2>1. b \in [raised : Int, realized : Int, given : Int]
      <3>1. r \in Int
        OBVIOUS
      <3> QED
        BY <2>0, <3>1
    <2>2. books' = [books EXCEPT ![p] = b]
      BY <1>5 DEF Compensated
    <2> HIDE DEF b, TypeOK
    <2> QED
      BY <1>5, <2>1, <2>2 DEF Compensated, Backers, TypeOK
  <1>6. ASSUME NEW o \in Operators, OpStep(o) PROVE TypeOK'
    <2>0. o \in Workers
      BY DEF Workers
    <2>1. job' \in [Workers -> Jobs]
      BY <1>6, <2>0, StepMoves DEF OpStep, Moves
    <2>2. At(o, "ask") \/ At(o, "book") \/ At(o, "notify") \/ At(o, "won") \/ At(o, "lost")
            => job[o].pledge \in Pledges
      BY <2>0 DEF At, Staged, StagedJob, Busy
    <2>3. ASSUME NEW p \in Pledges, RefundRead(o, p) PROVE TypeOK'
      BY <2>1, <2>3 DEF RefundRead, OpKeeps, psp, traces
    <2>4. ASSUME NEW p \in Pledges, DisputeRuled(o, p) PROVE TypeOK'
      BY <2>1, <2>4 DEF DisputeRuled, OpStarts, psp, bookVars, traces
    <2>5. CASE RefundCalled(o) \/ RecountRead(o)
      BY <2>1, <2>5 DEF RefundCalled, RecountRead, OpStarts, psp, bookVars, traces
    <2>6. CASE RefundPaid(o)
      <3>1. PICK to \in {"refunded", "voided"}, k \in Kinds :
              /\ payment' = [payment EXCEPT ![job[o].pledge] = to]
              /\ sent' = sent \cup {<<job[o].pledge, k>>}
        BY <2>6 DEF RefundPaid, Pays, Kinds
      <3>2. payment' \in [Pledges -> Payments] /\ sent' \subseteq Pledges \X Kinds
        BY <2>2, <2>6, <3>1 DEF RefundPaid, Payments
      <3>3. faults' \in Nat
        BY <2>6 DEF RefundPaid, Fault
      <3> QED
        BY <2>1, <2>6, <3>2, <3>3 DEF RefundPaid, OpKeeps, traces
    <2>7. CASE RefundRefused(o) \/ RefundEnds(o)
      BY <2>1, <2>7 DEF RefundRefused, RefundEnds, OpKeeps, psp, traces
    <2>8. CASE RefundBooked(o)
      <3>1. PICK t \in {"REFUND", "VOID"} : journal' = journal \cup {<<job[o].pledge, t, "ops-refund">>}
        BY <2>8 DEF RefundBooked
      <3>2. PICK r \in {0, 1} : Compensated(job[o].pledge, r)
        BY <2>8 DEF RefundBooked
      <3>3. job[o].pledge \in Pledges
        BY <2>2, <2>8 DEF RefundBooked
      <3>4. status' \in [Pledges -> Statuses]
        BY <2>8 DEF RefundBooked, Statuses
      <3> QED
        BY <1>5, <2>1, <2>8, <3>1, <3>2, <3>3, <3>4 DEF RefundBooked, psp
    <2>9. CASE RefundNotified(o)
      <3>1. job[o].pledge \in Pledges
        BY <2>2, <2>9 DEF RefundNotified
      <3> QED
        BY <2>1, <2>9, <3>1 DEF RefundNotified, OpKeeps, psp
    <2>10. CASE DisputeWon(o)
      <3>1. job[o].pledge \in Pledges
        BY <2>2, <2>10 DEF DisputeWon
      <3> QED
        BY <2>1, <2>10, <3>1 DEF DisputeWon, OpKeeps, psp, Statuses
    <2>11. CASE DisputeLost(o)
      <3>1. job[o].pledge \in Pledges
        BY <2>2, <2>11 DEF DisputeLost
      <3>2. Compensated(job[o].pledge, 1)
        BY <2>11 DEF DisputeLost
      <3> QED
        BY <1>5, <2>1, <2>11, <3>1, <3>2 DEF DisputeLost, psp, Statuses
    <2>12. CASE RecountWritten(o)
      <3>1. job[o].list \in SUBSET Pledges
        BY <2>0 DEF Jobs
      <3>2. claimed' \in Nat
        BY <2>12, <3>1, Finite DEF RecountWritten
      <3>3. books' \in [Pledges -> [raised : Int, realized : Int, given : Int]]
        <4>1. \A p \in Pledges : books[p] \in [raised : Int, realized : Int, given : Int]
          OBVIOUS
        <4>2. PICK f \in [Pledges -> Int], g \in [Pledges -> Int] :
                books' = [p \in Pledges |-> [books[p] EXCEPT !.raised = f[p], !.realized = g[p]]]
          <5> DEFINE
            f == [p \in Pledges |-> IF "raised" \in job[o].drift
                                      THEN In(p, job[o].list) ELSE books[p].raised]
            g == [p \in Pledges |-> IF "realized" \in job[o].drift
                                      THEN In(p, job[o].captured) ELSE books[p].realized]
          <5>1. f \in [Pledges -> Int] /\ g \in [Pledges -> Int]
            BY <4>1 DEF In
          <5>2. books' = [p \in Pledges |->
                            [books[p] EXCEPT !.raised = f[p], !.realized = g[p]]]
            BY <2>12 DEF RecountWritten
          <5> QED
            BY <5>1, <5>2
        <4> HIDE DEF TypeOK
        <4> QED
          BY <4>1, <4>2
      <3>4. backers' \in [Backers -> Int]
        <4>1. BackersIn(job[o].list) \in [Backers -> Int]
          BY DEF BackersIn
        <4>2. backers' = backers \/ backers' = BackersIn(job[o].list)
          BY <2>12 DEF RecountWritten
        <4> QED
          BY <4>1, <4>2
      <3> QED
        BY <2>1, <2>12, <3>2, <3>3, <3>4 DEF RecountWritten, psp, traces
    <2> QED
      BY <1>6, <2>3, <2>4, <2>5, <2>6, <2>7, <2>8, <2>9, <2>10, <2>11, <2>12 DEF OpStep
  <1>7. CASE UNCHANGED vars
    BY <1>7 DEF vars, psp, bookVars, traces
  <1> QED
    BY <1>1, <1>2, <1>3, <1>4, <1>6, <1>7 DEF Next, Workers

LEMMA StagedStep ==
  ASSUME TypeOK, Staged, [Next]_vars
  PROVE  Staged'
  <1>0. sent \subseteq sent'
    BY SentStays
  <1>1. ASSUME NEW w \in Workers, NEW at, NEW p, NEW k, Moves(w, at, p, k),
               at \in Busy => p \in Pledges,
               at \in Applying => k \in Kinds /\ <<p, k>> \in sent'
        PROVE  \A v \in Workers : StagedJob(v)'
    <2>1. StagedJob(w)'
      BY <1>1 DEF Moves, StagedJob
    <2>2. ASSUME NEW v \in Workers \ {w} PROVE StagedJob(v)'
      BY <1>0, <1>1, <2>2 DEF Moves, Staged, StagedJob
    <2> QED
      BY <2>1, <2>2
  <1>2. ASSUME UNCHANGED job PROVE \A v \in Workers : StagedJob(v)'
    BY <1>0, <1>2 DEF Staged, StagedJob
  <1>3. ASSUME NEW e \in Pledges \X Kinds, e \in sent, NEW r, inbox' = [inbox EXCEPT ![e] = r]
        PROVE  \A d \in Pledges \X Kinds : inbox'[d] # "none" => d \in sent'
    BY <1>0, <1>3 DEF Staged, TypeOK
  <1>4. ASSUME UNCHANGED inbox
        PROVE  \A d \in Pledges \X Kinds : inbox'[d] # "none" => d \in sent'
    BY <1>0, <1>4 DEF Staged
  <1>5. ASSUME NEW p \in Pledges, PaymentMoves(p) \/ DisputeFiled(p) \/ DisputeDecided(p)
        PROVE  Staged'
    BY <1>2, <1>4, <1>5 DEF PaymentMoves, DisputeFiled, DisputeDecided, External, Staged
  <1>6. ASSUME NEW w \in Workers, NEW p \in Pledges, NEW k \in Kinds,
               Delivered(w, p, k) \/ Replayed(w, p, k)
        PROVE  Staged'
    <2>1. Moves(w, "apply", p, k)
      BY <1>6, StepMoves
    <2>2. <<p, k>> \in Pledges \X Kinds /\ <<p, k>> \in sent
      BY <1>6 DEF Delivered, Replayed, Staged
    <2>3. inbox' = inbox \/ inbox' = [inbox EXCEPT ![<<p, k>>] = "stored"]
      BY <1>6 DEF Delivered, Replayed
    <2> QED
      BY <1>0, <1>1, <1>3, <1>4, <2>1, <2>2, <2>3 DEF Staged
  <1>7. ASSUME NEW w \in Workers, EventStep(w) PROVE Staged'
    <2> DEFINE p == job[w].pledge  k == job[w].kind
    <2>1. p \in Pledges /\ k \in Kinds /\ <<p, k>> \in Pledges \X Kinds /\ <<p, k>> \in sent
      BY <1>7 DEF EventStep, EventDeclined, EventAccepted, EventWritten, EventRecorded, At,
         Staged, StagedJob, Applying, Busy
    <2>2. CASE EventDeclined(w)
      <3>1. Moves(w, "idle", NoPledge, "none")
        BY <2>2, StepMoves
      <3>2. inbox' = [inbox EXCEPT ![<<p, k>>] = Outcome(k, status[p])]
        BY <2>2 DEF EventDeclined
      <3> QED
        BY <1>1, <1>3, <2>1, <3>1, <3>2 DEF Staged, Busy, Applying
    <2>3. CASE EventAccepted(w)
      <3>1. Moves(w, "write", p, k) /\ UNCHANGED inbox
        BY <2>3, StepMoves DEF EventAccepted
      <3> QED
        BY <1>0, <1>1, <1>4, <2>1, <3>1 DEF Staged
    <2>4. CASE EventWritten(w)
      <3>1. Moves(w, "record", p, k) /\ UNCHANGED inbox
        BY <2>4, StepMoves DEF EventWritten
      <3> QED
        BY <1>0, <1>1, <1>4, <2>1, <3>1 DEF Staged
    <2>5. CASE EventRecorded(w)
      <3>1. Moves(w, "idle", NoPledge, "none")
        BY <2>5, StepMoves
      <3>2. inbox' = [inbox EXCEPT ![<<p, k>>] = "applied"]
        BY <2>5 DEF EventRecorded
      <3> QED
        BY <1>1, <1>3, <2>1, <3>1, <3>2 DEF Staged, Busy, Applying
    <2> QED
      BY <1>7, <2>2, <2>3, <2>4, <2>5 DEF EventStep
  <1>8. ASSUME NEW w \in Workers, Crash(w) PROVE Staged'
    <2>1. Moves(w, "idle", NoPledge, "none") /\ UNCHANGED inbox
      BY <1>8, StepMoves DEF Crash
    <2> QED
      BY <1>1, <1>4, <2>1 DEF Staged, Busy, Applying
  <1>9. ASSUME NEW o \in Operators, OpStep(o) PROVE Staged'
    <2>0. o \in Workers
      BY DEF Workers
    <2>1. UNCHANGED inbox
      BY <1>9 DEF OpStep, RefundRead, DisputeRuled, OpStarts, OpKeeps, RefundCalled, RefundPaid,
         RefundRefused, RefundBooked, RefundNotified, RefundEnds, DisputeWon, DisputeLost,
         RecountRead, RecountWritten
    <2>2. job[o].at \in {"ask", "book"} => job[o].pledge \in Pledges
      BY <2>0 DEF Staged, StagedJob, Busy
    <2>3. PICK at, p, k : Moves(o, at, p, k) /\ at \notin Applying /\ (at \in Busy => p \in Pledges)
      <3>1. ASSUME NEW p \in Pledges, RefundRead(o, p)
            PROVE  \/ \E k : Moves(o, "ask", p, k)
                   \/ Moves(o, "refund", NoPledge, "none")
        BY <2>0, <3>1, StepMoves
      <3>2. ASSUME NEW p \in Pledges, DisputeRuled(o, p)
            PROVE  Moves(o, "lost", p, "none") \/ Moves(o, "won", p, "none")
        BY <2>0, <3>2, StepMoves
      <3>3. CASE RefundCalled(o) \/ RecountRead(o)
        BY <2>0, <3>3, StepMoves DEF Applying, Busy
      <3>4. CASE RefundPaid(o) \/ RefundBooked(o)
        <4>1. job[o].pledge \in Pledges
          BY <2>2, <3>4 DEF RefundPaid, RefundBooked, At
        <4> QED
          BY <2>0, <3>4, <4>1, StepMoves DEF Applying, Busy
      <3>5. CASE RefundRefused(o) \/ RefundNotified(o) \/ RefundEnds(o) \/ DisputeWon(o)
                   \/ DisputeLost(o) \/ RecountWritten(o)
        BY <2>0, <3>5, StepMoves DEF Applying, Busy
      <3> QED
        BY <1>9, <3>1, <3>2, <3>3, <3>4, <3>5 DEF OpStep, Applying, Busy
    <2> QED
      BY <1>1, <1>4, <2>0, <2>1, <2>3 DEF Staged
  <1>10. CASE UNCHANGED vars
    BY <1>2, <1>4, <1>10 DEF vars, Staged
  <1> QED
    BY <1>5, <1>6, <1>7, <1>8, <1>9, <1>10 DEF Next, Workers

(* Rows, jobs, journal and inbox keep their types for any pledges, workers  *)
(* and faults, orderly or not.                                              *)
THEOREM Types == Spec => []TypeOK
  <1>1. Init => TypeOK /\ Staged
    BY InitTypes
  <1>2. TypeOK /\ Staged /\ [Next]_vars => (TypeOK /\ Staged)'
    BY TypesStep, StagedStep
  <1> QED
    BY <1>1, <1>2, PTL DEF Spec

-----------------------------------------------------------------------------
(* Money that went back stays back; a refund event was sent of such money;  *)
(* and whoever is about to write REFUNDED knows that it went back.          *)
ToldBack == \A p \in Pledges, k \in Kinds :
  <<p, k>> \in sent /\ To(k) = "REFUNDED" => payment[p] \in Back

KnowsBack == \A w \in Workers :
  job[w].at \in {"book", "lost"} => payment[job[w].pledge] \in Back

IInv == TypeOK /\ Staged /\ ToldBack /\ KnowsBack /\ RefundedWasPaidBack

LEMMA BackStays ==
  ASSUME TypeOK, [Next]_vars, NEW p \in Pledges, payment[p] \in Back
  PROVE  payment'[p] \in Back
  <1> USE DEF Back
  <1>0. \A q \in Pledges \cup {NoPledge}, from \in Payments \ Back :
          \A to, S : Pays(q, from, to, S) => payment'[p] \in Back
    BY DEF Pays, TypeOK
  <1> USE DEF Payments
  <1>1. ASSUME NEW q \in Pledges, PaymentMoves(q) \/ DisputeFiled(q) \/ DisputeDecided(q)
        PROVE  payment'[p] \in Back
    BY <1>0, <1>1 DEF PaymentMoves, DisputeFiled, DisputeDecided
  <1>2. ASSUME NEW d \in Requests, NEW q \in Pledges, NEW k \in Kinds, Delivered(d, q, k)
        PROVE  payment'[p] \in Back
    BY <1>2 DEF Delivered, psp
  <1>3. ASSUME NEW o \in Operators, NEW q \in Pledges, NEW k \in Kinds, Replayed(o, q, k)
        PROVE  payment'[p] \in Back
    BY <1>3 DEF Replayed, psp
  <1>4. ASSUME NEW w \in Workers, EventStep(w) \/ Crash(w)
        PROVE  payment'[p] \in Back
    BY <1>4 DEF EventStep, EventDeclined, EventAccepted, EventWritten, EventRecorded, Crash, psp
  <1>5. ASSUME NEW o \in Operators, RefundPaid(o) PROVE payment'[p] \in Back
    <2>1. job[o].pledge \in Pledges \cup {NoPledge}
      BY DEF TypeOK, Jobs, Workers
    <2>2. \/ Pays(job[o].pledge, "captured", "refunded", {"payment_refunded"})
          \/ Pays(job[o].pledge, "held", "voided", {"payment_voided"})
      BY <1>5 DEF RefundPaid
    <2> QED
      BY <1>0, <2>1, <2>2
  <1>6. ASSUME NEW o \in Operators, OpStep(o), ~RefundPaid(o)
        PROVE  payment'[p] \in Back
    BY <1>6 DEF OpStep, RefundRead, DisputeRuled, OpStarts, RefundCalled, psp,
       RefundRefused, RefundBooked, RefundNotified, RefundEnds, DisputeWon, DisputeLost,
       RecountRead, RecountWritten
  <1>7. CASE UNCHANGED vars
    BY <1>7 DEF vars, psp
  <1> QED
    BY <1>1, <1>2, <1>3, <1>4, <1>5, <1>6, <1>7 DEF Next

LEMMA ToldStep ==
  ASSUME TypeOK, ToldBack, [Next]_vars
  PROVE  ToldBack'
  <1>1. ASSUME UNCHANGED sent PROVE ToldBack'
    BY <1>1, BackStays DEF ToldBack
  <1>2. ASSUME NEW q \in Pledges \cup {NoPledge}, NEW from, NEW to, NEW S, Pays(q, from, to, S),
               from \notin Back, \A k \in S : To(k) = "REFUNDED" => to \in Back
        PROVE  ToldBack'
    <2> SUFFICES ASSUME NEW p \in Pledges, NEW k \in Kinds, <<p, k>> \in sent', To(k) = "REFUNDED"
                 PROVE  payment'[p] \in Back
      BY DEF ToldBack
    <2>1. CASE <<p, k>> \in sent
      BY <2>1, BackStays DEF ToldBack
    <2>2. CASE <<p, k>> \notin sent
      <3>1. p = q /\ k \in S
        BY <1>2, <2>2 DEF Pays
      <3> QED
        BY <1>2, <3>1 DEF Pays, TypeOK
    <2> QED
      BY <2>1, <2>2
  <1>3. /\ To("payment_paid") = "CAPTURED" /\ To("payment_failed") = "FAILED"
        /\ \A k \in DisputeKinds : To(k) = "DISPUTED"
    BY EventsAssumption DEF To
  <1>4. ASSUME NEW p \in Pledges, PaymentMoves(p) \/ DisputeFiled(p) \/ DisputeDecided(p)
        PROVE  ToldBack'
    <2>1. CASE PaymentMoves(p)
      <3>1. PICK from \in {"held", "captured"}, to \in Payments, k \in Kinds :
              Pays(p, from, to, {k}) /\ (To(k) = "REFUNDED" => to \in Back)
        BY <1>3, <2>1 DEF PaymentMoves, Payments, Kinds, Back
      <3> QED
        BY <1>2, <3>1 DEF Back
    <2>2. CASE DisputeFiled(p)
      BY <1>2, <1>3, <2>2 DEF DisputeFiled, Back
    <2>3. CASE DisputeDecided(p)
      <3>1. Pays(p, "disputed", "captured", {}) \/ Pays(p, "disputed", "chargedback", {})
        BY <2>3 DEF DisputeDecided
      <3> QED
        BY <1>2, <3>1 DEF Back
    <2> QED
      BY <1>4, <2>1, <2>2, <2>3
  <1>5. ASSUME NEW d \in Requests, NEW q \in Pledges, NEW k \in Kinds, Delivered(d, q, k)
        PROVE  ToldBack'
    BY <1>1, <1>5 DEF Delivered, psp
  <1>6. ASSUME NEW o \in Operators, NEW q \in Pledges, NEW k \in Kinds, Replayed(o, q, k)
        PROVE  ToldBack'
    BY <1>1, <1>6 DEF Replayed, psp
  <1>7. ASSUME NEW w \in Workers, EventStep(w) \/ Crash(w)
        PROVE  ToldBack'
    BY <1>1, <1>7 DEF EventStep, EventDeclined, EventAccepted, EventWritten, EventRecorded, Crash, psp
  <1>8. ASSUME NEW o \in Operators, RefundPaid(o) PROVE ToldBack'
    <2>1. job[o].pledge \in Pledges \cup {NoPledge}
      BY DEF TypeOK, Jobs, Workers
    <2>2. \/ Pays(job[o].pledge, "captured", "refunded", {"payment_refunded"})
          \/ Pays(job[o].pledge, "held", "voided", {"payment_voided"})
      BY <1>8 DEF RefundPaid
    <2> QED
      BY <1>2, <2>1, <2>2 DEF Back
  <1>9. ASSUME NEW o \in Operators, OpStep(o), ~RefundPaid(o)
        PROVE  ToldBack'
    <2>1. UNCHANGED sent
      BY <1>9 DEF OpStep, RefundRead, DisputeRuled, OpStarts, RefundCalled, psp,
       RefundRefused, RefundBooked, RefundNotified, RefundEnds, DisputeWon, DisputeLost,
       RecountRead, RecountWritten
    <2> QED
      BY <1>1, <2>1
  <1>10. CASE UNCHANGED vars
    BY <1>1, <1>10 DEF vars, psp
  <1> QED
    BY <1>4, <1>5, <1>6, <1>7, <1>8, <1>9, <1>10 DEF Next

LEMMA KnowsStep ==
  ASSUME TypeOK, Staged, KnowsBack, [Next]_vars
  PROVE  KnowsBack'
  <1>0. \A w \in Workers : job[w].at \in {"book", "lost"} => job[w].pledge \in Pledges
    BY DEF Staged, StagedJob, Busy
  <1>1. ASSUME UNCHANGED job PROVE KnowsBack'
    BY <1>0, <1>1, BackStays DEF KnowsBack
  <1>2. ASSUME NEW w \in Workers, NEW at, NEW p, NEW k, Moves(w, at, p, k),
               at \in {"book", "lost"} => payment'[p] \in Back
        PROVE  KnowsBack'
    <2> SUFFICES ASSUME NEW v \in Workers, job'[v].at \in {"book", "lost"}
                 PROVE  payment'[job'[v].pledge] \in Back
      BY DEF KnowsBack
    <2>1. CASE v = w
      BY <1>2, <2>1 DEF Moves
    <2>2. CASE v # w
      BY <1>0, <1>2, <2>2, BackStays DEF Moves, KnowsBack
    <2> QED
      BY <2>1, <2>2
  <1>3. ASSUME NEW p \in Pledges, PaymentMoves(p) \/ DisputeFiled(p) \/ DisputeDecided(p)
        PROVE  KnowsBack'
    BY <1>1, <1>3 DEF PaymentMoves, DisputeFiled, DisputeDecided, External
  <1>4. ASSUME NEW w \in Workers, NEW p \in Pledges, NEW k \in Kinds,
               Delivered(w, p, k) \/ Replayed(w, p, k)
        PROVE  KnowsBack'
    BY <1>2, <1>4, StepMoves
  <1>5. ASSUME NEW w \in Workers, EventStep(w) \/ Crash(w) PROVE KnowsBack'
    BY <1>2, <1>5, StepMoves DEF EventStep
  <1>6. ASSUME NEW o \in Operators, OpStep(o) PROVE KnowsBack'
    <2>0. o \in Workers
      BY DEF Workers
    <2>1. ASSUME NEW p \in Pledges, RefundRead(o, p) PROVE KnowsBack'
      <3>1. \/ \E k : Moves(o, "ask", p, k)
            \/ Moves(o, "refund", NoPledge, "none")
        BY <2>0, <2>1, StepMoves
      <3> QED
        BY <1>2, <2>0, <3>1
    <2>2. ASSUME NEW p \in Pledges, DisputeRuled(o, p) PROVE KnowsBack'
      <3>1. payment' = payment
        BY <2>2 DEF DisputeRuled, OpStarts, psp
      <3>2. Moves(o, IF payment[p] = "chargedback" THEN "lost" ELSE "won", p, "none")
        BY <2>0, <2>2, StepMoves
      <3> QED
        BY <1>2, <2>0, <3>1, <3>2 DEF Back
    <2>3. CASE RefundPaid(o)
      <3>1. job[o].pledge \in Pledges
        BY <2>0, <2>3 DEF RefundPaid, At, Staged, StagedJob, Busy
      <3>2. payment'[job[o].pledge] \in Back
        BY <2>3, <3>1 DEF RefundPaid, Pays, TypeOK, Back
      <3> QED
        BY <1>2, <2>0, <2>3, <3>2, StepMoves
    <2>4. CASE RefundCalled(o) \/ RecountRead(o) \/ RefundBooked(o)
      BY <1>2, <2>0, <2>4, StepMoves
    <2>5. CASE RefundRefused(o) \/ RefundNotified(o) \/ RefundEnds(o) \/ DisputeWon(o)
                 \/ DisputeLost(o) \/ RecountWritten(o)
      BY <1>2, <2>0, <2>5, StepMoves
    <2> QED
      BY <1>6, <2>1, <2>2, <2>3, <2>4, <2>5 DEF OpStep
  <1>7. CASE UNCHANGED vars
    BY <1>1, <1>7 DEF vars
  <1> QED
    BY <1>3, <1>4, <1>5, <1>6, <1>7 DEF Next, Workers

LEMMA RefundedStep ==
  ASSUME IInv, [Next]_vars
  PROVE  RefundedWasPaidBack'
  <1> USE DEF IInv
  <1>1. ASSUME UNCHANGED status PROVE RefundedWasPaidBack'
    BY <1>1, BackStays DEF RefundedWasPaidBack
  <1>2. ASSUME NEW q \in Pledges, NEW s, status' = [status EXCEPT ![q] = s],
               s = "REFUNDED" => payment[q] \in Back
        PROVE  RefundedWasPaidBack'
    <2> SUFFICES ASSUME NEW p \in Pledges, status'[p] = "REFUNDED" PROVE payment'[p] \in Back
      BY DEF RefundedWasPaidBack
    <2>1. payment[p] \in Back
      BY <1>2 DEF RefundedWasPaidBack, TypeOK
    <2> QED
      BY <2>1, BackStays
  <1>3. ASSUME NEW w \in Workers, EventWritten(w) PROVE RefundedWasPaidBack'
    <2>1. /\ job[w].pledge \in Pledges /\ job[w].kind \in Kinds
          /\ <<job[w].pledge, job[w].kind>> \in sent
      BY <1>3 DEF EventWritten, At, Staged, StagedJob, Busy, Applying
    <2>2. status' = [status EXCEPT ![job[w].pledge] = To(job[w].kind)]
      BY <1>3 DEF EventWritten
    <2> QED
      BY <1>2, <2>1, <2>2 DEF ToldBack
  <1>4. ASSUME NEW o \in Operators, RefundBooked(o) \/ DisputeWon(o) \/ DisputeLost(o)
        PROVE  RefundedWasPaidBack'
    <2>0. o \in Workers
      BY DEF Workers
    <2>1. job[o].pledge \in Pledges
      BY <1>4, <2>0 DEF RefundBooked, DisputeWon, DisputeLost, At, Staged, StagedJob, Busy
    <2>2. PICK s : /\ status' = [status EXCEPT ![job[o].pledge] = s]
                   /\ s = "REFUNDED" => job[o].at \in {"book", "lost"}
      BY <1>4 DEF RefundBooked, DisputeWon, DisputeLost, At
    <2> QED
      BY <1>2, <2>0, <2>1, <2>2 DEF KnowsBack
  <1>5. ASSUME NEW p \in Pledges, PaymentMoves(p) \/ DisputeFiled(p) \/ DisputeDecided(p)
        PROVE  UNCHANGED status
    BY <1>5 DEF PaymentMoves, DisputeFiled, DisputeDecided, External
  <1>6. ASSUME NEW w \in Workers, NEW p \in Pledges, NEW k \in Kinds,
               Delivered(w, p, k) \/ Replayed(w, p, k)
        PROVE  UNCHANGED status
    BY <1>6 DEF Delivered, Replayed
  <1>7. ASSUME NEW w \in Workers, EventStep(w) \/ Crash(w), ~EventWritten(w)
        PROVE  UNCHANGED status
    BY <1>7 DEF EventStep, EventDeclined, EventAccepted, EventRecorded, Crash
  <1>8. ASSUME NEW o \in Operators, OpStep(o), ~(RefundBooked(o) \/ DisputeWon(o) \/ DisputeLost(o))
        PROVE  UNCHANGED status
    BY <1>8 DEF OpStep, RefundRead, DisputeRuled, OpStarts, RefundCalled, RefundPaid,
       RefundRefused, RefundNotified, RefundEnds, RecountRead, RecountWritten
  <1>9. CASE UNCHANGED vars
    BY <1>1, <1>9 DEF vars
  <1> QED
    BY <1>1, <1>3, <1>4, <1>5, <1>6, <1>7, <1>8, <1>9 DEF Next, Workers

LEMMA InitIInv == Init => IInv
  <1> SUFFICES ASSUME Init PROVE IInv
    OBVIOUS
  <1>1. sent = {} /\ \A w \in Workers : job[w].at = "idle"
    BY DEF Init, Resting
  <1>2. \A p \in Pledges : status[p] # "REFUNDED"
    BY DEF Init
  <1> QED
    BY <1>1, <1>2, InitTypes DEF IInv, ToldBack, KnowsBack, RefundedWasPaidBack

LEMMA StepIInv == IInv /\ [Next]_vars => IInv'
  BY TypesStep, StagedStep, ToldStep, KnowsStep, RefundedStep DEF IInv

(* A pledge says REFUNDED only if its money went back, whatever the         *)
(* webhook, the operators and the bank do at the same time.                 *)
THEOREM PaidBack == Spec => []RefundedWasPaidBack
  <1>1. IInv => RefundedWasPaidBack
    BY DEF IInv
  <1> QED
    BY InitIInv, StepIInv, <1>1, PTL DEF Spec

-----------------------------------------------------------------------------
(* The usual course, one operator and one event of a pledge at a time.  The *)
(* provider's events tell where the payment has been.                       *)
Paid == {"captured", "refunded", "disputed", "chargedback"}
Open == {"none", "stored", "mismatch"}

Told(p, k) == <<p, k>> \in sent
Outstanding(p, k) == Told(p, k) /\ inbox[<<p, k>>] \in Open

PaymentFits(p) ==
  /\ Told(p, "payment_paid") => payment[p] \in Paid
  /\ Told(p, "payment_failed") => payment[p] = "failed"
  /\ \A k \in DisputeKinds : Told(p, k) =>
       /\ payment[p] \in Paid
       /\ inbox[<<p, k>>] \in {"none", "stored"} => payment[p] = "disputed"

(* A status is what an event of the provider made it. *)
StatusFits(p) ==
  /\ status[p] = "DISPUTED" => \E k \in DisputeKinds : Told(p, k)
  /\ status[p] \in {"CAPTURED", "DISPUTED"} => payment[p] \in Paid
  /\ status[p] = "FAILED" => payment[p] = "failed"

(* Whoever applies an event finds the pledge as he read it, or refunded by  *)
(* the operator; and leaves it as he wrote it until the event is stamped.   *)
Applies(w, p) == job[w].at \in Applying /\ Holds(w, p)

OneEvent == \A v, w \in Workers, p \in Pledges : Applies(v, p) /\ Applies(w, p) => v = w

EventFits(w) ==
  LET p == job[w].pledge  k == job[w].kind IN
  /\ At(w, "write") => \/ status[p] = From(k)
                       \/ status[p] = "REFUNDED" /\ To(k) = "REFUNDED"
  /\ At(w, "record") /\ To(k) \in {"REFUNDED", "DISPUTED"} => status[p] = To(k)
  /\ w \in Requests /\ job[w].at \in Applying => inbox[<<p, k>>] = "stored"

(* An operator refunds what was captured and voids what was held; what he   *)
(* rules on is disputed, and decided.                                       *)
OperatorFits(o) ==
  LET p == job[o].pledge IN
  /\ At(o, "ask") \/ At(o, "book") => /\ job[o].kind \in {"refund", "void"}
                                      /\ job[o].kind = "refund" => status[p] # "HELD"
  /\ At(o, "book") => payment[p] = IF job[o].kind = "refund" THEN "refunded" ELSE "voided"
  /\ At(o, "won") \/ At(o, "lost") => status[p] = "DISPUTED" /\ payment[p] # "disputed"
  /\ At(o, "won") => payment[p] # "chargedback"

(* Until the pledge says so, an event of money gone back is outstanding.    *)
Traced(p) ==
  /\ payment[p] = "disputed" =>
       status[p] = "DISPUTED" \/ \E k \in DisputeKinds : Outstanding(p, k)
  /\ status[p] # "REFUNDED" =>
       /\ payment[p] = "refunded" => Outstanding(p, "payment_refunded")
       /\ payment[p] = "voided" => Outstanding(p, "payment_voided")
       /\ payment[p] = "chargedback" =>
            status[p] = "DISPUTED" \/ \E k \in DisputeKinds : Outstanding(p, k)

Fitting ==
  /\ \A p \in Pledges : PaymentFits(p) /\ StatusFits(p)
  /\ OneEvent
  /\ \A w \in Workers : EventFits(w)
  /\ \A o \in Operators : OperatorFits(o)

Tracing == \A p \in Pledges : Traced(p)

Usual == Orderly /\ DisputeKinds # {}

(* The kinds of events, and what each of them does to a pledge. *)
LEMMA KindsOf ==
  /\ \A k \in Kinds :
       /\ To(k) \in {"CAPTURED", "FAILED", "REFUNDED", "DISPUTED"} /\ From(k) \in {"HELD", "CAPTURED"}
       /\ To(k) = "CAPTURED" <=> k = "payment_paid"
       /\ To(k) = "FAILED" <=> k = "payment_failed"
       /\ To(k) = "REFUNDED" <=> k \in {"payment_voided", "payment_refunded"}
       /\ To(k) = "DISPUTED" <=> k \in DisputeKinds
       /\ From(k) = "HELD" <=> k \in {"payment_paid", "payment_failed", "payment_voided"}
  /\ DisputeKinds \cap {"payment_paid", "payment_failed", "payment_voided", "payment_refunded"} = {}
  /\ {"payment_paid", "payment_failed", "payment_voided", "payment_refunded"} \subseteq Kinds
  /\ DisputeKinds \subseteq Kinds
  BY EventsAssumption DEF To, From, Kinds

(* One operator, who is not a webhook request. *)
LEMMA OneOperator ==
  ASSUME Orderly
  PROVE  /\ \A o, u \in Operators : o = u
         /\ Operators \subseteq Workers /\ Requests \subseteq Workers
         /\ Operators \cap Requests = {}
  BY EventsAssumption DEF Workers

(* A worker's move leaves what the others know alone, if it writes nothing *)
(* they have read.                                                          *)
LEMMA OthersFit ==
  ASSUME Fitting, Orderly, NEW w \in Workers, NEW at, NEW p, NEW k, Moves(w, at, p, k),
         UNCHANGED <<status, payment, inbox>>
  PROVE  /\ \A v \in Workers \ {w} : EventFits(v)'
         /\ \A o \in Operators \ {w} : OperatorFits(o)'
  BY OneOperator DEF Fitting, Moves, EventFits, OperatorFits, At

(* The parts of Fitting that a worker's move has to keep. *)
LEMMA FittingMove ==
  ASSUME Fitting, NEW w \in Workers, NEW at, NEW p, NEW k, Moves(w, at, p, k),
         at \in Applying => \A v \in Workers \ {w} : ~Applies(v, p),
         \A q \in Pledges : PaymentFits(q)' /\ StatusFits(q)',
         \A v \in Workers : EventFits(v)', \A o \in Operators : OperatorFits(o)'
  PROVE  Fitting'
  <1>1. OneEvent'
    <2> SUFFICES ASSUME NEW u \in Workers, NEW v \in Workers, NEW q \in Pledges,
                        Applies(u, q)', Applies(v, q)'
                 PROVE  u = v
      BY DEF OneEvent
    <2>1. \A x \in Workers \ {w} : Applies(x, q)' => Applies(x, q)
      BY DEF Moves, Applies, Holds
    <2>2. Applies(w, q)' => q = p /\ at \in Applying
      BY DEF Moves, Applies, Holds
    <2> QED
      BY <2>1, <2>2 DEF Fitting, OneEvent
  <1> QED
    BY <1>1 DEF Fitting

(* A move that only reads, or only tells. *)
LEMMA QuietMove ==
  ASSUME Fitting, Tracing, Orderly, NEW w \in Workers, NEW at, NEW p, NEW k, Moves(w, at, p, k),
         UNCHANGED <<status, payment, sent, inbox>>,
         at \in Applying => \A v \in Workers \ {w} : ~Applies(v, p),
         EventFits(w)', w \in Operators => OperatorFits(w)'
  PROVE  Fitting' /\ Tracing'
  <1>1. \A q \in Pledges : PaymentFits(q)' /\ StatusFits(q)' /\ Traced(q)'
    BY DEF Fitting, Tracing, PaymentFits, StatusFits, Traced, Told, Outstanding
  <1>2. \A v \in Workers : EventFits(v)'
    BY OthersFit
  <1>3. \A o \in Operators : OperatorFits(o)'
    BY OthersFit
  <1> QED
    BY <1>1, <1>2, <1>3, FittingMove DEF Tracing

LEMMA QuietSteps ==
  ASSUME IInv, Fitting, Tracing, Orderly, NEW w \in Workers,
         \/ EventAccepted(w) \/ Crash(w)
         \/ w \in Operators /\
            \/ \E p \in Pledges, k \in Kinds : Replayed(w, p, k)
            \/ \E p \in Pledges : RefundRead(w, p) \/ DisputeRuled(w, p)
            \/ RefundCalled(w) \/ RefundRefused(w) \/ RefundNotified(w) \/ RefundEnds(w)
            \/ RecountRead(w) \/ RecountWritten(w)
  PROVE  Fitting' /\ Tracing'
  <1> USE DEF IInv
  <1>1. UNCHANGED <<status, payment, sent, inbox>>
    BY DEF EventAccepted, Crash, Replayed, RefundRead, DisputeRuled, RefundCalled, RefundRefused,
       RefundNotified, RefundEnds, RecountRead, RecountWritten, OpStarts, OpKeeps, psp
  <1>2. ASSUME NEW p, NEW k, NEW at \in {"idle", "refund", "recount"}, Moves(w, at, p, k)
        PROVE  Fitting' /\ Tracing'
    <2>1. EventFits(w)' /\ OperatorFits(w)'
      BY <1>2 DEF Moves, EventFits, OperatorFits, At, Applying
    <2> QED
      BY <1>1, <1>2, <2>1, QuietMove DEF Applying
  <1>3. CASE EventAccepted(w)
    <2> DEFINE p == job[w].pledge  k == job[w].kind
    <2>1. Moves(w, "write", p, k)
      BY <1>3, StepMoves
    <2>2. At(w, "apply") /\ status[p] = From(k)
      BY <1>3 DEF EventAccepted, Outcome
    <2>3. EventFits(w)' /\ OperatorFits(w)'
      BY <1>1, <2>1, <2>2 DEF Fitting, Moves, EventFits, OperatorFits, At, Applying
    <2>4. \A v \in Workers \ {w} : ~Applies(v, p)
      BY <2>2 DEF Fitting, OneEvent, Applies, Holds, At, Staged, StagedJob, Applying, Busy
    <2> QED
      BY <1>1, <2>1, <2>3, <2>4, QuietMove
  <1>4. ASSUME w \in Operators, NEW p \in Pledges, NEW k \in Kinds, Replayed(w, p, k)
        PROVE  Fitting' /\ Tracing'
    <2>1. Moves(w, "apply", p, k)
      BY <1>4, StepMoves
    <2>2. EventFits(w)' /\ OperatorFits(w)'
      BY <1>4, <2>1, OneOperator DEF Moves, EventFits, OperatorFits, At
    <2>3. \A v \in Workers \ {w} : ~Applies(v, p)
      BY <1>4 DEF Replayed, Alone, Applies, Holds, Staged, StagedJob
    <2> QED
      BY <1>1, <2>1, <2>2, <2>3, QuietMove
  <1>5. ASSUME w \in Operators, NEW p \in Pledges, RefundRead(w, p)
        PROVE  Fitting' /\ Tracing'
    <2>1. CASE p \in Refundable
      <3> DEFINE k == IF status[p] = "CAPTURED" THEN "refund" ELSE "void"
      <3>1. Moves(w, "ask", p, k)
        BY <1>5, <2>1, StepMoves
      <3>2. EventFits(w)' /\ OperatorFits(w)'
        BY <1>1, <3>1 DEF Moves, EventFits, OperatorFits, At, Applying
      <3> QED
        BY <1>1, <3>1, <3>2, QuietMove DEF Applying
    <2>2. CASE p \notin Refundable
      BY <1>2, <1>5, <2>2, StepMoves
    <2> QED
      BY <2>1, <2>2
  <1>6. ASSUME w \in Operators, NEW p \in Pledges, DisputeRuled(w, p)
        PROVE  Fitting' /\ Tracing'
    <2> DEFINE at == IF payment[p] = "chargedback" THEN "lost" ELSE "won"
    <2>1. Moves(w, at, p, "none")
      BY <1>6, StepMoves
    <2>2. status[p] = "DISPUTED" /\ payment[p] # "disputed"
      BY <1>6 DEF DisputeRuled
    <2>3. EventFits(w)' /\ OperatorFits(w)'
      BY <1>1, <2>1, <2>2 DEF Moves, EventFits, OperatorFits, At, Applying
    <2> QED
      BY <1>1, <2>1, <2>3, QuietMove DEF Applying
  <1>7. ASSUME \/ Crash(w) \/ RefundCalled(w) \/ RefundRefused(w) \/ RefundNotified(w)
               \/ RefundEnds(w) \/ RecountRead(w) \/ RecountWritten(w)
        PROVE  Fitting' /\ Tracing'
    BY <1>2, <1>7, StepMoves
  <1> QED
    BY <1>3, <1>4, <1>5, <1>6, <1>7

Stamps == {"stored", "applied", "ignored", "mismatch"}
Stamped(p, k, r) == inbox' = [inbox EXCEPT ![<<p, k>>] = r]

(* What is stamped in the inbox leaves no money untold: an event is closed  *)
(* only on a pledge that says what the event says.                          *)
LEMMA StampTraces ==
  ASSUME IInv, Tracing, UNCHANGED <<status, payment, sent>>,
         NEW p \in Pledges, NEW k \in Kinds, NEW r \in Stamps,
         Stamped(p, k, r), r \in Open \/ status[p] = To(k)
  PROVE  Tracing'
  <1> SUFFICES ASSUME NEW q \in Pledges PROVE Traced(q)'
    BY DEF Tracing
  <1>1. \A j \in Kinds : j # k \/ q # p \/ r \in Open => (Outstanding(q, j) => Outstanding(q, j)')
    BY DEF IInv, TypeOK, Outstanding, Told, Stamped
  <1>2. CASE q # p \/ r \in Open
    BY <1>1, <1>2, KindsOf DEF Tracing, Traced
  <1>3. CASE q = p /\ status[p] = To(k)
    <2>1. status[p] = "REFUNDED" => payment[p] # "disputed"
      BY DEF IInv, RefundedWasPaidBack, Back
    <2> QED
      BY <1>1, <1>3, <2>1, KindsOf DEF Tracing, Traced
  <1> QED
    BY <1>2, <1>3

LEMMA StampFits ==
  ASSUME IInv, Fitting, Orderly, UNCHANGED <<status, payment, sent>>,
         NEW w \in Workers, NEW at, NEW p \in Pledges, NEW k \in Kinds, NEW n, NEW j,
         Moves(w, at, n, j), NEW r \in Stamps, Stamped(p, k, r),
         r \in {"none", "stored"} => inbox[<<p, k>>] \in {"none", "stored"},
         \A v \in Workers \ {w} : ~Applies(v, p),
         at \in Applying => n = p,
         EventFits(w)', w \in Operators => OperatorFits(w)'
  PROVE  Fitting'
  <1>1. \A q \in Pledges : StatusFits(q)'
    BY DEF Fitting, StatusFits, Told
  <1>2. ASSUME NEW q \in Pledges PROVE PaymentFits(q)'
    <2>1. \A i \in DisputeKinds : inbox'[<<q, i>>] \in {"none", "stored"}
                                    => inbox[<<q, i>>] \in {"none", "stored"}
      BY KindsOf DEF IInv, TypeOK, Stamped
    <2> QED
      BY <2>1 DEF Fitting, PaymentFits, Told
  <1>3. ASSUME NEW v \in Workers \ {w} PROVE EventFits(v)'
    <2>1. job'[v] = job[v]
      BY DEF Moves
    <2>2. job[v].at \in Applying =>
            inbox'[<<job[v].pledge, job[v].kind>>] = inbox[<<job[v].pledge, job[v].kind>>]
      <3>1. job[v].at \in Applying => job[v].pledge # p /\ job[v].pledge \in Pledges
                                       /\ job[v].kind \in Kinds
        BY DEF Applies, Holds, IInv, Staged, StagedJob, Applying, Busy
      <3> QED
        BY <3>1 DEF IInv, TypeOK, Stamped
    <2> QED
      BY <2>1, <2>2 DEF Fitting, EventFits, At, Applying
  <1>4. ASSUME NEW o \in Operators \ {w} PROVE OperatorFits(o)'
    <2>1. job'[o] = job[o]
      BY OneOperator DEF Moves
    <2> QED
      BY <2>1 DEF Fitting, OperatorFits, At
  <1> QED
    BY <1>1, <1>2, <1>3, <1>4, FittingMove

LEMMA InboxSteps ==
  ASSUME IInv, Fitting, Tracing, Orderly, NEW w \in Workers,
         \/ \E p \in Pledges, k \in Kinds : w \in Requests /\ Delivered(w, p, k)
         \/ EventDeclined(w) \/ EventRecorded(w)
  PROVE  Fitting' /\ Tracing'
  <1>1. UNCHANGED <<status, payment, sent>>
    BY DEF Delivered, EventDeclined, EventRecorded, psp
  <1>2. ASSUME w \in Requests, NEW p \in Pledges, NEW k \in Kinds, Delivered(w, p, k)
        PROVE  Fitting' /\ Tracing'
    <2>1. Moves(w, "apply", p, k)
      BY <1>2, StepMoves DEF IInv
    <2>2. Stamped(p, k, "stored") /\ inbox[<<p, k>>] = "none"
      BY <1>2 DEF Delivered, Stamped
    <2>3. \A v \in Workers \ {w} : ~Applies(v, p)
      BY <1>2 DEF Delivered, Alone, Applies, Holds, IInv, Staged, StagedJob
    <2>4. EventFits(w)' /\ OperatorFits(w)'
      BY <2>1, <2>2 DEF Moves, EventFits, OperatorFits, At, IInv, TypeOK, Stamped
    <2> QED
      BY <1>1, <2>1, <2>2, <2>3, <2>4, StampFits, StampTraces DEF Open, Stamps
  <1>3. CASE EventDeclined(w) \/ EventRecorded(w)
    <2>1. Moves(w, "idle", NoPledge, "none")
      BY <1>3, StepMoves DEF IInv
    <2>2. At(w, "apply") \/ At(w, "record")
      BY <1>3 DEF EventDeclined, EventRecorded
    <2>3. PICK p \in Pledges, k \in Kinds : job[w].pledge = p /\ job[w].kind = k
      BY <2>2 DEF IInv, Staged, StagedJob, At, Applying, Busy
    <2>4. \A v \in Workers \ {w} : ~Applies(v, p)
      BY <2>2, <2>3 DEF Fitting, OneEvent, Applies, Holds, At, Applying
    <2>5. EventFits(w)' /\ OperatorFits(w)'
      BY <2>1 DEF Moves, EventFits, OperatorFits, At, Applying
    <2>6. PICK r \in Stamps :
            /\ Stamped(p, k, r) /\ r \notin {"none", "stored"}
            /\ r = "ignored" => status[p] = To(k)
            /\ r = "applied" => At(w, "record")
      BY <1>3, <2>3 DEF EventDeclined, EventRecorded, Outcome, Stamped, Stamps
    <2>7. r \in Open \/ status[p] = To(k) \/ To(k) \in {"CAPTURED", "FAILED"}
      BY <2>3, <2>6, KindsOf DEF Fitting, EventFits, Open, Stamps
    <2>8. Fitting'
      <3>1. "idle" \in Applying => NoPledge = p
        BY DEF Applying
      <3>2. r \in {"none", "stored"} => inbox[<<p, k>>] \in {"none", "stored"}
        BY <2>6
      <3> QED
        BY <1>1, <2>1, <2>4, <2>5, <2>6, <3>1, <3>2, StampFits
    <2>9. CASE r \in Open \/ status[p] = To(k)
      BY <1>1, <2>3, <2>6, <2>8, <2>9, StampTraces
    <2>10. CASE To(k) \in {"CAPTURED", "FAILED"}
      <3>1. \A q \in Pledges, j \in Kinds : j # k => (Outstanding(q, j) => Outstanding(q, j)')
        BY <1>1, <2>3, <2>6 DEF IInv, TypeOK, Outstanding, Told, Stamped
      <3> QED
        BY <1>1, <2>3, <2>8, <2>10, <3>1, KindsOf DEF Tracing, Traced
    <2> QED
      BY <2>7, <2>8, <2>9, <2>10
  <1> QED
    BY <1>2, <1>3

(* A write to a pledge's status finds nobody else about to write it, but    *)
(* the refund of an operator whose money went back already.                 *)
LEMMA StatusWritten ==
  ASSUME IInv, Fitting, Tracing, Orderly, NEW w \in Workers, NEW at, NEW p \in Pledges, NEW k,
         Moves(w, at, p, k) \/ Moves(w, "idle", NoPledge, "none"),
         at \in Applying => \A v \in Workers \ {w} : ~Applies(v, p),
         UNCHANGED <<payment, sent, inbox>>, NEW s, status' = [status EXCEPT ![p] = s],
         StatusFits(p)', Traced(p)', s # "HELD",
         EventFits(w)', w \in Operators => OperatorFits(w)',
         \A v \in Workers \ {w} : Applies(v, p) => EventFits(v)',
         w \in Requests => \A o \in Operators : Holds(o, p) => ~At(o, "won") /\ ~At(o, "lost")
  PROVE  Fitting' /\ Tracing'
  <1>1. \A q \in Pledges \ {p} : status'[q] = status[q]
    BY DEF IInv, TypeOK
  <1>2. \A q \in Pledges : PaymentFits(q)'
    BY DEF Fitting, PaymentFits, Told
  <1>3. ASSUME NEW q \in Pledges PROVE StatusFits(q)' /\ Traced(q)'
    <2>1. StatusFits(q) /\ Traced(q)
      BY DEF Fitting, Tracing
    <2>2. /\ q # p => status'[q] = status[q]
          /\ payment'[q] = payment[q]
          /\ \A j : (Told(q, j)' <=> Told(q, j)) /\ (Outstanding(q, j)' <=> Outstanding(q, j))
      BY <1>1 DEF Told, Outstanding
    <2> QED
      BY <2>1, <2>2 DEF StatusFits, Traced
  <1>4. ASSUME NEW v \in Workers \ {w} PROVE EventFits(v)'
    <2>1. job'[v] = job[v]
      BY DEF Moves
    <2>2. CASE job[v].at \in Applying /\ job[v].pledge # p
      <3>1. job[v].pledge \in Pledges
        BY <2>2 DEF IInv, Staged, StagedJob, Busy
      <3> QED
        BY <1>1, <2>1, <2>2, <3>1 DEF Fitting, EventFits, At
    <2>3. CASE job[v].at \notin Applying
      BY <2>1, <2>3 DEF EventFits, At, Applying
    <2>4. CASE job[v].at \in Applying /\ job[v].pledge = p
      BY <2>4 DEF Applies, Holds
    <2> QED
      BY <2>2, <2>3, <2>4
  <1>5. ASSUME NEW o \in Operators \ {w} PROVE OperatorFits(o)'
    <2>1. job'[o] = job[o] /\ w \in Requests
      BY OneOperator DEF Moves, Workers
    <2>2. job[o].at \in {"ask", "book", "won", "lost"} => job[o].pledge \in Pledges
      BY OneOperator DEF IInv, Staged, StagedJob, Busy
    <2>3. CASE job[o].pledge = p
      BY <2>1, <2>2, <2>3 DEF IInv, TypeOK, Fitting, OperatorFits, At, Holds
    <2>4. CASE job[o].pledge # p
      BY <1>1, <2>1, <2>2, <2>4 DEF Fitting, OperatorFits, At
    <2> QED
      BY <2>3, <2>4
  <1>6. PICK n, m, j : Moves(w, m, n, j) /\ (m \in Applying => at \in Applying /\ n = p)
    BY DEF Applying
  <1> QED
    BY <1>2, <1>3, <1>4, <1>5, <1>6, FittingMove DEF Tracing

(* An event's write. *)
LEMMA EventWriteFits ==
  ASSUME IInv, Fitting, Tracing, Orderly, NEW w \in Workers, EventWritten(w)
  PROVE  Fitting' /\ Tracing'
  <1>1. UNCHANGED <<payment, sent, inbox>> /\ At(w, "write")
    BY DEF EventWritten, psp
  <1>2. PICK p \in Pledges, k \in Kinds : job[w].pledge = p /\ job[w].kind = k /\ <<p, k>> \in sent
    BY <1>1 DEF IInv, Staged, StagedJob, At, Applying, Busy
  <1>3. Moves(w, "record", p, k)
    BY <1>2, StepMoves DEF IInv
  <1>4. status' = [status EXCEPT ![p] = To(k)] /\ status'[p] = To(k)
    BY <1>2 DEF EventWritten, IInv, TypeOK
  <1>5. \A v \in Workers \ {w} : ~Applies(v, p)
    BY <1>1, <1>2 DEF Fitting, OneEvent, Applies, Holds, At, Applying
  <1>6. \/ status[p] = From(k)
        \/ status[p] = "REFUNDED" /\ To(k) = "REFUNDED"
    BY <1>1, <1>2 DEF Fitting, EventFits
  <1>7. StatusFits(p)'
    <2>1. /\ k = "payment_paid" => payment[p] \in Paid
          /\ k = "payment_failed" => payment[p] = "failed"
          /\ k \in DisputeKinds => payment[p] \in Paid
      BY <1>2 DEF Fitting, PaymentFits, Told
    <2>2. /\ To(k) = "CAPTURED" => k = "payment_paid"
          /\ To(k) = "FAILED" => k = "payment_failed"
          /\ To(k) = "DISPUTED" => k \in DisputeKinds
      BY <1>2, KindsOf
    <2> QED
      BY <1>1, <1>2, <1>4, <2>1, <2>2 DEF StatusFits, Told
  <1>8. Traced(p)'
    <2>1. status[p] # "DISPUTED"
      BY <1>2, <1>6, KindsOf
    <2>2. status'[p] # "REFUNDED" => status[p] # "REFUNDED"
      BY <1>2, <1>4, <1>6, KindsOf
    <2> QED
      BY <1>1, <2>1, <2>2 DEF Tracing, Traced, Outstanding, Told
  <1>9. EventFits(w)' /\ OperatorFits(w)'
    <2>1. w \in Requests => inbox[<<p, k>>] = "stored"
      BY <1>1, <1>2 DEF Fitting, EventFits, At, Applying
    <2> QED
      BY <1>1, <1>3, <1>4, <2>1 DEF Moves, EventFits, OperatorFits, At
  <1>10. \A o \in Operators : Holds(o, p) => ~At(o, "won") /\ ~At(o, "lost")
    BY <1>2, <1>6, KindsOf DEF Fitting, OperatorFits, Holds
  <1>11. To(k) # "HELD"
    BY <1>2, KindsOf
  <1> QED
    BY <1>1, <1>3, <1>4, <1>5, <1>7, <1>8, <1>9, <1>10, <1>11, StatusWritten

(* While the operator books a refund, the money is back: an event about to  *)
(* be applied to the pledge can only say so too.                            *)
LEMMA BookingAlone ==
  ASSUME IInv, Fitting, Orderly, NEW o \in Operators, NEW p \in Pledges, Holds(o, p), At(o, "book"),
         NEW v \in Workers \ {o}, Applies(v, p)
  PROVE  /\ At(v, "write") => To(job[v].kind) = "REFUNDED"
         /\ At(v, "record") => To(job[v].kind) # "DISPUTED"
  <1>1. PICK k \in Kinds : job[v].kind = k /\ job[v].pledge = p /\ <<p, k>> \in sent
    BY DEF IInv, Staged, StagedJob, Applies, Holds
  <1>2. payment[p] = IF job[o].kind = "refund" THEN "refunded" ELSE "voided"
    BY DEF Fitting, OperatorFits, Holds
  <1>3. k \notin DisputeKinds
    <2>1. v \in Requests
      BY OneOperator DEF Workers
    <2>2. inbox[<<p, k>>] = "stored"
      BY <1>1, <2>1 DEF Fitting, EventFits, Applies
    <2> QED
      BY <1>1, <1>2, <2>2 DEF Fitting, PaymentFits, Told
  <1>4. ASSUME At(v, "write") PROVE To(k) = "REFUNDED"
    <2>1. k # "payment_failed"
      BY <1>1, <1>2 DEF Fitting, PaymentFits, Told
    <2>2. k # "payment_paid"
      <3>1. ASSUME k = "payment_paid" PROVE FALSE
        <4>1. status[p] = "HELD"
          BY <1>1, <1>4, <3>1, KindsOf DEF Fitting, EventFits
        <4>2. job[o].kind # "refund"
          BY <4>1 DEF Fitting, OperatorFits, Holds
        <4> QED
          BY <1>1, <1>2, <3>1, <4>2 DEF Fitting, PaymentFits, Told, Paid
      <3> QED
        BY <3>1
    <2> QED
      BY <1>3, <2>1, <2>2, KindsOf
  <1> QED
    BY <1>1, <1>3, <1>4, KindsOf

LEMMA BookingFits ==
  ASSUME IInv, Fitting, Tracing, Orderly, NEW o \in Operators, RefundBooked(o)
  PROVE  Fitting' /\ Tracing'
  <1>0. o \in Workers
    BY OneOperator
  <1>1. UNCHANGED <<payment, sent, inbox>> /\ At(o, "book")
    BY DEF RefundBooked, psp
  <1>2. PICK p \in Pledges : job[o].pledge = p
    BY <1>0, <1>1 DEF IInv, Staged, StagedJob, At, Busy
  <1>3. PICK k : job[o].kind = k
    OBVIOUS
  <1>4. Moves(o, "notify", p, k)
    BY <1>0, <1>2, <1>3, StepMoves DEF IInv
  <1>5. status' = [status EXCEPT ![p] = "REFUNDED"] /\ status'[p] = "REFUNDED"
    BY <1>2 DEF RefundBooked, IInv, TypeOK
  <1>6. payment[p] # "disputed"
    BY <1>1, <1>2 DEF Fitting, OperatorFits
  <1>7. StatusFits(p)' /\ Traced(p)'
    BY <1>1, <1>5, <1>6 DEF StatusFits, Traced
  <1>8. EventFits(o)' /\ OperatorFits(o)'
    BY <1>4 DEF Moves, EventFits, OperatorFits, At, Applying
  <1>9. ASSUME NEW v \in Workers \ {o}, Applies(v, p) PROVE EventFits(v)'
    <2>1. job'[v] = job[v] /\ job[v].pledge = p
      BY <1>4, <1>9 DEF Moves, Applies, Holds
    <2>2. /\ At(v, "write") => To(job[v].kind) = "REFUNDED"
          /\ At(v, "record") => To(job[v].kind) # "DISPUTED"
      BY <1>1, <1>2, <1>9, BookingAlone DEF Holds
    <2>3. v \in Requests => inbox[<<p, job[v].kind>>] = "stored"
      BY <1>9, <2>1 DEF Fitting, EventFits, Applies
    <2> QED
      BY <1>1, <1>5, <2>1, <2>2, <2>3 DEF EventFits, At
  <1> QED
    BY <1>0, <1>1, <1>4, <1>5, <1>7, <1>8, <1>9, OneOperator, StatusWritten DEF Applying

(* A ruling: nobody applies an event to a pledge in dispute.                *)
LEMMA RulingFits ==
  ASSUME IInv, Fitting, Tracing, Orderly, NEW o \in Operators, DisputeWon(o) \/ DisputeLost(o)
  PROVE  Fitting' /\ Tracing'
  <1>0. o \in Workers
    BY OneOperator
  <1>1. UNCHANGED <<payment, sent, inbox>> /\ (At(o, "won") \/ At(o, "lost"))
    BY DEF DisputeWon, DisputeLost, OpKeeps, psp
  <1>2. PICK p \in Pledges : job[o].pledge = p
    BY <1>0, <1>1 DEF IInv, Staged, StagedJob, At, Busy
  <1>3. Moves(o, "idle", NoPledge, "none")
    BY <1>0, StepMoves DEF IInv
  <1>4. PICK s \in {"CAPTURED", "REFUNDED"} :
          /\ status' = [status EXCEPT ![p] = s] /\ status'[p] = s
          /\ s = "CAPTURED" => At(o, "won")
    BY <1>2 DEF DisputeWon, DisputeLost, IInv, TypeOK
  <1>5. /\ status[p] = "DISPUTED" /\ payment[p] # "disputed"
        /\ s = "CAPTURED" => payment[p] # "chargedback"
    BY <1>1, <1>2, <1>4 DEF Fitting, OperatorFits
  <1>6. StatusFits(p)'
    BY <1>1, <1>4, <1>5 DEF Fitting, StatusFits
  <1>7. Traced(p)'
    BY <1>1, <1>4, <1>5 DEF Tracing, Traced, Outstanding, Told
  <1>8. EventFits(o)' /\ OperatorFits(o)'
    BY <1>3 DEF Moves, EventFits, OperatorFits, At, Applying
  <1>9. ASSUME NEW v \in Workers \ {o}, Applies(v, p) PROVE EventFits(v)'
    <2>1. job'[v] = job[v] /\ v \in Requests /\ job[v].pledge = p
      BY <1>3, <1>9, OneOperator DEF Moves, Workers, Applies, Holds
    <2>2. PICK k \in Kinds : job[v].kind = k /\ <<p, k>> \in sent
      BY <1>9, <2>1 DEF IInv, Staged, StagedJob, Applies
    <2>3. inbox[<<p, k>>] = "stored"
      BY <1>9, <2>1, <2>2 DEF Fitting, EventFits, Applies
    <2>4. k \notin DisputeKinds
      BY <1>5, <2>2, <2>3 DEF Fitting, PaymentFits, Told
    <2>5. ~At(v, "write")
      BY <1>5, <2>1, <2>2, KindsOf DEF Fitting, EventFits
    <2>6. At(v, "record") => To(k) \notin {"REFUNDED", "DISPUTED"}
      BY <1>5, <2>1, <2>2, <2>4, KindsOf DEF Fitting, EventFits
    <2> QED
      BY <1>1, <2>1, <2>2, <2>3, <2>5, <2>6 DEF EventFits, At
  <1> QED
    BY <1>0, <1>1, <1>3, <1>4, <1>6, <1>7, <1>8, <1>9, OneOperator, StatusWritten DEF Applying

(* What the provider does to one payment concerns no other pledge, and      *)
(* announces it in an event that nobody has seen yet.                       *)
LEMMA Announced ==
  ASSUME IInv, Fitting, Tracing, NEW p \in Pledges, NEW from, NEW to, NEW S, Pays(p, from, to, S),
         UNCHANGED <<status, inbox>>
  PROVE  /\ payment[p] = from /\ payment'[p] = to
         /\ \A q \in Pledges \ {p} :
              payment'[q] = payment[q] /\ PaymentFits(q)' /\ StatusFits(q)' /\ Traced(q)'
         /\ \A k : Told(p, k)' <=> Told(p, k) \/ k \in S
         /\ \A k \in Kinds : Outstanding(p, k) => Outstanding(p, k)'
         /\ \A k \in Kinds \cap S : ~Told(p, k) => inbox[<<p, k>>] = "none" /\ Outstanding(p, k)'
  <1>1. payment[p] = from /\ payment'[p] = to
    BY DEF Pays, IInv, TypeOK
  <1>2. \A k : Told(p, k)' <=> Told(p, k) \/ k \in S
    BY DEF Pays, Told
  <1>3. ASSUME NEW q \in Pledges \ {p}
        PROVE  payment'[q] = payment[q] /\ PaymentFits(q)' /\ StatusFits(q)' /\ Traced(q)'
    <2>1. payment'[q] = payment[q] /\ \A k : Told(q, k)' <=> Told(q, k)
      BY DEF Pays, IInv, TypeOK, Told
    <2>2. PaymentFits(q)' /\ StatusFits(q)'
      BY <2>1 DEF Fitting, PaymentFits, StatusFits
    <2>3. \A k : Outstanding(q, k)' <=> Outstanding(q, k)
      BY <2>1 DEF Outstanding
    <2>4. Traced(q)'
      BY <2>1, <2>3 DEF Tracing, Traced
    <2> QED
      BY <2>1, <2>2, <2>4
  <1>4. \A k \in Kinds : Outstanding(p, k) => Outstanding(p, k)'
    BY <1>2 DEF Outstanding
  <1>5. ASSUME NEW k \in Kinds \cap S, ~Told(p, k)
        PROVE  inbox[<<p, k>>] = "none" /\ Outstanding(p, k)'
    <2>1. inbox[<<p, k>>] = "none"
      BY <1>5 DEF IInv, Staged, Told
    <2> QED
      BY <1>2, <1>5, <2>1 DEF Outstanding, Open
  <1> QED
    BY <1>1, <1>2, <1>3, <1>4, <1>5

(* What a payment becomes, its pledge's row can follow. *)
LEMMA PaymentFollowed ==
  ASSUME IInv, Fitting, Tracing, Usual, NEW p \in Pledges, UNCHANGED <<status, inbox>>,
         \/ Pays(p, "held", "captured", {"payment_paid"})
         \/ Pays(p, "held", "failed", {"payment_failed"})
         \/ Pays(p, "held", "voided", {"payment_voided"})
         \/ Pays(p, "captured", "refunded", {"payment_refunded"})
         \/ Pays(p, "captured", "disputed", DisputeKinds) /\ \A k \in DisputeKinds : ~Told(p, k)
         \/ /\ Pays(p, "disputed", "captured", {}) \/ Pays(p, "disputed", "chargedback", {})
            /\ \A k \in DisputeKinds : inbox[<<p, k>>] \notin {"none", "stored"}
  PROVE  \A q \in Pledges : PaymentFits(q)' /\ StatusFits(q)' /\ Traced(q)'
  <1> USE KindsOf
  <1>0. /\ \A k \in Kinds : To(k) = "REFUNDED" /\ payment[p] \notin Back => ~Told(p, k)
        /\ PaymentFits(p) /\ StatusFits(p) /\ Traced(p)
    BY DEF IInv, ToldBack, Told, Fitting, Tracing
  <1> SUFFICES PaymentFits(p)' /\ StatusFits(p)' /\ Traced(p)'
    BY Announced
  <1>1. ASSUME NEW to \in {"captured", "failed", "voided"}, NEW k \in Kinds,
               Pays(p, "held", to, {k}),
               k = IF to = "captured" THEN "payment_paid"
                   ELSE IF to = "failed" THEN "payment_failed" ELSE "payment_voided"
        PROVE  PaymentFits(p)' /\ StatusFits(p)' /\ Traced(p)'
    <2>1. /\ payment[p] = "held" /\ payment'[p] = to
          /\ \A j : Told(p, j)' <=> Told(p, j) \/ j = k
      BY <1>1, Announced
    <2>2. ~Told(p, "payment_paid") /\ ~Told(p, "payment_failed") /\ \A j \in DisputeKinds : ~Told(p, j)
      BY <1>0, <2>1 DEF PaymentFits, Paid
    <2>3. PaymentFits(p)'
      BY <1>1, <2>1, <2>2 DEF PaymentFits, Paid
    <2>4. StatusFits(p)'
      BY <1>0, <2>1, <2>2 DEF StatusFits, Paid
    <2>5. to = "voided" => Outstanding(p, "payment_voided")'
      BY <1>0, <1>1, <2>1, Announced DEF Back
    <2>6. Traced(p)'
      BY <2>1, <2>5 DEF Traced
    <2> QED
      BY <2>3, <2>4, <2>6
  <1>2. CASE Pays(p, "captured", "refunded", {"payment_refunded"})
    <2>1. /\ payment[p] = "captured" /\ payment'[p] = "refunded"
          /\ \A j : Told(p, j)' <=> Told(p, j) \/ j = "payment_refunded"
      BY <1>2, Announced
    <2>2. PaymentFits(p)' /\ StatusFits(p)'
      BY <1>0, <2>1 DEF PaymentFits, StatusFits, Paid
    <2>3. Outstanding(p, "payment_refunded")'
      BY <1>0, <1>2, <2>1, Announced DEF Back
    <2>4. Traced(p)'
      BY <2>1, <2>3 DEF Traced
    <2> QED
      BY <2>2, <2>4
  <1>3. CASE Pays(p, "captured", "disputed", DisputeKinds) /\ \A k \in DisputeKinds : ~Told(p, k)
    <2>1. /\ payment[p] = "captured" /\ payment'[p] = "disputed"
          /\ \A j : Told(p, j)' <=> Told(p, j) \/ j \in DisputeKinds
      BY <1>3, Announced
    <2>2. PaymentFits(p)' /\ StatusFits(p)'
      BY <1>0, <2>1 DEF PaymentFits, StatusFits, Paid
    <2>3. \A k \in DisputeKinds : Outstanding(p, k)'
      BY <1>3, Announced
    <2>4. Traced(p)'
      BY <2>1, <2>3 DEF Traced, Usual
    <2> QED
      BY <2>2, <2>4
  <1>4. ASSUME NEW to \in {"captured", "chargedback"}, Pays(p, "disputed", to, {}),
               \A k \in DisputeKinds : inbox[<<p, k>>] \notin {"none", "stored"}
        PROVE  PaymentFits(p)' /\ StatusFits(p)' /\ Traced(p)'
    <2>1. /\ payment[p] = "disputed" /\ payment'[p] = to
          /\ \A j : Told(p, j)' <=> Told(p, j)
      BY <1>4, Announced
    <2>2. PaymentFits(p)' /\ StatusFits(p)'
      BY <1>0, <1>4, <2>1 DEF PaymentFits, StatusFits, Paid
    <2>3. \A k \in Kinds : Outstanding(p, k) => Outstanding(p, k)'
      BY <1>4, Announced
    <2>4. Traced(p)'
      BY <1>0, <2>1, <2>3 DEF Traced
    <2> QED
      BY <2>2, <2>4
  <1> QED
    BY <1>1, <1>2, <1>3, <1>4

LEMMA BankFits ==
  ASSUME IInv, Fitting, Tracing, Usual, NEW p \in Pledges,
         PaymentMoves(p) \/ DisputeFiled(p) \/ DisputeDecided(p)
  PROVE  Fitting' /\ Tracing'
  <1>1. UNCHANGED <<status, inbox, job>>
    BY DEF PaymentMoves, DisputeFiled, DisputeDecided, External
  <1>2. \A q \in Pledges : PaymentFits(q)' /\ StatusFits(q)' /\ Traced(q)'
    BY <1>1, PaymentFollowed DEF PaymentMoves, DisputeFiled, DisputeDecided, Usual, Told
  <1>3. OneEvent' /\ \A w \in Workers : EventFits(w)'
    BY <1>1 DEF Fitting, OneEvent, Applies, Holds, EventFits, At
  <1>4. /\ \A q \in Pledges \ {p} : payment'[q] = payment[q]
        /\ payment[p] \notin {"refunded", "voided"}
        /\ payment'[p] = "disputed" => payment[p] = "captured" /\ \A k \in DisputeKinds : ~Told(p, k)
        /\ payment'[p] = "chargedback" => payment[p] = "disputed"
    <2>1. PICK from, to, S : 
            /\ Pays(p, from, to, S) /\ from \notin {"refunded", "voided"}
            /\ to = "disputed" => from = "captured" /\ \A k \in DisputeKinds : ~Told(p, k)
            /\ to = "chargedback" => from = "disputed"
      BY DEF PaymentMoves, DisputeFiled, DisputeDecided, Told
    <2> QED
      BY <2>1 DEF Pays, IInv, TypeOK
  <1>5. ASSUME NEW o \in Operators PROVE OperatorFits(o)'
    <2>1. job[o].at \in {"ask", "book", "won", "lost"} => job[o].pledge \in Pledges
      BY OneOperator DEF IInv, Staged, StagedJob, Busy, Usual
    <2>2. job[o].at \in {"ask", "book", "won", "lost"} /\ job[o].pledge = p =>
            (job[o].at = "book" => FALSE)
      BY <1>4 DEF Fitting, OperatorFits, At
    <2>3. job[o].at \in {"won", "lost"} /\ job[o].pledge = p =>
            payment'[p] \notin {"disputed", "chargedback"} \/ payment'[p] = payment[p]
      BY <1>4 DEF Fitting, OperatorFits, StatusFits, At
    <2>4. OperatorFits(o)
      BY DEF Fitting
    <2> QED
      BY <1>1, <1>4, <2>1, <2>2, <2>3, <2>4 DEF OperatorFits, At
  <1> QED
    BY <1>2, <1>3, <1>5 DEF Fitting, Tracing

LEMMA PaybackFits ==
  ASSUME IInv, Fitting, Tracing, Usual, NEW o \in Operators, RefundPaid(o)
  PROVE  Fitting' /\ Tracing'
  <1>0. o \in Workers /\ Orderly
    BY OneOperator DEF Usual
  <1>1. UNCHANGED <<status, inbox>> /\ At(o, "ask")
    BY DEF RefundPaid, OpKeeps
  <1>2. PICK p \in Pledges : job[o].pledge = p
    BY <1>0, <1>1 DEF IInv, Staged, StagedJob, At, Busy
  <1>3. PICK k : job[o].kind = k /\ k \in {"refund", "void"}
    BY <1>1 DEF Fitting, OperatorFits
  <1>4. IF k = "refund" THEN Pays(p, "captured", "refunded", {"payment_refunded"})
                        ELSE Pays(p, "held", "voided", {"payment_voided"})
    BY <1>2, <1>3 DEF RefundPaid
  <1>5. \A q \in Pledges : PaymentFits(q)' /\ StatusFits(q)' /\ Traced(q)'
    BY <1>1, <1>4, PaymentFollowed
  <1>6. payment'[p] = IF k = "refund" THEN "refunded" ELSE "voided"
    BY <1>4 DEF Pays, IInv, TypeOK
  <1>7. k = "refund" => status[p] # "HELD"
    BY <1>1, <1>2, <1>3 DEF Fitting, OperatorFits
  <1>8. ASSUME NEW at \in {"book", "refund"}, NEW n, NEW j, Moves(o, at, n, j),
               at = "book" => n = p /\ j = k
        PROVE  Fitting' /\ Tracing'
    <2>1. EventFits(o)' /\ OperatorFits(o)'
      BY <1>1, <1>3, <1>6, <1>7, <1>8 DEF Moves, EventFits, OperatorFits, At, Applying
    <2>2. \A v \in Workers \ {o} : EventFits(v)'
      BY <1>1, <1>8 DEF Fitting, Moves, EventFits, At
    <2>3. \A u \in Operators : OperatorFits(u)'
      BY <1>0, <2>1, OneOperator
    <2> QED
      BY <1>0, <1>5, <1>8, <2>1, <2>2, <2>3, FittingMove DEF Tracing, Applying
  <1>9. Moves(o, "book", p, k) \/ Moves(o, "refund", NoPledge, "none")
    BY <1>0, <1>2, <1>3, StepMoves DEF IInv
  <1> QED
    BY <1>8, <1>9

LEMMA InitFits == Init => Fitting /\ Tracing
  <1> SUFFICES ASSUME Init PROVE Fitting /\ Tracing
    OBVIOUS
  <1>1. sent = {} /\ \A w \in Workers : job[w].at = "idle"
    BY DEF Init, Resting
  <1>2. \A p \in Pledges : \/ status[p] = "HELD" /\ payment[p] = "held"
                           \/ status[p] = "CAPTURED" /\ payment[p] = "captured"
    BY DEF Init
  <1>3. \A p \in Pledges : PaymentFits(p) /\ StatusFits(p) /\ Traced(p)
    BY <1>1, <1>2 DEF PaymentFits, StatusFits, Traced, Told, Paid
  <1>4. OneEvent /\ \A w \in Workers : EventFits(w)
    BY <1>1 DEF OneEvent, Applies, EventFits, At, Applying
  <1>5. \A o \in Operators : OperatorFits(o)
    BY <1>1 DEF OperatorFits, At, Workers
  <1> QED
    BY <1>3, <1>4, <1>5 DEF Fitting, Tracing

LEMMA StepFits ==
  ASSUME Usual, IInv, Fitting, Tracing, [Next]_vars
  PROVE  Fitting' /\ Tracing'
  <1>0. Orderly /\ Operators \subseteq Workers /\ Requests \subseteq Workers
    BY OneOperator DEF Usual
  <1>1. ASSUME NEW p \in Pledges, PaymentMoves(p) \/ DisputeFiled(p) \/ DisputeDecided(p)
        PROVE  Fitting' /\ Tracing'
    BY <1>1, BankFits
  <1>2. ASSUME NEW d \in Requests, NEW p \in Pledges, NEW k \in Kinds, Delivered(d, p, k)
        PROVE  Fitting' /\ Tracing'
    BY <1>0, <1>2, InboxSteps
  <1>3. ASSUME NEW o \in Operators, NEW p \in Pledges, NEW k \in Kinds, Replayed(o, p, k)
        PROVE  Fitting' /\ Tracing'
    BY <1>0, <1>3, QuietSteps
  <1>4. ASSUME NEW w \in Workers, EventStep(w) \/ Crash(w) PROVE Fitting' /\ Tracing'
    BY <1>0, <1>4, QuietSteps, InboxSteps, EventWriteFits DEF EventStep
  <1>5. ASSUME NEW o \in Operators, OpStep(o) PROVE Fitting' /\ Tracing'
    BY <1>0, <1>5, QuietSteps, PaybackFits, BookingFits, RulingFits DEF OpStep
  <1>6. CASE UNCHANGED vars
    <2>1. UNCHANGED <<status, payment, sent, inbox, job>>
      BY <1>6 DEF vars, psp
    <2>2. \A p \in Pledges : PaymentFits(p)' /\ StatusFits(p)' /\ Traced(p)'
      BY <2>1 DEF Fitting, Tracing, PaymentFits, StatusFits, Traced, Told, Outstanding
    <2>3. /\ OneEvent' /\ \A w \in Workers : EventFits(w)'
          /\ \A o \in Operators : OperatorFits(o)'
      BY <2>1 DEF Fitting, OneEvent, Applies, Holds, EventFits, OperatorFits, At
    <2> QED
      BY <2>2, <2>3 DEF Fitting, Tracing
  <1> QED
    BY <1>1, <1>2, <1>3, <1>4, <1>5, <1>6 DEF Next

(* Money that went back is never lost sight of (RefundLeavesTrace): an      *)
(* event, a dispute or an operator's refund has yet to say so, in the usual *)
(* course of events, with any number of pledges and deliveries, repeated    *)
(* events, lost answers and crashes.                                        *)
THEOREM Trace ==
  ASSUME DisputeKinds # {}
  PROVE  Spec => []RefundLeavesTrace
  <1>1. Fitting /\ Tracing => RefundLeavesTrace
    <2> SUFFICES ASSUME Fitting, Tracing, NEW p \in Pledges, payment[p] \in Back,
                        status[p] # "REFUNDED"
                 PROVE  SaysBack(p)
      BY DEF RefundLeavesTrace
    <2>1. ASSUME NEW k \in Kinds, k \notin {"payment_paid", "payment_failed"}, Outstanding(p, k)
          PROVE  SaysBack(p)
      BY <2>1 DEF SaysBack, Outstanding, Told, Open
    <2>2. \A k \in DisputeKinds : Outstanding(p, k) => SaysBack(p)
      BY <2>1, KindsOf
    <2> QED
      BY <2>1, <2>2, KindsOf DEF Tracing, Traced, Back, SaysBack
  <1>2. CASE Orderly
    <2>1. IInv /\ Fitting /\ Tracing /\ [Next]_vars => (IInv /\ Fitting /\ Tracing)'
      BY <1>2, StepIInv, StepFits DEF Usual
    <2> QED
      BY InitIInv, InitFits, <1>1, <2>1, PTL DEF Spec
  <1>3. CASE ~Orderly
    <2>1. RefundLeavesTrace
      BY <1>3 DEF RefundLeavesTrace
    <2> QED
      BY <2>1, PTL
  <1> QED
    BY <1>2, <1>3

-----------------------------------------------------------------------------
(* The counters.  What is in them for a pledge follows its status; an       *)
(* operator about to book a refund finds the pledge counted; and one about  *)
(* to write a recount finds REALIZED as he read it, but for the captures    *)
(* made since.                                                              *)
Counted(p) ==
  /\ status[p] \in {"HELD", "CAPTURED", "DISPUTED"} => books[p].raised = 1
  /\ status[p] \in {"CAPTURED", "DISPUTED"} => books[p].realized = 1
  /\ status[p] \in {"HELD", "FAILED"} => books[p].realized = 0
  /\ status[p] # "REFUNDED" => books[p].given = 1
  /\ books[p].raised \in {0, 1} /\ books[p].realized \in {0, 1} /\ books[p].given \in {0, 1}
  /\ books[p].realized <= books[p].raised

Compensable(p, k) ==
  /\ books[p].raised = 1 /\ books[p].given = 1
  /\ books[p].realized = IF k = "refund" THEN 1 ELSE 0

Recounts(o) ==
  /\ Are({"HELD"}) \subseteq job[o].list
  /\ "realized" \notin job[o].drift =>
       \A q \in Pledges : \/ books[q].realized = In(q, job[o].captured)
                          \/ q \in job[o].list \ job[o].captured /\ status[q] # "HELD"

Counting ==
  /\ \A p \in Pledges : Counted(p)
  /\ \A o \in Operators : /\ At(o, "book") => Compensable(job[o].pledge, job[o].kind)
                          /\ At(o, "recount") => Recounts(o)

(* A step that moves no counter and no status, and books or counts nothing. *)
LEMMA CountsKept ==
  ASSUME Counting, UNCHANGED <<status, books>>, NEW w \in Workers, NEW at, NEW p, NEW k,
         Moves(w, at, p, k), at \notin {"book", "recount"}
  PROVE  Counting'
  <1>1. \A q \in Pledges : Counted(q)'
    BY DEF Counting, Counted
  <1>2. ASSUME NEW o \in Operators
        PROVE  /\ At(o, "book")' => Compensable(job[o].pledge, job[o].kind)'
               /\ At(o, "recount")' => Recounts(o)'
    <2>1. CASE o = w
      BY <2>1 DEF Moves, At
    <2>2. CASE o # w
      <3>1. job'[o] = job[o]
        BY <2>2 DEF Moves, Workers
      <3> QED
        BY <3>1 DEF Counting, At, Compensable, Recounts, Are
    <2> QED
      BY <2>1, <2>2
  <1> QED
    BY <1>1, <1>2 DEF Counting

(* The sole operator rests once he has written: only the pledges are left.  *)
LEMMA OperatorDone ==
  ASSUME Orderly, NEW o \in Operators, NEW at, NEW p, NEW k, Moves(o, at, p, k),
         at \notin {"book", "recount"}, \A q \in Pledges : Counted(q)'
  PROVE  Counting'
  BY OneOperator DEF Counting, Moves, At

LEMMA QuietCounts ==
  ASSUME TypeOK, Counting, NEW w \in Workers,
         \/ EventDeclined(w) \/ EventAccepted(w) \/ EventRecorded(w) \/ Crash(w)
         \/ \E p \in Pledges, k \in Kinds : Delivered(w, p, k) \/ Replayed(w, p, k)
         \/ \E p \in Pledges : RefundRead(w, p) \/ DisputeRuled(w, p)
         \/ RefundCalled(w) \/ RefundRefused(w) \/ RefundNotified(w) \/ RefundEnds(w)
  PROVE  Counting'
  <1>1. UNCHANGED <<status, books>>
    BY DEF EventDeclined, EventAccepted, EventRecorded, Crash, Delivered, Replayed, RefundRead,
       DisputeRuled, RefundCalled, RefundRefused, RefundNotified, RefundEnds, OpStarts, OpKeeps,
       bookVars
  <1>2. PICK at, p, k : Moves(w, at, p, k) /\ at \notin {"book", "recount"}
    <2>1. ASSUME NEW p \in Pledges, RefundRead(w, p)
          PROVE  \E at, q, k : Moves(w, at, q, k) /\ at \notin {"book", "recount"}
      <3>1. \/ \E k : Moves(w, "ask", p, k)
            \/ Moves(w, "refund", NoPledge, "none")
        BY <2>1, StepMoves
      <3> QED
        BY <3>1
    <2>2. ASSUME NEW p \in Pledges, DisputeRuled(w, p)
          PROVE  \E at, q, k : Moves(w, at, q, k) /\ at \notin {"book", "recount"}
      BY <2>2, StepMoves
    <2> QED
      BY <2>1, <2>2, StepMoves
  <1> QED
    BY <1>1, <1>2, CountsKept

(* A capture the webhook confirms is counted once; no other event moves a   *)
(* counter, and none meets a pledge that an operator is about to book.      *)
LEMMA EventCounts ==
  ASSUME IInv, Fitting, Orderly, Counting, NEW w \in Workers, EventWritten(w)
  PROVE  Counting'
  <1>0. At(w, "write") /\ Moves(w, "record", job[w].pledge, job[w].kind)
    BY StepMoves DEF EventWritten, IInv
  <1>1. PICK p \in Pledges, k \in Kinds : job[w].pledge = p /\ job[w].kind = k /\ Told(p, k)
    BY <1>0 DEF IInv, Staged, StagedJob, At, Busy, Applying, Told
  <1>2. /\ status' = [status EXCEPT ![p] = To(k)]
        /\ books' = IF k = "payment_paid" THEN [books EXCEPT ![p].realized = @ + 1] ELSE books
    BY <1>1 DEF EventWritten
  <1>3. \/ status[p] = From(k)
        \/ status[p] = "REFUNDED" /\ To(k) = "REFUNDED"
    BY <1>0, <1>1 DEF Fitting, EventFits
  <1>4. /\ status'[p] = To(k)
        /\ \A q \in Pledges \ {p} : status'[q] = status[q] /\ books'[q] = books[q]
        /\ books'[p].raised = books[p].raised /\ books'[p].given = books[p].given
        /\ books'[p].realized = IF k = "payment_paid" THEN books[p].realized + 1
                                ELSE books[p].realized
    BY <1>2 DEF IInv, TypeOK
  <1>5. Counted(p)'
    BY <1>3, <1>4, KindsOf DEF Counting, Counted
  <1>6. \A q \in Pledges \ {p} : Counted(q)'
    BY <1>4 DEF Counting, Counted
  <1>7. ASSUME NEW o \in Operators, At(o, "book")'
        PROVE  Compensable(job[o].pledge, job[o].kind)'
    <2>1. o # w /\ job'[o] = job[o] /\ At(o, "book") /\ job[o].pledge \in Pledges
      BY <1>0, <1>7, OneOperator DEF Moves, At, IInv, Staged, StagedJob, Busy
    <2>2. PICK q, j : q \in Pledges /\ job[o].pledge = q /\ job[o].kind = j
      BY <2>1
    <2>3. /\ Compensable(q, j)
          /\ j = "refund" => status[q] # "HELD"
          /\ payment[q] = IF j = "refund" THEN "refunded" ELSE "voided"
      BY <2>1, <2>2 DEF Counting, Fitting, OperatorFits
    <2>4. q = p => k # "payment_paid"
      BY <1>1, <1>3, <2>3, KindsOf DEF Fitting, PaymentFits, Paid
    <2>5. books'[q].raised = books[q].raised /\ books'[q].given = books[q].given
            /\ books'[q].realized = books[q].realized
      BY <1>4, <2>2, <2>4
    <2>6. job'[o].pledge = q /\ job'[o].kind = j
      BY <2>1, <2>2
    <2> QED
      BY <2>3, <2>5, <2>6 DEF Compensable
  <1>8. ASSUME NEW o \in Operators, At(o, "recount")'
        PROVE  Recounts(o)'
    <2>1. job'[o] = job[o] /\ At(o, "recount")
      BY <1>0, <1>8, OneOperator DEF Moves, At
    <2>2. Recounts(o)
      BY <2>1 DEF Counting
    <2>3. Are({"HELD"})' \subseteq Are({"HELD"})
      BY <1>4, KindsOf DEF Are
    <2>4. ASSUME "realized" \notin job[o].drift, NEW q \in Pledges
          PROVE  \/ books'[q].realized = In(q, job[o].captured)
                 \/ q \in job[o].list \ job[o].captured /\ status'[q] # "HELD"
      <3>1. CASE q = p /\ k = "payment_paid"
        <4>1. status[p] = "HELD" /\ books[p].realized = 0 /\ status'[p] = "CAPTURED"
          BY <1>3, <1>4, <3>1, KindsOf DEF Counting, Counted
        <4>2. p \in job[o].list /\ In(p, job[o].captured) = 0
          BY <2>2, <2>4, <3>1, <4>1 DEF Recounts, Are
        <4> QED
          BY <3>1, <4>1, <4>2 DEF In
      <3>2. CASE ~(q = p /\ k = "payment_paid")
        <4>1. books'[q].realized = books[q].realized
          BY <1>4, <3>2
        <4>2. status[q] # "HELD" => status'[q] # "HELD"
          BY <1>4, KindsOf
        <4> QED
          BY <2>2, <2>4, <4>1, <4>2 DEF Recounts
      <3> QED
        BY <3>1, <3>2
    <2> QED
      BY <2>1, <2>2, <2>3, <2>4 DEF Recounts, In
  <1> QED
    BY <1>5, <1>6, <1>7, <1>8 DEF Counting

(* Money that an operator sent back was counted as what it was. *)
LEMMA PaybackCounts ==
  ASSUME IInv, Fitting, Orderly, Counting, NEW o \in Operators, RefundPaid(o)
  PROVE  Counting'
  <1>0. o \in Workers /\ UNCHANGED <<status, books>> /\ At(o, "ask")
    BY OneOperator DEF RefundPaid
  <1>1. PICK p, k : p \in Pledges /\ job[o].pledge = p /\ job[o].kind = k /\ k \in {"refund", "void"}
    BY <1>0 DEF IInv, Staged, StagedJob, At, Busy, Fitting, OperatorFits
  <1>2. /\ payment[p] = IF k = "refund" THEN "captured" ELSE "held"
        /\ k = "refund" => status[p] # "HELD"
    BY <1>0, <1>1 DEF RefundPaid, Pays, Fitting, OperatorFits
  <1>3. status[p] = IF k = "void" THEN "HELD" ELSE status[p]
    BY <1>1, <1>2 DEF Fitting, StatusFits, Paid, IInv, RefundedWasPaidBack, Back, TypeOK, Statuses
  <1>4. k = "refund" => status[p] \in {"CAPTURED", "DISPUTED"}
    BY <1>1, <1>2 DEF Fitting, StatusFits, Paid, IInv, RefundedWasPaidBack, Back, TypeOK, Statuses
  <1>5. Compensable(p, k)
    BY <1>1, <1>3, <1>4 DEF Counting, Counted, Compensable
  <1>6. CASE Moves(o, "refund", NoPledge, "none")
    BY <1>0, <1>6, CountsKept
  <1>7. CASE Moves(o, "book", p, k)
    <2>1. \A q \in Pledges : Counted(q)'
      BY <1>0 DEF Counting, Counted
    <2>2. At(o, "book")' /\ job'[o].pledge = p /\ job'[o].kind = k
      BY <1>7 DEF Moves, At
    <2>3. Compensable(job[o].pledge, job[o].kind)' /\ ~At(o, "recount")'
      BY <1>0, <1>5, <2>2 DEF Compensable, At
    <2> QED
      BY <2>1, <2>3, OneOperator DEF Counting
  <1> QED
    BY <1>0, <1>1, <1>6, <1>7, StepMoves DEF IInv


(* What went back, by an operator or the bank, leaves every counter once. *)
LEMMA CompensatedCounts ==
  ASSUME IInv, Orderly, Counting, NEW o \in Operators, NEW p \in Pledges, NEW r \in {0, 1},
         Compensated(p, r), status' = [status EXCEPT ![p] = "REFUNDED"],
         books[p].raised = 1, books[p].given = 1, books[p].realized = r,
         Moves(o, "notify", p, job[o].kind) \/ Moves(o, "idle", NoPledge, "none")
  PROVE  Counting'
  <1>1. /\ status'[p] = "REFUNDED"
        /\ books'[p].raised = 0 /\ books'[p].given = 0 /\ books'[p].realized = 0
        /\ \A q \in Pledges \ {p} : status'[q] = status[q] /\ books'[q] = books[q]
    BY DEF Compensated, IInv, TypeOK
  <1>2. \A q \in Pledges : Counted(q)'
    BY <1>1 DEF Counting, Counted
  <1> QED
    BY <1>2, OperatorDone

LEMMA BookingCounts ==
  ASSUME IInv, Orderly, Counting, NEW o \in Operators, RefundBooked(o)
  PROVE  Counting'
  <1>0. o \in Workers /\ At(o, "book")
    BY OneOperator DEF RefundBooked
  <1>1. PICK p, k : p \in Pledges /\ job[o].pledge = p /\ job[o].kind = k
    BY <1>0 DEF IInv, Staged, StagedJob, At, Busy
  <1>2. Compensable(p, k)
    BY <1>0, <1>1 DEF Counting
  <1>3. PICK r \in {0, 1} : r = IF k = "refund" THEN 1 ELSE 0
    OBVIOUS
  <1>4. Compensated(p, r) /\ status' = [status EXCEPT ![p] = "REFUNDED"]
    BY <1>1, <1>3 DEF RefundBooked
  <1>5. Moves(o, "notify", p, job[o].kind)
    BY <1>0, <1>1, StepMoves DEF IInv
  <1> QED
    BY <1>1, <1>2, <1>3, <1>4, <1>5, CompensatedCounts DEF Compensable

LEMMA RulingCounts ==
  ASSUME IInv, Orderly, Fitting, Counting, NEW o \in Operators, DisputeWon(o) \/ DisputeLost(o)
  PROVE  Counting'
  <1>0. o \in Workers /\ (At(o, "won") \/ At(o, "lost"))
    BY OneOperator DEF DisputeWon, DisputeLost
  <1>1. PICK p \in Pledges : job[o].pledge = p
    BY <1>0 DEF IInv, Staged, StagedJob, At, Busy
  <1>2. status[p] = "DISPUTED"
    BY <1>0, <1>1 DEF Fitting, OperatorFits
  <1>3. books[p].raised = 1 /\ books[p].given = 1 /\ books[p].realized = 1
    BY <1>2 DEF Counting, Counted
  <1>4. Moves(o, "idle", NoPledge, "none")
    BY <1>0, StepMoves DEF IInv
  <1>5. CASE DisputeWon(o)
    <2>1. /\ status'[p] = "CAPTURED" /\ books' = books
          /\ \A q \in Pledges \ {p} : status'[q] = status[q]
      BY <1>1, <1>5 DEF DisputeWon, IInv, TypeOK
    <2>2. \A q \in Pledges : Counted(q)'
      BY <1>2, <2>1 DEF Counting, Counted
    <2> QED
      BY <1>4, <2>2, OperatorDone
  <1>6. CASE DisputeLost(o)
    <2>1. Compensated(p, 1) /\ status' = [status EXCEPT ![p] = "REFUNDED"]
      BY <1>1, <1>6 DEF DisputeLost
    <2> QED
      BY <1>3, <1>4, <2>1, CompensatedCounts
  <1> QED
    BY <1>5, <1>6

(* A recount is read as the counters stand. *)
LEMMA RecountReads ==
  ASSUME TypeOK, Orderly, Counting, NEW o \in Operators, RecountRead(o)
  PROVE  Counting'
  <1>0. o \in Workers /\ UNCHANGED <<status, books>>
    BY OneOperator DEF RecountRead, OpStarts, bookVars
  <1>1. \A q \in Pledges : Counted(q)'
    BY <1>0 DEF Counting, Counted
  <1>2. /\ job'[o].at = "recount" /\ job'[o].list = Active
        /\ job'[o].captured = Are({"CAPTURED"}) /\ job'[o].drift = Drifted
    BY <1>0 DEF RecountRead, TypeOK, Jobs
  <1>3. ASSUME "realized" \notin Drifted, NEW q \in Pledges
        PROVE  books[q].realized = In(q, Are({"CAPTURED"}))
    BY <1>3 DEF Drifted, Counters
  <1>4. Are({"HELD"}) \subseteq Active
    BY DEF Are, Active
  <1>5. Recounts(o)'
    BY <1>0, <1>2, <1>3, <1>4 DEF Recounts, In, Are
  <1> QED
    BY <1>1, <1>2, <1>5, OneOperator DEF Counting, At

(* Written while no pledge has moved, it leaves each of them counted: a     *)
(* counter it does not write was right, or a capture has corrected it since. *)
LEMMA RecountCounts ==
  ASSUME IInv, Orderly, QuietRecount, Counting, NEW o \in Operators, RecountWritten(o)
  PROVE  Counting'
  <1>0. o \in Workers /\ At(o, "recount") /\ UNCHANGED status
    BY OneOperator DEF RecountWritten
  <1>1. /\ job[o].list = Active /\ job[o].captured = Are({"CAPTURED"})
        /\ Are({"DISPUTED"}) = {}
    BY DEF RecountWritten
  <1>2. Recounts(o)
    BY <1>0 DEF Counting
  <1>3. ASSUME NEW q \in Pledges PROVE Counted(q)'
    <2>1. /\ books'[q].raised = IF "raised" \in job[o].drift THEN In(q, Active) ELSE books[q].raised
          /\ books'[q].realized = IF "realized" \in job[o].drift
                                    THEN In(q, Are({"CAPTURED"})) ELSE books[q].realized
          /\ books'[q].given = books[q].given
      BY <1>1 DEF RecountWritten, IInv, TypeOK
    <2>2. q \in Active <=> status[q] \in {"HELD", "CAPTURED"}
      BY DEF Active, Are
    <2>3. q \in Are({"CAPTURED"}) <=> status[q] = "CAPTURED"
      BY DEF Are
    <2>4. "realized" \notin job[o].drift => books[q].realized = In(q, Are({"CAPTURED"}))
      BY <1>1, <1>2, <2>2, <2>3 DEF Recounts
    <2>5. books'[q].realized = IF status[q] = "CAPTURED" THEN 1 ELSE 0
      BY <2>1, <2>3, <2>4 DEF In
    <2>6. status[q] # "DISPUTED"
      BY <1>1 DEF Are
    <2>7. Counted(q)
      BY DEF Counting
    <2>8. \/ books'[q].raised = books[q].raised
          \/ books'[q].raised = IF status[q] \in {"HELD", "CAPTURED"} THEN 1 ELSE 0
      BY <2>1, <2>2 DEF In
    <2> QED
      BY <1>0, <2>1, <2>5, <2>6, <2>7, <2>8 DEF Counted
  <1>4. Moves(o, "idle", NoPledge, "none")
    BY <1>0, StepMoves DEF IInv
  <1> QED
    BY <1>3, <1>4, OperatorDone

LEMMA InitCounts == Init => Counting
  <1> SUFFICES ASSUME Init PROVE Counting
    OBVIOUS
  <1>1. \A w \in Workers : job[w].at = "idle"
    BY DEF Init, Resting
  <1>2. \A p \in Pledges :
          /\ status[p] \in {"HELD", "CAPTURED"}
          /\ books[p].raised = 1 /\ books[p].given = 1
          /\ books[p].realized = IF status[p] = "CAPTURED" THEN 1 ELSE 0
    BY DEF Init
  <1>3. \A p \in Pledges : Counted(p)
    BY <1>2 DEF Counted
  <1> QED
    BY <1>1, <1>3 DEF Counting, At, Workers

LEMMA StepCounts ==
  ASSUME Orderly, QuietRecount, IInv, Fitting, Counting, [Next]_vars
  PROVE  Counting'
  <1>0. Operators \subseteq Workers /\ Requests \subseteq Workers /\ TypeOK
    BY OneOperator DEF IInv
  <1>1. ASSUME UNCHANGED <<status, books, job>> PROVE Counting'
    BY <1>1 DEF Counting, Counted, At, Compensable, Recounts, Are
  <1>2. ASSUME NEW p \in Pledges, PaymentMoves(p) \/ DisputeFiled(p) \/ DisputeDecided(p)
        PROVE  Counting'
    BY <1>1, <1>2 DEF PaymentMoves, DisputeFiled, DisputeDecided, External, bookVars
  <1>3. ASSUME NEW w \in Workers, NEW p \in Pledges, NEW k \in Kinds,
               Delivered(w, p, k) \/ Replayed(w, p, k)
        PROVE  Counting'
    BY <1>0, <1>3, QuietCounts
  <1>4. ASSUME NEW w \in Workers, EventStep(w) \/ Crash(w) PROVE Counting'
    BY <1>0, <1>4, QuietCounts, EventCounts DEF EventStep
  <1>5. ASSUME NEW o \in Operators, OpStep(o) PROVE Counting'
    BY <1>0, <1>5, QuietCounts, PaybackCounts, BookingCounts, RulingCounts, RecountReads,
       RecountCounts DEF OpStep
  <1>6. CASE UNCHANGED vars
    BY <1>1, <1>6 DEF vars, bookVars
  <1> QED
    BY <1>0, <1>2, <1>3, <1>4, <1>5, <1>6 DEF Next

(* A captured or disputed pledge is in REALIZED exactly once, a held or     *)
(* failed one is not, and nothing is taken out twice (BooksExact): in the   *)
(* usual course of events and with quiet recounts, whatever is repeated,    *)
(* lost or interrupted.                                                     *)
THEOREM Books ==
  ASSUME DisputeKinds # {}
  PROVE  Spec => []BooksExact
  <1>1. Counting => BooksExact
    <2> SUFFICES ASSUME Counting, NEW p \in Pledges
                 PROVE  /\ status[p] \in {"CAPTURED", "DISPUTED"} => books[p].realized = 1
                        /\ status[p] \in {"HELD", "FAILED"} => books[p].realized = 0
                        /\ \A k \in {"raised", "realized", "given"} : books[p][k] \in {0, 1}
                        /\ books[p].realized <= books[p].raised
      BY DEF BooksExact
    <2> QED
      BY DEF Counting, Counted
  <1>2. CASE Orderly /\ QuietRecount
    <2>1. /\ Init => IInv /\ Fitting /\ Tracing /\ Counting
          /\ IInv /\ Fitting /\ Tracing /\ Counting /\ [Next]_vars
               => (IInv /\ Fitting /\ Tracing /\ Counting)'
      BY <1>2, InitIInv, InitFits, InitCounts, StepIInv, StepFits, StepCounts DEF Usual
    <2> QED
      BY <1>1, <2>1, PTL DEF Spec
  <1>3. CASE ~(Orderly /\ QuietRecount)
    <2>1. BooksExact
      BY <1>3 DEF BooksExact
    <2> QED
      BY <2>1, PTL
  <1> QED
    BY <1>2, <1>3
=============================================================================
