----------------------------- MODULE IntakeProofs -----------------------------
(***************************************************************************)
(* For any number of pledges, backers and requests: the variables keep     *)
(* their types; if each pledge has one request at a time the tier counts   *)
(* at least what it sold, it is oversold by fewer units than requests can  *)
(* overlap, and no edit changes the deal of a backer it did not cross.     *)
(*                                                                         *)
(* The invariant says where each pledge stands with the counters at every  *)
(* stage of its request (Steps, Rows), that the request is its only one    *)
(* (Alone), and that claimedQty is the number of pledges counted (Exact),  *)
(* those whose process died half-way included.                             *)
(***************************************************************************)
EXTENDS Intake, FiniteSetTheorems, TLAPS

Jobs == [at : Stages, pledge : Pledges \cup {NoPledge}, limit : Limits \cup {Unlimited}]

(* A worker that is on a pledge, and not merely idle or editing.            *)
OnPledge == {"insert", "hold", "fail", "commit", "void", "flip", "give"}

Shape ==
  \A w \in Workers :
    /\ job[w].at \in OnPledge <=> job[w].pledge \in Pledges
    /\ At(w, "terms") \/ At(w, "limit") \/ At(w, "active") \/ At(w, "ships") => w = Creator

(* The worker's job as the steps below change it.                           *)
LEMMA GoesTypes ==
  ASSUME TypeOK, NEW w \in Workers, NEW stage \in Stages,
         Goes(w, stage) \/ Rests(w)
  PROVE  job' \in [Workers -> Jobs]
  BY DEF TypeOK, Goes, Rests, Resting, Jobs, Stages

LEMMA StartsTypes ==
  ASSUME TypeOK, NEW w \in Workers, NEW stage \in Stages, NEW p \in Pledges,
         Starts(w, stage, p)
  PROVE  /\ job' \in [Workers -> Jobs] /\ calls' \in Nat
         /\ UNCHANGED <<phase, status, known, payment, counters, tier, course, faults>>
<1>1. job[w] \in Jobs /\ DOMAIN job = Workers /\ calls \in Nat
  BY DEF TypeOK, Jobs
<1>3. job' \in [Workers -> Jobs]
  BY <1>1 DEF TypeOK, Jobs, Starts
<1> QED BY <1>1, <1>3 DEF Starts

LEMMA EditTypes ==
  ASSUME TypeOK, NEW stage \in {"terms", "limit", "active", "ships"},
         NEW n \in Limits \cup {Unlimited}, Shape, EditStarts(stage, n)
  PROVE  TypeOK'
<1>1. Creator \in Workers /\ stage \in Stages /\ job[Creator] \in Jobs /\ calls' \in Nat
  BY DEF TypeOK, EditStarts, Jobs, Stages, Workers
<1>3. job' \in [Workers -> Jobs]
  BY <1>1 DEF TypeOK, Jobs, EditStarts
<1>4. {job[w].pledge : w \in InFlight} \subseteq Pledges
  BY DEF InFlight, Pledging, Shape, OnPledge, Workers
<1>5. crossed' \subseteq Pledges
  BY <1>4 DEF TypeOK, EditStarts
<1> QED BY <1>1, <1>3, <1>5 DEF TypeOK, EditStarts, rows, counters, tier, Jobs

LEMMA Typed ==
  TypeOK /\ Shape /\ [Next]_vars => TypeOK' /\ Shape'
<1> SUFFICES ASSUME TypeOK, Shape, [Next]_vars PROVE TypeOK' /\ Shape'
  OBVIOUS
<1>0. NoPledge \notin Pledges /\ \A r \in Requests : r \in Workers /\ r # Creator
  BY IntakeAssumption DEF Workers
<1>1. CASE UNCHANGED vars \/ ClockPasses
  BY <1>1 DEF vars, rows, past, counters, tier, ClockPasses, TypeOK, Shape, At
<1>2. ASSUME NEW r \in Requests, NEW p \in Pledges, PledgeChecked(r, p)
      PROVE  TypeOK' /\ Shape'
  <2>1. Starts(r, "insert", p) /\ deal' \in [Pledges -> Nat] /\ area' \in [Pledges -> Nat]
        /\ crossed' \subseteq Pledges
    BY <1>2 DEF PledgeChecked, TypeOK
  <2>2. /\ job' \in [Workers -> Jobs] /\ calls' \in Nat
        /\ UNCHANGED <<phase, status, known, payment, counters, tier, course, faults>>
    BY <2>1, <1>0, StartsTypes DEF Stages
  <2>3. TypeOK'
    BY <2>1, <2>2 DEF TypeOK, counters, tier, Jobs
  <2>4. Shape'
    BY <2>1, <1>0 DEF Shape, Starts, At, OnPledge, TypeOK
  <2> QED BY <2>3, <2>4
<1>3. ASSUME NEW r \in Requests, NEW p \in Pledges, CancelChecked(r, p)
      PROVE  TypeOK' /\ Shape'
  <2>1. PICK stage \in {"void", "flip"} : Starts(r, stage, p)
    BY <1>3 DEF CancelChecked
  <2>2. /\ job' \in [Workers -> Jobs] /\ calls' \in Nat
        /\ UNCHANGED <<phase, status, known, payment, counters, tier, course, faults>>
    BY <2>1, <1>0, StartsTypes DEF Stages
  <2>3. TypeOK'
    BY <1>3, <2>2 DEF TypeOK, counters, tier, past, Jobs, CancelChecked
  <2>4. Shape'
    BY <2>1, <1>0 DEF Shape, Starts, At, OnPledge, TypeOK
  <2> QED BY <2>3, <2>4
<1>4. ASSUME NEW r \in Requests,
             Inserted(r) \/ Answered(r) \/ HoldFailed(r) \/ Voided(r) \/ VoidRefused(r) \/ Flipped(r)
      PROVE  TypeOK' /\ Shape'
  <2>1. \/ \E stage \in {"hold", "commit", "fail", "flip", "give"} : Goes(r, stage)
        \/ Rests(r)
    BY <1>4 DEF Inserted, Answered, HoldFailed, Voided, VoidRefused, Flipped
  <2>2. job[r].at \in OnPledge
    BY <1>4 DEF Inserted, Answered, HoldFailed, Voided, VoidRefused, Flipped, At, OnPledge
  <2>3. job' \in [Workers -> Jobs]
    BY <2>1, <1>0, GoesTypes DEF Stages
  <2>4. status' \in [Pledges -> {"none", "HELD", "PENDING_BNPL", "FAILED", "REFUNDED"}]
    BY <1>4 DEF Inserted, Answered, HoldFailed, Voided, VoidRefused, Flipped, TypeOK
  <2>5. payment' \in [Pledges -> {"none", "held", "voided"}]
    BY <1>4 DEF Inserted, Answered, HoldFailed, Voided, VoidRefused, Flipped, TypeOK
  <2>6. faults' \in Nat
    BY <1>4 DEF Inserted, Answered, HoldFailed, Voided, VoidRefused, Flipped, Fault, TypeOK
  <2>7. UNCHANGED <<phase, tier, past, course, calls, known, counters>>
    BY <1>4 DEF Inserted, Answered, HoldFailed, Voided, VoidRefused, Flipped, Calm
  <2>8. TypeOK'
    BY <2>3, <2>4, <2>5, <2>6, <2>7 DEF TypeOK, tier, past, counters, Jobs
  <2>9. Shape'
    BY <2>1, <2>2, <1>0 DEF Shape, Goes, Rests, Resting, At, OnPledge, TypeOK
  <2> QED BY <2>8, <2>9
<1>5. ASSUME NEW r \in Requests, Committed(r) \/ GivenBack(r)
      PROVE  TypeOK' /\ Shape'
  <2>1. Rests(r) /\ job[r].at \in OnPledge /\ job[r].pledge \in Pledges
    BY <1>5, <1>0 DEF Committed, GivenBack, At, OnPledge, Shape
  <2>2. job' \in [Workers -> Jobs]
    BY <2>1, <1>0, GoesTypes DEF Stages
  <2>3. /\ counted' \in [Pledges -> Int] /\ backers' \in Int /\ claimed' \in Int /\ addOn' \in Int
        /\ known' \subseteq Pledges
    BY <1>5, <2>1 DEF Committed, GivenBack, TypeOK
  <2>4. UNCHANGED <<phase, tier, past, course, calls, status, payment, faults>>
    BY <1>5 DEF Committed, GivenBack, Calm
  <2>5. TypeOK'
    BY <2>2, <2>3, <2>4 DEF TypeOK, tier, past, Jobs
  <2>6. Shape'
    BY <2>1, <1>0 DEF Shape, Rests, Resting, At, OnPledge, TypeOK
  <2> QED BY <2>5, <2>6
<1>6. ASSUME NEW n \in Limits \cup {Unlimited}, EditChecked(n)
      PROVE  TypeOK' /\ Shape'
  <2>1. PICK stage \in {"terms", "limit", "active", "ships"} : EditStarts(stage, n)
    BY <1>6 DEF EditChecked
  <2>2. TypeOK'
    BY <2>1, EditTypes
  <2>3. Shape'
    BY <2>1, <1>0 DEF Shape, EditStarts, At, OnPledge, TypeOK, Workers
  <2> QED BY <2>2, <2>3
<1>7. ASSUME Edited PROVE TypeOK' /\ Shape'
  <2>1. Rests(Creator) /\ Creator \in Workers /\ job[Creator].at \notin OnPledge
    BY <1>7 DEF Edited, Workers, At, OnPledge
  <2>2. job' \in [Workers -> Jobs]
    BY <2>1, GoesTypes DEF Stages
  <2>3. /\ limit' \in Limits \cup {Unlimited} /\ isActive' \in BOOLEAN
        /\ terms' \in Nat /\ shipsTo' \in Nat /\ undercut' \in BOOLEAN
    <3>1. job[Creator].limit \in Limits \cup {Unlimited}
      BY <2>1 DEF TypeOK
    <3>2. limit' \in Limits \cup {Unlimited}
      BY <1>7, <3>1 DEF Edited, LimitEdited, TypeOK
    <3>3. terms' \in Nat /\ shipsTo' \in Nat
      BY <1>7 DEF Edited, LimitEdited, TypeOK
    <3>4. isActive' \in BOOLEAN
      BY <1>7, Zenon DEF Edited, LimitEdited, TypeOK
    <3>5. undercut' \in BOOLEAN
      <4>1. undercut' = undercut \/ LimitEdited(job[Creator].limit)
        BY <1>7, Zenon DEF Edited
      <4>2. LimitEdited(job[Creator].limit) => undercut' \in BOOLEAN
        BY Zenon DEF LimitEdited
      <4> QED BY <4>1, <4>2, Zenon DEF TypeOK
    <3> QED BY <3>2, <3>3, <3>4, <3>5
  <2>4. UNCHANGED <<phase, rows, past, payment, counters, course, calls, faults>>
    BY <1>7 DEF Edited
  <2>5. TypeOK'
    BY <2>2, <2>3, <2>4 DEF TypeOK, rows, past, counters, Jobs
  <2>6. Shape'
    BY <2>1, <1>0 DEF Shape, Rests, Resting, At, OnPledge, TypeOK
  <2> QED BY <2>5, <2>6
<1>8. ASSUME NEW w \in Workers, Crash(w) PROVE TypeOK' /\ Shape'
  <2>1. Rests(w) /\ faults' \in Nat
        /\ UNCHANGED <<phase, tier, past, course, calls, status, known, payment, counters>>
    BY <1>8 DEF Crash, Fault, Calm, TypeOK
  <2>2. job' \in [Workers -> Jobs]
    BY <2>1, GoesTypes DEF Stages
  <2>3. TypeOK'
    BY <2>1, <2>2 DEF TypeOK, tier, past, counters, Jobs
  <2>4. Shape'
    BY <2>1, <1>0 DEF Shape, Rests, Resting, At, OnPledge, TypeOK
  <2> QED BY <2>3, <2>4
<1> QED BY <1>1, <1>2, <1>3, <1>4, <1>5, <1>6, <1>7, <1>8 DEF Next, RequestStep

LEMMA StartTypes == Init => TypeOK /\ Shape
<1> SUFFICES ASSUME Init PROVE TypeOK /\ Shape
  OBVIOUS
<1>1. job \in [Workers -> [at : {"idle"}, pledge : {NoPledge}, limit : {Unlimited}]]
  BY DEF Init, Resting
<1>2. phase = "open" /\ isActive = TRUE /\ limit \in Limits /\ course \in Courses
  BY DEF Init
<1>3. /\ status \in [Pledges -> {"none"}] /\ payment \in [Pledges -> {"none"}]
      /\ counted \in [Pledges -> {0}] /\ deal \in [Pledges -> {0}] /\ known = {}
  BY DEF Init
<1>4. /\ backers = 0 /\ addOn = 0 /\ claimed = 0 /\ terms = 0 /\ calls = 0 /\ faults = 0
      /\ shipsTo = 0 /\ area \in [Pledges -> {0}] /\ crossed = {} /\ undercut = FALSE
  BY DEF Init
<1>5. TypeOK
  <2>1. job \in [Workers -> Jobs]
    BY <1>1 DEF Jobs, Stages
  <2>2. /\ status \in [Pledges -> {"none", "HELD", "PENDING_BNPL", "FAILED", "REFUNDED"}]
        /\ payment \in [Pledges -> {"none", "held", "voided"}] /\ counted \in [Pledges -> Int]
        /\ deal \in [Pledges -> Nat] /\ area \in [Pledges -> Nat]
    BY <1>3, <1>4
  <2>3. /\ course \in {Serial, Apart, Overlapping} /\ limit \in Limits \cup {Unlimited}
        /\ isActive \in BOOLEAN /\ undercut \in BOOLEAN
    BY <1>2, <1>4, IntakeAssumption
  <2> QED BY <1>2, <1>3, <1>4, <2>1, <2>2, <2>3 DEF TypeOK, Jobs
<1>6. Shape
  BY <1>1, IntakeAssumption DEF Shape, At, OnPledge
<1> QED BY <1>5, <1>6

(* Type correctness, for every value of the constants.                      *)
THEOREM Types == Spec => []TypeOK
<1>1. Init => TypeOK /\ Shape
  BY StartTypes
<1>2. TypeOK /\ Shape /\ [Next]_vars => TypeOK' /\ Shape'
  BY Typed
<1> QED BY <1>1, <1>2, PTL DEF Spec

-----------------------------------------------------------------------------
(* A pledge has one request at a time.                                      *)

Alone ==
  course # Overlapping =>
    \A v, w \in Workers :
      job[v].pledge \in Pledges /\ job[v].pledge = job[w].pledge => v = w

(* A step moves one worker; it keeps its pledge, ends, or has just started   *)
(* under the guards of Starts and EditStarts.                               *)
LEMMA Moves ==
  ASSUME TypeOK, Shape, [Next]_vars
  PROVE  /\ course' = course
         /\ \/ job' = job
            \/ \E w \in Workers, stage \in Stages \ {"idle"} : Goes(w, stage) /\ ~At(w, "idle")
            \/ \E w \in Workers : Rests(w)
            \/ \E w \in Workers, stage \in Stages, p \in Pledges : Starts(w, stage, p)
            \/ \E stage \in Stages, n \in Limits \cup {Unlimited} : EditStarts(stage, n)
<1>1. CASE UNCHANGED vars \/ ClockPasses
  BY <1>1 DEF vars, ClockPasses
<1>2. ASSUME NEW r \in Requests, NEW p \in Pledges, PledgeChecked(r, p)
      PROVE  course' = course /\ Starts(r, "insert", p)
  BY <1>2 DEF PledgeChecked, Starts
<1>3. ASSUME NEW r \in Requests, NEW p \in Pledges, CancelChecked(r, p)
      PROVE  course' = course /\ \E stage \in Stages : Starts(r, stage, p)
  BY <1>3 DEF CancelChecked, Starts, Stages
<1>4. ASSUME NEW r \in Requests,
             Inserted(r) \/ Answered(r) \/ HoldFailed(r) \/ Voided(r) \/ VoidRefused(r)
               \/ Flipped(r) \/ Committed(r) \/ GivenBack(r)
      PROVE  /\ course' = course
             /\ Rests(r) \/ \E stage \in Stages \ {"idle"} : Goes(r, stage) /\ ~At(r, "idle")
  BY <1>4 DEF Inserted, Answered, HoldFailed, Voided, VoidRefused, Flipped, Committed,
              GivenBack, Calm, Stages, At
<1>5. ASSUME NEW n \in Limits \cup {Unlimited}, EditChecked(n)
      PROVE  course' = course /\ \E stage \in Stages : EditStarts(stage, n)
  BY <1>5 DEF EditChecked, EditStarts, Stages
<1>6. ASSUME Edited PROVE course' = course /\ Rests(Creator) /\ Creator \in Workers
  BY <1>6 DEF Edited, Workers
<1>7. ASSUME NEW w \in Workers, Crash(w) PROVE course' = course /\ Rests(w)
  BY <1>7 DEF Crash, Calm
<1>8. Requests \subseteq Workers /\ "insert" \in Stages
  BY DEF Workers, Stages
<1> QED BY <1>1, <1>2, <1>3, <1>4, <1>5, <1>6, <1>7, <1>8 DEF Next, RequestStep

LEMMA Separate ==
  ASSUME TypeOK, Shape, Alone, [Next]_vars
  PROVE  Alone'
<1>0. NoPledge \notin Pledges /\ course' = course /\ Creator \in Workers
      /\ job \in [Workers -> Jobs] /\ course \in {Serial, Apart, Overlapping}
  BY Moves, IntakeAssumption DEF Workers, TypeOK, Jobs
<1>1. CASE job' = job
  BY <1>0, <1>1 DEF Alone, At
<1>2. ASSUME NEW w \in Workers, NEW stage \in Stages \ {"idle"}, Goes(w, stage), ~At(w, "idle")
      PROVE  Alone'
  BY <1>0, <1>2 DEF Goes, Alone, At, Jobs
<1>3. ASSUME NEW w \in Workers, Rests(w) PROVE Alone'
  BY <1>0, <1>3 DEF Rests, Resting, Alone, At
<1>4. ASSUME NEW w \in Workers, NEW stage \in Stages, NEW p \in Pledges, Starts(w, stage, p)
      PROVE  Alone'
  <2>1. \A v \in Workers \ {w} : job'[v] = job[v]
    BY <1>0, <1>4 DEF Starts
  <2>2. job'[w].pledge = p
    BY <1>0, <1>4 DEF Starts
  <2>3. course # Overlapping => \A v \in Workers : job[v].pledge # p
    <3>1. CASE course = Serial
      BY <1>4, <1>0, <3>1 DEF Starts, Shape, At, OnPledge
    <3>2. CASE course = Apart
      BY <1>4, <3>2 DEF Starts
    <3> QED BY <1>0, <3>1, <3>2
  <2>4. Alone'
    BY <1>0, <2>1, <2>2, <2>3 DEF Alone
  <2> QED BY <2>4
<1>5. ASSUME NEW stage \in Stages, NEW n \in Limits \cup {Unlimited}, EditStarts(stage, n)
      PROVE  Alone'
  <2>1. \A v \in Workers \ {Creator} : job'[v] = job[v]
    BY <1>0, <1>5 DEF EditStarts
  <2>2. job'[Creator].pledge \notin Pledges
    BY <1>0, <1>5 DEF EditStarts
  <2>3. Alone'
    BY <1>0, <2>1, <2>2 DEF Alone
  <2> QED BY <2>3
<1> QED BY <1>1, <1>2, <1>3, <1>4, <1>5, Moves

-----------------------------------------------------------------------------
(* Where a pledge stands with the counters: at every stage of its request,  *)
(* and in every status.                                                     *)

StepOf(w) ==
  /\ At(w, "insert") => status[job[w].pledge] = "none"
  /\ At(w, "hold") \/ At(w, "fail") \/ At(w, "commit") =>
       /\ status[job[w].pledge] # "none" /\ counted[job[w].pledge] = 0
       /\ job[w].pledge \notin known
  /\ At(w, "void") \/ At(w, "flip") \/ At(w, "give") => counted[job[w].pledge] = 1
  /\ At(w, "give") => status[job[w].pledge] = "REFUNDED"

Steps == \A w \in Workers : StepOf(w)

Committing(p) == \E w \in Workers : At(w, "commit") /\ job[w].pledge = p

RowOf(p) ==
  /\ counted[p] \in {0, 1}
  /\ status[p] = "none" => counted[p] = 0 /\ p \notin known
  /\ status[p] = "HELD" /\ p \in known => counted[p] = 1
  /\ status[p] = "PENDING_BNPL" => p \in Deferred /\ (counted[p] = 1 \/ Committing(p))

Rows == \A p \in Pledges : RowOf(p)

Placed == course # Overlapping => Steps /\ Rows

(* Of two workers at most one is on a pledge.                               *)
LEMMA Apartness ==
  ASSUME Shape, Alone, course # Overlapping,
         NEW w \in Workers, NEW v \in Workers, v # w, job[w].at \in OnPledge
  PROVE  job[v].at \in OnPledge => job[v].pledge # job[w].pledge
  BY DEF Shape, Alone

LEMMA Placement ==
  ASSUME Strands = FALSE, TypeOK, Shape, Alone, Placed, [Next]_vars
  PROVE  Placed'
<1>0. /\ course' = course /\ NoPledge \notin Pledges /\ Requests \subseteq Workers
      /\ Creator \in Workers /\ job \in [Workers -> Jobs]
  BY Moves, IntakeAssumption DEF Workers, TypeOK, Jobs
<1> SUFFICES ASSUME course # Overlapping, Steps, Rows PROVE Steps' /\ Rows'
  BY <1>0 DEF Placed
<1>1. CASE UNCHANGED vars \/ ClockPasses
  BY <1>1 DEF vars, rows, counters, ClockPasses, Steps, StepOf, Rows, RowOf, At, Committing
<1>2. ASSUME NEW r \in Requests, NEW p \in Pledges, PledgeChecked(r, p)
      PROVE  Steps' /\ Rows'
  <2>1. /\ status[p] = "none" /\ At(r, "idle") /\ r \in Workers
        /\ job' = [job EXCEPT ![r] = [at |-> "insert", pledge |-> p, limit |-> Unlimited]]
        /\ UNCHANGED <<status, known, counted>>
    BY <1>0, <1>2 DEF PledgeChecked, Starts, counters
  <2> QED BY <1>0, <2>1 DEF Steps, StepOf, Rows, RowOf, At, Committing
<1>3. ASSUME NEW r \in Requests, NEW p \in Pledges, CancelChecked(r, p)
      PROVE  Steps' /\ Rows'
  <2>1. PICK stage \in {"void", "flip"} :
          /\ job' = [job EXCEPT ![r] = [at |-> stage, pledge |-> p, limit |-> Unlimited]]
          /\ At(r, "idle") /\ r \in Workers /\ Starts(r, stage, p)
          /\ UNCHANGED <<status, known, counted>>
    BY <1>0, <1>3 DEF CancelChecked, Starts, counters
  <2>2. \A v \in Workers : job[v].at \in OnPledge => job[v].pledge # p
    <3>1. CASE course = Serial
      BY <2>1, <3>1 DEF Starts, At, OnPledge
    <3>2. CASE course = Apart
      BY <2>1, <3>2 DEF Starts
    <3> QED BY <3>1, <3>2 DEF TypeOK
  <2>3. ~Committing(p)
    BY <2>2 DEF Committing, At, OnPledge
  <2>4. counted[p] = 1
    BY <1>3, <2>3 DEF CancelChecked, Active, Rows, RowOf
  <2> QED BY <1>0, <2>1, <2>4 DEF Steps, StepOf, Rows, RowOf, At, Committing
<1>4. ASSUME NEW r \in Requests,
             Inserted(r) \/ Answered(r) \/ HoldFailed(r) \/ Voided(r) \/ VoidRefused(r)
               \/ Flipped(r) \/ Committed(r) \/ GivenBack(r)
      PROVE  Steps' /\ Rows'
  <2>1. PICK p \in Pledges : p = job[r].pledge /\ r \in Workers /\ job[r].at \in OnPledge
    BY <1>0, <1>4 DEF Inserted, Answered, HoldFailed, Voided, VoidRefused, Flipped, Committed,
                      GivenBack, At, OnPledge, Shape
  <2>2. \A v \in Workers \ {r} : job[v].at \in OnPledge => job[v].pledge # p
    BY <2>1, Apartness
  <2>3. \A v \in Workers \ {r} : job'[v] = job[v]
    BY <1>0, <1>4, <2>1 DEF Inserted, Answered, HoldFailed, Voided, VoidRefused, Flipped,
                            Committed, GivenBack, Goes, Rests
  <2>4. /\ \A q \in Pledges \ {p} : status'[q] = status[q] /\ counted'[q] = counted[q]
        /\ \A q \in Pledges \ {p} : q \in known' <=> q \in known
    BY <1>4, <2>1 DEF Inserted, Answered, HoldFailed, Voided, VoidRefused, Flipped,
                      Committed, GivenBack, TypeOK, counters
  <2>5. \A q \in Pledges \ {p} : Committing(q) => Committing(q)'
    BY <2>1, <2>3 DEF Committing, At
  <2>6. ASSUME NEW v \in Workers \ {r} PROVE StepOf(v)'
    <3>1. CASE job[v].at \in OnPledge
      <4>1. job[v].pledge \in Pledges \ {p} /\ job'[v] = job[v]
        BY <2>2, <2>3, <3>1 DEF Shape
      <4> QED BY <2>4, <4>1 DEF Steps, StepOf, At
    <3>2. CASE job[v].at \notin OnPledge
      BY <2>3, <3>2 DEF StepOf, At, OnPledge
    <3> QED BY <3>1, <3>2
  <2>7. \A q \in Pledges \ {p} : RowOf(q)'
    BY <2>4, <2>5 DEF Rows, RowOf
  <2>8. StepOf(r)' /\ RowOf(p)'
    <3>1. CASE Inserted(r)
      <4>1. /\ status'[p] = IF p \in Deferred THEN "PENDING_BNPL" ELSE "HELD"
            /\ job'[r].at = IF p \in Deferred THEN "commit" ELSE "hold"
            /\ job'[r].pledge = p /\ counted' = counted /\ known' = known
        BY <1>0, <2>1, <3>1 DEF Inserted, Goes, TypeOK, counters, Jobs
      <4>2. counted[p] = 0 /\ p \notin known
        BY <2>1, <3>1 DEF Inserted, Steps, StepOf, Rows, RowOf
      <4> QED BY <2>1, <4>1, <4>2 DEF StepOf, RowOf, At, Committing
    <3>2. CASE Answered(r)
      <4>1. /\ status' = status /\ counted' = counted /\ known' = known
            /\ job'[r].at \in {"commit", "fail"} /\ job'[r].pledge = p
            /\ At(r, "hold")
        BY <1>0, <2>1, <3>2 DEF Answered, Goes, counters, Jobs
      <4>2. ~Committing(p)
        BY <2>1, <2>2, <4>1 DEF Committing, At, OnPledge
      <4> QED BY <2>1, <4>1, <4>2 DEF Steps, StepOf, Rows, RowOf, At
    <3>3. CASE HoldFailed(r)
      <4>1. /\ status'[p] = "FAILED" /\ counted' = counted
            /\ job'[r].at = "idle"
        BY <1>0, <2>1, <3>3 DEF HoldFailed, Rests, Resting, TypeOK, counters
      <4>2. StepOf(r)'
        BY <4>1 DEF StepOf, At
      <4>3. RowOf(p) /\ StepOf(r)
        BY <2>1 DEF Rows, Steps
      <4>4. RowOf(p)'
        BY <4>1, <4>3 DEF RowOf, StepOf, At
      <4> QED BY <4>2, <4>4
    <3>4. CASE Committed(r)
      <4>1. /\ status' = status /\ counted'[p] = counted[p] + 1
            /\ job'[r].at = "idle" /\ counted[p] = 0 /\ status[p] # "none"
        BY <1>0, <2>1, <3>4 DEF Committed, Rests, Resting, TypeOK, Steps, StepOf
      <4>2. StepOf(r)'
        BY <4>1 DEF StepOf, At
      <4>3. RowOf(p) /\ StepOf(r)
        BY <2>1 DEF Rows, Steps
      <4>4. RowOf(p)'
        BY <4>1, <4>3 DEF RowOf, StepOf, At
      <4> QED BY <4>2, <4>4
    <3>5. CASE Voided(r)
      <4>1. /\ status' = status /\ counted' = counted /\ known' = known
            /\ job'[r].at = "flip" /\ job'[r].pledge = p /\ At(r, "void")
        BY <1>0, <2>1, <3>5 DEF Voided, Goes, counters, Jobs
      <4> QED BY <2>1, <4>1 DEF Steps, StepOf, Rows, RowOf, At
    <3>6. CASE VoidRefused(r)
      <4>1. /\ status' = status /\ counted' = counted /\ known' = known
            /\ job'[r].at = "idle" /\ At(r, "void")
        BY <1>0, <2>1, <3>6 DEF VoidRefused, Rests, Resting, counters
      <4>2. StepOf(r)'
        BY <4>1 DEF StepOf, At
      <4>3. RowOf(p) /\ StepOf(r)
        BY <2>1 DEF Rows, Steps
      <4>4. RowOf(p)'
        BY <2>1, <4>1, <4>3 DEF RowOf, StepOf, At
      <4> QED BY <4>2, <4>4
    <3>7. CASE Flipped(r)
      <4>1. /\ status'[p] = "REFUNDED" /\ counted' = counted
            /\ job'[r].at = "give" /\ job'[r].pledge = p /\ At(r, "flip")
        BY <1>0, <2>1, <3>7 DEF Flipped, Goes, TypeOK, counters, Jobs
      <4> QED BY <2>1, <4>1 DEF Steps, StepOf, Rows, RowOf, At
    <3>8. CASE GivenBack(r)
      <4>1. /\ status' = status /\ counted'[p] = counted[p] - 1
            /\ job'[r].at = "idle" /\ counted[p] = 1 /\ status[p] = "REFUNDED"
        BY <1>0, <2>1, <3>8 DEF GivenBack, Rests, Resting, TypeOK, Steps, StepOf, At
      <4>2. StepOf(r)'
        BY <4>1 DEF StepOf, At
      <4>3. RowOf(p) /\ StepOf(r)
        BY <2>1 DEF Rows, Steps
      <4>4. RowOf(p)'
        BY <4>1, <4>3 DEF RowOf, StepOf, At
      <4> QED BY <4>2, <4>4
    <3> QED BY <1>4, <3>1, <3>2, <3>3, <3>4, <3>5, <3>6, <3>7, <3>8
  <2> QED BY <2>6, <2>7, <2>8 DEF Steps, Rows
<1>5. ASSUME NEW n \in Limits \cup {Unlimited}, EditChecked(n) PROVE Steps' /\ Rows'
  <2>1. PICK stage \in {"terms", "limit", "active", "ships"} :
          /\ job' = [job EXCEPT ![Creator] = [at |-> stage, pledge |-> NoPledge, limit |-> n]]
          /\ At(Creator, "idle") /\ UNCHANGED <<status, known, counted>>
    BY <1>5 DEF EditChecked, EditStarts, rows, counters
  <2> QED BY <1>0, <2>1 DEF Steps, StepOf, Rows, RowOf, At, Committing
<1>6. ASSUME Edited PROVE Steps' /\ Rows'
  <2>1. /\ job' = [job EXCEPT ![Creator] = Resting] /\ ~At(Creator, "commit")
        /\ UNCHANGED <<status, known, counted>>
    BY <1>6 DEF Edited, Rests, rows, counters, At
  <2> QED BY <1>0, <2>1 DEF Steps, StepOf, Rows, RowOf, At, Committing, Resting
<1>7. ASSUME NEW w \in Workers, Crash(w) PROVE Steps' /\ Rows'
  <2>1. /\ job' = [job EXCEPT ![w] = Resting] /\ UNCHANGED <<status, known, counted>>
        /\ ~(At(w, "commit") /\ job[w].pledge \in Deferred)
    BY <1>7, Strands = FALSE DEF Crash, Rests, counters
  <2>2. \A q \in Deferred : Committing(q) => Committing(q)'
    BY <1>0, <2>1 DEF Committing, At
  <2>3. Steps'
    BY <1>0, <2>1 DEF Steps, StepOf, At, Resting
  <2>4. Rows'
    BY <1>0, <2>1, <2>2 DEF Rows, RowOf
  <2> QED BY <2>3, <2>4
<1> QED BY <1>1, <1>2, <1>3, <1>4, <1>5, <1>6, <1>7 DEF Next, RequestStep

-----------------------------------------------------------------------------
(* The tier counts the pledges that are counted, one each.                   *)

Counted == {p \in Pledges : counted[p] = 1}

Exact == course # Overlapping => claimed = Cardinality(Counted)

LEMMA Counting ==
  ASSUME TypeOK, Shape, Placed, Exact, [Next]_vars
  PROVE  Exact'
<1>0. course' = course /\ IsFiniteSet(Counted) /\ Requests \subseteq Workers
  <2>1. IsFiniteSet(Counted)
    BY IntakeAssumption, FS_Subset, Counted \subseteq Pledges DEF Counted
  <2> QED BY <2>1, Moves DEF Workers
<1> SUFFICES ASSUME course # Overlapping PROVE claimed' = Cardinality(Counted)'
  BY <1>0 DEF Exact
<1>1. CASE UNCHANGED <<counted, claimed>>
  BY <1>1 DEF Exact, Counted
<1>2. ASSUME NEW r \in Requests, Committed(r) PROVE claimed' = Cardinality(Counted)'
  <2>1. PICK p \in Pledges : p = job[r].pledge
    BY <1>0, <1>2 DEF Committed, Shape, At, OnPledge
  <2>2. counted[p] = 0
    BY <1>0, <1>2, <2>1 DEF Committed, Placed, Steps, StepOf
  <2>3. counted' = [counted EXCEPT ![p] = 1] /\ claimed' = claimed + 1
    BY <1>2, <2>1, <2>2 DEF Committed, TypeOK
  <2>4. Counted' = Counted \cup {p} /\ p \notin Counted
    BY <2>2, <2>3 DEF Counted, TypeOK
  <2>5. Cardinality(Counted') = Cardinality(Counted) + 1
    BY <1>0, <2>4, FS_AddElement
  <2> QED BY <2>3, <2>5 DEF Exact
<1>3. ASSUME NEW r \in Requests, GivenBack(r) PROVE claimed' = Cardinality(Counted)'
  <2>1. PICK p \in Pledges : p = job[r].pledge
    BY <1>0, <1>3 DEF GivenBack, Shape, At, OnPledge
  <2>2. counted[p] = 1
    BY <1>0, <1>3, <2>1 DEF GivenBack, Placed, Steps, StepOf
  <2>3. counted' = [counted EXCEPT ![p] = 0] /\ claimed' = claimed - 1
    BY <1>3, <2>1, <2>2 DEF GivenBack, TypeOK
  <2>4. Counted' = Counted \ {p} /\ p \in Counted
    BY <2>2, <2>3 DEF Counted, TypeOK
  <2>5. Cardinality(Counted') = Cardinality(Counted) - 1
    BY <1>0, <2>4, FS_RemoveElement
  <2> QED BY <2>3, <2>5 DEF Exact
<1>4. \/ UNCHANGED <<counted, claimed>>
      \/ \E r \in Requests : Committed(r) \/ GivenBack(r)
  BY DEF Next, vars, counters, RequestStep, ClockPasses, PledgeChecked, CancelChecked, Starts,
         Inserted, Answered, HoldFailed, Voided, VoidRefused, Flipped, EditChecked, EditStarts,
         Edited, Crash
<1> QED BY <1>1, <1>2, <1>3, <1>4

Base == TypeOK /\ Shape /\ Alone

Inv == Base /\ Placed /\ Exact

LEMMA Starting == Init => Inv
<1> SUFFICES ASSUME Init PROVE Inv
  OBVIOUS
<1>1. TypeOK /\ Shape
  BY StartTypes
<1>2. \A w \in Workers : job[w].at = "idle" /\ job[w].pledge \notin Pledges
  BY IntakeAssumption DEF Init, Resting
<1>3. /\ \A p \in Pledges : counted[p] = 0 /\ status[p] = "none"
      /\ known = {} /\ claimed = 0
  BY DEF Init
<1>4. Alone
  BY <1>2 DEF Alone
<1>5. Placed
  BY <1>2, <1>3 DEF Placed, Steps, StepOf, Rows, RowOf, At
<1>6. Exact
  <2>1. Counted = {}
    BY <1>3 DEF Counted
  <2> QED BY <1>3, <2>1, FS_EmptySet DEF Exact
<1> QED BY <1>1, <1>4, <1>5, <1>6 DEF Base, Inv

LEMMA Keeping == ASSUME Strands = FALSE, Inv, [Next]_vars PROVE Inv'
  BY Typed, Separate, Placement, Counting DEF Base, Inv

LEMMA Covers ==
  ASSUME Inv, course # Overlapping
  PROVE  Cardinality(Sold) \in Nat /\ Cardinality(Sold) <= claimed
<1>1. Sold \subseteq Counted /\ IsFiniteSet(Counted)
  BY IntakeAssumption, FS_Subset, Counted \subseteq Pledges DEF Sold, Counted, Active
<1>2. Cardinality(Sold) <= Cardinality(Counted)
  BY <1>1, FS_Subset
<1>3. Cardinality(Sold) \in Nat /\ Cardinality(Counted) \in Nat
  BY <1>1, FS_Subset, FS_CardinalityType
<1> QED BY <1>2, <1>3 DEF Inv, Exact

(* The tier counts at least what it sold, for any number of pledges and of   *)
(* requests on different ones, wherever they die except between a BNPL       *)
(* intent's insert and its commit.                                           *)
THEOREM Stock == ASSUME Strands = FALSE PROVE Spec => []StockHeld
<1>1. Init => Inv
  BY Starting
<1>2. Inv /\ [Next]_vars => Inv'
  BY Keeping, Strands = FALSE
<1>3. Inv => StockHeld
  <2> SUFFICES ASSUME Inv, course # Overlapping PROVE claimed >= Cardinality(Sold)
    BY DEF StockHeld
  <2>1. claimed \in Int
    BY DEF Inv, Base, TypeOK
  <2> QED BY <2>1, Covers
<1> QED BY <1>1, <1>2, <1>3, PTL DEF Spec

-----------------------------------------------------------------------------
(* What was checked at the start of a request, when others overlap it.       *)

(* A step that starts no pledge and neither starts nor writes an edit of    *)
(* the terms: nobody joins the pledges in flight, and whom the tier newly   *)
(* counts was in flight.                                                    *)
Onward ==
  /\ UNCHANGED <<deal, crossed, terms>>
  /\ InFlight' \subseteq InFlight
  /\ \A w \in InFlight' : job'[w].pledge = job[w].pledge
  /\ \A p \in Pledges : counted'[p] = 1 => counted[p] = 1 \/ \E w \in InFlight : job[w].pledge = p
  /\ At(Creator, "terms")' => At(Creator, "terms")

(* What a step does to the count and the limit.                             *)
Sells ==
  \/ /\ UNCHANGED <<limit, undercut>>
     /\ \/ claimed' \in {claimed, claimed - 1} /\ InFlight' \subseteq InFlight
        \/ \E r \in InFlight : claimed' = claimed + 1 /\ InFlight' = InFlight \ {r}
        \/ InStock /\ claimed' = claimed /\ (course = Serial => InFlight = {})
           /\ \E r \in Requests : InFlight' \subseteq InFlight \cup {r}
  \/ claimed' = claimed /\ InFlight' = InFlight /\ LimitEdited(job[Creator].limit)

(* One worker moves on, or rests.                                           *)
LEMMA OnwardJobs ==
  ASSUME TypeOK, NEW w \in Workers, NEW stage \in {"hold", "commit", "fail", "flip", "give"},
         Rests(w) \/ (Goes(w, stage) /\ (stage \in {"hold", "commit"} => Pledging(w)))
  PROVE  /\ InFlight' \subseteq InFlight
         /\ \A v \in InFlight' : job'[v].pledge = job[v].pledge
         /\ At(Creator, "terms")' => At(Creator, "terms")
<1>1. job \in [Workers -> Jobs] /\ Requests \subseteq Workers /\ Creator \in Workers
  BY DEF TypeOK, Jobs, Workers
<1>2. \A v \in Workers \ {w} : job'[v] = job[v]
  BY <1>1 DEF Goes, Rests
<1>3. CASE Rests(w)
  BY <1>1, <1>2, <1>3 DEF Rests, Resting, InFlight, Pledging, At
<1>4. CASE ~Rests(w)
  <2>1. /\ job'[w].at = stage /\ job'[w].pledge = job[w].pledge
        /\ stage \in {"hold", "commit"} => Pledging(w)
    BY <1>1, <1>4 DEF Goes, Jobs
  <2> QED BY <1>1, <1>2, <2>1 DEF InFlight, Pledging, At
<1> QED BY <1>3, <1>4

(* A job that starts: who is in flight besides.                             *)
LEMMA StartJobs ==
  ASSUME TypeOK, NEW w \in Workers, At(w, "idle"),
         NEW stage, NEW p, NEW n,
         job' = [job EXCEPT ![w] = [at |-> stage, pledge |-> p, limit |-> n]]
  PROVE  /\ stage \notin {"insert", "hold", "commit"} => InFlight' = InFlight
         /\ w = Creator => InFlight' = InFlight
         /\ InFlight' \subseteq InFlight \cup {w}
         /\ \A v \in InFlight : job'[v] = job[v]
         /\ stage # "terms" => (At(Creator, "terms")' => At(Creator, "terms"))
<1>1. job \in [Workers -> Jobs] /\ Requests \subseteq Workers /\ Creator \in Workers
      /\ Creator \notin Requests
  BY IntakeAssumption DEF TypeOK, Jobs, Workers
<1>2. (\A v \in Workers \ {w} : job'[v] = job[v]) /\ job'[w].at = stage
  BY <1>1
<1>3. w \notin InFlight
  BY DEF InFlight, Pledging, At
<1> QED BY <1>1, <1>2, <1>3 DEF InFlight, Pledging, At

(* Every step goes on as Onward says, or starts a pledge, or starts or       *)
(* writes an edit of the terms.                                             *)
LEMMA Deeds ==
  ASSUME Inv, course # Overlapping, [Next]_vars
  PROVE  /\ Sells
         /\ \/ Onward
            \/ \E r \in Requests, p \in Pledges : PledgeChecked(r, p)
            \/ claimed <= 0 /\ EditStarts("terms", Unlimited)
            \/ Edited /\ At(Creator, "terms")
<1>0. /\ TypeOK /\ Shape /\ Placed /\ Requests \subseteq Workers /\ Creator \in Workers
      /\ Creator \notin Requests /\ job \in [Workers -> Jobs]
  BY IntakeAssumption DEF Inv, Base, Workers, TypeOK, Jobs
<1>1. CASE UNCHANGED vars \/ ClockPasses
  <2>1. UNCHANGED <<job, past, counters, tier>>
    BY <1>1 DEF vars, ClockPasses
  <2>2. InFlight' = InFlight /\ UNCHANGED <<deal, crossed, terms, counted, claimed, limit, undercut, job>>
    BY <2>1 DEF InFlight, Pledging, past, counters, tier
  <2> QED BY <2>2 DEF Onward, Sells, At
<1>2. ASSUME NEW r \in Requests, NEW p \in Pledges, PledgeChecked(r, p) PROVE Sells
  <2>1. /\ At(r, "idle") /\ InStock /\ UNCHANGED <<limit, undercut, claimed>>
        /\ course = Serial => \A v \in Workers : At(v, "idle")
        /\ job' = [job EXCEPT ![r] = [at |-> "insert", pledge |-> p, limit |-> Unlimited]]
    BY <1>2 DEF PledgeChecked, Starts, tier, counters
  <2>2. InFlight' \subseteq InFlight \cup {r}
    BY <1>0, <2>1, StartJobs
  <2>3. course = Serial => InFlight = {}
    BY <1>0, <2>1 DEF InFlight, Pledging, At
  <2> QED BY <2>1, <2>2, <2>3 DEF Sells
<1>3. ASSUME NEW r \in Requests, NEW p \in Pledges, CancelChecked(r, p) PROVE Sells /\ Onward
  <2>1. PICK stage \in {"void", "flip"} :
          /\ job' = [job EXCEPT ![r] = [at |-> stage, pledge |-> p, limit |-> Unlimited]]
          /\ At(r, "idle")
    BY <1>3 DEF CancelChecked, Starts
  <2>2. UNCHANGED <<deal, crossed, terms, counted, claimed, limit, undercut>>
    BY <1>3 DEF CancelChecked, Starts, past, counters, tier
  <2>3. /\ InFlight' = InFlight /\ \A v \in InFlight : job'[v] = job[v]
        /\ At(Creator, "terms")' => At(Creator, "terms")
    BY <1>0, <2>1, StartJobs
  <2> QED BY <2>2, <2>3 DEF Onward, Sells
<1>4. ASSUME NEW r \in Requests,
             Inserted(r) \/ Answered(r) \/ HoldFailed(r) \/ Voided(r) \/ VoidRefused(r) \/ Flipped(r)
      PROVE  Sells /\ Onward
  <2>1. PICK stage \in {"hold", "commit", "fail", "flip", "give"} :
          Rests(r) \/ (Goes(r, stage) /\ (stage \in {"hold", "commit"} => Pledging(r)))
    BY <1>4 DEF Inserted, Answered, HoldFailed, Voided, VoidRefused, Flipped, Pledging, At
  <2>2. UNCHANGED <<deal, crossed, terms, counted, claimed, limit, undercut>>
    BY <1>4 DEF Inserted, Answered, HoldFailed, Voided, VoidRefused, Flipped, Calm, past, counters, tier
  <2>3. /\ InFlight' \subseteq InFlight
        /\ \A v \in InFlight' : job'[v].pledge = job[v].pledge
        /\ At(Creator, "terms")' => At(Creator, "terms")
    BY <1>0, <2>1, OnwardJobs
  <2> QED BY <2>2, <2>3 DEF Onward, Sells
<1>5. ASSUME NEW r \in Requests, Committed(r) \/ GivenBack(r) PROVE Sells /\ Onward
  <2>1. Rests(r) /\ UNCHANGED <<deal, crossed, terms, limit, undercut>>
    BY <1>5 DEF Committed, GivenBack, Calm, past, tier
  <2>2. /\ InFlight' \subseteq InFlight
        /\ \A v \in InFlight' : job'[v].pledge = job[v].pledge
        /\ At(Creator, "terms")' => At(Creator, "terms")
    BY <1>0, <2>1, OnwardJobs
  <2>3. CASE Committed(r)
    <3>1. r \in InFlight /\ claimed' = claimed + 1
      BY <2>3 DEF Committed, InFlight, Pledging, At
    <3>2. InFlight' = InFlight \ {r}
      BY <1>0, <2>1 DEF Rests, Resting, InFlight, Pledging
    <3>3. \A q \in Pledges : q # job[r].pledge => counted'[q] = counted[q]
      BY <1>0, <2>3 DEF Committed, TypeOK
    <3>4. Onward
      BY <2>1, <2>2, <3>1, <3>3 DEF Onward
    <3>5. Sells
      BY <2>1, <3>1, <3>2 DEF Sells
    <3> QED BY <3>4, <3>5
  <2>4. CASE GivenBack(r)
    <3>1. claimed' = claimed - 1
      BY <2>4 DEF GivenBack
    <3>2. counted[job[r].pledge] = 1
      BY <1>0, <2>4 DEF GivenBack, Placed, Steps, StepOf
    <3>3. \A q \in Pledges : counted'[q] = 1 => counted[q] = 1
      BY <1>0, <2>4, <3>2 DEF GivenBack, TypeOK
    <3> QED BY <2>1, <2>2, <3>1, <3>3 DEF Onward, Sells
  <2> QED BY <1>5, <2>3, <2>4
<1>6. ASSUME NEW n \in Limits \cup {Unlimited}, EditChecked(n)
      PROVE  Sells /\ (Onward \/ (claimed <= 0 /\ EditStarts("terms", Unlimited)))
  <2>1. PICK stage \in {"terms", "limit", "active", "ships"} :
          EditStarts(stage, n) /\ (stage = "terms" => claimed <= 0 /\ n = Unlimited)
    BY <1>6 DEF EditChecked
  <2>2. /\ At(Creator, "idle") /\ UNCHANGED <<deal, terms, counted, claimed, limit, undercut>>
        /\ job' = [job EXCEPT ![Creator] = [at |-> stage, pledge |-> NoPledge, limit |-> n]]
        /\ stage # "terms" => crossed' = crossed
    BY <2>1 DEF EditStarts, counters, tier
  <2>3. /\ InFlight' = InFlight /\ \A v \in InFlight : job'[v] = job[v]
        /\ stage # "terms" => (At(Creator, "terms")' => At(Creator, "terms"))
    BY <1>0, <2>2, StartJobs
  <2>4. Sells
    BY <2>2, <2>3 DEF Sells
  <2>5. CASE stage = "terms"
    BY <2>1, <2>4, <2>5
  <2>6. CASE stage # "terms"
    BY <2>2, <2>3, <2>4, <2>6 DEF Onward
  <2> QED BY <2>5, <2>6
<1>7. ASSUME Edited PROVE Sells /\ (Onward \/ At(Creator, "terms"))
  <2>1. Rests(Creator) /\ UNCHANGED <<deal, crossed, counted, claimed>>
    BY <1>7 DEF Edited, past, counters
  <2>2. /\ InFlight' \subseteq InFlight
        /\ \A v \in InFlight' : job'[v].pledge = job[v].pledge
        /\ At(Creator, "terms")' => At(Creator, "terms")
    BY <1>0, <2>1, OnwardJobs
  <2>3. InFlight' = InFlight
    BY <1>0, <2>1 DEF Rests, InFlight, Pledging
  <2>4. UNCHANGED <<limit, undercut>> \/ LimitEdited(job[Creator].limit)
    BY <1>7, Zenon DEF Edited
  <2>5. terms' = terms \/ At(Creator, "terms")
    BY <1>7 DEF Edited, LimitEdited
  <2>6. Sells
    BY <2>1, <2>3, <2>4 DEF Sells
  <2> QED BY <2>1, <2>2, <2>5, <2>6 DEF Onward
<1>8. ASSUME NEW w \in Workers, Crash(w) PROVE Sells /\ Onward
  <2>1. Rests(w) /\ UNCHANGED <<deal, crossed, terms, counted, claimed, limit, undercut>>
    BY <1>8 DEF Crash, Calm, past, counters, tier
  <2>2. /\ InFlight' \subseteq InFlight
        /\ \A v \in InFlight' : job'[v].pledge = job[v].pledge
        /\ At(Creator, "terms")' => At(Creator, "terms")
    BY <1>0, <2>1, OnwardJobs
  <2> QED BY <2>1, <2>2 DEF Onward, Sells
<1> QED BY <1>1, <1>2, <1>3, <1>4, <1>5, <1>6, <1>7, <1>8 DEF Next, RequestStep

-----------------------------------------------------------------------------
(* A backer the tier counts, or is about to count, pledged on the terms in  *)
(* force, or crossed an edit; while an edit is under way all have.          *)
Faithful ==
  course # Overlapping =>
    /\ \A p \in Counted \ crossed : deal[p] = terms
    /\ \A w \in InFlight : job[w].pledge \in crossed \/ deal[job[w].pledge] = terms
    /\ At(Creator, "terms") => /\ Counted \subseteq crossed
                               /\ \A w \in InFlight : job[w].pledge \in crossed

LEMMA Faith ==
  ASSUME Inv, Faithful, [Next]_vars
  PROVE  Faithful'
<1>0. /\ course' = course /\ TypeOK /\ Shape /\ Placed /\ Requests \subseteq Workers
      /\ Creator \in Workers /\ Creator \notin Requests /\ job \in [Workers -> Jobs]
  BY Moves, IntakeAssumption DEF Inv, Base, Workers, TypeOK, Jobs
<1> SUFFICES ASSUME course # Overlapping PROVE Faithful'
  BY <1>0 DEF Faithful
<1>1. CASE Onward
  <2>1. ASSUME NEW w \in InFlight'
        PROVE  job'[w].pledge \in crossed' \/ deal'[job'[w].pledge] = terms'
    BY <1>1, <2>1 DEF Onward, Faithful
  <2>2. ASSUME NEW p \in Counted'
        PROVE  p \in Counted \/ \E w \in InFlight : job[w].pledge = p
    BY <1>1, <2>2 DEF Onward, Counted
  <2>3. ASSUME NEW p \in Counted' \ crossed' PROVE deal'[p] = terms'
    BY <1>1, <2>2, <2>3 DEF Onward, Faithful
  <2>4. ASSUME At(Creator, "terms")'
        PROVE  Counted' \subseteq crossed' /\ \A w \in InFlight' : job'[w].pledge \in crossed'
    BY <1>1, <2>2, <2>4 DEF Onward, Faithful
  <2> QED BY <2>1, <2>3, <2>4 DEF Faithful
<1>2. ASSUME NEW r \in Requests, NEW p \in Pledges, PledgeChecked(r, p) PROVE Faithful'
  <2>1. /\ At(r, "idle") /\ UNCHANGED <<counted, terms>> /\ status[p] = "none"
        /\ \A v \in Workers : job[v].pledge # p
        /\ job' = [job EXCEPT ![r] = [at |-> "insert", pledge |-> p, limit |-> Unlimited]]
        /\ deal' = [deal EXCEPT ![p] = terms]
        /\ crossed' = IF At(Creator, "terms") THEN crossed \cup {p} ELSE crossed
    BY <1>2 DEF PledgeChecked, Starts, tier, counters
  <2>2. /\ InFlight' \subseteq InFlight \cup {r} /\ \A v \in InFlight : job'[v] = job[v]
        /\ At(Creator, "terms")' => At(Creator, "terms")
    <3>1. r \in Workers /\ "insert" # "terms"
      BY <1>0
    <3>2. /\ InFlight' \subseteq InFlight \cup {r} /\ (\A v \in InFlight : job'[v] = job[v])
          /\ ("insert" = "terms" \/ (At(Creator, "terms")' => At(Creator, "terms")))
      BY <1>0, <2>1, <3>1, StartJobs
    <3> QED BY <3>1, <3>2
  <2>3. Counted' = Counted /\ p \notin Counted
    BY <1>0, <2>1 DEF Counted, Placed, Rows, RowOf
  <2>4. \A q \in Pledges \ {p} : deal'[q] = deal[q] /\ (q \in crossed' <=> q \in crossed)
    BY <1>0, <2>1 DEF TypeOK
  <2>5. deal'[p] = terms /\ job'[r].pledge = p
    BY <1>0, <2>1 DEF TypeOK
  <2>6. \A v \in InFlight : job[v].pledge \in Pledges \ {p}
    BY <1>0, <2>1 DEF InFlight, Pledging, Shape, OnPledge
  <2>7. \A q \in Counted : q \in Pledges \ {p}
    BY <2>3 DEF Counted
  <2>8. \A q \in Counted' \ crossed' : deal'[q] = terms'
    BY <2>1, <2>3, <2>4, <2>7 DEF Faithful
  <2>9. \A w \in InFlight' : job'[w].pledge \in crossed' \/ deal'[job'[w].pledge] = terms'
    <3> SUFFICES ASSUME NEW w \in InFlight'
                 PROVE  job'[w].pledge \in crossed' \/ deal'[job'[w].pledge] = terms'
      OBVIOUS
    <3>1. CASE w \in InFlight
      BY <2>1, <2>2, <2>4, <2>6, <3>1 DEF Faithful
    <3>2. CASE w = r
      BY <2>1, <2>5, <3>2
    <3> QED BY <2>2, <3>1, <3>2
  <2>10. ASSUME At(Creator, "terms")'
         PROVE  Counted' \subseteq crossed' /\ \A w \in InFlight' : job'[w].pledge \in crossed'
    <3>1. At(Creator, "terms") /\ crossed' = crossed \cup {p}
      BY <2>1, <2>2, <2>10
    <3>2. Counted' \subseteq crossed'
      BY <2>3, <3>1 DEF Faithful
    <3>3. \A w \in InFlight' : job'[w].pledge \in crossed'
      BY <2>2, <2>5, <3>1 DEF Faithful
    <3> QED BY <3>2, <3>3
  <2> QED BY <2>8, <2>9, <2>10 DEF Faithful
<1>3. CASE claimed <= 0 /\ EditStarts("terms", Unlimited)
  <2>1. /\ At(Creator, "idle") /\ UNCHANGED <<counted, claimed, deal, terms>>
        /\ job' = [job EXCEPT ![Creator] = [at |-> "terms", pledge |-> NoPledge, limit |-> Unlimited]]
        /\ crossed' = crossed \cup {job[w].pledge : w \in InFlight}
    BY <1>3 DEF EditStarts, tier, counters
  <2>2. InFlight' = InFlight /\ \A v \in InFlight : job'[v] = job[v]
    BY <1>0, <2>1, StartJobs
  <2>3. Counted = {}
    <3>1. IsFiniteSet(Counted)
      BY IntakeAssumption, FS_Subset, Counted \subseteq Pledges DEF Counted
    <3>2. Cardinality(Counted) <= 0
      BY <1>3 DEF Inv, Exact
    <3> QED BY <3>1, <3>2, FS_EmptySet, FS_CardinalityType
  <2>4. Counted' = {}
    BY <2>1, <2>3 DEF Counted
  <2>5. \A w \in InFlight' : job'[w].pledge \in crossed'
    BY <2>1, <2>2
  <2> QED BY <2>4, <2>5 DEF Faithful
<1>4. CASE Edited /\ At(Creator, "terms")
  <2>1. Rests(Creator) /\ UNCHANGED <<counted, crossed>>
    BY <1>4 DEF Edited, counters, past
  <2>2. /\ InFlight' = InFlight /\ \A w \in InFlight : job'[w] = job[w]
        /\ ~At(Creator, "terms")' /\ Counted' = Counted
    BY <1>0, <2>1 DEF Rests, Resting, InFlight, Pledging, At, Counted
  <2>3. Counted \subseteq crossed /\ \A w \in InFlight : job[w].pledge \in crossed
    BY <1>4 DEF Faithful
  <2> QED BY <2>1, <2>2, <2>3 DEF Faithful
<1> QED BY <1>1, <1>2, <1>3, <1>4, Deeds

(* No backer's deal is changed under him except by an edit he crossed, for   *)
(* any number of backers, of edits and of requests that overlap.            *)
THEOREM Deal == ASSUME Strands = FALSE PROVE Spec => []DealStands
<1>1. Init => Inv /\ Faithful
  <2> SUFFICES ASSUME Init PROVE Faithful
    BY Starting
  <2>1. \A w \in Workers : job[w].at = "idle"
    BY DEF Init, Resting
  <2>2. Counted = {} /\ InFlight = {} /\ ~At(Creator, "terms")
    BY <2>1 DEF Init, Counted, InFlight, Pledging, At, Workers
  <2> QED BY <2>2 DEF Faithful
<1>2. Inv /\ Faithful /\ [Next]_vars => Inv' /\ Faithful'
  BY Keeping, Faith, Strands = FALSE
<1>3. Faithful => DealStands
  BY DEF Faithful, DealStands, Sold, Counted, Active
<1> QED BY <1>1, <1>2, <1>3, PTL DEF Spec

-----------------------------------------------------------------------------
(* What is sold and being sold, against the limit.                          *)
Bounded ==
  course # Overlapping /\ limit # Unlimited /\ ~undercut =>
    claimed + Cardinality(InFlight) <= limit + Overlap

LEMMA FlightFinite ==
  /\ IsFiniteSet(Requests) /\ IsFiniteSet(InFlight)
  /\ Cardinality(Requests) \in Nat /\ Cardinality(InFlight) \in Nat
  /\ Cardinality(InFlight) <= Cardinality(Requests)
  /\ Overlap \in Nat
<1>1. IsFiniteSet(Requests) /\ Requests # {} /\ InFlight \subseteq Requests
  BY IntakeAssumption DEF InFlight
<1>2. /\ IsFiniteSet(InFlight) /\ Cardinality(InFlight) <= Cardinality(Requests)
      /\ Cardinality(Requests) \in Nat /\ Cardinality(InFlight) \in Nat
  BY <1>1, FS_Subset, FS_CardinalityType
<1>3. Cardinality(Requests) # 0
  BY <1>1, FS_EmptySet
<1> QED BY <1>1, <1>2, <1>3 DEF Overlap

LEMMA Bounding ==
  ASSUME Inv, Inv', Bounded, [Next]_vars
  PROVE  Bounded'
<1>0. course' = course
  BY Moves DEF Inv, Base
<1> SUFFICES ASSUME course # Overlapping, limit' # Unlimited, ~undercut'
             PROVE  claimed' + Cardinality(InFlight') <= limit' + Overlap'
  BY <1>0 DEF Bounded
<1>1. /\ Overlap' = Overlap /\ Overlap \in Nat /\ claimed \in Int /\ claimed' \in Int
      /\ Cardinality(InFlight) \in Nat /\ Cardinality(InFlight') \in Nat
  <2>1. Overlap' = Overlap
    BY <1>0 DEF Overlap
  <2>2. Cardinality(InFlight') \in Nat
    <3>1. InFlight' \subseteq Requests
      BY DEF InFlight
    <3> QED BY <3>1, FlightFinite, FS_Subset, FS_CardinalityType
  <2> QED BY <2>1, <2>2, FlightFinite DEF Inv, Base, TypeOK
<1>2. limit' \in Nat
  BY IntakeAssumption DEF Inv, Base, TypeOK
<1>3. CASE UNCHANGED <<limit, undercut>> /\ claimed' \in {claimed, claimed - 1} /\ InFlight' \subseteq InFlight
  <2>1. Cardinality(InFlight') <= Cardinality(InFlight)
    BY <1>3, FlightFinite, FS_Subset
  <2>2. claimed + Cardinality(InFlight) <= limit + Overlap
    BY <1>3 DEF Bounded
  <2> QED BY <1>1, <1>2, <1>3, <2>1, <2>2
<1>4. ASSUME UNCHANGED <<limit, undercut>>, NEW r \in InFlight, claimed' = claimed + 1, InFlight' = InFlight \ {r}
      PROVE  claimed' + Cardinality(InFlight') <= limit' + Overlap'
  <2>1. Cardinality(InFlight') = Cardinality(InFlight) - 1
    BY <1>4, FlightFinite, FS_RemoveElement
  <2>2. claimed + Cardinality(InFlight) <= limit + Overlap
    BY <1>4 DEF Bounded
  <2> QED BY <1>1, <1>2, <1>4, <2>1, <2>2
<1>5. ASSUME UNCHANGED <<limit, undercut>>, InStock, claimed' = claimed, course = Serial => InFlight = {},
             NEW r \in Requests, InFlight' \subseteq InFlight \cup {r}
      PROVE  claimed' + Cardinality(InFlight') <= limit' + Overlap'
  <2>1. claimed < limit
    BY <1>5 DEF InStock
  <2>2. Cardinality(InFlight') <= Overlap + 1
    <3>1. CASE course = Serial
      <4>1. InFlight' \subseteq {r} /\ Overlap = 0
        BY <1>5, <3>1 DEF Overlap
      <4>2. Cardinality({r}) = 1 /\ IsFiniteSet({r})
        BY FS_Singleton
      <4>3. Cardinality(InFlight') <= Cardinality({r})
        BY <4>1, <4>2, FS_Subset
      <4> QED BY <4>1, <4>2, <4>3
    <3>2. CASE course # Serial
      <4>1. Overlap = Cardinality(Requests) - 1
        BY <3>2 DEF Overlap
      <4>2. InFlight' \subseteq Requests
        BY DEF InFlight
      <4>3. Cardinality(InFlight') <= Cardinality(Requests)
        BY <4>2, FlightFinite, FS_Subset
      <4> QED BY <4>1, <4>3, FlightFinite
    <3> QED BY <3>1, <3>2
  <2> QED BY <1>1, <1>2, <1>5, <2>1, <2>2
<1>6. ASSUME claimed' = claimed, InFlight' = InFlight, LimitEdited(job[Creator].limit)
      PROVE  claimed' + Cardinality(InFlight') <= limit' + Overlap'
  <2>1. ~(claimed + Cardinality(InFlight) > limit')
    BY <1>6 DEF LimitEdited
  <2> QED BY <1>1, <1>2, <1>6, <2>1
<1> QED BY <1>3, <1>4, <1>5, <1>6, Deeds DEF Sells

(* A tier is oversold by fewer units than requests can overlap, for any      *)
(* limits, unlimited ones included, and any number of requests.             *)
THEOREM Oversold == ASSUME Strands = FALSE PROVE Spec => []OversoldByOverlap
<1>1. Init => Inv /\ Bounded
  <2> SUFFICES ASSUME Init, limit # Unlimited PROVE claimed + Cardinality(InFlight) <= limit + Overlap
    BY Starting DEF Bounded
  <2>1. InFlight = {}
    BY DEF Init, Resting, InFlight, Pledging, Workers
  <2>2. Cardinality(InFlight) = 0
    BY <2>1, FS_EmptySet
  <2>3. claimed = 0 /\ limit \in Nat
    BY IntakeAssumption DEF Init
  <2> QED BY <2>2, <2>3, FlightFinite
<1>2. Inv /\ Bounded /\ [Next]_vars => Inv' /\ Bounded'
  BY Keeping, Bounding, Strands = FALSE
<1>3. Inv /\ Bounded => OversoldByOverlap
  <2> SUFFICES ASSUME Inv, Bounded, course # Overlapping, limit # Unlimited, ~undercut
               PROVE  Cardinality(Sold) <= limit + Overlap
    BY DEF OversoldByOverlap
  <2>1. Cardinality(Sold) \in Nat /\ Cardinality(Sold) <= claimed
    BY Covers
  <2>2. claimed + Cardinality(InFlight) <= limit + Overlap
    BY DEF Bounded
  <2>3. claimed \in Int /\ limit \in Nat
    BY IntakeAssumption DEF Inv, Base, TypeOK
  <2> QED BY <2>1, <2>2, <2>3, FlightFinite
<1> QED BY <1>1, <1>2, <1>3, PTL DEF Spec
=============================================================================
