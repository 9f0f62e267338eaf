-------------------------- MODULE OpsRegistryProofs --------------------------
(***************************************************************************)
(* What the gate guarantees for every number of keys, actors, open calls   *)
(* and crashes: its types, that a key runs once and audited, that what it  *)
(* reports is so, and that four eyes saw what one pair was refused.        *)
(***************************************************************************)
EXTENDS OpsRegistry, TLAPS

CallRecords ==
  [at : Stages, kind : Kinds, who : Actors \cup {None}, key : Keys \cup {None}]
Statuses ==
  {"NONE", "PENDING", "EXECUTING", "EXECUTED", "REJECTED", "CANCELLED", "FAILED"}
ProposalRows ==
  [status : Statuses, by : Actors \cup {None}, decider : People \cup {None}]

(***************************************************************************)
(* What a step does to the record of one call, and to one proposal.        *)
(***************************************************************************)
Becomes(c, at, kind, who, key) ==
  /\ call'[c].at = at /\ call'[c].kind = kind /\ call'[c].who = who /\ call'[c].key = key
  /\ \A d \in Calls \ {c} : call'[d] = call[d]
  /\ call' \in [Calls -> CallRecords]

Decided(k, status, by, decider) ==
  /\ proposal'[k].status = status /\ proposal'[k].by = by /\ proposal'[k].decider = decider
  /\ \A j \in Keys \ {k} : proposal'[j] = proposal[j]
  /\ proposal' \in [Keys -> ProposalRows]

(* The ways a call moves: it goes on, it returns, it is let through, it begins. *)
LEMMA CallGoes ==
  ASSUME call \in [Calls -> CallRecords], NEW c \in Calls, NEW at \in Stages, Goes(c, at)
  PROVE  Becomes(c, at, call[c].kind, call[c].who, call[c].key)
  BY DEF Goes, Becomes, CallRecords

LEMMA CallReplaced ==
  ASSUME call \in [Calls -> CallRecords], NEW c \in Calls,
         NEW at \in Stages, NEW kind \in Kinds,
         NEW who \in Actors \cup {None}, NEW key \in Keys \cup {None},
         call' = [call EXCEPT ![c] = [at |-> at, kind |-> kind, who |-> who, key |-> key]]
  PROVE  Becomes(c, at, kind, who, key)
  <1> DEFINE r == [at |-> at, kind |-> kind, who |-> who, key |-> key]
  <1>1. r \in CallRecords
    BY DEF CallRecords
  <1>2. r.at = at /\ r.kind = kind /\ r.who = who /\ r.key = key
    OBVIOUS
  <1>3. call' = [call EXCEPT ![c] = r]
    OBVIOUS
  <1> HIDE DEF r
  <1>4. call'[c] = r /\ call' \in [Calls -> CallRecords]
    BY <1>1, <1>3
  <1>5. \A d \in Calls \ {c} : call'[d] = call[d]
    BY <1>3
  <1> QED
    BY <1>2, <1>4, <1>5 DEF Becomes

LEMMA CallReturns ==
  ASSUME call \in [Calls -> CallRecords], NEW c \in Calls, Returns(c)
  PROVE  Becomes(c, "idle", "execute", None, None)
  <1>1. call' = [call EXCEPT ![c] =
                   [at |-> "idle", kind |-> "execute", who |-> None, key |-> None]]
    BY DEF Returns, Idle
  <1>2. "idle" \in Stages /\ "execute" \in Kinds
    BY DEF Stages, Kinds
  <1> QED
    BY <1>1, <1>2, CallReplaced

LEMMA CallLetThrough ==
  ASSUME call \in [Calls -> CallRecords], NEW c \in Calls,
         call' = [call EXCEPT ![c].at = "claim", ![c].kind = "alone"]
  PROVE  Becomes(c, "claim", "alone", call[c].who, call[c].key)
  <1>1. call' = [call EXCEPT ![c] = [call[c] EXCEPT !.at = "claim", !.kind = "alone"]]
    OBVIOUS
  <1>2. [call[c] EXCEPT !.at = "claim", !.kind = "alone"] \in CallRecords
    BY DEF CallRecords, Stages, Kinds
  <1>3. call'[c] = [call[c] EXCEPT !.at = "claim", !.kind = "alone"]
    BY <1>1
  <1>4. call' \in [Calls -> CallRecords] /\ \A d \in Calls \ {c} : call'[d] = call[d]
    BY <1>1, <1>2
  <1>5. /\ call'[c].at = "claim" /\ call'[c].kind = "alone"
        /\ call'[c].who = call[c].who /\ call'[c].key = call[c].key
    BY <1>3 DEF CallRecords
  <1> QED
    BY <1>4, <1>5 DEF Becomes

(* The ways a proposal moves: it is filed, it is decided, its outcome is written. *)
LEMMA ProposalReplaced ==
  ASSUME proposal \in [Keys -> ProposalRows], NEW k \in Keys, NEW a \in Actors,
         proposal' = [proposal EXCEPT ![k] = [status |-> "PENDING", by |-> a, decider |-> None]]
  PROVE  Decided(k, "PENDING", a, None)
  <1> DEFINE r == [status |-> "PENDING", by |-> a, decider |-> None]
  <1>1. r \in ProposalRows
    BY DEF ProposalRows, Statuses
  <1>2. r.status = "PENDING" /\ r.by = a /\ r.decider = None
    OBVIOUS
  <1>3. proposal' = [proposal EXCEPT ![k] = r]
    OBVIOUS
  <1> HIDE DEF r
  <1>4. proposal'[k] = r /\ proposal' \in [Keys -> ProposalRows]
    BY <1>1, <1>3
  <1>5. \A j \in Keys \ {k} : proposal'[j] = proposal[j]
    BY <1>3
  <1> QED
    BY <1>2, <1>4, <1>5 DEF Decided

LEMMA ProposalDecided ==
  ASSUME proposal \in [Keys -> ProposalRows], NEW k \in Keys, NEW p \in People,
         NEW status \in Statuses, Decide(k, status, p)
  PROVE  Decided(k, status, proposal[k].by, p)
  <1>1. proposal' = [proposal EXCEPT ![k] =
                       [proposal[k] EXCEPT !.status = status, !.decider = p]]
    BY DEF Decide
  <1>2. [proposal[k] EXCEPT !.status = status, !.decider = p] \in ProposalRows
    BY DEF ProposalRows
  <1>3. proposal'[k] = [proposal[k] EXCEPT !.status = status, !.decider = p]
    BY <1>1
  <1>4. proposal' \in [Keys -> ProposalRows] /\ \A j \in Keys \ {k} : proposal'[j] = proposal[j]
    BY <1>1, <1>2
  <1>5. /\ proposal'[k].status = status /\ proposal'[k].decider = p
        /\ proposal'[k].by = proposal[k].by
    BY <1>3 DEF ProposalRows
  <1> QED
    BY <1>4, <1>5 DEF Decided

LEMMA OutcomeWritten ==
  ASSUME proposal \in [Keys -> ProposalRows], NEW k \in Keys, NEW status \in Statuses,
         proposal' = [proposal EXCEPT ![k].status = status]
  PROVE  Decided(k, status, proposal[k].by, proposal[k].decider)
  BY DEF Decided, ProposalRows

(***************************************************************************)
(* The inductive invariant: what a call in each stage knows of its key,    *)
(* that no two calls own the same key, and what a key's rows say of it.    *)
(***************************************************************************)
Running(c) == call[c].at \in {"effect", "completing", "failing"}
Approving(c) == call[c].kind = "approve"

(* The approval holds the proposal it claimed until it returns. *)
ApprovalHolds(c) ==
  Approving(c) =>
    LET p == proposal[call[c].key] IN
    /\ call[c].at \notin {"idle", "asked", "queue"}
    /\ p.status = "EXECUTING" /\ p.decider = call[c].who
    /\ call[c].who \in People /\ p.by \in Actors /\ p.by # call[c].who

(* A call executes because it approves or was let through alone. *)
ExecutionEarned(c) ==
  /\ call[c].at \in {"claim", "effect", "completing", "failing"} =>
       call[c].kind \in {"approve", "alone"}
  /\ call[c].at \in {"executed", "failed"} => Approving(c)
  /\ call[c].at # "idle" => call[c].who \in Actors

(* The row of a running call is CLAIMED, and tells how far it has come. *)
StageIsTrue(c) ==
  LET k == call[c].key IN
  /\ Running(c) => execution[k] = "CLAIMED"
  /\ call[c].at = "effect" => ran[k] = 0
  /\ call[c].at = "completing" => ran[k] = 1 /\ ranBy[k] = call[c].who
  /\ call[c].at = "executed" => execution[k] = "COMPLETED" /\ ranBy[k] = call[c].who

CallIsTrue(c) == ApprovalHolds(c) /\ ExecutionEarned(c) /\ StageIsTrue(c)

Apart(c, d) ==
  call[c].key = call[d].key => ~(Approving(c) /\ Approving(d)) /\ ~(Running(c) /\ Running(d))

(* The execution row and its audit row account for the effect. *)
ExecutionIsTrue(k) ==
  /\ ran[k] \in {0, 1}
  /\ execution[k] = "NONE" => ran[k] = 0
  /\ execution[k] # "NONE" => audited[k]
  /\ execution[k] = "COMPLETED" => ran[k] = 1

(* The proposal row accounts for an effect nobody was allowed alone. *)
ProposalIsTrue(k) ==
  /\ proposal[k].status # "NONE" => proposal[k].by \in Actors
  /\ proposal[k].status = "EXECUTED" =>
       execution[k] = "COMPLETED" /\ ranBy[k] = proposal[k].decider
  /\ ran[k] > 0 /\ ~alone[k] =>
       /\ proposal[k].status \in {"EXECUTING", "EXECUTED", "FAILED"}
       /\ ranBy[k] \in People /\ ranBy[k] = proposal[k].decider
       /\ proposal[k].by \in Actors /\ proposal[k].by # ranBy[k]

GateInv ==
  /\ TypeOK
  /\ \A c \in Calls : CallIsTrue(c)
  /\ \A c, d \in Calls : c # d => Apart(c, d)
  /\ \A k \in Keys : ExecutionIsTrue(k) /\ ProposalIsTrue(k)

(* Typing facts the steps share. *)
LEMMA Typed ==
  ASSUME TypeOK
  PROVE  /\ call \in [Calls -> CallRecords] /\ proposal \in [Keys -> ProposalRows]
         /\ execution \in [Keys -> {"NONE", "CLAIMED", "COMPLETED", "FAILED"}]
         /\ audited \in [Keys -> BOOLEAN] /\ ran \in [Keys -> Nat]
         /\ ranBy \in [Keys -> Actors \cup {None}] /\ alone \in [Keys -> BOOLEAN]
         /\ \A c \in Calls : call[c].at # "idle" => call[c].key \in Keys
  BY DEF TypeOK, CallRecords, ProposalRows, Statuses

(***************************************************************************)
(* Steps that touch no row: another call keeps what it knew.               *)
(***************************************************************************)
LEMMA RowsUntouched ==
  ASSUME GateInv, NEW c \in Calls, NEW at \in Stages, NEW kind \in Kinds,
         NEW who \in Actors \cup {None}, NEW key \in Keys \cup {None},
         Becomes(c, at, kind, who, key), at # "idle" => key \in Keys,
         UNCHANGED <<execVars, proposal>>,
         orchestrated' = orchestrated, fourEyes' \in BOOLEAN,
         switches' \in 0..MaxSwitches, crashes' \in 0..MaxCrashes,
         CallIsTrue(c)',
         \A d \in Calls \ {c} : Apart(c, d)' /\ Apart(d, c)'
  PROVE  GateInv'
  <1>1. TypeOK'
    BY Typed DEF GateInv, TypeOK, Becomes, CallRecords, execVars
  <1>2. \A d \in Calls : CallIsTrue(d)'
    <2> SUFFICES ASSUME NEW d \in Calls \ {c} PROVE CallIsTrue(d)'
      OBVIOUS
    <2>1. CallIsTrue(d) /\ call'[d] = call[d]
      BY DEF GateInv, Becomes
    <2> QED
      BY <2>1 DEF CallIsTrue, ApprovalHolds, ExecutionEarned, StageIsTrue, Approving, Running,
                  execVars
  <1>3. \A d, e \in Calls : d # e => Apart(d, e)'
    <2> SUFFICES ASSUME NEW d \in Calls \ {c}, NEW e \in Calls \ {c}, d # e PROVE Apart(d, e)'
      OBVIOUS
    <2>1. Apart(d, e) /\ call'[d] = call[d] /\ call'[e] = call[e]
      BY DEF GateInv, Becomes
    <2> QED
      BY <2>1 DEF Apart, Approving, Running
  <1>4. \A k \in Keys : ExecutionIsTrue(k)' /\ ProposalIsTrue(k)'
    BY DEF GateInv, ExecutionIsTrue, ProposalIsTrue, execVars
  <1> QED
    BY <1>1, <1>2, <1>3, <1>4 DEF GateInv

(***************************************************************************)
(* Steps that write the rows of one key: every other key, and every call   *)
(* on another key, is left as it was.                                      *)
(***************************************************************************)
SameExecution(j) ==
  /\ execution'[j] = execution[j] /\ audited'[j] = audited[j]
  /\ ran'[j] = ran[j] /\ ranBy'[j] = ranBy[j] /\ alone'[j] = alone[j]
SameElsewhere(k) ==
  \A j \in Keys \ {k} : SameExecution(j) /\ proposal'[j] = proposal[j]
RowsTyped ==
  /\ execution \in [Keys -> {"NONE", "CLAIMED", "COMPLETED", "FAILED"}]
  /\ audited \in [Keys -> BOOLEAN] /\ ran \in [Keys -> Nat]
  /\ ranBy \in [Keys -> Actors \cup {None}] /\ alone \in [Keys -> BOOLEAN]
  /\ proposal \in [Keys -> ProposalRows]

(* A key is nobody's name, and nobody is no actor. *)
LEMMA NoneIsNoKey == None \notin Keys /\ None \notin Actors
  BY ActorsAssumption DEF Actors

LEMMA OneKeyWritten ==
  ASSUME GateInv, NEW c \in Calls, NEW k \in Keys,
         NEW at \in Stages, NEW kind \in Kinds,
         NEW who \in Actors \cup {None}, NEW key \in Keys \cup {None},
         Becomes(c, at, kind, who, key), at # "idle" => key \in Keys,
         SameElsewhere(k), RowsTyped', UNCHANGED switchVars, crashes' = crashes,
         ExecutionIsTrue(k)', ProposalIsTrue(k)', CallIsTrue(c)',
         \A d \in Calls \ {c} : Apart(c, d)' /\ Apart(d, c)',
         \A d \in Calls \ {c} : call[d].key = k => CallIsTrue(d)'
  PROVE  GateInv'
  <1>1. TypeOK'
    BY Typed DEF GateInv, TypeOK, Becomes, CallRecords, RowsTyped, ProposalRows, Statuses,
                 switchVars
  <1>2. \A d \in Calls : CallIsTrue(d)'
    <2> SUFFICES ASSUME NEW d \in Calls \ {c}, call[d].key # k PROVE CallIsTrue(d)'
      OBVIOUS
    <2>1. CallIsTrue(d) /\ call'[d] = call[d]
      BY DEF GateInv, Becomes
    <2>2. CASE call[d].at = "idle"
      BY <2>1, <2>2 DEF CallIsTrue, ApprovalHolds, ExecutionEarned, StageIsTrue, Approving, Running
    <2>3. CASE call[d].at # "idle"
      <3>1. call[d].key \in Keys \ {k}
        BY <2>3, Typed DEF GateInv
      <3> QED
        BY <2>1, <3>1 DEF CallIsTrue, ApprovalHolds, ExecutionEarned, StageIsTrue, Approving,
                          Running, SameElsewhere, SameExecution
    <2> QED
      BY <2>2, <2>3
  <1>3. \A d, e \in Calls : d # e => Apart(d, e)'
    <2> SUFFICES ASSUME NEW d \in Calls \ {c}, NEW e \in Calls \ {c}, d # e PROVE Apart(d, e)'
      OBVIOUS
    <2>1. Apart(d, e) /\ call'[d] = call[d] /\ call'[e] = call[e]
      BY DEF GateInv, Becomes
    <2> QED
      BY <2>1 DEF Apart, Approving, Running
  <1>4. \A j \in Keys : ExecutionIsTrue(j)' /\ ProposalIsTrue(j)'
    BY DEF GateInv, ExecutionIsTrue, ProposalIsTrue, SameElsewhere, SameExecution
  <1> QED
    BY <1>1, <1>2, <1>3, <1>4 DEF GateInv

(* The effect counts once more for its key, under the name of its call. *)
LEMMA EffectTaken ==
  ASSUME TypeOK, NEW c \in Calls, call[c].key \in Keys, TakesEffect(c)
  PROVE  LET k == call[c].key IN
         /\ ran'[k] = ran[k] + 1 /\ ranBy'[k] = call[c].who
         /\ alone'[k] <=> call[c].kind = "alone"
         /\ \A j \in Keys \ {k} : ran'[j] = ran[j] /\ ranBy'[j] = ranBy[j] /\ alone'[j] = alone[j]
         /\ ran' \in [Keys -> Nat] /\ ranBy' \in [Keys -> Actors \cup {None}]
         /\ alone' \in [Keys -> BOOLEAN]
  <1> DEFINE k == call[c].key
  <1>1. call[c].who \in Actors \cup {None}
    BY Typed DEF CallRecords
  <1>2. ran' = [ran EXCEPT ![k] = ran[k] + 1] /\ ranBy' = [ranBy EXCEPT ![k] = call[c].who]
    BY DEF TakesEffect
  <1>3. PICK b \in BOOLEAN : (b <=> call[c].kind = "alone") /\ alone' = [alone EXCEPT ![k] = b]
    BY DEF TakesEffect
  <1>4. /\ ran'[k] = ran[k] + 1 /\ ranBy'[k] = call[c].who
        /\ \A j \in Keys \ {k} : ran'[j] = ran[j] /\ ranBy'[j] = ranBy[j]
        /\ ran' \in [Keys -> Nat] /\ ranBy' \in [Keys -> Actors \cup {None}]
    BY <1>1, <1>2, Typed
  <1>5. /\ alone'[k] = b /\ \A j \in Keys \ {k} : alone'[j] = alone[j]
        /\ alone' \in [Keys -> BOOLEAN]
    BY <1>3, Typed
  <1> QED
    BY <1>3, <1>4, <1>5

(***************************************************************************)
(* One lemma per action.                                                   *)
(***************************************************************************)
LEMMA InitGate == Init => GateInv
  <1> SUFFICES ASSUME Init PROVE GateInv
    OBVIOUS
  <1>1. Idle \in CallRecords /\ NoProposal \in ProposalRows
    BY DEF Idle, NoProposal, CallRecords, ProposalRows, Stages, Kinds, Statuses
  <1>2. \A c \in Calls : call[c].at = "idle" /\ call[c].kind = "execute"
    BY DEF Init, Idle
  <1>3. TypeOK
    BY <1>1, <1>2, BoundsAssumption DEF Init, TypeOK, CallRecords, ProposalRows, Statuses
  <1>4. \A c \in Calls : CallIsTrue(c)
    BY <1>2 DEF CallIsTrue, ApprovalHolds, ExecutionEarned, StageIsTrue, Approving, Running
  <1>5. \A c, d \in Calls : Apart(c, d)
    BY <1>2 DEF Apart, Approving, Running
  <1>6. \A k \in Keys : ExecutionIsTrue(k) /\ ProposalIsTrue(k)
    BY DEF Init, NoProposal, ExecutionIsTrue, ProposalIsTrue
  <1> QED
    BY <1>3, <1>4, <1>5, <1>6 DEF GateInv

LEMMA EffectRunsGate ==
  ASSUME GateInv, NEW c \in Calls, EffectRuns(c)
  PROVE  GateInv'
  <1> PICK k \in Keys : k = call[c].key
    BY Typed DEF EffectRuns, GateInv
  <1>1. /\ call[c].at = "effect" /\ call[c] \in CallRecords
        /\ CallIsTrue(c) /\ ran[k] = 0 /\ execution[k] = "CLAIMED"
        /\ call[c].kind \in {"approve", "alone"}
        /\ ExecutionIsTrue(k) /\ ProposalIsTrue(k)
    BY Typed DEF EffectRuns, GateInv, CallIsTrue, StageIsTrue, ExecutionEarned, Running
  <1>2. PICK at \in {"completing", "failing"} :
          /\ Goes(c, at)
          /\ TakesEffect(c) \/ (NoEffect /\ at = "failing")
    BY DEF EffectRuns
  <1>3. Becomes(c, at, call[c].kind, call[c].who, k)
    BY <1>2, CallGoes, Typed DEF GateInv, Stages
  <1>4. /\ SameElsewhere(k) /\ RowsTyped'
        /\ execution' = execution /\ audited' = audited /\ proposal' = proposal
        /\ \/ ran'[k] = 1 /\ ranBy'[k] = call[c].who /\ (alone'[k] <=> call[c].kind = "alone")
           \/ at = "failing" /\ UNCHANGED <<ran, ranBy, alone>>
    <2>1. execution' = execution /\ audited' = audited /\ proposal' = proposal /\ TypeOK
      BY DEF EffectRuns, GateInv
    <2>2. CASE TakesEffect(c)
      BY <1>1, <2>1, <2>2, EffectTaken, Typed DEF SameElsewhere, SameExecution, RowsTyped
    <2>3. CASE NoEffect /\ at = "failing"
      BY <2>1, <2>3, Typed DEF NoEffect, SameElsewhere, SameExecution, RowsTyped
    <2> QED
      BY <1>2, <2>2, <2>3
  <1>5. ExecutionIsTrue(k)' /\ ProposalIsTrue(k)'
    <2>1. ExecutionIsTrue(k)'
      BY <1>1, <1>4 DEF ExecutionIsTrue
    <2>2. ProposalIsTrue(k)'
      BY <1>1, <1>4 DEF ProposalIsTrue, CallIsTrue, ApprovalHolds, Approving
    <2> QED
      BY <2>1, <2>2
  <1>6. CallIsTrue(c)'
    BY <1>1, <1>3, <1>4 DEF Becomes, CallIsTrue, ApprovalHolds, ExecutionEarned, StageIsTrue,
                            Approving, Running
  <1>7. \A d \in Calls \ {c} : Apart(c, d)' /\ Apart(d, c)'
    BY <1>1, <1>3 DEF GateInv, Becomes, Apart, Approving, Running
  <1>8. \A d \in Calls \ {c} : call[d].key = k => CallIsTrue(d)'
    <2> SUFFICES ASSUME NEW d \in Calls \ {c}, call[d].key = k PROVE CallIsTrue(d)'
      OBVIOUS
    <2>1. CallIsTrue(d) /\ Apart(c, d) /\ call'[d] = call[d]
      BY <1>3 DEF GateInv, Becomes
    <2> QED
      BY <1>1, <1>4, <2>1 DEF CallIsTrue, ApprovalHolds, ExecutionEarned, StageIsTrue, Apart,
                              Approving, Running
  <1> QED
    <2>1. /\ at \in Stages /\ call[c].kind \in Kinds /\ call[c].who \in Actors \cup {None}
          /\ UNCHANGED switchVars /\ crashes' = crashes
      BY <1>1 DEF Stages, CallRecords, EffectRuns
    <2> QED
      BY <1>1, <1>3, <1>4, <1>5, <1>6, <1>7, <1>8, <2>1, OneKeyWritten

(* A call that begins, or is let through, knows nothing of its key yet. *)
LEMMA BeginsGate ==
  ASSUME GateInv, NEW c \in Calls, NEW a \in Actors, NEW k \in Keys,
         ExecuteBegins(c, a, k) \/ ProposeBegins(c, a, k)
  PROVE  GateInv'
  <1>1. PICK at \in {"asked", "queue"}, kind \in {"execute", "propose"} :
          call' = [call EXCEPT ![c] = [at |-> at, kind |-> kind, who |-> a, key |-> k]]
    BY DEF ExecuteBegins, ProposeBegins
  <1>2. at \in Stages /\ kind \in Kinds /\ at # "idle" /\ TypeOK
    BY DEF Stages, Kinds, GateInv
  <1>3. Becomes(c, at, kind, a, k)
    BY <1>1, <1>2, CallReplaced, Typed
  <1>4. UNCHANGED <<switchVars, execVars, proposal, crashes>>
    BY DEF ExecuteBegins, ProposeBegins
  <1>5. CallIsTrue(c)'
    BY <1>3 DEF Becomes, CallIsTrue, ApprovalHolds, ExecutionEarned, StageIsTrue, Approving,
                Running
  <1>6. \A d \in Calls \ {c} : Apart(c, d)' /\ Apart(d, c)'
    BY <1>3 DEF Becomes, Apart, Approving, Running
  <1>7. /\ orchestrated' = orchestrated /\ fourEyes' \in BOOLEAN
        /\ switches' \in 0..MaxSwitches /\ crashes' \in 0..MaxCrashes
    BY <1>2, <1>4 DEF TypeOK, switchVars
  <1> QED
    BY <1>2, <1>3, <1>4, <1>5, <1>6, <1>7, RowsUntouched

LEMMA FourEyesAskedGate ==
  ASSUME GateInv, NEW c \in Calls, FourEyesAsked(c)
  PROVE  GateInv'
  <1> PICK k \in Keys : k = call[c].key
    BY Typed DEF FourEyesAsked, GateInv
  <1>1. /\ call[c].at = "asked" /\ call[c] \in CallRecords /\ CallIsTrue(c) /\ TypeOK
        /\ call[c].who \in Actors /\ ~Approving(c)
    BY Typed DEF FourEyesAsked, GateInv, CallIsTrue, ExecutionEarned, ApprovalHolds
  <1>2. PICK at \in {"queue", "claim"}, kind \in Kinds :
          /\ Becomes(c, at, kind, call[c].who, k)
          /\ kind # "approve" /\ (at = "claim" => kind = "alone")
    <2>1. CASE MustQueue
      <3>1. Goes(c, "queue") /\ "queue" \in Stages /\ call[c].kind \in Kinds
        BY <1>1, <2>1 DEF FourEyesAsked, Stages, CallRecords
      <3>2. Becomes(c, "queue", call[c].kind, call[c].who, k)
        BY <1>1, <3>1, CallGoes, Typed
      <3> QED
        BY <1>1, <3>1, <3>2 DEF Approving
    <2>2. CASE ~MustQueue
      <3>1. Becomes(c, "claim", "alone", call[c].who, k) /\ "alone" \in Kinds
        BY <1>1, <2>2, CallLetThrough, Typed DEF FourEyesAsked, Kinds
      <3> QED
        BY <3>1
    <2> QED
      BY <2>1, <2>2
  <1>3. UNCHANGED <<switchVars, execVars, proposal, crashes>>
    BY DEF FourEyesAsked
  <1>4. CallIsTrue(c)'
    BY <1>1, <1>2 DEF Becomes, CallIsTrue, ApprovalHolds, ExecutionEarned, StageIsTrue,
                      Approving, Running
  <1>5. \A d \in Calls \ {c} : Apart(c, d)' /\ Apart(d, c)'
    BY <1>2 DEF Becomes, Apart, Approving, Running
  <1>6. /\ orchestrated' = orchestrated /\ fourEyes' \in BOOLEAN
        /\ switches' \in 0..MaxSwitches /\ crashes' \in 0..MaxCrashes
        /\ at \in Stages /\ at # "idle"
    BY <1>1, <1>3 DEF TypeOK, switchVars, Stages
  <1> QED
    BY <1>1, <1>2, <1>3, <1>4, <1>5, <1>6, RowsUntouched

(* A call that returns, or dies, owns nothing any more. *)
LEMMA ReturnedGate ==
  ASSUME GateInv, NEW c \in Calls, Returns(c), UNCHANGED <<switchVars, execVars, proposal>>,
         crashes' \in 0..MaxCrashes
  PROVE  GateInv'
  <1>1. Becomes(c, "idle", "execute", None, None) /\ "idle" \in Stages /\ "execute" \in Kinds
    BY CallReturns, Typed DEF GateInv, Stages, Kinds
  <1>2. CallIsTrue(c)'
    BY <1>1 DEF Becomes, CallIsTrue, ApprovalHolds, ExecutionEarned, StageIsTrue, Approving,
                Running
  <1>3. \A d \in Calls \ {c} : Apart(c, d)' /\ Apart(d, c)'
    BY <1>1 DEF Becomes, Apart, Approving, Running
  <1>4. /\ orchestrated' = orchestrated /\ fourEyes' \in BOOLEAN /\ switches' \in 0..MaxSwitches
    BY DEF GateInv, TypeOK, switchVars
  <1> QED
    BY <1>1, <1>2, <1>3, <1>4, RowsUntouched

LEMMA ClaimRefusedGate ==
  ASSUME GateInv, NEW c \in Calls, ClaimRefused(c)
  PROVE  GateInv'
  <1> PICK k \in Keys : k = call[c].key
    BY Typed DEF ClaimRefused, GateInv
  <1>1. /\ call[c].at = "claim" /\ call[c] \in CallRecords /\ CallIsTrue(c) /\ TypeOK
        /\ UNCHANGED <<switchVars, execVars, proposal, crashes>> /\ crashes \in 0..MaxCrashes
    BY Typed DEF ClaimRefused, GateInv, TypeOK
  <1>2. CASE call[c].kind # "approve"
    BY <1>1, <1>2, ReturnedGate DEF ClaimRefused, Throws
  <1>3. CASE call[c].kind = "approve"
    <2>1. Goes(c, "failed") /\ "failed" \in Stages /\ call[c].who \in Actors \cup {None}
          /\ call[c].kind \in Kinds
      BY <1>1, <1>3 DEF ClaimRefused, Throws, Stages, CallRecords
    <2>2. Becomes(c, "failed", call[c].kind, call[c].who, k)
      BY <2>1, <1>1, CallGoes, Typed
    <2>3. CallIsTrue(c)'
      BY <1>1, <1>3, <2>2 DEF Becomes, CallIsTrue, ApprovalHolds, ExecutionEarned, StageIsTrue,
                              Approving, Running
    <2>4. \A d \in Calls \ {c} : Apart(c, d)' /\ Apart(d, c)'
      BY <1>3, <2>2 DEF GateInv, Becomes, Apart, Approving, Running
    <2>5. /\ orchestrated' = orchestrated /\ fourEyes' \in BOOLEAN
          /\ switches' \in 0..MaxSwitches /\ crashes' \in 0..MaxCrashes
      BY <1>1 DEF TypeOK, switchVars
    <2> QED
      BY <1>1, <2>1, <2>2, <2>3, <2>4, <2>5, RowsUntouched
  <1> QED
    BY <1>2, <1>3

(* No call holds a proposal that is not being executed. *)
LEMMA FreeOfApprovals ==
  ASSUME GateInv, NEW d \in Calls, proposal[call[d].key].status # "EXECUTING"
  PROVE  ~Approving(d)
  BY DEF GateInv, CallIsTrue, ApprovalHolds

LEMMA ProposalFiledGate ==
  ASSUME GateInv, NEW c \in Calls, ProposalFiled(c)
  PROVE  GateInv'
  <1> PICK k \in Keys : k = call[c].key
    BY Typed DEF ProposalFiled, GateInv
  <1>1. /\ call[c].at = "queue" /\ CallIsTrue(c) /\ TypeOK /\ Returns(c)
        /\ UNCHANGED <<switchVars, execVars, crashes>>
        /\ call[c].who \in Actors /\ ProposalIsTrue(k) /\ ExecutionIsTrue(k)
    BY DEF ProposalFiled, GateInv, CallIsTrue, ExecutionEarned
  <1>2. CASE proposal[k].status # "NONE"
    <2>1. proposal' = proposal /\ crashes' \in 0..MaxCrashes
      BY <1>1, <1>2 DEF ProposalFiled, TypeOK
    <2> QED
      BY <1>1, <2>1, ReturnedGate
  <1>3. CASE proposal[k].status = "NONE"
    <2>1. Decided(k, "PENDING", call[c].who, None)
      <3>1. proposal' = [proposal EXCEPT ![k] =
                           [status |-> "PENDING", by |-> call[c].who, decider |-> None]]
        BY <1>3 DEF ProposalFiled
      <3> QED
        BY <1>1, <3>1, ProposalReplaced, Typed
    <2>2. Becomes(c, "idle", "execute", None, None) /\ "idle" \in Stages /\ "execute" \in Kinds
      BY <1>1, CallReturns, Typed DEF Stages, Kinds
    <2>3. SameElsewhere(k) /\ RowsTyped' /\ SameExecution(k)
      BY <1>1, <2>1, Typed DEF SameElsewhere, SameExecution, Decided, RowsTyped, execVars
    <2>4. ExecutionIsTrue(k)' /\ ProposalIsTrue(k)'
      BY <1>1, <1>3, <2>1, <2>3 DEF ExecutionIsTrue, ProposalIsTrue, SameExecution, Decided
    <2>5. CallIsTrue(c)'
      BY <2>2 DEF Becomes, CallIsTrue, ApprovalHolds, ExecutionEarned, StageIsTrue, Approving,
                  Running
    <2>6. \A d \in Calls \ {c} : Apart(c, d)' /\ Apart(d, c)'
      BY <2>2 DEF Becomes, Apart, Approving, Running
    <2>7. \A d \in Calls \ {c} : call[d].key = k => CallIsTrue(d)'
      <3> SUFFICES ASSUME NEW d \in Calls \ {c}, call[d].key = k PROVE CallIsTrue(d)'
        OBVIOUS
      <3>1. CallIsTrue(d) /\ ~Approving(d) /\ call'[d] = call[d]
        BY <1>3, <2>2, FreeOfApprovals DEF GateInv, Becomes
      <3> QED
        BY <2>3, <3>1 DEF CallIsTrue, ApprovalHolds, ExecutionEarned, StageIsTrue, Approving,
                          Running, SameExecution
    <2> QED
      BY <1>1, <2>2, <2>3, <2>4, <2>5, <2>6, <2>7, OneKeyWritten
  <1> QED
    BY <1>2, <1>3

LEMMA ApprovalClaimsGate ==
  ASSUME GateInv, NEW c \in Calls, NEW p \in People, NEW k \in Keys, ApprovalClaims(c, p, k)
  PROVE  GateInv'
  <1>1. /\ proposal[k].status = "PENDING" /\ p # proposal[k].by /\ TypeOK
        /\ UNCHANGED <<switchVars, execVars, crashes>>
        /\ ProposalIsTrue(k) /\ ExecutionIsTrue(k) /\ p \in Actors
    BY DEF ApprovalClaims, Decide, MayApprove, GateInv, Actors
  <1>2. Decided(k, "EXECUTING", proposal[k].by, p)
    BY <1>1, ProposalDecided, Typed DEF ApprovalClaims, Statuses
  <1>3. Becomes(c, "claim", "approve", p, k) /\ "claim" \in Stages /\ "approve" \in Kinds
    <2>1. "claim" \in Stages /\ "approve" \in Kinds
      BY DEF Stages, Kinds
    <2> QED
      BY <1>1, <2>1, CallReplaced, Typed DEF ApprovalClaims
  <1>4. SameElsewhere(k) /\ RowsTyped' /\ SameExecution(k)
    BY <1>1, <1>2, Typed DEF SameElsewhere, SameExecution, Decided, RowsTyped, execVars
  <1>5. ExecutionIsTrue(k)' /\ ProposalIsTrue(k)'
    BY <1>1, <1>2, <1>4 DEF ExecutionIsTrue, ProposalIsTrue, SameExecution, Decided
  <1>6. CallIsTrue(c)'
    BY <1>1, <1>2, <1>3 DEF Becomes, CallIsTrue, ApprovalHolds, ExecutionEarned, StageIsTrue,
                            Approving, Running, Decided, ProposalIsTrue
  <1>7. \A d \in Calls \ {c} : call[d].key = k =>
          CallIsTrue(d) /\ ~Approving(d) /\ call'[d] = call[d]
    BY <1>1, <1>3, FreeOfApprovals DEF GateInv, Becomes
  <1>8. \A d \in Calls \ {c} : call[d].key = k => CallIsTrue(d)'
    BY <1>4, <1>7 DEF CallIsTrue, ApprovalHolds, ExecutionEarned, StageIsTrue, Approving,
                      Running, SameExecution
  <1>9. \A d \in Calls \ {c} : Apart(c, d)' /\ Apart(d, c)'
    BY <1>3, <1>7 DEF Becomes, Apart, Approving, Running
  <1> QED
    BY <1>1, <1>3, <1>4, <1>5, <1>6, <1>8, <1>9, OneKeyWritten

(* A rejection or a withdrawal finds no call that executes the proposal. *)
LEMMA RefusedGate ==
  ASSUME GateInv, NEW p \in People, NEW k \in Keys, Reject(p, k) \/ Cancel(p, k)
  PROVE  GateInv'
  <1>1. PICK status \in {"REJECTED", "CANCELLED"} : Decide(k, status, p)
    BY DEF Reject, Cancel
  <1>2. /\ proposal[k].status = "PENDING" /\ TypeOK
        /\ UNCHANGED <<switchVars, execVars, call, crashes>>
        /\ ProposalIsTrue(k)
    BY <1>1 DEF Reject, Cancel, Decide, GateInv
  <1>3. Decided(k, status, proposal[k].by, p)
    BY <1>1, <1>2, ProposalDecided, Typed DEF Statuses
  <1>4. TypeOK'
    BY <1>2, <1>3 DEF TypeOK, Decided, ProposalRows, Statuses, switchVars, execVars
  <1>5. \A d \in Calls : CallIsTrue(d)'
    <2> SUFFICES ASSUME NEW d \in Calls PROVE CallIsTrue(d)'
      OBVIOUS
    <2>1. CallIsTrue(d) /\ call' = call
      BY <1>2 DEF GateInv
    <2>2. CASE Approving(d)
      <3>1. call[d].key \in Keys \ {k}
        BY <1>2, <2>1, <2>2, FreeOfApprovals, Typed DEF CallIsTrue, ApprovalHolds
      <3> QED
        BY <1>2, <1>3, <2>1, <3>1 DEF CallIsTrue, ApprovalHolds, ExecutionEarned, StageIsTrue,
                                     Approving, Running, Decided, execVars
    <2>3. CASE ~Approving(d)
      BY <1>2, <2>1, <2>3 DEF CallIsTrue, ApprovalHolds, ExecutionEarned, StageIsTrue, Approving,
                              Running, execVars
    <2> QED
      BY <2>2, <2>3
  <1>6. \A d, e \in Calls : d # e => Apart(d, e)'
    BY <1>2 DEF GateInv, Apart, Approving, Running
  <1>7. \A j \in Keys : ExecutionIsTrue(j)' /\ ProposalIsTrue(j)'
    <2> SUFFICES ASSUME NEW j \in Keys PROVE ExecutionIsTrue(j)' /\ ProposalIsTrue(j)'
      OBVIOUS
    <2>1. ExecutionIsTrue(j) /\ ProposalIsTrue(j) /\ UNCHANGED execVars
      BY <1>2 DEF GateInv
    <2>2. CASE j = k
      BY <1>2, <1>3, <2>1, <2>2 DEF ExecutionIsTrue, ProposalIsTrue, Decided, execVars
    <2>3. CASE j # k
      BY <1>3, <2>1, <2>3 DEF ExecutionIsTrue, ProposalIsTrue, Decided, execVars
    <2> QED
      BY <2>2, <2>3
  <1> QED
    BY <1>4, <1>5, <1>6, <1>7 DEF GateInv

LEMMA TransactionCommitsGate ==
  ASSUME GateInv, NEW c \in Calls, TransactionCommits(c)
  PROVE  GateInv'
  <1> PICK k \in Keys : k = call[c].key
    BY Typed DEF TransactionCommits, GateInv
  <1>1. /\ call[c].at = "claim" /\ call[c] \in CallRecords /\ CallIsTrue(c) /\ TypeOK
        /\ UNCHANGED <<switchVars, proposal, crashes>>
        /\ execution[k] = "NONE" /\ ran[k] = 0 /\ ProposalIsTrue(k)
        /\ call[c].kind \in {"approve", "alone"} /\ call[c].who \in Actors
    BY Typed DEF TransactionCommits, RowIsNew, GateInv, CallIsTrue, ExecutionEarned,
                 ExecutionIsTrue
  <1>2. /\ execution'[k] = "COMPLETED" /\ audited'[k]
        /\ ran'[k] = 1 /\ ranBy'[k] = call[c].who /\ (alone'[k] <=> call[c].kind = "alone")
        /\ proposal' = proposal /\ SameElsewhere(k) /\ RowsTyped'
    <2>1. /\ execution' = [execution EXCEPT ![k] = "COMPLETED"]
          /\ audited' = [audited EXCEPT ![k] = TRUE] /\ TakesEffect(c)
      BY DEF TransactionCommits
    <2>2. /\ execution'[k] = "COMPLETED" /\ \A j \in Keys \ {k} : execution'[j] = execution[j]
          /\ execution' \in [Keys -> {"NONE", "CLAIMED", "COMPLETED", "FAILED"}]
      BY <1>1, <2>1, Typed
    <2>3. /\ audited'[k] /\ \A j \in Keys \ {k} : audited'[j] = audited[j]
          /\ audited' \in [Keys -> BOOLEAN]
      BY <1>1, <2>1, Typed
    <2>4. /\ ran'[k] = 1 /\ ranBy'[k] = call[c].who /\ (alone'[k] <=> call[c].kind = "alone")
          /\ \A j \in Keys \ {k} :
               ran'[j] = ran[j] /\ ranBy'[j] = ranBy[j] /\ alone'[j] = alone[j]
          /\ ran' \in [Keys -> Nat] /\ ranBy' \in [Keys -> Actors \cup {None}]
          /\ alone' \in [Keys -> BOOLEAN]
      BY <1>1, <2>1, EffectTaken
    <2>5. SameElsewhere(k)
      BY <1>1, <2>2, <2>3, <2>4 DEF SameElsewhere, SameExecution
    <2>6. RowsTyped'
      BY <1>1, <2>2, <2>3, <2>4, Typed DEF RowsTyped
    <2> QED
      BY <1>1, <2>2, <2>3, <2>4, <2>5, <2>6
  <1>3. ExecutionIsTrue(k)' /\ ProposalIsTrue(k)'
    <2>1. ExecutionIsTrue(k)'
      BY <1>2 DEF ExecutionIsTrue
    <2>2. ProposalIsTrue(k)'
      BY <1>1, <1>2 DEF ProposalIsTrue, CallIsTrue, ApprovalHolds, Approving
    <2> QED
      BY <2>1, <2>2
  <1>4. \A d \in Calls \ {c} : call'[d] = call[d] =>
          (call[d].key = k => CallIsTrue(d)')
    <2> SUFFICES ASSUME NEW d \in Calls \ {c}, call[d].key = k, call'[d] = call[d]
                 PROVE  CallIsTrue(d)'
      OBVIOUS
    <2>1. CallIsTrue(d) /\ ~Running(d) /\ call[d].at # "executed"
      BY <1>1 DEF GateInv, CallIsTrue, StageIsTrue
    <2> QED
      BY <1>2, <2>1 DEF CallIsTrue, ApprovalHolds, ExecutionEarned, StageIsTrue, Approving, Running
  <1>5. CASE call[c].kind = "approve"
    <2>1. Goes(c, "executed") /\ "executed" \in Stages /\ call[c].kind \in Kinds
      BY <1>1, <1>5 DEF TransactionCommits, Stages, CallRecords
    <2>2. Becomes(c, "executed", call[c].kind, call[c].who, k)
      BY <1>1, <2>1, CallGoes, Typed
    <2>3. CallIsTrue(c)'
      BY <1>1, <1>2, <1>5, <2>2 DEF Becomes, CallIsTrue, ApprovalHolds, ExecutionEarned,
                                    StageIsTrue, Approving, Running
    <2>4. \A d \in Calls \ {c} : Apart(c, d)' /\ Apart(d, c)'
      BY <1>5, <2>2 DEF GateInv, Becomes, Apart, Approving, Running
    <2>5. \A d \in Calls \ {c} : call[d].key = k => CallIsTrue(d)'
      BY <1>4, <2>2 DEF Becomes
    <2> QED
      BY <1>1, <1>2, <1>3, <2>1, <2>2, <2>3, <2>4, <2>5, OneKeyWritten
  <1>6. CASE call[c].kind # "approve"
    <2>1. Becomes(c, "idle", "execute", None, None) /\ "idle" \in Stages /\ "execute" \in Kinds
      BY <1>1, <1>6, CallReturns, Typed DEF TransactionCommits, Stages, Kinds
    <2>2. CallIsTrue(c)'
      BY <2>1 DEF Becomes, CallIsTrue, ApprovalHolds, ExecutionEarned, StageIsTrue, Approving,
                  Running
    <2>3. \A d \in Calls \ {c} : Apart(c, d)' /\ Apart(d, c)'
      BY <2>1 DEF Becomes, Apart, Approving, Running
    <2>4. \A d \in Calls \ {c} : call[d].key = k => CallIsTrue(d)'
      BY <1>4, <2>1 DEF Becomes
    <2> QED
      BY <1>1, <1>2, <1>3, <2>1, <2>2, <2>3, <2>4, OneKeyWritten
  <1> QED
    BY <1>5, <1>6

LEMMA ClaimInsertedGate ==
  ASSUME GateInv, NEW c \in Calls, ClaimInserted(c)
  PROVE  GateInv'
  <1> PICK k \in Keys : k = call[c].key
    BY Typed DEF ClaimInserted, GateInv
  <1>1. /\ call[c].at = "claim" /\ call[c] \in CallRecords /\ CallIsTrue(c) /\ TypeOK
        /\ UNCHANGED <<switchVars, proposal, crashes>> /\ Goes(c, "effect") /\ "effect" \in Stages
        /\ execution[k] = "NONE" /\ ran[k] = 0 /\ ProposalIsTrue(k)
        /\ call[c].kind \in {"approve", "alone"} /\ call[c].who \in Actors
    BY Typed DEF ClaimInserted, RowIsNew, GateInv, CallIsTrue, ExecutionEarned, ExecutionIsTrue,
                 Stages
  <1>2. Becomes(c, "effect", call[c].kind, call[c].who, k)
    BY <1>1, CallGoes, Typed
  <1>3. /\ execution'[k] = "CLAIMED" /\ audited'[k] /\ UNCHANGED <<ran, ranBy, alone>>
        /\ SameElsewhere(k) /\ RowsTyped'
    <2>1. /\ execution' = [execution EXCEPT ![k] = "CLAIMED"]
          /\ audited' = [audited EXCEPT ![k] = TRUE] /\ UNCHANGED <<ran, ranBy, alone>>
      BY DEF ClaimInserted, NoEffect
    <2> QED
      BY <1>1, <2>1, Typed DEF SameElsewhere, SameExecution, RowsTyped
  <1>4. ExecutionIsTrue(k)' /\ ProposalIsTrue(k)'
    BY <1>1, <1>3 DEF ExecutionIsTrue, ProposalIsTrue
  <1>5. CallIsTrue(c)'
    BY <1>1, <1>2, <1>3 DEF Becomes, CallIsTrue, ApprovalHolds, ExecutionEarned, StageIsTrue,
                            Approving, Running
  <1>6. \A d \in Calls \ {c} : call[d].key = k =>
          CallIsTrue(d) /\ ~Running(d) /\ call[d].at # "executed" /\ call'[d] = call[d]
    BY <1>1, <1>2 DEF GateInv, CallIsTrue, StageIsTrue, Becomes
  <1>7. \A d \in Calls \ {c} : call[d].key = k => CallIsTrue(d)'
    BY <1>1, <1>3, <1>6 DEF CallIsTrue, ApprovalHolds, ExecutionEarned, StageIsTrue, Approving,
                            Running
  <1>8. \A d \in Calls \ {c} : Apart(c, d)' /\ Apart(d, c)'
    BY <1>2, <1>6 DEF GateInv, Becomes, Apart, Approving, Running
  <1> QED
    <2>1. call[c].kind \in Kinds
      BY <1>1 DEF CallRecords
    <2> QED
      BY <1>1, <1>2, <1>3, <1>4, <1>5, <1>7, <1>8, <2>1, OneKeyWritten

(* The outcome of an orchestrated execution: written, or left CLAIMED. *)
LEMMA OutcomeOfExecution ==
  ASSUME GateInv, NEW c \in Calls, CompletionWritten(c) \/ FailureWritten(c)
  PROVE  GateInv'
  <1> PICK k \in Keys : k = call[c].key
    BY Typed DEF CompletionWritten, FailureWritten, GateInv
  <1>1. /\ call[c].at \in {"completing", "failing"} /\ call[c] \in CallRecords
        /\ CallIsTrue(c) /\ TypeOK
        /\ UNCHANGED <<switchVars, proposal, crashes>> /\ UNCHANGED <<ran, ranBy, alone, audited>>
        /\ execution[k] = "CLAIMED" /\ ProposalIsTrue(k) /\ ExecutionIsTrue(k)
        /\ call[c].kind \in {"approve", "alone"} /\ call[c].who \in Actors
    BY Typed DEF CompletionWritten, FailureWritten, NoEffect, GateInv, CallIsTrue, StageIsTrue,
                 ExecutionEarned, Running
  <1>2. PICK status \in {"CLAIMED", "COMPLETED", "FAILED"} :
          /\ execution' = [execution EXCEPT ![k] = status]
          /\ \/ Returns(c) /\ (status = "COMPLETED" => ran[k] = 1)
             \/ Goes(c, "failed") /\ status # "COMPLETED" /\ Approving(c)
             \/ Goes(c, "failing") /\ status = "CLAIMED"
             \/ /\ Goes(c, "executed") /\ status = "COMPLETED" /\ Approving(c)
                /\ ran[k] = 1 /\ ranBy[k] = call[c].who
    <2>1. execution = [execution EXCEPT ![k] = "CLAIMED"]
      BY <1>1, Typed
    <2>2. CASE CompletionWritten(c)
      BY <1>1, <2>1, <2>2 DEF CompletionWritten, CallIsTrue, StageIsTrue, Approving
    <2>3. CASE FailureWritten(c)
      <3>1. execution' = execution \/ execution' = [execution EXCEPT ![k] = "FAILED"]
        BY <2>3 DEF FailureWritten
      <3>2. Returns(c) \/ (Goes(c, "failed") /\ Approving(c))
        BY <2>3 DEF FailureWritten, Throws, Approving
      <3> QED
        BY <2>1, <3>1, <3>2
    <2> QED
      BY <2>2, <2>3
  <1>3. /\ execution'[k] = status /\ SameElsewhere(k) /\ RowsTyped'
    BY <1>1, <1>2, Typed DEF SameElsewhere, SameExecution, RowsTyped
  <1>4. ExecutionIsTrue(k)' /\ ProposalIsTrue(k)'
    BY <1>1, <1>2, <1>3 DEF ExecutionIsTrue, ProposalIsTrue
  <1>5. \A d \in Calls \ {c} : call'[d] = call[d] =>
          (call[d].key = k => CallIsTrue(d)')
    <2> SUFFICES ASSUME NEW d \in Calls \ {c}, call[d].key = k, call'[d] = call[d]
                 PROVE  CallIsTrue(d)'
      OBVIOUS
    <2>1. CallIsTrue(d) /\ ~Running(d) /\ call[d].at # "executed"
      BY <1>1 DEF GateInv, CallIsTrue, StageIsTrue, Apart, Running
    <2> QED
      BY <1>1, <2>1 DEF CallIsTrue, ApprovalHolds, ExecutionEarned, StageIsTrue, Approving, Running
  <1>6. CASE Returns(c)
    <2>1. Becomes(c, "idle", "execute", None, None) /\ "idle" \in Stages /\ "execute" \in Kinds
      BY <1>1, <1>6, CallReturns, Typed DEF Stages, Kinds
    <2>2. CallIsTrue(c)'
      BY <2>1 DEF Becomes, CallIsTrue, ApprovalHolds, ExecutionEarned, StageIsTrue, Approving,
                  Running
    <2>3. \A d \in Calls \ {c} : Apart(c, d)' /\ Apart(d, c)'
      BY <2>1 DEF Becomes, Apart, Approving, Running
    <2>4. \A d \in Calls \ {c} : call[d].key = k => CallIsTrue(d)'
      BY <1>5, <2>1 DEF Becomes
    <2> QED
      BY <1>1, <1>3, <1>4, <2>1, <2>2, <2>3, <2>4, OneKeyWritten
  <1>7. ASSUME NEW at \in {"failed", "failing", "executed"}, Goes(c, at),
               at = "failing" => status = "CLAIMED",
               at \in {"failed", "executed"} => Approving(c),
               at = "executed" => status = "COMPLETED" /\ ranBy[k] = call[c].who
        PROVE  GateInv'
    <2>1. at \in Stages /\ at # "idle" /\ call[c].kind \in Kinds
      BY <1>1 DEF Stages, CallRecords
    <2>2. Becomes(c, at, call[c].kind, call[c].who, k)
      BY <1>1, <1>7, <2>1, CallGoes, Typed
    <2>3. CallIsTrue(c)'
      BY <1>1, <1>3, <1>7, <2>2 DEF Becomes, CallIsTrue, ApprovalHolds, ExecutionEarned,
                                    StageIsTrue, Approving, Running
    <2>4. \A d \in Calls \ {c} : Apart(c, d)' /\ Apart(d, c)'
      BY <1>1, <2>2 DEF GateInv, Becomes, Apart, Approving, Running
    <2>5. \A d \in Calls \ {c} : call[d].key = k => CallIsTrue(d)'
      BY <1>5, <2>2 DEF Becomes
    <2> QED
      BY <1>1, <1>3, <1>4, <2>1, <2>2, <2>3, <2>4, <2>5, OneKeyWritten
  <1> QED
    BY <1>2, <1>6, <1>7

(* The outcome of an approval: written, or left EXECUTING. *)
LEMMA OutcomeOfApproval ==
  ASSUME GateInv, NEW c \in Calls, ProposalExecuted(c) \/ ProposalFailed(c)
  PROVE  GateInv'
  <1> PICK k \in Keys : k = call[c].key
    BY Typed DEF ProposalExecuted, ProposalFailed, GateInv
  <1>1. /\ call[c].at \in {"executed", "failed"} /\ call[c] \in CallRecords
        /\ CallIsTrue(c) /\ TypeOK /\ Approving(c)
        /\ UNCHANGED <<switchVars, execVars, crashes>>
        /\ proposal[k].status = "EXECUTING" /\ ProposalIsTrue(k) /\ ExecutionIsTrue(k)
    BY Typed DEF ProposalExecuted, ProposalFailed, GateInv, CallIsTrue, ExecutionEarned,
                 ApprovalHolds
  <1>2. CASE proposal' = proposal
    <2>1. CASE Returns(c)
      BY <1>1, <1>2, <2>1, ReturnedGate DEF TypeOK
    <2>2. CASE ~Returns(c)
      <3>1. Goes(c, "failed") /\ "failed" \in Stages /\ call[c].kind \in Kinds
            /\ call[c].who \in Actors \cup {None}
        BY <1>1, <2>2 DEF ProposalExecuted, ProposalFailed, Stages, CallRecords
      <3>2. Becomes(c, "failed", call[c].kind, call[c].who, k)
        BY <1>1, <3>1, CallGoes, Typed
      <3>3. CallIsTrue(c)'
        BY <1>1, <1>2, <3>2 DEF Becomes, CallIsTrue, ApprovalHolds, ExecutionEarned, StageIsTrue,
                                Approving, Running
      <3>4. \A d \in Calls \ {c} : Apart(c, d)' /\ Apart(d, c)'
        BY <1>1, <3>2 DEF GateInv, Becomes, Apart, Approving, Running
      <3>5. /\ orchestrated' = orchestrated /\ fourEyes' \in BOOLEAN
            /\ switches' \in 0..MaxSwitches /\ crashes' \in 0..MaxCrashes
        BY <1>1 DEF TypeOK, switchVars
      <3> QED
        BY <1>1, <1>2, <3>1, <3>2, <3>3, <3>4, <3>5, RowsUntouched
    <2> QED
      BY <2>1, <2>2
  <1>3. CASE proposal' # proposal
    <2>1. PICK status \in {"EXECUTED", "FAILED"} :
            /\ proposal' = [proposal EXCEPT ![k].status = status] /\ Returns(c)
            /\ status = "EXECUTED" => call[c].at = "executed"
      BY <1>3 DEF ProposalExecuted, ProposalFailed
    <2>2. Decided(k, status, proposal[k].by, proposal[k].decider)
      BY <1>1, <2>1, OutcomeWritten, Typed DEF Statuses
    <2>3. Becomes(c, "idle", "execute", None, None) /\ "idle" \in Stages /\ "execute" \in Kinds
      BY <1>1, <2>1, CallReturns, Typed DEF Stages, Kinds
    <2>4. SameElsewhere(k) /\ RowsTyped' /\ SameExecution(k)
      BY <1>1, <2>2, Typed DEF SameElsewhere, SameExecution, Decided, RowsTyped, execVars
    <2>5. ExecutionIsTrue(k)' /\ ProposalIsTrue(k)'
      <3>1. status = "EXECUTED" => execution[k] = "COMPLETED" /\ ranBy[k] = proposal[k].decider
        BY <1>1, <2>1 DEF CallIsTrue, StageIsTrue, ApprovalHolds
      <3>2. ExecutionIsTrue(k)'
        BY <1>1, <2>4 DEF ExecutionIsTrue, SameExecution
      <3>3. ProposalIsTrue(k)'
        BY <1>1, <2>2, <2>4, <3>1 DEF ProposalIsTrue, SameExecution, Decided
      <3> QED
        BY <3>2, <3>3
    <2>6. CallIsTrue(c)'
      BY <2>3 DEF Becomes, CallIsTrue, ApprovalHolds, ExecutionEarned, StageIsTrue, Approving,
                  Running
    <2>7. \A d \in Calls \ {c} : Apart(c, d)' /\ Apart(d, c)'
      BY <2>3 DEF Becomes, Apart, Approving, Running
    <2>8. \A d \in Calls \ {c} : call[d].key = k =>
            CallIsTrue(d) /\ ~Approving(d) /\ call'[d] = call[d]
      BY <1>1, <2>3 DEF GateInv, Apart, Becomes
    <2>9. \A d \in Calls \ {c} : call[d].key = k => CallIsTrue(d)'
      BY <2>4, <2>8 DEF CallIsTrue, ApprovalHolds, ExecutionEarned, StageIsTrue, Approving,
                        Running, SameExecution
    <2> QED
      BY <1>1, <2>3, <2>4, <2>5, <2>6, <2>7, <2>9, OneKeyWritten
  <1> QED
    BY <1>2, <1>3

(* Nothing a call knows depends on the switch. *)
LEMMA SwitchTurnsGate ==
  ASSUME GateInv, SwitchTurns \/ UNCHANGED vars
  PROVE  GateInv'
  <1>1. UNCHANGED <<orchestrated, execVars, proposal, call, crashes>>
        /\ fourEyes' \in BOOLEAN /\ switches' \in 0..MaxSwitches
    <2>1. CASE SwitchTurns
      <3>1. UNCHANGED <<orchestrated, execVars, proposal, call, crashes>> /\ fourEyes' \in BOOLEAN
        BY <2>1 DEF SwitchTurns
      <3>2. switches' \in 0..MaxSwitches
        BY <2>1, BoundsAssumption DEF SwitchTurns, GateInv, TypeOK
      <3> QED
        BY <3>1, <3>2
    <2>2. CASE UNCHANGED vars
      BY <2>2 DEF vars, switchVars, GateInv, TypeOK
    <2> QED
      BY <2>1, <2>2
  <1>2. TypeOK'
    BY <1>1 DEF GateInv, TypeOK, execVars
  <1>3. \A c \in Calls : CallIsTrue(c)'
    BY <1>1 DEF GateInv, CallIsTrue, ApprovalHolds, ExecutionEarned, StageIsTrue, Approving,
                Running, execVars
  <1>4. \A c, d \in Calls : c # d => Apart(c, d)'
    BY <1>1 DEF GateInv, Apart, Approving, Running
  <1>5. \A k \in Keys : ExecutionIsTrue(k)' /\ ProposalIsTrue(k)'
    BY <1>1 DEF GateInv, ExecutionIsTrue, ProposalIsTrue, execVars
  <1> QED
    BY <1>2, <1>3, <1>4, <1>5 DEF GateInv

LEMMA NextGate == GateInv /\ [Next]_vars => GateInv'
  <1> SUFFICES ASSUME GateInv, [Next]_vars PROVE GateInv'
    OBVIOUS
  <1>1. ASSUME NEW c \in Calls, CallSteps(c) PROVE GateInv'
    <2>1. CASE Crash(c)
      <3>1. /\ Returns(c) /\ UNCHANGED <<switchVars, execVars, proposal>>
            /\ crashes' \in 0..MaxCrashes
        BY <2>1, BoundsAssumption DEF Crash, GateInv, TypeOK
      <3> QED
        BY <3>1, ReturnedGate
    <2> QED
      BY <1>1, <2>1, FourEyesAskedGate, ProposalFiledGate, TransactionCommitsGate,
         ClaimRefusedGate, ClaimInsertedGate, EffectRunsGate, OutcomeOfExecution,
         OutcomeOfApproval DEF CallSteps
  <1>2. ASSUME NEW c \in Calls, NEW a \in Actors, NEW k \in Keys,
               ExecuteBegins(c, a, k) \/ ProposeBegins(c, a, k)
        PROVE  GateInv'
    BY <1>2, BeginsGate
  <1>3. ASSUME NEW c \in Calls, NEW p \in People, NEW k \in Keys, ApprovalClaims(c, p, k)
        PROVE  GateInv'
    BY <1>3, ApprovalClaimsGate
  <1>4. ASSUME NEW p \in People, NEW k \in Keys, Reject(p, k) \/ Cancel(p, k)
        PROVE  GateInv'
    BY <1>4, RefusedGate
  <1>5. People \subseteq Actors
    BY DEF Actors
  <1> QED
    BY <1>1, <1>2, <1>3, <1>4, <1>5, SwitchTurnsGate DEF Next

(***************************************************************************)
(* What follows.                                                           *)
(***************************************************************************)
LEMMA Gate == Spec => []GateInv
  BY InitGate, NextGate, PTL DEF Spec

(* Rows and calls keep their types, for any keys, actors, calls and bounds. *)
THEOREM RegistryTypes == Spec => []TypeOK
  <1>1. GateInv => TypeOK
    BY DEF GateInv
  <1> QED
    BY <1>1, Gate, PTL

(* However many calls, proposals, approvals and crashes meet on a key, its
   operation takes effect at most once. *)
THEOREM RegistryRunsOnce == Spec => []RunsOncePerKey
  <1>1. GateInv => RunsOncePerKey
    BY DEF GateInv, ExecutionIsTrue, RunsOncePerKey
  <1> QED
    BY <1>1, Gate, PTL

(* No effect without its audit row. *)
THEOREM RegistryAudits == Spec => []NothingUnaudited
  <1>1. GateInv => NothingUnaudited
    BY DEF GateInv, ExecutionIsTrue, NothingUnaudited
  <1> QED
    BY <1>1, Gate, PTL

(* A COMPLETED row took effect, an EXECUTED proposal was completed by the
   person who decided it. *)
THEOREM RegistryReportsTruth == Spec => []OutcomeIsTrue
  <1>1. GateInv => OutcomeIsTrue
    BY DEF GateInv, ExecutionIsTrue, ProposalIsTrue, OutcomeIsTrue
  <1> QED
    BY <1>1, Gate, PTL

(* What nobody was allowed alone was approved by another than its proposer. *)
THEOREM RegistryFourEyes == Spec => []TwoPairsOfEyes
  <1>1. GateInv => TwoPairsOfEyes
    BY DEF GateInv, ProposalIsTrue, TwoPairsOfEyes
  <1> QED
    BY <1>1, Gate, PTL

(* A rejected or withdrawn proposal was never carried out. *)
THEOREM RegistryHonoursRefusal == Spec => []WithdrawnNeverRuns
  <1>1. GateInv => WithdrawnNeverRuns
    BY DEF GateInv, ProposalIsTrue, WithdrawnNeverRuns
  <1> QED
    BY <1>1, Gate, PTL

(* A decision is final: it is kept by whoever made it, and changes only from
   EXECUTING to its outcome. *)
LEMMA StepKeepsDecisions == GateInv /\ [Next]_vars => DecisionKept
  <1> SUFFICES ASSUME GateInv, [Next]_vars PROVE DecisionKept
    OBVIOUS
  <1>1. CASE proposal' = proposal
    BY <1>1 DEF DecisionKept
  <1>2. ASSUME NEW c \in Calls, ProposalFiled(c) PROVE DecisionKept
    <2> PICK k \in Keys : k = call[c].key
      BY <1>2, Typed DEF ProposalFiled, GateInv
    <2>1. \A j \in Keys : proposal[j].status # "NONE" => proposal'[j] = proposal[j]
      BY <1>2, Typed DEF ProposalFiled, GateInv
    <2> QED
      BY <2>1 DEF DecisionKept
  <1>3. ASSUME NEW k \in Keys, NEW p \in People, NEW status \in Statuses, Decide(k, status, p)
        PROVE  DecisionKept
    <2>1. proposal[k].status = "PENDING" /\ \A j \in Keys \ {k} : proposal'[j] = proposal[j]
      BY <1>3, ProposalDecided, Typed DEF GateInv, Decide, Decided
    <2> QED
      BY <2>1 DEF DecisionKept
  <1>4. ASSUME NEW c \in Calls, ProposalExecuted(c) \/ ProposalFailed(c), proposal' # proposal
        PROVE  DecisionKept
    <2> PICK k \in Keys : k = call[c].key
      BY <1>4, Typed DEF ProposalExecuted, ProposalFailed, GateInv
    <2>1. proposal[k].status = "EXECUTING"
      BY <1>4 DEF ProposalExecuted, ProposalFailed, GateInv, CallIsTrue, ExecutionEarned,
                  ApprovalHolds
    <2>2. PICK status \in {"EXECUTED", "FAILED"} :
            proposal' = [proposal EXCEPT ![k].status = status]
      BY <1>4 DEF ProposalExecuted, ProposalFailed
    <2>3. Decided(k, status, proposal[k].by, proposal[k].decider)
      BY <2>2, OutcomeWritten, Typed DEF GateInv, Statuses
    <2> QED
      BY <2>1, <2>3 DEF DecisionKept, Decided
  <1>5. \/ proposal' = proposal
        \/ \E c \in Calls : ProposalFiled(c)
        \/ \E k \in Keys, p \in People, status \in Statuses : Decide(k, status, p)
        \/ \E c \in Calls : ProposalExecuted(c) \/ ProposalFailed(c)
    BY DEF Next, CallSteps, ExecuteBegins, ProposeBegins, ApprovalClaims, Reject, Cancel,
           FourEyesAsked, TransactionCommits, ClaimRefused, ClaimInserted, EffectRuns,
           CompletionWritten, FailureWritten, Crash, SwitchTurns, vars, Statuses
  <1> QED
    BY <1>1, <1>2, <1>3, <1>4, <1>5

(* No decision on a proposal is ever undone, moved or given to someone else. *)
THEOREM RegistryDecidesOnce == Spec => DecidedStaysDecided
  BY Gate, StepKeepsDecisions, PTL DEF Spec, DecidedStaysDecided
=============================================================================
