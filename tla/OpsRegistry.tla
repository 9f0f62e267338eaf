----------------------------- MODULE OpsRegistry -----------------------------
(***************************************************************************)
(* The gate every MONEY operation passes: an idempotency key claimed once, *)
(* an audit row with every effect, and the four-eyes queue, in which one   *)
(* actor proposes and another person approves.  API calls interleave at    *)
(* every await and may die at any of them.                                 *)
(*                                                                         *)
(* A key stands for one operation on one input: the refusal of a key that  *)
(* comes back with other inputs is left out.  So are permissions, step-up  *)
(* and reasons, which only narrow who may call, and the preconditions,     *)
(* which may refuse any call at any check.                                 *)
(*                                                                         *)
(* Sources: ops/operations.registry.ts, ops-proposals.service.ts and       *)
(* ops-rbac.service.ts.                                                    *)
(***************************************************************************)
EXTENDS Integers, FiniteSets

CONSTANTS
  Keys,          \* idempotency keys
  People,        \* operators
  Agents,        \* agents: they propose, and never execute
  Calls,         \* API calls open at a time
  None,          \* no actor, no key
  MaxCrashes,    \* bound: calls that die half-way
  MaxSwitches    \* bound: times four-eyes is turned on or off

ASSUME ActorsAssumption == People \cap Agents = {} /\ None \notin Keys \cup People \cup Agents
ASSUME BoundsAssumption == MaxCrashes \in Nat /\ MaxSwitches \in Nat

VARIABLES
  orchestrated, \* the keys of operations that call the provider; it never changes
  fourEyes,   \* what fourEyesEffective() answers
  switches,
  execution,  \* OperationExecution.status by key, "NONE" before the row exists
  audited,    \* the audit row of the execution exists
  ran,        \* how often the operation took effect
  ranBy,      \* who made it take effect
  alone,      \* ... having been told that no second person is needed
  proposal,   \* OperationProposal by key: status, proposedById, decidedById
  call,       \* each open call: its stage, its kind, its actor, its key
  crashes

execVars == <<execution, audited, ran, ranBy, alone>>
switchVars == <<orchestrated, fourEyes, switches>>
vars == <<switchVars, execVars, proposal, call, crashes>>

Actors == People \cup Agents
NoProposal == [status |-> "NONE", by |-> None, decider |-> None]
Idle == [at |-> "idle", kind |-> "execute", who |-> None, key |-> None]

(* The awaits of a call, in the order it meets them. *)
Stages == {"idle", "asked", "queue", "claim", "effect", "completing", "failing",
           "executed", "failed"}
(* An "execute" call turns "alone" when four-eyes lets it through. *)
Kinds == {"execute", "alone", "propose", "approve"}

Init ==
  /\ orchestrated \in SUBSET Keys
  /\ fourEyes \in BOOLEAN /\ switches = 0
  /\ execution = [k \in Keys |-> "NONE"]
  /\ audited = [k \in Keys |-> FALSE]
  /\ ran = [k \in Keys |-> 0]
  /\ ranBy = [k \in Keys |-> None]
  /\ alone = [k \in Keys |-> FALSE]
  /\ proposal = [k \in Keys |-> NoProposal]
  /\ call = [c \in Calls |-> Idle]
  /\ crashes = 0

(***************************************************************************)
(* How a call goes on.                                                     *)
(***************************************************************************)
Goes(c, stage) == call' = [call EXCEPT ![c].at = stage]
Returns(c) == call' = [call EXCEPT ![c] = Idle]
(* An exception: the approval's catch turns it into a FAILED proposal. *)
Throws(c) == IF call[c].kind = "approve" THEN Goes(c, "failed") ELSE Returns(c)

(* op.execute: the effect, credited to the call that made it. *)
TakesEffect(c) ==
  LET k == call[c].key IN
  /\ ran' = [ran EXCEPT ![k] = @ + 1]
  /\ ranBy' = [ranBy EXCEPT ![k] = call[c].who]
  /\ alone' = [alone EXCEPT ![k] = (call[c].kind = "alone")]
NoEffect == UNCHANGED <<ran, ranBy, alone>>

(***************************************************************************)
(* execute() and propose().                                                *)
(***************************************************************************)
(* A key that has a row is replayed or refused, and changes nothing. *)
ExecuteBegins(c, p, k) ==
  /\ call[c].at = "idle"
  /\ execution[k] = "NONE"
  /\ call' = [call EXCEPT ![c] = [at |-> "asked", kind |-> "execute", who |-> p, key |-> k]]
  /\ UNCHANGED <<switchVars, execVars, proposal, crashes>>

MustQueue == fourEyes

FourEyesAsked(c) ==
  /\ call[c].at = "asked"
  /\ IF MustQueue
     THEN Goes(c, "queue")
     ELSE call' = [call EXCEPT ![c].at = "claim", ![c].kind = "alone"]
  /\ UNCHANGED <<switchVars, execVars, proposal, crashes>>

(* No prior execution is looked for here. *)
ProposeBegins(c, a, k) ==
  /\ call[c].at = "idle"
  /\ call' = [call EXCEPT ![c] = [at |-> "queue", kind |-> "propose", who |-> a, key |-> k]]
  /\ UNCHANGED <<switchVars, execVars, proposal, crashes>>

(* MUTANT: a FAILED proposal is opened again under its key. *)
ProposalRefiled(c) ==
  /\ call[c].at = "queue"
  /\ proposal' = IF proposal[call[c].key].status \in {"NONE", "FAILED"}
                 THEN [proposal EXCEPT ![call[c].key] =
                         [status |-> "PENDING", by |-> call[c].who, decider |-> None]]
                 ELSE proposal
  /\ Returns(c)
  /\ UNCHANGED <<switchVars, execVars, crashes>>

(* The key of a proposal is unique: one that exists is returned as it is. *)
ProposalFiled(c) ==
  LET k == call[c].key IN
  /\ call[c].at = "queue"
  /\ proposal' = IF proposal[k].status = "NONE"
                 THEN [proposal EXCEPT ![k] = [status |-> "PENDING", by |-> call[c].who,
                                               decider |-> None]]
                 ELSE proposal
  /\ Returns(c)
  /\ UNCHANGED <<switchVars, execVars, crashes>>

(***************************************************************************)
(* The decision: whoever finds the proposal PENDING takes it.              *)
(***************************************************************************)
(* MUTANT: the update does not ask for PENDING again. *)
DecideUnread(k, status, p) ==
  /\ proposal[k].status # "NONE"
  /\ proposal' = [proposal EXCEPT ![k].status = status, ![k].decider = p]

Decide(k, status, p) ==
  /\ proposal[k].status = "PENDING"
  /\ proposal' = [proposal EXCEPT ![k].status = status, ![k].decider = p]

(* MUTANT: the proposer may approve. *)
AnyoneApproves(p, k) == p \in People /\ k \in Keys

MayApprove(p, k) == p # proposal[k].by

ApprovalClaims(c, p, k) ==
  /\ call[c].at = "idle"
  /\ MayApprove(p, k)
  /\ Decide(k, "EXECUTING", p)
  /\ call' = [call EXCEPT ![c] = [at |-> "claim", kind |-> "approve", who |-> p, key |-> k]]
  /\ UNCHANGED <<switchVars, execVars, crashes>>

(* Whoever holds money.approve, the proposer included. *)
Reject(p, k) ==
  /\ Decide(k, "REJECTED", p)
  /\ UNCHANGED <<switchVars, execVars, call, crashes>>

Cancel(p, k) ==
  /\ p = proposal[k].by
  /\ Decide(k, "CANCELLED", p)
  /\ UNCHANGED <<switchVars, execVars, call, crashes>>

(***************************************************************************)
(* executeTransactional: effect, row and audit in one transaction.         *)
(***************************************************************************)
(* MUTANT: a FAILED execution may be tried again under its key. *)
RowMayBeRetried(k) == execution[k] \in {"NONE", "FAILED"}

RowIsNew(k) == execution[k] = "NONE"

TransactionCommits(c) ==
  LET k == call[c].key IN
  /\ call[c].at = "claim" /\ k \notin orchestrated
  /\ RowIsNew(k)
  /\ TakesEffect(c)
  /\ execution' = [execution EXCEPT ![k] = "COMPLETED"]
  /\ audited' = [audited EXCEPT ![k] = TRUE]
  /\ IF call[c].kind = "approve" THEN Goes(c, "executed") ELSE Returns(c)
  /\ UNCHANGED <<switchVars, proposal, crashes>>

(* A precondition, the operation or the unique key refuses: for either kind
   of operation nothing has been written yet. *)
ClaimRefused(c) ==
  /\ call[c].at = "claim"
  /\ Throws(c)
  /\ UNCHANGED <<switchVars, execVars, proposal, crashes>>

(***************************************************************************)
(* executeOrchestrated: the row is claimed, then the provider is called,   *)
(* then the outcome is written.                                            *)
(***************************************************************************)
(* MUTANT: the audit row of an orchestrated call is left out. *)
ClaimUnaudited(c) ==
  /\ call[c].at = "claim" /\ call[c].key \in orchestrated
  /\ RowIsNew(call[c].key)
  /\ execution' = [execution EXCEPT ![call[c].key] = "CLAIMED"]
  /\ NoEffect
  /\ Goes(c, "effect")
  /\ UNCHANGED <<switchVars, audited, proposal, crashes>>

ClaimInserted(c) ==
  LET k == call[c].key IN
  /\ call[c].at = "claim" /\ k \in orchestrated
  /\ RowIsNew(k)
  /\ execution' = [execution EXCEPT ![k] = "CLAIMED"]
  /\ audited' = [audited EXCEPT ![k] = TRUE]
  /\ NoEffect
  /\ Goes(c, "effect")
  /\ UNCHANGED <<switchVars, proposal, crashes>>

(* MUTANT: the provider's refusal is swallowed. *)
EffectSwallowed(c) ==
  /\ call[c].at = "effect"
  /\ TakesEffect(c) \/ NoEffect
  /\ Goes(c, "completing")
  /\ UNCHANGED <<switchVars, execution, audited, proposal, crashes>>

(* The operation returns, throws before it did anything, or throws after. *)
EffectRuns(c) ==
  /\ call[c].at = "effect"
  /\ \/ TakesEffect(c) /\ Goes(c, "completing")
     \/ TakesEffect(c) /\ Goes(c, "failing")
     \/ NoEffect /\ Goes(c, "failing")
  /\ UNCHANGED <<switchVars, execution, audited, proposal, crashes>>

(* The update is inside the try: if it fails, the catch writes FAILED. *)
CompletionWritten(c) ==
  LET k == call[c].key IN
  /\ call[c].at = "completing"
  /\ \/ /\ execution' = [execution EXCEPT ![k] = "COMPLETED"]
        /\ IF call[c].kind = "approve" THEN Goes(c, "executed") ELSE Returns(c)
     \/ execution' = execution /\ Goes(c, "failing")
  /\ NoEffect
  /\ UNCHANGED <<switchVars, audited, proposal, crashes>>

(* The failure of this write is swallowed. *)
FailureWritten(c) ==
  LET k == call[c].key IN
  /\ call[c].at = "failing"
  /\ execution' \in {execution, [execution EXCEPT ![k] = "FAILED"]}
  /\ NoEffect
  /\ Throws(c)
  /\ UNCHANGED <<switchVars, audited, proposal, crashes>>

(***************************************************************************)
(* executeProposal, once the operation has returned or thrown.             *)
(***************************************************************************)
ProposalExecuted(c) ==
  /\ call[c].at = "executed"
  /\ \/ /\ proposal' = [proposal EXCEPT ![call[c].key].status = "EXECUTED"]
        /\ Returns(c)
     \/ proposal' = proposal /\ Goes(c, "failed")
  /\ UNCHANGED <<switchVars, execVars, crashes>>

ProposalFailed(c) ==
  /\ call[c].at = "failed"
  /\ proposal' \in {proposal, [proposal EXCEPT ![call[c].key].status = "FAILED"]}
  /\ Returns(c)
  /\ UNCHANGED <<switchVars, execVars, crashes>>

(***************************************************************************)
(* The process dies under a call, and a money admin joins or leaves.       *)
(***************************************************************************)
Crash(c) ==
  /\ call[c].at # "idle" /\ crashes < MaxCrashes
  /\ crashes' = crashes + 1
  /\ Returns(c)
  /\ UNCHANGED <<switchVars, execVars, proposal>>

SwitchTurns ==
  /\ switches < MaxSwitches
  /\ switches' = switches + 1
  /\ fourEyes' = ~fourEyes
  /\ UNCHANGED <<orchestrated, execVars, proposal, call, crashes>>

CallSteps(c) ==
  \/ FourEyesAsked(c) \/ ProposalFiled(c)
  \/ TransactionCommits(c) \/ ClaimRefused(c)
  \/ ClaimInserted(c) \/ EffectRuns(c) \/ CompletionWritten(c) \/ FailureWritten(c)
  \/ ProposalExecuted(c) \/ ProposalFailed(c)
  \/ Crash(c)

Next ==
  \/ \E c \in Calls : CallSteps(c)
  \/ \E c \in Calls, p \in People, k \in Keys :
       ExecuteBegins(c, p, k) \/ ApprovalClaims(c, p, k)
  \/ \E c \in Calls, a \in Actors, k \in Keys : ProposeBegins(c, a, k)
  \/ \E p \in People, k \in Keys : Reject(p, k) \/ Cancel(p, k)
  \/ SwitchTurns

Spec == Init /\ [][Next]_vars

(***************************************************************************)
(* Properties.                                                             *)
(***************************************************************************)
(* Every variable stays in the set its column or local allows. *)
TypeOK ==
  /\ orchestrated \subseteq Keys
  /\ fourEyes \in BOOLEAN /\ switches \in 0..MaxSwitches
  /\ execution \in [Keys -> {"NONE", "CLAIMED", "COMPLETED", "FAILED"}]
  /\ audited \in [Keys -> BOOLEAN]
  /\ ran \in [Keys -> Nat]
  /\ ranBy \in [Keys -> Actors \cup {None}]
  /\ alone \in [Keys -> BOOLEAN]
  /\ proposal \in [Keys -> [status : {"NONE", "PENDING", "EXECUTING", "EXECUTED",
                                      "REJECTED", "CANCELLED", "FAILED"},
                            by : Actors \cup {None}, decider : People \cup {None}]]
  /\ call \in [Calls -> [at : Stages, kind : Kinds, who : Actors \cup {None},
                         key : Keys \cup {None}]]
  /\ \A c \in Calls : call[c].at # "idle" => call[c].key \in Keys
  /\ crashes \in 0..MaxCrashes

(* However a key comes back - a retry, a second call at the same time, a
   proposal and an execution, an approval after a crash - its operation takes
   effect at most once (the unique idempotencyKey, executeOrchestrated's claim). *)
RunsOncePerKey == \A k \in Keys : ran[k] <= 1

(* "No audit = no commit": at no moment has an operation taken effect that no
   audit row accounts for, whether it is transactional or orchestrated. *)
NothingUnaudited == \A k \in Keys : ran[k] > 0 => audited[k]

(* What the rows report is so: a COMPLETED execution took effect, and an
   EXECUTED proposal points to a COMPLETED execution, whoever claimed the key. *)
OutcomeIsTrue ==
  \A k \in Keys :
    /\ execution[k] = "COMPLETED" => ran[k] > 0
    /\ proposal[k].status = "EXECUTED" =>
         execution[k] = "COMPLETED" /\ ranBy[k] = proposal[k].decider

(* Four eyes: what nobody was allowed to do alone was done by the person who
   decided its proposal, and that is not the actor who proposed it. *)
TwoPairsOfEyes ==
  \A k \in Keys :
    ran[k] > 0 /\ ~alone[k] =>
      /\ ranBy[k] \in People
      /\ proposal[k].by \in Actors
      /\ ranBy[k] = proposal[k].decider
      /\ ranBy[k] # proposal[k].by

(* A rejected or withdrawn proposal was never carried out, also when the
   approval, the rejection and the withdrawal arrive together. *)
WithdrawnNeverRuns ==
  \A k \in Keys :
    proposal[k].status \in {"REJECTED", "CANCELLED"} /\ ran[k] > 0 => alone[k]

(* A decision is final: no later call re-opens a proposal, takes it from the
   person who decided it, or turns one outcome into another. *)
DecisionKept ==
  \A k \in Keys :
    proposal[k].status \notin {"NONE", "PENDING"} =>
      /\ proposal'[k].decider = proposal[k].decider
      /\ proposal'[k].by = proposal[k].by
      /\ proposal[k].status # "EXECUTING" => proposal'[k] = proposal[k]
      /\ proposal'[k].status \in {proposal[k].status, "EXECUTED", "FAILED"}
DecidedStaysDecided == [][DecisionKept]_vars
=============================================================================
