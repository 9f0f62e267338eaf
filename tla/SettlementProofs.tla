-------------------------- MODULE SettlementProofs --------------------------
(***************************************************************************)
(* What Settlement guarantees for every set of pledges, settlers and tabs, *)
(* every threshold and every number of crashes: its types, that a card is  *)
(* charged only for a campaign judged successful, that a verdict is final, *)
(* that the rows never run ahead of the provider, that REALIZED covers     *)
(* what was captured; without deadline overrides, that it implements       *)
(* AllOrNothing; and in the orderly course, that success stands on money   *)
(* still pledged.                                                          *)
(***************************************************************************)
EXTENDS Settlement, FiniteSetTheorems, WellFoundedInduction, TLAPS

-----------------------------------------------------------------------------
(* Sums over finite sets.  SumFunctionOnSet is a fold, a recursive function *)
(* chosen by its equation: that the equation has a solution, that the order *)
(* of the elements does not matter and what a sum does when an element is   *)
(* added or taken out are proved here by minimal counterexample.            *)

(* The element the fold takes next. *)
Picked(s) == CHOOSE x \in s : TRUE

(* g is the running sum the community fold computes over the subsets of S.  *)
RunningSum(f, S, g) ==
  g = [s \in SUBSET S |-> IF s = {} THEN 0 ELSE f[Picked(s)] + g[s \ {Picked(s)}]]

(* A sum is the value at S of some function the recursion describes. *)
LEMMA SumUnfolds ==
  ASSUME NEW f, NEW S
  PROVE SumFunctionOnSet(f, S) = (CHOOSE g : RunningSum(f, S, g))[S]
BY DEF SumFunctionOnSet, FoldFunctionOnSet, MapThenFoldSet, RunningSum, Picked

(* A non-empty family of subsets of a finite set has a minimal member.  *)
LEMMA MinimalSubset ==
  ASSUME NEW S, IsFiniteSet(S), NEW T, T \subseteq SUBSET S, T # {}
  PROVE  \E U \in T : \A V \in T : V \subseteq U => V = U
<1>1. IsWellFoundedOn(StrictSubsetOrdering(S), SUBSET S)
  BY FS_FiniteSubsetsOfFinite, FS_StrictSubsetOrderingWellFounded
<1>2. \E U \in T : \A V \in T : <<V, U>> \notin StrictSubsetOrdering(S)
  BY <1>1, WFMin
<1> QED
  BY <1>2 DEF StrictSubsetOrdering

(* The element picked from a non-empty set belongs to it. *)
LEMMA PickedIn == ASSUME NEW s, s # {} PROVE Picked(s) \in s
BY DEF Picked

(* A running sum starts at zero and adds the element picked. *)
LEMMA RunningSumEquations ==
  ASSUME NEW f, NEW S, NEW g, RunningSum(f, S, g)
  PROVE  /\ g[{}] = 0
         /\ \A s \in SUBSET S :
              s # {} => g[s] = f[Picked(s)] + g[s \ {Picked(s)}]
BY DEF RunningSum

(* Two running sums agree wherever both are defined.  *)
LEMMA RunningSumsAgree ==
  ASSUME NEW f, NEW S, IsFiniteSet(S), NEW g, RunningSum(f, S, g),
         NEW S2, NEW h, RunningSum(f, S2, h), NEW s, s \subseteq S, s \subseteq S2
  PROVE  g[s] = h[s]
<1> DEFINE Differ == {t \in SUBSET S : t \subseteq S2 /\ g[t] # h[t]}
<1> SUFFICES ASSUME Differ # {} PROVE FALSE
  OBVIOUS
<1>1. PICK U \in Differ : \A V \in Differ : V \subseteq U => V = U
  <2> Differ \subseteq SUBSET S
    OBVIOUS
  <2> HIDE DEF Differ
  <2> QED
    BY MinimalSubset
<1>2. U # {}
  BY RunningSumEquations
<1>3. Picked(U) \in U
  BY <1>2, PickedIn
<1>4. g[U \ {Picked(U)}] = h[U \ {Picked(U)}]
  BY <1>1, <1>3
<1> QED
  BY <1>1, <1>2, <1>4, RunningSumEquations

(* The fold's recursion has a solution on every finite set.  *)
LEMMA RunningSumExists ==
  ASSUME NEW f, NEW S, IsFiniteSet(S)
  PROVE  \E g : RunningSum(f, S, g)
<1> DEFINE None == {t \in SUBSET S : ~\E g : RunningSum(f, t, g)}
<1> SUFFICES ASSUME None # {} PROVE FALSE
  OBVIOUS
<1>1. PICK U \in None : \A V \in None : V \subseteq U => V = U
  <2> None \subseteq SUBSET S
    OBVIOUS
  <2> HIDE DEF None
  <2> QED
    BY MinimalSubset
<1> DEFINE G(V) == CHOOSE g : RunningSum(f, V, g)
           h == [s \in SUBSET U |-> IF s = {} THEN 0
                   ELSE f[Picked(s)] + G(s \ {Picked(s)})[s \ {Picked(s)}]]
<1>2. \A V \in SUBSET U : V # U => RunningSum(f, V, G(V)) /\ IsFiniteSet(V)
  <2>1. \A V \in SUBSET U : V # U => (\E g : RunningSum(f, V, g)) /\ IsFiniteSet(V)
    BY <1>1, FS_Subset
  <2> QED
    BY <2>1
<1>3. ASSUME NEW V \in SUBSET U, V # U PROVE h[V] = G(V)[V]
  <2>1. CASE V = {}
    <3>1. h[V] = 0
      BY <2>1
    <3>2. G(V)[V] = 0
      <4> HIDE DEF G
      <4> QED
        BY <2>1, <1>2, <1>3, RunningSumEquations
    <3> QED
      BY <3>1, <3>2
  <2>2. CASE V # {}
    <3> DEFINE W == V \ {Picked(V)}
    <3>1. W \in SUBSET U /\ W # U /\ W \subseteq V
      <4>1. W \subseteq V /\ V \subseteq U /\ V # U
        BY <1>3
      <4> HIDE DEF W
      <4> QED
        BY <4>1
    <3>2. G(V)[W] = G(W)[W]
      <4>1. RunningSum(f, V, G(V)) /\ RunningSum(f, W, G(W)) /\ IsFiniteSet(V)
        BY <3>1, <1>2, <1>3
      <4> HIDE DEF G, W
      <4> QED
        BY ONLY <3>1, <4>1, W \subseteq W, RunningSumsAgree
    <3>3. G(V)[V] = f[Picked(V)] + G(V)[W]
      <4> HIDE DEF G
      <4> QED
        BY <2>2, <1>2, <1>3, RunningSumEquations
    <3> HIDE DEF G
    <3> QED
      BY <2>2, <3>2, <3>3
  <2> QED
    BY <2>1, <2>2
<1>4. \A s \in SUBSET U : s # {} => s \ {Picked(s)} \in SUBSET U /\ s \ {Picked(s)} # U
  BY PickedIn
<1>5. RunningSum(f, U, h)
  <2> HIDE DEF G
  <2>1. \A s \in SUBSET U : s # {} => G(s \ {Picked(s)})[s \ {Picked(s)}] = h[s \ {Picked(s)}]
    BY <1>3, <1>4
  <2> QED
    BY <2>1 DEF RunningSum
<1> QED
  BY <1>1, <1>5

(* Nothing sums to zero. *)
LEMMA SumEmpty == ASSUME NEW f PROVE SumFunctionOnSet(f, {}) = 0
<1>1. \E g : RunningSum(f, {}, g)
  BY RunningSumExists, FS_EmptySet
<1> QED
  BY <1>1, SumUnfolds, RunningSumEquations

(* The sum over a set adds the element picked to the sum over the rest. *)
LEMMA SumStep ==
  ASSUME NEW f, NEW S, IsFiniteSet(S), S # {}
  PROVE  SumFunctionOnSet(f, S) = f[Picked(S)] + SumFunctionOnSet(f, S \ {Picked(S)})
<1> DEFINE G(V) == CHOOSE g : RunningSum(f, V, g)
           W == S \ {Picked(S)}
<1>1. IsFiniteSet(W)
  BY FS_Subset
<1>2. RunningSum(f, S, G(S)) /\ RunningSum(f, W, G(W))
  <2>1. (\E g : RunningSum(f, S, g)) /\ (\E g : RunningSum(f, W, g))
    BY <1>1, RunningSumExists
  <2> QED
    BY <2>1
<1>3. G(S)[W] = G(W)[W]
  <2> W \subseteq S /\ W \subseteq W
    OBVIOUS
  <2> HIDE DEF G, W
  <2> QED
    BY ONLY IsFiniteSet(S), W \subseteq S, W \subseteq W, <1>2, RunningSumsAgree
<1>4. G(S)[S] = f[Picked(S)] + G(S)[W]
  <2> HIDE DEF G
  <2> QED
    BY <1>2, RunningSumEquations
<1> QED
  BY <1>3, <1>4, SumUnfolds

(* A sum of naturals is a natural. *)
LEMMA SumNat ==
  ASSUME NEW f, NEW S, IsFiniteSet(S), \A x \in S : f[x] \in Nat
  PROVE  SumFunctionOnSet(f, S) \in Nat
<1> DEFINE Bad == {t \in SUBSET S : SumFunctionOnSet(f, t) \notin Nat}
<1> SUFFICES ASSUME Bad # {} PROVE FALSE
  OBVIOUS
<1>1. PICK U \in Bad : \A V \in Bad : V \subseteq U => V = U
  <2> Bad \subseteq SUBSET S
    OBVIOUS
  <2> HIDE DEF Bad
  <2> QED
    BY MinimalSubset
<1>2. U # {}
  BY SumEmpty
<1>3. Picked(U) \in U
  BY <1>2, PickedIn
<1>4. SumFunctionOnSet(f, U \ {Picked(U)}) \in Nat
  BY <1>1, <1>3
<1>5. IsFiniteSet(U)
  BY FS_Subset
<1> QED
  BY <1>2, <1>3, <1>4, <1>5, SumStep

(* The order in which the elements are taken does not matter.  *)
LEMMA SumRemove ==
  ASSUME NEW f, NEW S, IsFiniteSet(S), \A x \in S : f[x] \in Nat, NEW y \in S
  PROVE  SumFunctionOnSet(f, S) = f[y] + SumFunctionOnSet(f, S \ {y})
<1> DEFINE Sum(t) == SumFunctionOnSet(f, t)
           Bad == {t \in SUBSET S : \E x \in t : Sum(t) # f[x] + Sum(t \ {x})}
<1> SUFFICES ASSUME Bad # {} PROVE FALSE
  OBVIOUS
<1>1. PICK U \in Bad : \A V \in Bad : V \subseteq U => V = U
  <2> Bad \subseteq SUBSET S
    OBVIOUS
  <2> HIDE DEF Bad
  <2> QED
    BY MinimalSubset
<1>2. PICK x \in U : Sum(U) # f[x] + Sum(U \ {x})
  OBVIOUS
<1> DEFINE p == Picked(U)
<1>3. p \in U
  BY PickedIn
<1>4. \A t \in SUBSET S : IsFiniteSet(t) /\ Sum(t) \in Nat
  BY FS_Subset, SumNat
<1>5. Sum(U) = f[p] + Sum(U \ {p})
  BY <1>3, <1>4, SumStep
<1>6. x # p
  BY <1>2, <1>5
<1>7. Sum(U \ {p}) = f[x] + Sum((U \ {p}) \ {x})
  <2> U \ {p} \notin Bad /\ x \in U \ {p} /\ U \ {p} \in SUBSET S
    BY <1>1, <1>3, <1>6
  <2> QED
    OBVIOUS
<1>8. Sum(U \ {x}) = f[p] + Sum((U \ {x}) \ {p})
  <2> U \ {x} \notin Bad /\ p \in U \ {x} /\ U \ {x} \in SUBSET S
    BY <1>1, <1>3, <1>6
  <2> QED
    OBVIOUS
<1>9. (U \ {x}) \ {p} = (U \ {p}) \ {x}
  OBVIOUS
<1>10. f[x] \in Nat /\ f[p] \in Nat /\ Sum((U \ {p}) \ {x}) \in Nat
  BY <1>3, <1>4
<1>11. Sum((U \ {x}) \ {p}) = Sum((U \ {p}) \ {x})
  BY <1>9
<1> HIDE DEF Sum, p
<1> QED
  BY <1>2, <1>5, <1>7, <1>8, <1>10, <1>11

(* One more element adds its value. *)
LEMMA SumAdd ==
  ASSUME NEW f, NEW S, IsFiniteSet(S), \A x \in S : f[x] \in Nat,
         NEW y, y \notin S, f[y] \in Nat
  PROVE  SumFunctionOnSet(f, S \cup {y}) = f[y] + SumFunctionOnSet(f, S)
<1>1. IsFiniteSet(S \cup {y})
  BY FS_AddElement
<1>2. (S \cup {y}) \ {y} = S
  OBVIOUS
<1> DEFINE T == S \cup {y}
<1>3. y \in T /\ \A x \in T : f[x] \in Nat
  OBVIOUS
<1>4. SumFunctionOnSet(f, T) = f[y] + SumFunctionOnSet(f, T \ {y})
  <2> HIDE DEF T
  <2> QED
    BY <1>1, <1>3, SumRemove DEF T
<1> QED
  BY <1>2, <1>4

(* Two sums over disjoint sets make the sum over their union.  *)
LEMMA SumUnion ==
  ASSUME NEW f, NEW S, IsFiniteSet(S), NEW T, IsFiniteSet(T), S \cap T = {},
         \A x \in S \cup T : f[x] \in Nat
  PROVE  SumFunctionOnSet(f, S \cup T) = SumFunctionOnSet(f, S) + SumFunctionOnSet(f, T)
<1> DEFINE Sum(t) == SumFunctionOnSet(f, t)
           Bad == {t \in SUBSET T : Sum(S \cup t) # Sum(S) + Sum(t)}
<1> SUFFICES ASSUME Bad # {} PROVE FALSE
  OBVIOUS
<1>1. PICK U \in Bad : \A V \in Bad : V \subseteq U => V = U
  <2> Bad \subseteq SUBSET T
    OBVIOUS
  <2> HIDE DEF Bad
  <2> QED
    BY MinimalSubset
<1>2. Sum(S) \in Nat
  BY SumNat
<1>3. U # {}
  <2>1. Sum({}) = 0 /\ S \cup {} = S
    BY SumEmpty
  <2> HIDE DEF Sum
  <2> QED
    BY <1>2, <2>1
<1>4. PICK x \in U : TRUE
  BY <1>3
<1> DEFINE V == U \ {x}
<1>5. Sum(S \cup V) = Sum(S) + Sum(V)
  <2> V \in SUBSET T /\ V \notin Bad
    BY <1>1
  <2> QED
    OBVIOUS
<1>6. IsFiniteSet(U) /\ IsFiniteSet(V) /\ IsFiniteSet(S \cup U)
  BY FS_Subset, FS_Union
<1>7. Sum(U) = f[x] + Sum(V)
  BY <1>6, SumRemove
<1>8. Sum(S \cup U) = f[x] + Sum((S \cup U) \ {x})
  <2>1. x \in S \cup U /\ \A y \in S \cup U : f[y] \in Nat
    OBVIOUS
  <2> QED
    BY <1>6, <2>1, SumRemove
<1>9. (S \cup U) \ {x} = S \cup V
  OBVIOUS
<1>10. f[x] \in Nat /\ Sum(V) \in Nat
  BY <1>6, SumNat
<1>11. Sum(S \cup U) # Sum(S) + Sum(U)
  OBVIOUS
<1>12. Sum(S \cup U) = f[x] + Sum(S \cup V)
  BY <1>8, <1>9
<1> HIDE DEF Sum, V
<1> QED
  BY <1>2, <1>5, <1>7, <1>10, <1>11, <1>12

(* Taking more elements does not lower a sum of naturals.  *)
LEMMA SumMonotone ==
  ASSUME NEW f, NEW T, IsFiniteSet(T), \A x \in T : f[x] \in Nat,
         NEW S, S \subseteq T
  PROVE  SumFunctionOnSet(f, S) <= SumFunctionOnSet(f, T)
<1>1. IsFiniteSet(S) /\ IsFiniteSet(T \ S) /\ S \cup (T \ S) = T /\ S \cap (T \ S) = {}
  BY FS_Subset
<1>2. SumFunctionOnSet(f, T) = SumFunctionOnSet(f, S) + SumFunctionOnSet(f, T \ S)
  <2>1. \A x \in S \cup (T \ S) : f[x] \in Nat
    BY <1>1
  <2>2. SumFunctionOnSet(f, S \cup (T \ S))
          = SumFunctionOnSet(f, S) + SumFunctionOnSet(f, T \ S)
    BY <1>1, <2>1, SumUnion
  <2> QED
    BY <1>1, <2>2
<1>3. SumFunctionOnSet(f, S) \in Nat /\ SumFunctionOnSet(f, T \ S) \in Nat
  BY <1>1, SumNat
<1> QED
  BY <1>2, <1>3

-----------------------------------------------------------------------------
USE PledgesAssumption

(* A settler's locals are replaced or updated within their type. *)
LEMMA LocalsUpdated ==
  ASSUME settler \in [Settlers -> Locals], NEW s \in Settlers
  PROVE  /\ Idle \in Locals
         /\ \A a \in {"idle", "read", "claimed", "query", "sweep"} :
              [settler[s] EXCEPT !.at = a] \in Locals
         /\ [settler[s] EXCEPT !.at = "query", !.pass = 2] \in Locals
         /\ \A l \in Locals : [settler EXCEPT ![s] = l] \in [Settlers -> Locals]
<1>1. settler[s] \in Locals
  OBVIOUS
<1> QED
  BY <1>1 DEF Locals, Idle

(* Types are preserved by every step of every handler.  Spec => []TypeOK.   *)
THEOREM TypeCorrect == Spec => []TypeOK
<1>1. Init => TypeOK
  BY DEF Init, TypeOK, PledgeStatus, Active, Succeeded, Failed, NoTask, Idle, Locals
<1>2. TypeOK /\ [Next]_vars => TypeOK'
  <2> SUFFICES ASSUME TypeOK, [Next]_vars PROVE TypeOK'
    OBVIOUS
  <2> USE DEF TypeOK, PledgeStatus, Active, Succeeded, Failed,
              counterVars, pledgeVars, handlerVars, settlerVars, boundVars
  <2>1. ASSUME ClockAdvances PROVE TypeOK'
    BY <2>1 DEF ClockAdvances
  <2>2. ASSUME DeadlineOverride PROVE TypeOK'
    BY <2>2 DEF DeadlineOverride
  <2>3. ASSUME Pause PROVE TypeOK'
    BY <2>3 DEF Pause
  <2>4. ASSUME Unpause PROVE TypeOK'
    BY <2>4 DEF Unpause
  <2>5. ASSUME Crash PROVE TypeOK'
    <3>1. CASE \E s \in Settlers :
                 /\ settler' = [settler EXCEPT ![s] = Idle]
                 /\ task' = [task EXCEPT ![s] = NoTask]
                 /\ UNCHANGED handlerVars
      <4> PICK s \in Settlers : /\ settler' = [settler EXCEPT ![s] = Idle]
                                /\ task' = [task EXCEPT ![s] = NoTask]
        BY <3>1
      <4>1. settler' \in [Settlers -> Locals]
        BY LocalsUpdated
      <4> QED
        BY <2>5, <3>1, <4>1 DEF Crash, NoTask
    <3>2. CASE /\ UNCHANGED <<cancel, reauth, hook, settlerVars>>
               /\ \E p \in Pledges : request' = [request EXCEPT ![p] = "over"]
      BY <2>5, <3>2 DEF Crash
    <3>3. CASE /\ UNCHANGED <<request, reauth, hook, settlerVars>>
               /\ \E p \in Pledges, t \in Tabs : cancel' = [cancel EXCEPT ![p][t] = "over"]
      <4>1. cancel' \in [Pledges -> [Tabs -> {"none", "void", "flip", "count", "over"}]]
        BY <3>3
      <4> QED
        BY <2>5, <3>3, <4>1 DEF Crash
    <3>4. CASE /\ UNCHANGED <<request, cancel, reauth, settlerVars>>
               /\ \E p \in Pledges : hook' = [hook EXCEPT ![p] = "over"]
      BY <2>5, <3>4 DEF Crash
    <3>5. CASE /\ UNCHANGED <<request, cancel, hook, settlerVars>>
               /\ \E p \in Pledges : reauth' = [reauth EXCEPT ![p] = "none"]
      BY <2>5, <3>5 DEF Crash
    <3> QED
      BY <2>5, <3>1, <3>2, <3>3, <3>4, <3>5 DEF Crash
  <2>6. ASSUME NEW p \in Pledges, PledgeAdmitted(p) PROVE TypeOK'
    BY <2>6 DEF PledgeAdmitted
  <2>7. ASSUME NEW p \in Pledges, PledgeInserted(p) PROVE TypeOK'
    BY <2>7 DEF PledgeInserted
  <2>8. ASSUME NEW p \in Pledges, HoldAuthorized(p) PROVE TypeOK'
    BY <2>8 DEF HoldAuthorized
  <2>9. ASSUME NEW p \in Pledges, HoldFails(p) PROVE TypeOK'
    BY <2>9 DEF HoldFails
  <2>10. ASSUME NEW p \in Pledges, PledgeCommitted(p) PROVE TypeOK'
    BY <2>10 DEF PledgeCommitted
  <2>11. ASSUME NEW p \in Pledges, HoldLapses(p) PROVE TypeOK'
    BY <2>11 DEF HoldLapses
  <2>12. ASSUME NEW p \in Pledges, ReauthReads(p) \/ ReauthRefused(p) PROVE TypeOK'
    BY ZenonT(60), <2>12 DEF ReauthReads, ReauthRefused
  <2>40. ASSUME NEW p \in Pledges, Reauthorized(p) PROVE TypeOK'
    BY <2>40 DEF Reauthorized
  <2>41. ASSUME NEW s \in Settlers, NEW p \in Pledges, RowReadAgain(s, p) PROVE TypeOK'
    BY <2>41 DEF RowReadAgain
  <2>13. ASSUME NEW p \in Pledges, ReauthParks(p) PROVE TypeOK'
    BY <2>13 DEF ReauthParks
  <2>14. ASSUME NEW p \in Pledges, HookReads(p) PROVE TypeOK'
    BY <2>14 DEF HookReads
  <2>15. ASSUME NEW p \in Pledges, HookWrites(p) PROVE TypeOK'
    <3>1. Contribution[p] \in Nat /\ realized + Contribution[p] \in Nat
      OBVIOUS
    <3>2. realized' \in Nat /\ status' \in [Pledges -> PledgeStatus]
      BY <2>15, <3>1 DEF HookWrites
    <3> QED
      BY <2>15, <3>2 DEF HookWrites
  <2>16. ASSUME NEW p \in Pledges, NEW t \in Tabs, CancelAdmitted(p, t) PROVE TypeOK'
    BY <2>16 DEF CancelAdmitted
  <2>17. ASSUME NEW p \in Pledges, NEW t \in Tabs, CancelVoided(p, t) PROVE TypeOK'
    BY <2>17 DEF CancelVoided
  <2>18. ASSUME NEW p \in Pledges, NEW t \in Tabs, CancelRefused(p, t) PROVE TypeOK'
    BY <2>18 DEF CancelRefused
  <2>19. ASSUME NEW p \in Pledges, NEW t \in Tabs, CancelFlipped(p, t) PROVE TypeOK'
    BY <2>19 DEF CancelFlipped
  <2>20. ASSUME NEW p \in Pledges, NEW t \in Tabs, CancelCounted(p, t) PROVE TypeOK'
    BY <2>20 DEF CancelCounted
  <2>21. ASSUME NEW s \in Settlers, SettleReads(s) PROVE TypeOK'
    <3>1. [at |-> "read", job |-> "settle", good |-> raised >= Threshold, pass |-> 1] \in Locals
      BY DEF Locals
    <3>2. settler' \in [Settlers -> Locals]
      BY <2>21, <3>1 DEF SettleReads, Start
    <3> QED
      BY <2>21, <3>2 DEF SettleReads, Start
  <2>22. ASSUME NEW s \in Settlers, CampaignCancelled(s) PROVE TypeOK'
    <3>1. [at |-> "query", job |-> "cancel", good |-> FALSE, pass |-> 1] \in Locals
      BY DEF Locals
    <3>2. settler' \in [Settlers -> Locals]
      BY <2>22, <3>1 DEF CampaignCancelled, Start
    <3> QED
      BY <2>22, <3>2 DEF CampaignCancelled, Start
  <2>23. ASSUME NEW s \in Settlers, ForceClosed(s) PROVE TypeOK'
    <3>1. [at |-> "query", job |-> "close", good |-> FALSE, pass |-> 2] \in Locals
      BY DEF Locals
    <3>2. settler' \in [Settlers -> Locals]
      BY <2>23, <3>1 DEF ForceClosed, Start
    <3> QED
      BY <2>23, <3>2 DEF ForceClosed, Start
  <2>24. ASSUME NEW s \in Settlers, ResidueSweep(s) PROVE TypeOK'
    <3>1. [at |-> "query", job |-> "residue", good |-> project \in Succeeded, pass |-> 2] \in Locals
      BY DEF Locals
    <3>2. settler' \in [Settlers -> Locals]
      BY <2>24, <3>1 DEF ResidueSweep, Start
    <3> QED
      BY <2>24, <3>2 DEF ResidueSweep, Start
  <2>25. ASSUME NEW s \in Settlers, SettleClaims(s) PROVE TypeOK'
    <3>1. settler' \in [Settlers -> Locals]
      BY ZenonT(60), <2>25, LocalsUpdated DEF SettleClaims
    <3> QED
      BY <2>25, <3>1 DEF SettleClaims
  <2>26. ASSUME NEW s \in Settlers, IntentsSettled(s) PROVE TypeOK'
    <3>1. settler' \in [Settlers -> Locals]
      BY <2>26, LocalsUpdated DEF IntentsSettled
    <3> QED
      BY <2>26, <3>1 DEF IntentsSettled
  <2>27. ASSUME NEW s \in Settlers, SweepQueries(s) PROVE TypeOK'
    <3>1. settler' \in [Settlers -> Locals]
      BY <2>27, LocalsUpdated DEF SweepQueries
    <3> QED
      BY <2>27, <3>1 DEF SweepQueries
  <2>28. ASSUME NEW s \in Settlers, SecondSweep(s) PROVE TypeOK'
    <3>1. settler' \in [Settlers -> Locals]
      BY <2>28, LocalsUpdated DEF SecondSweep
    <3> QED
      BY <2>28, <3>1 DEF SecondSweep
  <2>29. ASSUME NEW s \in Settlers, SettlerFinishes(s) PROVE TypeOK'
    <3>1. settler' \in [Settlers -> Locals]
      BY <2>29, LocalsUpdated DEF SettlerFinishes
    <3> QED
      BY <2>29, <3>1 DEF SettlerFinishes
  <2>30. ASSUME NEW s \in Settlers, NEW p \in Pledges, PspCaptures(s, p) PROVE TypeOK'
    <3>1. /\ psp' = [psp EXCEPT ![p] = "captured"]
          /\ Settles(s, p, "ok") \/ Settles(s, p, "refused")
      BY <2>30 DEF PspCaptures
    <3>2. PICK answer \in {"ok", "refused"} : Settles(s, p, answer)
      BY <3>1
    <3>3. task' = [task EXCEPT ![s] = [task[s] EXCEPT ![p] = answer]]
      BY <3>2 DEF Settles
    <3> QED
      BY <3>1, <3>2, <3>3 DEF Settles
  <2>31. ASSUME NEW s \in Settlers, NEW p \in Pledges, PspVoids(s, p) PROVE TypeOK'
    <3>1. /\ psp' = [psp EXCEPT ![p] = "voided"]
          /\ Settles(s, p, "ok") \/ Settles(s, p, "refused")
      BY <2>31 DEF PspVoids
    <3>2. PICK answer \in {"ok", "refused"} : Settles(s, p, answer)
      BY <3>1
    <3>3. task' = [task EXCEPT ![s] = [task[s] EXCEPT ![p] = answer]]
      BY <3>2 DEF Settles
    <3> QED
      BY <3>1, <3>2, <3>3 DEF Settles
  <2>32. ASSUME NEW s \in Settlers, NEW p \in Pledges, PspRefuses(s, p) PROVE TypeOK'
    BY <2>32 DEF PspRefuses, Settles
  <2>33. ASSUME NEW s \in Settlers, NEW p \in Pledges, MarkCaptured(s, p) PROVE TypeOK'
    BY <2>33 DEF MarkCaptured, WriteDone
  <2>34. ASSUME NEW s \in Settlers, NEW p \in Pledges, EnterGrace(s, p) PROVE TypeOK'
    BY <2>34 DEF EnterGrace, WriteDone
  <2>35. ASSUME NEW s \in Settlers, NEW p \in Pledges, MarkRefunded(s, p) PROVE TypeOK'
    BY <2>35 DEF MarkRefunded, WriteDone
  <2>36. ASSUME NEW s \in Settlers, NEW p \in Pledges, LeaveHeld(s, p) PROVE TypeOK'
    BY <2>36 DEF LeaveHeld, WriteDone
  <2>37. CASE UNCHANGED vars
    BY <2>37 DEF vars
  <2> QED
        BY <2>40, <2>41, <2>1, <2>2, <2>3, <2>4, <2>5, <2>6, <2>7, <2>8, <2>9, <2>10, <2>11, <2>12,
       <2>13, <2>14, <2>15, <2>16, <2>17, <2>18, <2>19, <2>20, <2>21, <2>22, <2>23,
       <2>24, <2>25, <2>26, <2>27, <2>28, <2>29, <2>30, <2>31, <2>32, <2>33, <2>34,
       <2>35, <2>36, <2>37 DEF Next, PledgeStep, CancelStep, SettlerStarts, SettlerStep,
       SweepStep
<1> QED
  BY <1>1, <1>2, PTL DEF Spec

-----------------------------------------------------------------------------
(* A settler past its claim holds the verdict it was given: nobody else can *)
(* have moved the campaign to the other side.                               *)
VerdictInv ==
  \A s \in Settlers : settler[s].at \in {"claimed", "query", "sweep"} =>
     IF settler[s].good THEN project \in Succeeded ELSE project \in Failed

(* A payment that was captured or voided stays so, and one is captured only *)
(* by the sweep of a settler that holds a successful verdict.               *)
PaymentsMove ==
  \A p \in Pledges :
     /\ psp[p] = "captured" => psp'[p] = "captured"
     /\ psp[p] = "voided" => psp'[p] = "voided"
     /\ psp'[p] = "captured" /\ psp[p] # "captured" =>
          \E s \in Settlers : settler[s].at = "sweep" /\ settler[s].good

(* The provider knows nothing of a payment before it was authorized. *)
UnaskedInv ==
  \A p \in Pledges : request[p] \in {"none", "admitted", "inserted"} => psp[p] = "none"

(* Only the pledge request asks the provider first, and only once. *)
LEMMA Unasked == TypeOK /\ UnaskedInv /\ [Next]_vars => UnaskedInv'
  <1> SUFFICES ASSUME TypeOK, UnaskedInv, [Next]_vars PROVE UnaskedInv'
    OBVIOUS
  <1> USE DEF TypeOK, UnaskedInv, counterVars, pledgeVars, handlerVars, settlerVars, boundVars
  <1>1. CASE UNCHANGED <<request, psp>>
    BY <1>1
  <1>2. ASSUME NEW p \in Pledges, PledgeStep(p) PROVE UnaskedInv'
    BY <1>2 DEF PledgeStep, PledgeAdmitted, PledgeInserted, HoldAuthorized, HoldFails,
       PledgeCommitted, HoldLapses, ReauthReads, Reauthorized,
       ReauthRefused, ReauthParks, HookReads, HookWrites
  <1>3. ASSUME NEW p \in Pledges, NEW t \in Tabs, CancelStep(p, t) PROVE UnaskedInv'
    BY <1>3 DEF CancelStep, CancelAdmitted, CancelVoided, CancelRefused, CancelFlipped,
       CancelCounted, MayVoid
  <1>4. ASSUME NEW s \in Settlers, NEW p \in Pledges, SweepStep(s, p) PROVE UnaskedInv'
    BY <1>4 DEF SweepStep, RowReadAgain, PspCaptures, PspVoids, PspRefuses, MarkCaptured,
       EnterGrace, MarkRefunded, LeaveHeld, Settles, WriteDone, MayCapture, MayVoid
  <1>5. CASE Crash
    BY <1>5 DEF Crash
  <1>6. ASSUME NEW s \in Settlers, SettlerStarts(s) PROVE UnaskedInv'
    BY <1>6, <1>1 DEF SettlerStarts, SettleReads, CampaignCancelled, ForceClosed,
       ResidueSweep, Start
  <1>7. ASSUME NEW s \in Settlers,
               SettleClaims(s) \/ IntentsSettled(s) \/ SweepQueries(s) \/ SecondSweep(s)
                 \/ SettlerFinishes(s)
        PROVE UnaskedInv'
    BY <1>7, <1>1 DEF SettleClaims, IntentsSettled, SweepQueries, SecondSweep,
       SettlerFinishes
  <1> QED
    BY <1>1, <1>2, <1>3, <1>4, <1>5, <1>6, <1>7 DEF Next, SettlerStep, vars,
       ClockAdvances, DeadlineOverride, Pause, Unpause

(* No handler takes a capture or a void back, and only that sweep captures. *)
LEMMA Payments == TypeOK /\ UnaskedInv /\ [Next]_vars => PaymentsMove
  <1> SUFFICES ASSUME TypeOK, UnaskedInv, [Next]_vars PROVE PaymentsMove
    OBVIOUS
  <1> USE DEF TypeOK, UnaskedInv, PaymentsMove, counterVars, pledgeVars, handlerVars,
              settlerVars, boundVars
  <1>1. CASE UNCHANGED psp
    BY <1>1
  <1>2. ASSUME NEW p \in Pledges, PledgeStep(p) PROVE PaymentsMove
    BY <1>2 DEF PledgeStep, PledgeAdmitted, PledgeInserted, HoldAuthorized, HoldFails,
       PledgeCommitted, HoldLapses, ReauthReads, Reauthorized,
       ReauthRefused, ReauthParks, HookReads, HookWrites
  <1>3. ASSUME NEW p \in Pledges, NEW t \in Tabs, CancelStep(p, t) PROVE PaymentsMove
    BY <1>3 DEF CancelStep, CancelAdmitted, CancelVoided, CancelRefused, CancelFlipped,
       CancelCounted, MayVoid
  <1>4. ASSUME NEW s \in Settlers, NEW p \in Pledges, SweepStep(s, p) PROVE PaymentsMove
    BY <1>4 DEF SweepStep, RowReadAgain, PspCaptures, PspVoids, PspRefuses, MarkCaptured,
       EnterGrace, MarkRefunded, LeaveHeld, Settles, WriteDone, MayCapture, MayVoid
  <1>5. ASSUME NEW s \in Settlers, SettlerStarts(s) PROVE PaymentsMove
    BY <1>5, <1>1 DEF SettlerStarts, SettleReads, CampaignCancelled, ForceClosed,
       ResidueSweep, Start
  <1>6. ASSUME NEW s \in Settlers,
               SettleClaims(s) \/ IntentsSettled(s) \/ SweepQueries(s) \/ SecondSweep(s)
                 \/ SettlerFinishes(s)
        PROVE PaymentsMove
    BY <1>6, <1>1 DEF SettleClaims, IntentsSettled, SweepQueries, SecondSweep,
       SettlerFinishes
  <1> QED
    BY <1>1, <1>2, <1>3, <1>4, <1>5, <1>6 DEF Next, SettlerStep, vars,
       ClockAdvances, DeadlineOverride, Pause, Unpause, Crash

(* The handlers of pledges, cancellations and webhooks leave the campaign's *)
(* status and the settlers alone.                                           *)
LEMMA HandlersLeaveVerdict ==
  ASSUME NEW p \in Pledges, PledgeStep(p) \/ \E t \in Tabs : CancelStep(p, t)
  PROVE  UNCHANGED <<project, settler>>
  BY DEF PledgeStep, PledgeAdmitted, PledgeInserted, HoldAuthorized, HoldFails,
     PledgeCommitted, HoldLapses, ReauthReads, Reauthorized,
       ReauthRefused, ReauthParks, HookReads, HookWrites,
     CancelStep, CancelAdmitted, CancelVoided, CancelRefused, CancelFlipped, CancelCounted,
     settlerVars

(* Neither does the sweep of a single pledge. *)
LEMMA SweepLeavesVerdict ==
  ASSUME NEW s \in Settlers, NEW p \in Pledges, SweepStep(s, p)
  PROVE  UNCHANGED <<project, settler>>
  BY DEF SweepStep, RowReadAgain, PspCaptures, PspVoids, PspRefuses, MarkCaptured,
     EnterGrace, MarkRefunded, LeaveHeld, Settles, WriteDone

(* The campaign is judged by a claim alone, and every claim finds it open. *)
VerdictStep == /\ project \in Succeeded => project' \in Succeeded
               /\ project \in Failed => project' \in Failed

(* Every action keeps a settler's verdict in line with the campaign's, and  *)
(* none takes the campaign's back.                                          *)
LEMMA VerdictKept == TypeOK /\ VerdictInv /\ [Next]_vars => VerdictInv' /\ VerdictStep
  <1> SUFFICES ASSUME TypeOK, VerdictInv, [Next]_vars PROVE VerdictInv' /\ VerdictStep
    OBVIOUS
  <1> USE DEF TypeOK, VerdictInv, VerdictStep, Active, Succeeded, Failed, settlerVars, Locals
  <1>1. CASE UNCHANGED <<project, settler>>
    BY <1>1
  <1>2. CASE Pause \/ Unpause
    BY <1>2 DEF Pause, Unpause
  <1>3. CASE Crash
    <2>1. UNCHANGED project
      BY <1>3 DEF Crash
    <2>2. CASE UNCHANGED settler
      BY <2>1, <2>2
    <2>3. CASE \E s \in Settlers : settler' = [settler EXCEPT ![s] = Idle]
      <3>1. \A s \in Settlers : settler'[s] = settler[s] \/ settler'[s].at = "idle"
        BY <2>3 DEF Idle
      <3> QED
        BY <2>1, <3>1
    <2> QED
      BY <1>3, <2>2, <2>3 DEF Crash
  <1>4. ASSUME NEW s \in Settlers, SettleReads(s) PROVE VerdictInv' /\ VerdictStep
    BY <1>4 DEF SettleReads, Start
  <1>5. ASSUME NEW s \in Settlers, CampaignCancelled(s) PROVE VerdictInv' /\ VerdictStep
    BY <1>5 DEF CampaignCancelled, Start
  <1>6. ASSUME NEW s \in Settlers, ForceClosed(s) PROVE VerdictInv' /\ VerdictStep
    BY <1>6 DEF ForceClosed, Start
  <1>7. ASSUME NEW s \in Settlers, ResidueSweep(s) PROVE VerdictInv' /\ VerdictStep
    BY <1>7 DEF ResidueSweep, Start
  <1>8. ASSUME NEW s \in Settlers, SettleClaims(s) PROVE VerdictInv' /\ VerdictStep
    <2>1. CASE project \in Active
      <3>1. /\ \A r \in Settlers : settler[r].at \notin {"claimed", "query", "sweep"}
            /\ settler' = [settler EXCEPT ![s].at = "claimed"]
            /\ project' = IF settler[s].good THEN "SUCCESSFUL" ELSE "FAILED"
        BY <1>8, <2>1 DEF SettleClaims
      <3>2. /\ settler'[s].good = settler[s].good
            /\ \A r \in Settlers \ {s} : settler'[r] = settler[r]
        BY <3>1
      <3> QED
        BY <2>1, <3>1, <3>2
    <2>2. CASE project \notin Active
      <3>1. /\ UNCHANGED project
            /\ settler' = [settler EXCEPT ![s] = Idle]
        BY <1>8, <2>2 DEF SettleClaims
      <3>2. settler'[s].at = "idle" /\ \A r \in Settlers \ {s} : settler'[r] = settler[r]
        BY <3>1 DEF Idle
      <3> QED
        BY <3>1, <3>2
    <2> QED
      BY <2>1, <2>2
  <1>9. ASSUME NEW s \in Settlers, IntentsSettled(s) \/ SweepQueries(s) \/ SecondSweep(s)
        PROVE  VerdictInv' /\ VerdictStep
    <2>1. UNCHANGED project
      BY <1>9 DEF IntentsSettled, SweepQueries, SecondSweep
    <2>2. /\ settler[s].at \in {"claimed", "query", "sweep"}
          /\ settler'[s].good = settler[s].good
      BY <1>9 DEF IntentsSettled, SweepQueries, SecondSweep
    <2>3. \A r \in Settlers \ {s} : settler'[r] = settler[r]
      BY <1>9 DEF IntentsSettled, SweepQueries, SecondSweep
    <2> QED
      BY <2>1, <2>2, <2>3
  <1>10. ASSUME NEW s \in Settlers, SettlerFinishes(s) PROVE VerdictInv' /\ VerdictStep
    BY <1>10 DEF SettlerFinishes, Idle
  <1> QED
    BY <1>1, <1>2, <1>3, <1>4, <1>5, <1>6, <1>7, <1>8, <1>9, <1>10,
       HandlersLeaveVerdict, SweepLeavesVerdict
    DEF Next, SettlerStarts, SettlerStep, vars, ClockAdvances, DeadlineOverride

(* The compare-and-set claims make a verdict final (VerdictFinal), whatever *)
(* settles, cancels, closes, sweeps, crashes or overrides the deadline.     *)
THEOREM VerdictIsFinal == Spec => VerdictFinal
<1>1. Init => VerdictInv
  BY DEF Init, VerdictInv, Idle
<1>2. TypeOK /\ VerdictInv /\ [Next]_vars => VerdictInv' /\ [VerdictStep]_project
  BY VerdictKept
<1> QED
  BY TypeCorrect, <1>1, <1>2, PTL DEF Spec, VerdictFinal, VerdictStep

(* The inductive invariant behind the all-or-nothing rule. *)
ChargeInv == UnaskedInv /\ VerdictInv /\ ChargedOnlyOnSuccess

(* It is inductive: a new capture comes from a settler that holds success.  *)
LEMMA ChargeKept == TypeOK /\ ChargeInv /\ [Next]_vars => ChargeInv'
  <1> SUFFICES ASSUME TypeOK, ChargeInv, [Next]_vars PROVE ChargeInv'
    OBVIOUS
  <1>1. UnaskedInv' /\ VerdictInv' /\ VerdictStep /\ PaymentsMove
    BY Unasked, Payments, VerdictKept DEF ChargeInv
  <1>2. ASSUME NEW p \in Pledges, psp'[p] = "captured" PROVE project' \in Succeeded
    <2>1. CASE psp[p] = "captured"
      BY <1>1, <2>1 DEF ChargeInv, ChargedOnlyOnSuccess, VerdictStep
    <2>2. CASE psp[p] # "captured"
      <3> PICK s \in Settlers : settler[s].at = "sweep" /\ settler[s].good
        BY <1>1, <1>2, <2>2 DEF PaymentsMove
      <3> QED
        BY <1>1 DEF ChargeInv, VerdictInv, VerdictStep
    <2> QED
      BY <2>1, <2>2
  <1> QED
    BY <1>1, <1>2 DEF ChargeInv, ChargedOnlyOnSuccess

(* It holds in every reachable state. *)
LEMMA ChargeAlways == Spec => []ChargeInv
<1>1. Init => ChargeInv
  BY DEF Init, ChargeInv, UnaskedInv, VerdictInv, ChargedOnlyOnSuccess, Idle
<1> QED
  BY TypeCorrect, ChargeKept, <1>1, PTL DEF Spec

(* No card is ever charged for a campaign that was not judged successful    *)
(* (ChargedOnlyOnSuccess), for any number of pledges, processes and crashes.*)
THEOREM NoChargeWithoutSuccess == Spec => []ChargedOnlyOnSuccess
  BY ChargeAlways, PTL DEF ChargeInv

-----------------------------------------------------------------------------
(* What makes a write from a stale snapshot right: the answer a handler     *)
(* remembers still describes the payment, since payments settle for good.   *)
AnswersHold ==
  /\ \A s \in Settlers : settler[s].at # "sweep" => task[s] = NoTask
  /\ \A s \in Settlers, p \in Pledges : task[s][p] = "ok" =>
       psp[p] = IF settler[s].good THEN "captured" ELSE "voided"
  /\ \A p \in Cards, t \in Tabs : cancel[p][t] \in {"flip", "count"} => psp[p] = "voided"
  /\ \A p \in Pledges : hook[p] = "write" => psp[p] \in {"captured", "voided"}

RowInv ==
  /\ UnaskedInv
  /\ AnswersHold
  /\ \A p \in Cards : status[p] # "PENDING_BNPL"
  /\ RowsMatchProvider

(* It is inductive: each write of a row follows the answer it is based on.  *)
LEMMA RowsKept == TypeOK /\ RowInv /\ [Next]_vars => RowInv'
  <1> SUFFICES ASSUME TypeOK, RowInv, [Next]_vars PROVE RowInv'
    OBVIOUS
  <1>0. UnaskedInv' /\ PaymentsMove
    BY Unasked, Payments DEF RowInv
  <1> DEFINE Rest == /\ AnswersHold
                     /\ \A p \in Cards : status[p] # "PENDING_BNPL"
                     /\ RowsMatchProvider
  <1> SUFFICES Rest'
    BY <1>0 DEF RowInv
  <1> USE <1>0 DEF TypeOK, RowInv, AnswersHold, RowsMatchProvider, PaymentsMove, Pledges,
                   counterVars, pledgeVars, handlerVars, settlerVars, boundVars
  <1>1. CASE ClockAdvances \/ DeadlineOverride \/ Pause \/ Unpause \/ UNCHANGED vars
    BY <1>1 DEF ClockAdvances, DeadlineOverride, Pause, Unpause, vars
  <1>2. CASE Crash
    <2>1. CASE \E s \in Settlers : /\ settler' = [settler EXCEPT ![s] = Idle]
                                  /\ task' = [task EXCEPT ![s] = NoTask]
                                  /\ UNCHANGED handlerVars
      <3> PICK s \in Settlers : /\ settler' = [settler EXCEPT ![s] = Idle]
                                /\ task' = [task EXCEPT ![s] = NoTask]
        BY <2>1
      <3>1. /\ task'[s] = NoTask /\ \A p \in Pledges : task'[s][p] # "ok"
            /\ \A r \in Settlers \ {s} : settler'[r] = settler[r] /\ task'[r] = task[r]
        BY DEF NoTask
      <3> QED
        BY <1>2, <2>1, <3>1 DEF Crash
    <2>2. CASE UNCHANGED settlerVars
      BY <1>2, <2>2 DEF Crash
    <2> QED
      BY <1>2, <2>1, <2>2 DEF Crash
  <1>3. ASSUME NEW p \in Pledges,
               PledgeAdmitted(p) \/ PledgeInserted(p) \/ HoldAuthorized(p) \/ HoldFails(p)
                 \/ PledgeCommitted(p)
        PROVE Rest'
    BY <1>3 DEF PledgeAdmitted, PledgeInserted, HoldAuthorized, HoldFails, PledgeCommitted
  <1>4. ASSUME NEW p \in Pledges, HoldLapses(p) \/ ReauthReads(p) \/ Reauthorized(p)
                 \/ ReauthRefused(p) \/ ReauthParks(p)
        PROVE Rest'
    BY <1>4 DEF HoldLapses, ReauthReads, Reauthorized,
       ReauthRefused, ReauthParks
  <1>5. ASSUME NEW p \in Pledges, HookReads(p) \/ HookWrites(p) PROVE Rest'
    <2>1. CASE HookReads(p)
      BY <2>1 DEF HookReads
    <2>2. CASE HookWrites(p)
      <3>1. \/ psp[p] = "captured" /\ status' = [status EXCEPT ![p] = "CAPTURED"]
            \/ psp[p] = "voided" /\ status' = [status EXCEPT ![p] = "REFUNDED"]
        BY <2>2 DEF HookWrites
      <3>2. hook' = [hook EXCEPT ![p] = "over"] /\ UNCHANGED <<psp, cancel, settler, task>>
        BY <2>2 DEF HookWrites
      <3> QED
        BY <3>1, <3>2
    <2> QED
      BY <1>5, <2>1, <2>2
  <1>6. ASSUME NEW p \in Pledges, NEW t \in Tabs, CancelStep(p, t) PROVE Rest'
    <2>1. CASE CancelAdmitted(p, t)
      BY <2>1 DEF CancelAdmitted
    <2>2. CASE CancelVoided(p, t)
      BY <2>2 DEF CancelVoided, MayVoid
    <2>3. CASE CancelRefused(p, t)
      BY <2>3 DEF CancelRefused, MayVoid
    <2>4. CASE CancelFlipped(p, t)
      BY <2>4 DEF CancelFlipped
    <2>5. CASE CancelCounted(p, t)
      BY <2>5 DEF CancelCounted
    <2> QED
      BY <1>6, <2>1, <2>2, <2>3, <2>4, <2>5 DEF CancelStep
  <1>7. ASSUME NEW s \in Settlers, SettlerStarts(s) PROVE Rest'
    <2>1. /\ settler[s].at = "idle"
          /\ \A r \in Settlers \ {s} : settler'[r] = settler[r]
          /\ UNCHANGED <<status, psp, cancel, hook, task>>
      BY <1>7 DEF SettlerStarts, SettleReads, CampaignCancelled, ForceClosed, ResidueSweep,
         Start
    <2>2. task[s] = NoTask /\ \A p \in Pledges : task[s][p] # "ok"
      BY <2>1 DEF NoTask
    <2>3. \A r \in Settlers : settler'[r].at # "sweep" => task'[r] = NoTask
      BY <2>1, <2>2
    <2>4. ASSUME NEW r \in Settlers, NEW p \in Pledges, task'[r][p] = "ok"
          PROVE  psp'[p] = IF settler'[r].good THEN "captured" ELSE "voided"
      <3>1. r # s
        BY <2>4, <2>1, <2>2
      <3>2. task[r][p] = "ok" /\ psp'[p] = psp[p] /\ settler'[r] = settler[r]
        BY <2>1, <3>1, <2>4
      <3> QED
        BY <3>2
    <2> QED
      BY <2>1, <2>3, <2>4
  <1>8. ASSUME NEW s \in Settlers, SettleClaims(s) \/ IntentsSettled(s) PROVE Rest'
    <2>1. /\ settler[s].at \in {"read", "claimed"}
          /\ \A r \in Settlers \ {s} : settler'[r] = settler[r]
          /\ UNCHANGED <<psp, cancel, hook, task>>
          /\ \A p \in Cards : status'[p] = status[p]
      BY <1>8 DEF SettleClaims, IntentsSettled
    <2>2. task[s] = NoTask /\ \A p \in Pledges : task[s][p] # "ok"
      BY <2>1 DEF NoTask
    <2>3. \A r \in Settlers : settler'[r].at # "sweep" => task'[r] = NoTask
      BY <2>1, <2>2
    <2>4. ASSUME NEW r \in Settlers, NEW p \in Pledges, task'[r][p] = "ok"
          PROVE  psp'[p] = IF settler'[r].good THEN "captured" ELSE "voided"
      <3>1. r # s
        BY <2>1, <2>2, <2>4
      <3>2. task[r][p] = "ok" /\ psp'[p] = psp[p] /\ settler'[r] = settler[r]
        BY <2>1, <3>1, <2>4
      <3> QED
        BY <3>2
    <2> QED
      BY <2>1, <2>3, <2>4
  <1>9. ASSUME NEW s \in Settlers, SweepQueries(s) PROVE Rest'
    BY <1>9 DEF SweepQueries
  <1>10. ASSUME NEW s \in Settlers, SecondSweep(s) \/ SettlerFinishes(s) PROVE Rest'
    <2>1. /\ task[s] = NoTask /\ \A p \in Pledges : task[s][p] # "ok"
          /\ \A r \in Settlers \ {s} : settler'[r] = settler[r]
          /\ UNCHANGED <<status, psp, cancel, hook, task>>
      BY <1>10 DEF SecondSweep, SettlerFinishes, NoTask
    <2>2. \A r \in Settlers : settler'[r].at # "sweep" => task'[r] = NoTask
      BY <2>1
    <2>3. ASSUME NEW r \in Settlers, NEW p \in Pledges, task'[r][p] = "ok"
          PROVE  psp'[p] = IF settler'[r].good THEN "captured" ELSE "voided"
      <3>1. r # s
        BY <2>3, <2>1
      <3>2. task[r][p] = "ok" /\ psp'[p] = psp[p] /\ settler'[r] = settler[r]
        BY <2>1, <3>1, <2>3
      <3> QED
        BY <3>2
    <2> QED
      BY <2>1, <2>2, <2>3
  <1>11. ASSUME NEW s \in Settlers, NEW p \in Pledges,
                PspCaptures(s, p) \/ PspVoids(s, p) \/ PspRefuses(s, p)
         PROVE Rest'
    <2>1. PICK answer \in {"ok", "refused"} :
            /\ Settles(s, p, answer)
            /\ answer = "ok" => psp'[p] = IF settler[s].good THEN "captured" ELSE "voided"
      BY <1>11 DEF PspCaptures, PspVoids, PspRefuses
    <2>2. /\ settler[s].at = "sweep"
          /\ task' = [task EXCEPT ![s] = [task[s] EXCEPT ![p] = answer]]
          /\ UNCHANGED <<status, handlerVars, settler>>
      BY <2>1 DEF Settles
    <2>3. /\ task'[s][p] = answer
          /\ \A q \in Pledges \ {p} : task'[s][q] = task[s][q]
          /\ \A r \in Settlers \ {s} : task'[r] = task[r]
      BY <2>2
    <2> QED
      BY <2>1, <2>2, <2>3
  <1>13. ASSUME NEW s \in Settlers, NEW p \in Pledges, RowReadAgain(s, p) PROVE Rest'
    <2>1. PICK x \in {"todo", "refused"} : task' = [task EXCEPT ![s] = [task[s] EXCEPT ![p] = x]]
      BY <1>13 DEF RowReadAgain
    <2>2. settler[s].at = "sweep" /\ UNCHANGED <<status, psp, cancel, hook, settler>>
      BY <1>13 DEF RowReadAgain
    <2>3. \A r \in Settlers : settler'[r].at # "sweep" => task'[r] = NoTask
      BY <2>1, <2>2
    <2>4. \A r \in Settlers, q \in Pledges : task'[r][q] = "ok" => task[r][q] = "ok"
      BY <2>1
    <2> QED
      BY <2>2, <2>3, <2>4
  <1>12. ASSUME NEW s \in Settlers, NEW p \in Pledges,
                MarkCaptured(s, p) \/ EnterGrace(s, p) \/ MarkRefunded(s, p) \/ LeaveHeld(s, p)
         PROVE Rest'
    <2>1. /\ settler[s].at = "sweep"
          /\ task' = [task EXCEPT ![s] = [task[s] EXCEPT ![p] = "none"]]
          /\ UNCHANGED <<psp, cancel, hook, settler>>
      BY <1>12 DEF MarkCaptured, EnterGrace, MarkRefunded, LeaveHeld, WriteDone
    <2>2. \/ status' = [status EXCEPT ![p] = "CAPTURED"] /\ psp[p] = "captured"
          \/ status' = [status EXCEPT ![p] = "REFUNDED"] /\ psp[p] = "voided"
          \/ status' = [status EXCEPT ![p] = "CAPTURE_GRACE"]
          \/ UNCHANGED status
      BY <1>12 DEF MarkCaptured, EnterGrace, MarkRefunded, LeaveHeld
    <2>3. \A r \in Settlers : settler'[r].at # "sweep" => task'[r] = NoTask
      BY <2>1
    <2>4. \A r \in Settlers, q \in Pledges : task'[r][q] = "ok" => task[r][q] = "ok"
      BY <2>1
    <2> QED
      BY <2>1, <2>2, <2>3, <2>4
  <1> QED
    BY <1>1, <1>2, <1>3, <1>4, <1>5, <1>6, <1>7, <1>8, <1>9, <1>10, <1>11, <1>12,
       <1>13
    DEF Next, PledgeStep, SettlerStep, SweepStep

(* A card pledge called CAPTURED was charged and one called REFUNDED was    *)
(* released (RowsMatchProvider), though rows are written from snapshots.    *)
THEOREM RowsFollowProvider == Spec => []RowsMatchProvider
<1>1. Init => RowInv
  BY DEF Init, RowInv, UnaskedInv, AnswersHold, RowsMatchProvider, Pledges, NoTask, Idle
<1>2. RowInv => RowsMatchProvider
  BY DEF RowInv
<1> QED
  BY TypeCorrect, RowsKept, <1>1, <1>2, PTL DEF Spec

-----------------------------------------------------------------------------
(* Without overrides the 48-hour lock keeps cancellations and settlement    *)
(* apart: no void of a cancellation is in flight once the deadline passed,  *)
(* and no campaign has succeeded before it.                                 *)
LockInv ==
  /\ overrides = 0
  /\ clock = "due" =>
       \A p \in Pledges, t \in Tabs : cancel[p][t] \in {"none", "over"}
  /\ \A s \in Settlers : settler[s].at = "read" => clock = "due"
  /\ project \in Succeeded => clock = "due"

(* The lock is inductive as long as nobody moves the deadline. *)
LEMMA LockKept ==
  ASSUME MaxOverrides = 0
  PROVE  TypeOK /\ VerdictInv /\ LockInv /\ [Next]_vars => LockInv'
  <1> SUFFICES ASSUME TypeOK, VerdictInv, LockInv, [Next]_vars PROVE LockInv'
    OBVIOUS
  <1> USE DEF TypeOK, LockInv, Active, Succeeded, Failed, boundVars, handlerVars, settlerVars
  <1>1. CASE ClockAdvances
    BY <1>1 DEF ClockAdvances, CancelInFlight
  <1>2. CASE DeadlineOverride
    BY <1>2 DEF DeadlineOverride
  <1>3. CASE Pause \/ Unpause \/ UNCHANGED vars
    BY <1>3 DEF Pause, Unpause, vars
  <1>4. CASE Crash
    <2>1. UNCHANGED <<clock, project, overrides>>
      BY <1>4 DEF Crash
    <2>2. \A p \in Pledges, t \in Tabs : cancel'[p][t] \in {cancel[p][t], "over"}
      <3>1. CASE UNCHANGED handlerVars
        BY <3>1
      <3>2. CASE UNCHANGED cancel
        BY <3>2
      <3>3. CASE \E p \in Pledges, t \in Tabs : cancel' = [cancel EXCEPT ![p][t] = "over"]
        BY <3>3
      <3> QED
        BY <1>4, <3>1, <3>2, <3>3 DEF Crash
    <2>3. \A s \in Settlers : settler'[s] = settler[s] \/ settler'[s].at = "idle"
      BY <1>4 DEF Crash, Idle
    <2> QED
      BY <2>1, <2>2, <2>3
  <1>5. ASSUME NEW p \in Pledges, PledgeStep(p) PROVE LockInv'
    BY <1>5 DEF PledgeStep, PledgeAdmitted, PledgeInserted, HoldAuthorized, HoldFails,
       PledgeCommitted, HoldLapses, ReauthReads, Reauthorized,
       ReauthRefused, ReauthParks, HookReads, HookWrites
  <1>6. ASSUME NEW p \in Pledges, NEW t \in Tabs, CancelStep(p, t) PROVE LockInv'
    BY <1>6 DEF CancelStep, CancelAdmitted, CancelVoided, CancelRefused, CancelFlipped,
       CancelCounted
  <1>7. ASSUME NEW s \in Settlers, SettlerStarts(s) PROVE LockInv'
    <2>1. UNCHANGED <<clock, cancel, overrides>>
      BY <1>7 DEF SettlerStarts, SettleReads, CampaignCancelled, ForceClosed, ResidueSweep,
         Start
    <2>2. project' \in Succeeded => project \in Succeeded
      BY <1>7 DEF SettlerStarts, SettleReads, CampaignCancelled, ForceClosed, ResidueSweep
    <2>3. settler'[s].at = "read" => clock = "due"
      BY <1>7 DEF SettlerStarts, SettleReads, CampaignCancelled, ForceClosed, ResidueSweep,
         Start
    <2>4. \A r \in Settlers \ {s} : settler'[r] = settler[r]
      BY <1>7 DEF SettlerStarts, SettleReads, CampaignCancelled, ForceClosed, ResidueSweep,
         Start
    <2> QED
      BY <2>1, <2>2, <2>3, <2>4
  <1>8. ASSUME NEW s \in Settlers,
               SettleClaims(s) \/ IntentsSettled(s) \/ SweepQueries(s) \/ SecondSweep(s)
        PROVE LockInv'
    <2>1. UNCHANGED <<clock, cancel, overrides>>
      BY <1>8 DEF SettleClaims, IntentsSettled, SweepQueries, SecondSweep
    <2>2. project' \in Succeeded => project \in Succeeded \/ settler[s].at = "read"
      BY <1>8 DEF SettleClaims, IntentsSettled, SweepQueries, SecondSweep
    <2>3. PICK l : settler' = [settler EXCEPT ![s] = l] /\ l.at # "read"
      <3>1. CASE SettleClaims(s)
        BY <3>1 DEF SettleClaims, Idle, Locals
      <3>2. CASE IntentsSettled(s) \/ SweepQueries(s) \/ SecondSweep(s)
        BY <3>2 DEF IntentsSettled, SweepQueries, SecondSweep, Locals
      <3> QED
        BY <1>8, <3>1, <3>2
    <2> QED
      BY <2>1, <2>2, <2>3
  <1>9. ASSUME NEW s \in Settlers, NEW p \in Pledges, SweepStep(s, p) PROVE LockInv'
    BY <1>9 DEF SweepStep, RowReadAgain, PspCaptures, PspVoids, PspRefuses, MarkCaptured,
       EnterGrace, MarkRefunded, LeaveHeld, Settles, WriteDone
  <1>10. ASSUME NEW s \in Settlers, SettlerFinishes(s) PROVE LockInv'
    BY <1>10 DEF SettlerFinishes, VerdictInv, Idle, Locals
  <1> QED
    BY <1>1, <1>2, <1>3, <1>4, <1>5, <1>6, <1>7, <1>8, <1>9, <1>10 DEF Next, SettlerStep

(* How a payment shows in the abstract campaign. *)
MoneyOf(x) == CASE x = "none" -> "free" [] x = "captured" -> "charged"
                [] x = "voided" -> "released" [] OTHER -> "held"

(* The refinement mapping of a payment is one function of its state. *)
LEMMA MoneyIs == /\ Money \in [Pledges -> {"free", "held", "charged", "released"}]
                 /\ \A p \in Pledges : Money[p] = MoneyOf(psp[p])
  BY DEF Money, MoneyOf

(* One payment changes: the abstract money changes the same way. *)
LEMMA MoneyMoves ==
  ASSUME TypeOK, NEW p \in Pledges,
         NEW x \in {"authorized", "lapsed", "captured", "voided"},
         psp' = [psp EXCEPT ![p] = x]
  PROVE  Money' = [Money EXCEPT ![p] = MoneyOf(x)]
<1>1. psp'[p] = x /\ \A q \in Pledges \ {p} : psp'[q] = psp[q]
  BY DEF TypeOK
<1> QED
  BY <1>1 DEF Money, MoneyOf

(* Every step is a step of AllOrNothing, or leaves it unchanged. *)
LEMMA StepsImplement ==
  ASSUME MaxOverrides = 0, TypeOK, UnaskedInv, VerdictInv, LockInv, [Next]_vars
  PROVE  [Promise!Next]_<<Verdict, Money>>
  <1> DEFINE Goal == [Promise!Next]_<<Verdict, Money>>
  <1> SUFFICES Goal
    OBVIOUS
  <1> USE DEF TypeOK, counterVars, pledgeVars, handlerVars, settlerVars, boundVars
  <1>same. ASSUME UNCHANGED <<project, psp>> PROVE Goal
    BY <1>same DEF Verdict, Money
  <1>hold. ASSUME NEW p \in Pledges, UNCHANGED project, psp[p] = "none",
                  psp' = [psp EXCEPT ![p] = "authorized"]
           PROVE  Goal
    <2>1. Money[p] = "free" /\ Money' = [Money EXCEPT ![p] = "held"]
      BY <1>hold, MoneyIs, MoneyMoves DEF MoneyOf
    <2> QED
      BY <1>hold, <2>1 DEF Promise!Next, Promise!Hold, Verdict
  <1>free. ASSUME NEW p \in Pledges, UNCHANGED project, MayVoid(p), project \notin Succeeded,
                  psp' = [psp EXCEPT ![p] = "voided"]
           PROVE  Goal
    <2>1. Money' = [Money EXCEPT ![p] = "released"] /\ UNCHANGED Verdict /\ Verdict # "success"
      BY <1>free, MoneyMoves DEF MoneyOf, Verdict
    <2>2. Money[p] = "held" \/ Money[p] = "released"
      BY <1>free, MoneyIs DEF MoneyOf, MayVoid
    <2>3. CASE Money[p] = "held"
      BY <2>1, <2>3 DEF Promise!Next, Promise!Release
    <2>4. CASE Money[p] = "released"
      BY <2>1, <2>4, MoneyIs
    <2> QED
      BY <2>2, <2>3, <2>4
  <1>charge. ASSUME NEW p \in Pledges, UNCHANGED project, MayCapture(p), project \in Succeeded,
                    psp' = [psp EXCEPT ![p] = "captured"]
             PROVE  Goal
    <2>1. Money' = [Money EXCEPT ![p] = "charged"] /\ UNCHANGED Verdict /\ Verdict = "success"
      BY <1>charge, MoneyMoves DEF MoneyOf, Verdict, Active, Succeeded
    <2>2. Money[p] = "held" \/ Money[p] = "charged"
      BY <1>charge, MoneyIs DEF MoneyOf, MayCapture
    <2>3. CASE Money[p] = "held"
      BY <2>1, <2>3 DEF Promise!Next, Promise!Charge
    <2>4. CASE Money[p] = "charged"
      BY <2>1, <2>4, MoneyIs
    <2> QED
      BY <2>2, <2>3, <2>4
  <1>renew. ASSUME NEW p \in Pledges, UNCHANGED project, psp[p] \in {"authorized", "lapsed"},
                   NEW x \in {"authorized", "lapsed"}, psp' = [psp EXCEPT ![p] = x]
            PROVE  Goal
    <2>1. Money[p] = "held" /\ Money' = [Money EXCEPT ![p] = "held"]
      BY <1>renew, MoneyIs, MoneyMoves DEF MoneyOf
    <2>2. UNCHANGED <<Verdict, Money>>
      BY <1>renew, <2>1, MoneyIs DEF Verdict
    <2> QED
      BY <2>2
  <1>judge. ASSUME project \in Active, project' \in Succeeded \cup Failed, UNCHANGED psp
            PROVE  Goal
    BY <1>judge DEF Promise!Next, Promise!Judge, Promise!Verdicts, Verdict, Money, Active,
       Succeeded, Failed
  <1> USE DEF Active, Succeeded, Failed
  <1>1. CASE \/ ClockAdvances \/ DeadlineOverride \/ Crash \/ UNCHANGED vars
    BY <1>1, <1>same DEF ClockAdvances, DeadlineOverride, Crash, vars
  <1>2. CASE Pause \/ Unpause
    BY <1>2 DEF Pause, Unpause, Verdict, Money
  <1>3. ASSUME NEW p \in Pledges, HoldAuthorized(p) \/ HoldFails(p) PROVE Goal
    BY <1>3, <1>hold, <1>same DEF HoldAuthorized, HoldFails, UnaskedInv
  <1>4. ASSUME NEW p \in Pledges, HoldLapses(p) \/ Reauthorized(p) PROVE Goal
    BY <1>4, <1>renew, <1>same DEF HoldLapses, Reauthorized
  <1>5. ASSUME NEW p \in Pledges,
               PledgeAdmitted(p) \/ PledgeInserted(p) \/ PledgeCommitted(p) \/ ReauthReads(p)
                 \/ ReauthRefused(p) \/ ReauthParks(p) \/ HookReads(p) \/ HookWrites(p)
        PROVE Goal
    BY <1>5, <1>same DEF PledgeAdmitted, PledgeInserted, PledgeCommitted, ReauthReads,
       ReauthRefused, ReauthParks, HookReads, HookWrites
  <1>6. ASSUME NEW p \in Pledges, NEW t \in Tabs, CancelVoided(p, t) \/ CancelRefused(p, t)
        PROVE Goal
    <2>1. project \notin Succeeded
      BY <1>6 DEF CancelVoided, CancelRefused, LockInv
    <2> QED
      BY <1>6, <2>1, <1>free, <1>same DEF CancelVoided, CancelRefused
  <1>7. ASSUME NEW p \in Pledges, NEW t \in Tabs,
               CancelAdmitted(p, t) \/ CancelFlipped(p, t) \/ CancelCounted(p, t)
        PROVE Goal
    BY <1>7, <1>same DEF CancelAdmitted, CancelFlipped, CancelCounted
  <1>8. ASSUME NEW s \in Settlers, SettleReads(s) \/ ResidueSweep(s) PROVE Goal
    BY <1>8, <1>same DEF SettleReads, ResidueSweep, Start
  <1>9. ASSUME NEW s \in Settlers, CampaignCancelled(s) \/ ForceClosed(s) PROVE Goal
    BY <1>9, <1>judge DEF CampaignCancelled, ForceClosed, Start
  <1>10. ASSUME NEW s \in Settlers, SettleClaims(s) PROVE Goal
    BY <1>10, <1>judge, <1>same DEF SettleClaims
  <1>11. ASSUME NEW s \in Settlers, IntentsSettled(s) \/ SweepQueries(s) \/ SecondSweep(s)
         PROVE Goal
    BY <1>11, <1>same DEF IntentsSettled, SweepQueries, SecondSweep
  <1>12. ASSUME NEW s \in Settlers, SettlerFinishes(s) PROVE Goal
    <2>1. UNCHANGED Verdict
      BY <1>12 DEF SettlerFinishes, VerdictInv, Verdict, Locals
    <2> QED
      BY <1>12, <2>1 DEF SettlerFinishes, Money
  <1>13. ASSUME NEW s \in Settlers, NEW p \in Pledges, PspCaptures(s, p) PROVE Goal
    BY <1>13, <1>charge DEF PspCaptures, Settles, VerdictInv
  <1>14. ASSUME NEW s \in Settlers, NEW p \in Pledges, PspVoids(s, p) PROVE Goal
    BY <1>14, <1>free DEF PspVoids, Settles, VerdictInv
  <1>15. ASSUME NEW s \in Settlers, NEW p \in Pledges,
                RowReadAgain(s, p) \/ PspRefuses(s, p) \/ MarkCaptured(s, p)
                  \/ EnterGrace(s, p) \/ MarkRefunded(s, p) \/ LeaveHeld(s, p)
         PROVE Goal
    BY <1>15, <1>same DEF RowReadAgain, PspRefuses, MarkCaptured, EnterGrace, MarkRefunded,
       LeaveHeld, Settles, WriteDone
  <1> QED
    BY <1>1, <1>2, <1>3, <1>4, <1>5, <1>6, <1>7, <1>8, <1>9, <1>10, <1>11, <1>12, <1>13,
       <1>14, <1>15
    DEF Next, PledgeStep, CancelStep, SettlerStarts, SettlerStep, SweepStep

(* Every step of the settlement does to the money of each backer what an    *)
(* all-or-nothing campaign may do (KeepsPromise), as long as no operator    *)
(* moves the deadline: the override is what can undo the 48-hour lock.      *)
THEOREM ImplementsAllOrNothing ==
  ASSUME MaxOverrides = 0
  PROVE  Spec => KeepsPromise
<1>1. Init => Promise!Init /\ VerdictInv /\ LockInv /\ UnaskedInv
  BY DEF Init, Promise!Init, Verdict, Money, VerdictInv, LockInv, UnaskedInv, Active,
     Succeeded, Idle
<1>2. TypeOK /\ UnaskedInv /\ VerdictInv /\ LockInv /\ [Next]_vars =>
        /\ [Promise!Next]_<<Verdict, Money>>
        /\ VerdictInv' /\ LockInv' /\ UnaskedInv'
  BY StepsImplement, VerdictKept, LockKept, Unasked
<1> QED
  BY TypeCorrect, <1>1, <1>2, PTL DEF Spec, KeepsPromise, Promise!Spec

-----------------------------------------------------------------------------
(* What sets of pledges are worth. *)
LEMMA Totals ==
  ASSUME NEW S \in SUBSET Pledges
  PROVE  /\ Total(S) \in Nat
         /\ \A T \in SUBSET S : Total(T) <= Total(S)
         /\ \A p \in S : Total(S) = Contribution[p] + Total(S \ {p})
         /\ \A p \in Pledges \ S : Total(S \cup {p}) = Contribution[p] + Total(S)
<1>1. IsFiniteSet(S) /\ \A x \in S : Contribution[x] \in Nat
  BY FS_Subset
<1>2. \A T \in SUBSET S : SumFunctionOnSet(Contribution, T) <= SumFunctionOnSet(Contribution, S)
  BY <1>1, SumMonotone
<1>3. \A p \in Pledges \ S : SumFunctionOnSet(Contribution, S \cup {p})
                               = Contribution[p] + SumFunctionOnSet(Contribution, S)
  BY <1>1, SumAdd
<1> QED
  BY <1>1, <1>2, <1>3, SumNat, SumRemove DEF Total

(* The pledges the database calls captured. *)
Captured == {p \in Pledges : status[p] = "CAPTURED"}

(* REALIZED keeps up: where no row becomes CAPTURED, it may not fall... *)
LEMMA NothingCaptured ==
  ASSUME TypeOK, RealizedNeverShort, realized' = realized, Captured' \subseteq Captured
  PROVE  RealizedNeverShort'
<1>1. Total(Captured') <= Total(Captured)
  BY Totals DEF Captured
<1>2. Total(Captured') \in Nat /\ Total(Captured) \in Nat
  BY Totals DEF Captured
<1>3. realized >= Total(Captured) /\ realized \in Nat
  BY DEF RealizedNeverShort, Captured, TypeOK
<1> QED
  BY <1>1, <1>2, <1>3 DEF RealizedNeverShort, Captured

(* ...and where one does, its contribution is credited with it.  A row that *)
(* was captured already may be credited again: REALIZED is then too high.   *)
LEMMA OneCaptured ==
  ASSUME TypeOK, RealizedNeverShort, NEW p \in Pledges,
         realized' = realized + Contribution[p], Captured' \subseteq Captured \cup {p}
  PROVE  RealizedNeverShort'
<1>1. Captured \in SUBSET Pledges /\ Captured \cup {p} \in SUBSET Pledges
      /\ Captured' \in SUBSET (Captured \cup {p})
  BY DEF Captured
<1>2. Total(Captured') <= Total(Captured \cup {p}) /\ Total(Captured') \in Nat
      /\ Total(Captured \cup {p}) \in Nat
  BY <1>1, Totals
<1>3. Total(Captured \cup {p}) <= Contribution[p] + Total(Captured)
  <2>1. CASE p \in Captured
    <3>1. Captured \cup {p} = Captured
      BY <2>1
    <3> QED
      BY <1>1, <3>1, Totals
  <2>2. CASE p \notin Captured
    BY <1>1, <2>2, Totals
  <2> QED
    BY <2>1, <2>2
<1>4. realized >= Total(Captured) /\ realized \in Nat /\ Total(Captured) \in Nat
  BY <1>1, Totals DEF RealizedNeverShort, Captured, TypeOK
<1>5. realized' >= Total(Captured')
  BY <1>2, <1>3, <1>4
<1> QED
  BY <1>5 DEF RealizedNeverShort, Captured

(* Every handler that writes CAPTURED credits REALIZED in the same step. *)
LEMMA RealizedKept == TypeOK /\ RealizedNeverShort /\ [Next]_vars => RealizedNeverShort'
  <1> SUFFICES ASSUME TypeOK, RealizedNeverShort, [Next]_vars PROVE RealizedNeverShort'
    OBVIOUS
  <1> USE DEF counterVars, pledgeVars, handlerVars, settlerVars, boundVars
  <1>1. CASE UNCHANGED <<realized, status>>
    BY <1>1, NothingCaptured DEF Captured
  <1>2. ASSUME NEW p \in Pledges, NEW x \in PledgeStatus \ {"CAPTURED"},
               status' = [status EXCEPT ![p] = x], UNCHANGED realized
        PROVE  RealizedNeverShort'
    <2>1. Captured' \subseteq Captured
      BY <1>2 DEF Captured, TypeOK
    <2> QED
      BY <1>2, <2>1, NothingCaptured
  <1>3. ASSUME NEW p \in Pledges, status' = [status EXCEPT ![p] = "CAPTURED"],
               realized' = realized + Contribution[p]
        PROVE  RealizedNeverShort'
    <2>1. Captured' \subseteq Captured \cup {p}
      BY <1>3 DEF Captured, TypeOK
    <2> QED
      BY <1>3, <2>1, OneCaptured
  <1> USE DEF PledgeStatus
  <1>4. ASSUME NEW p \in Pledges, PledgeStep(p) PROVE RealizedNeverShort'
    <2>1. CASE PledgeInserted(p)
      BY <2>1, <1>2 DEF PledgeInserted
    <2>2. CASE HoldFails(p)
      BY <2>2, <1>2 DEF HoldFails
    <2>3. CASE ReauthParks(p)
      BY <2>3, <1>2, <1>1 DEF ReauthParks, TypeOK
    <2>4. CASE HookWrites(p)
      BY <2>4, <1>2, <1>3 DEF HookWrites
    <2> QED
      BY <1>4, <1>1, <2>1, <2>2, <2>3, <2>4 DEF PledgeStep, PledgeAdmitted, HoldAuthorized,
         PledgeCommitted, HoldLapses, ReauthReads, Reauthorized, ReauthRefused, HookReads
  <1>5. ASSUME NEW p \in Pledges, NEW t \in Tabs, CancelStep(p, t) PROVE RealizedNeverShort'
    BY <1>5, <1>1, <1>2 DEF CancelStep, CancelAdmitted, CancelVoided, CancelRefused,
       CancelFlipped, CancelCounted
  <1>6. ASSUME NEW s \in Settlers, SettlerStarts(s) PROVE RealizedNeverShort'
    BY <1>6, <1>1 DEF SettlerStarts, SettleReads, CampaignCancelled, ForceClosed,
       ResidueSweep, Start
  <1>7. ASSUME NEW s \in Settlers, IntentsSettled(s) PROVE RealizedNeverShort'
    <2>1. Captured' \subseteq Captured /\ UNCHANGED realized
      BY <1>7 DEF IntentsSettled, Captured, TypeOK
    <2> QED
      BY <2>1, NothingCaptured
  <1>8. ASSUME NEW s \in Settlers, NEW p \in Pledges, SweepStep(s, p) PROVE RealizedNeverShort'
    BY <1>8, <1>1, <1>2, <1>3 DEF SweepStep, RowReadAgain, PspCaptures, PspVoids, PspRefuses,
       MarkCaptured, EnterGrace, MarkRefunded, LeaveHeld, Settles, WriteDone
  <1>9. ASSUME NEW s \in Settlers,
               SettleClaims(s) \/ SweepQueries(s) \/ SecondSweep(s) \/ SettlerFinishes(s)
        PROVE  RealizedNeverShort'
    BY <1>9, <1>1 DEF SettleClaims, SweepQueries, SecondSweep, SettlerFinishes
  <1> QED
    BY <1>1, <1>4, <1>5, <1>6, <1>7, <1>8, <1>9 DEF Next, SettlerStep, vars, ClockAdvances,
       DeadlineOverride, Pause, Unpause, Crash

(* REALIZED, out of which the milestones are paid, covers the captured      *)
(* pledges in every state (RealizedNeverShort), although the sweep and the  *)
(* webhook write the same rows from snapshots and any of them may die.      *)
THEOREM RealizedCoversCaptures == Spec => []RealizedNeverShort
<1>1. Init => RealizedNeverShort
  <2> SUFFICES ASSUME Init PROVE RealizedNeverShort
    OBVIOUS
  <2>1. {p \in Pledges : status[p] = "CAPTURED"} = {}
    BY DEF Init
  <2>2. realized = 0 /\ Total({}) = 0
    BY SumEmpty DEF Init, Total
  <2> QED
    BY <2>1, <2>2 DEF RealizedNeverShort
<1> QED
  BY TypeCorrect, RealizedKept, <1>1, PTL DEF Spec

-----------------------------------------------------------------------------
(* Money behind the verdict.  Pledges about to be counted into raised, those*)
(* a cancellation is about to take out of it, and those it may stand on.    *)
Pending == {p \in Pledges : request[p] = "authorized"}
Leaving(p) == \E t \in Tabs : cancel[p][t] \in {"flip", "count"}
Backing == {p \in Pledges : /\ ref[p] \/ request[p] = "authorized"
                            /\ status[p] \in Pledged \/ Leaving(p)}

(* Once a reference is there the request is over; only a card waits for one, *)
(* and no cancellation or webhook reaches a card before it has one.         *)
RequestInv ==
  \A p \in Pledges : /\ ref[p] => request[p] = "over"
                     /\ request[p] = "inserted" => p \in Cards
                     /\ hook[p] = "write" => ref[p]
                     /\ p \in Cards => \A t \in Tabs : cancel[p][t] # "none" => ref[p]

(* A hold that was released under a row that still counts is the work of a  *)
(* cancellation that is about to flip it; a row just inserted counts.       *)
ReleaseInv ==
  \A p \in Pledges :
     /\ psp[p] = "voided" /\ status[p] \in Pledged => \E t \in Tabs : cancel[p][t] = "flip"
     /\ request[p] = "inserted" => status[p] \in Sweepable

(* raised never exceeds what stands behind it, and what a settler read when *)
(* it judged the campaign successful is still there.                        *)
BackedInv ==
  /\ raised + Total(Pending) <= Total(Backing)
  /\ \A s \in Settlers : settler[s].at = "read" /\ settler[s].good => raised >= Threshold

(* What follows matters while the campaign runs, and then only its own      *)
(* handlers have begun: no settler is past its claim.                       *)
RunningInv == /\ RequestInv
              /\ project \in Active => ReleaseInv /\ BackedInv

(* The four ways a step may move raised and the pledges behind it. *)
LEMMA SameBacking ==
  ASSUME TypeOK, raised + Total(Pending) <= Total(Backing), raised' = raised,
         Pending' \subseteq Pending, Backing \subseteq Backing'
  PROVE  raised' + Total(Pending') <= Total(Backing')
<1>1. Pending' \in SUBSET Pending /\ Backing \in SUBSET Backing'
      /\ Pending \in SUBSET Pledges /\ Backing' \in SUBSET Pledges
  BY DEF Pending, Backing
<1>2. Total(Pending') <= Total(Pending) /\ Total(Backing) <= Total(Backing')
  BY <1>1, Totals
<1>3. /\ Total(Pending) \in Nat /\ Total(Backing') \in Nat
      /\ Total(Pending') \in Nat /\ Total(Backing) \in Nat
  BY <1>1, Totals
<1> QED
  BY <1>2, <1>3 DEF TypeOK

(* A pledge is authorized: it is pending and stands behind itself. *)
LEMMA BackingJoined ==
  ASSUME TypeOK, raised + Total(Pending) <= Total(Backing), raised' = raised,
         NEW p \in Pledges, p \notin Pending, p \notin Backing,
         Pending' = Pending \cup {p}, Backing \cup {p} \subseteq Backing'
  PROVE  raised' + Total(Pending') <= Total(Backing')
<1>1. Pending \in SUBSET Pledges /\ Backing \in SUBSET Pledges /\ Backing' \in SUBSET Pledges
      /\ Backing \cup {p} \in SUBSET Backing' /\ Backing \cup {p} \in SUBSET Pledges
  BY DEF Pending, Backing
<1>2. /\ Total(Pending \cup {p}) = Contribution[p] + Total(Pending)
      /\ Total(Backing \cup {p}) = Contribution[p] + Total(Backing)
      /\ Total(Backing \cup {p}) <= Total(Backing')
  BY <1>1, Totals
<1>3. /\ Total(Pending) \in Nat /\ Total(Backing) \in Nat /\ Total(Backing') \in Nat
      /\ Contribution[p] \in Nat
  BY <1>1, Totals
<1> QED
  BY <1>2, <1>3 DEF TypeOK

(* It is committed: raised takes what was pending. *)
LEMMA BackingCommitted ==
  ASSUME TypeOK, raised + Total(Pending) <= Total(Backing), NEW p \in Pending,
         raised' = raised + Contribution[p], Pending' = Pending \ {p},
         Backing \subseteq Backing'
  PROVE  raised' + Total(Pending') <= Total(Backing')
<1>1. Pending \in SUBSET Pledges /\ Backing \in SUBSET Backing' /\ Backing' \in SUBSET Pledges
      /\ Backing \in SUBSET Pledges /\ Pending \ {p} \in SUBSET Pledges
  BY DEF Pending, Backing
<1>2. Total(Pending) = Contribution[p] + Total(Pending \ {p})
      /\ Total(Backing) <= Total(Backing')
  BY <1>1, Totals
<1>3. /\ Total(Pending \ {p}) \in Nat /\ Total(Backing) \in Nat /\ Total(Backing') \in Nat
      /\ Contribution[p] \in Nat
  BY <1>1, Totals DEF Pending
<1> QED
  BY <1>2, <1>3 DEF TypeOK

(* A cancellation is counted: raised falls by at least what leaves. *)
LEMMA BackingLeft ==
  ASSUME TypeOK, raised + Total(Pending) <= Total(Backing), NEW p \in Pledges,
         raised' = raised - Contribution[p], Pending' = Pending,
         Backing \ {p} \subseteq Backing'
  PROVE  raised' + Total(Pending') <= Total(Backing')
<1>1. Pending \in SUBSET Pledges /\ Backing \in SUBSET Pledges /\ Backing' \in SUBSET Pledges
      /\ Backing \ {p} \in SUBSET Backing'
  BY DEF Pending, Backing
<1>2. Total(Backing) <= Contribution[p] + Total(Backing \ {p})
  <2>1. CASE p \in Backing
    BY <1>1, <2>1, Totals
  <2>2. CASE p \notin Backing
    <3>1. Backing \ {p} = Backing
      BY <2>2
    <3> QED
      BY <1>1, <3>1, Totals
  <2> QED
    BY <2>1, <2>2
<1>3. Total(Backing \ {p}) <= Total(Backing')
  BY <1>1, Totals
<1>4. /\ Total(Pending) \in Nat /\ Total(Backing) \in Nat /\ Total(Backing') \in Nat
      /\ Total(Backing \ {p}) \in Nat /\ Contribution[p] \in Nat
  BY <1>1, Totals
<1> QED
  BY <1>2, <1>3, <1>4 DEF TypeOK
(* The request part depends on no bound. *)
LEMMA RequestKept == TypeOK /\ RequestInv /\ [Next]_vars => RequestInv'
  <1> SUFFICES ASSUME TypeOK, RequestInv, [Next]_vars PROVE RequestInv'
    OBVIOUS
  <1> USE DEF TypeOK, RequestInv, counterVars, pledgeVars, handlerVars, settlerVars, boundVars
  <1>1. CASE UNCHANGED <<ref, request, hook, cancel>>
    BY <1>1
  <1>2. ASSUME NEW p \in Pledges, PledgeStep(p) PROVE RequestInv'
    BY <1>2 DEF PledgeStep, PledgeAdmitted, PledgeInserted, HoldAuthorized, HoldFails,
       PledgeCommitted, HoldLapses, ReauthReads, Reauthorized,
       ReauthRefused, ReauthParks, HookReads, HookWrites
  <1>3. ASSUME NEW p \in Pledges, NEW t \in Tabs, CancelStep(p, t) PROVE RequestInv'
    <2>1. /\ UNCHANGED <<ref, request, hook>>
          /\ cancel[p][t] = "none" /\ p \in Cards => ref[p]
      BY <1>3 DEF CancelStep, CancelAdmitted, CancelVoided, CancelRefused, CancelFlipped,
         CancelCounted
    <2>2. \A q \in Pledges, u \in Tabs :
             cancel'[q][u] = cancel[q][u] \/ (q = p /\ u = t)
      BY <1>3 DEF CancelStep, CancelAdmitted, CancelVoided, CancelRefused, CancelFlipped,
         CancelCounted
    <2>3. ASSUME NEW q \in Pledges, q \in Cards, NEW u \in Tabs, cancel'[q][u] # "none"
          PROVE  ref'[q]
      <3>1. CASE cancel[q][u] = "none"
        <4>1. q = p /\ u = t
          BY <2>2, <2>3, <3>1
        <4> QED
          BY <2>1, <2>3, <3>1, <4>1
      <3>2. CASE cancel[q][u] # "none"
        BY <2>1, <2>3, <3>2
      <3> QED
        BY <3>1, <3>2
    <2> QED
      BY <2>1, <2>3
  <1>4. CASE Crash
    <2>1. UNCHANGED ref
      BY <1>4 DEF Crash
    <2>2. CASE UNCHANGED handlerVars
      BY <1>1, <2>1, <2>2
    <2>3. CASE \E p \in Pledges : /\ request' = [request EXCEPT ![p] = "over"]
                                  /\ UNCHANGED <<cancel, hook>>
      BY <2>1, <2>3
    <2>4. ASSUME NEW p \in Pledges, NEW t \in Tabs, cancel[p][t] # "none",
                 cancel' = [cancel EXCEPT ![p][t] = "over"], UNCHANGED <<request, hook>>
          PROVE  RequestInv'
      <3>1. \A q \in Pledges, u \in Tabs :
               cancel[q][u] = "none" => cancel'[q][u] = "none"
        BY <2>4
      <3> QED
        BY <2>1, <2>4, <3>1
    <2>5. CASE \E p \in Pledges : /\ hook' = [hook EXCEPT ![p] = "over"]
                                  /\ UNCHANGED <<request, cancel>>
      BY <2>1, <2>5
    <2>6. CASE UNCHANGED <<request, cancel, hook>>
      BY <1>1, <2>1, <2>6
    <2> QED
      BY <1>4, <2>2, <2>3, <2>4, <2>5, <2>6 DEF Crash
  <1>5. ASSUME NEW s \in Settlers, SettlerStarts(s) PROVE RequestInv'
    BY <1>5, <1>1 DEF SettlerStarts, SettleReads, CampaignCancelled, ForceClosed,
       ResidueSweep, Start
  <1>6. ASSUME NEW s \in Settlers, SettlerStep(s) PROVE RequestInv'
    BY <1>6, <1>1 DEF SettlerStep, SettleClaims, IntentsSettled, SweepQueries, SecondSweep,
       SettlerFinishes, SweepStep, RowReadAgain, PspCaptures, PspVoids, PspRefuses,
       MarkCaptured, EnterGrace, MarkRefunded, LeaveHeld, Settles, WriteDone
  <1> QED
    BY <1>1, <1>2, <1>3, <1>4, <1>5, <1>6 DEF Next, vars, ClockAdvances, DeadlineOverride,
       Pause, Unpause

(* What else is known while the campaign runs: nothing was captured, a      *)
(* settler has at most read, and the lock holds.                            *)
RunningFacts ==
  /\ RowInv /\ ChargeInv /\ LockInv /\ RunningInv

(* Every step of a running campaign keeps what stands behind raised.        *)
LEMMA BackedKept ==
  ASSUME ~LossyPsp, MaxCrashes = 0, MaxOverrides = 0,
         TypeOK, TypeOK', RunningFacts, RequestInv', project \in Active, project' \in Active,
         [Next]_vars
  PROVE  ReleaseInv' /\ BackedInv'
  <1>0. /\ UnaskedInv /\ VerdictInv /\ ChargedOnlyOnSuccess /\ LockInv
        /\ AnswersHold /\ RequestInv /\ ReleaseInv /\ BackedInv
        /\ raised + Total(Pending) <= Total(Backing)
    BY DEF RunningFacts, RowInv, ChargeInv, RunningInv, BackedInv
  <1>no. \A s \in Settlers : settler[s].at \in {"idle", "read"}
    BY <1>0 DEF VerdictInv, Active, Succeeded, Failed, TypeOK, Locals
  <1> DEFINE Kept == ReleaseInv' /\ BackedInv'
             Covered == raised' + Total(Pending') <= Total(Backing')
  <1> SUFFICES Kept
    OBVIOUS
  <1> USE DEF counterVars, pledgeVars, handlerVars, settlerVars, boundVars
  <1>read. ASSUME UNCHANGED settler, raised' = raised \/ clock # "due" \/ raised' >= raised,
                  ReleaseInv', Covered
           PROVE  Kept
    <2>1. ASSUME NEW s \in Settlers, settler[s].at = "read", settler[s].good
          PROVE  raised' >= Threshold
      <3>1. raised >= Threshold /\ clock = "due" /\ raised \in Int /\ raised' \in Int
        BY <1>0, <2>1 DEF BackedInv, LockInv, TypeOK
      <3> QED
        BY <3>1, <1>read
    <2> QED
      BY <1>read, <2>1 DEF BackedInv
  <1> HIDE DEF Kept, Covered
  <1>1. CASE UNCHANGED <<raised, ref, psp, request, status, cancel, settler>>
    <2>1. Pending' = Pending /\ Backing' = Backing /\ ReleaseInv'
      BY <1>0, <1>1 DEF Pending, Backing, Leaving, ReleaseInv
    <2>2. Covered
      BY <1>0, <1>1, <2>1, SameBacking DEF Covered
    <2> QED
      BY <1>1, <1>read, <2>1, <2>2
  <1>same. ASSUME UNCHANGED <<raised, settler>>, Pending' = Pending, Backing \subseteq Backing',
                  ReleaseInv'
           PROVE  Kept
    <2>1. Covered
      BY <1>0, <1>same, SameBacking DEF Covered
    <2> QED
      BY <1>same, <1>read, <2>1
  <1>joins. ASSUME UNCHANGED <<raised, settler>>, NEW p \in Pledges, p \notin Pending,
                   p \notin Backing, Pending' = Pending \cup {p},
                   Backing \cup {p} \subseteq Backing', ReleaseInv'
            PROVE  Kept
    <2>1. Covered
      BY <1>0, <1>joins, BackingJoined DEF Covered
    <2> QED
      BY <1>joins, <1>read, <2>1
  <1>2. ASSUME NEW p \in Pledges, PledgeAdmitted(p) PROVE Kept
    <2>1. Pending' = Pending /\ Backing' = Backing
      BY <1>2 DEF PledgeAdmitted, Pending, Backing, Leaving, TypeOK
    <2>2. ReleaseInv'
      BY <1>0, <1>2 DEF PledgeAdmitted, ReleaseInv, TypeOK
    <2> QED
      BY <1>2, <2>1, <2>2, <1>same DEF PledgeAdmitted
  <1>3. ASSUME NEW p \in Pledges, PledgeInserted(p) PROVE Kept
    <2>1. psp[p] = "none" /\ ~ref[p] /\ p \notin Pending /\ p \notin Backing
      BY <1>0, <1>3 DEF PledgeInserted, UnaskedInv, RequestInv, Pending, Backing
    <2>2. ReleaseInv'
      BY <1>0, <1>3, <2>1 DEF PledgeInserted, ReleaseInv, Sweepable, Pledged, TypeOK
    <2>3. CASE p \in Cards
      <3>1. Pending' = Pending /\ Backing' = Backing
        BY <1>3, <2>1, <2>3 DEF PledgeInserted, Pending, Backing, Leaving, TypeOK
      <3> QED
        BY <1>3, <2>2, <3>1, <1>same DEF PledgeInserted
    <2>4. CASE p \notin Cards
      <3>1. Pending' = Pending \cup {p} /\ Backing \cup {p} \subseteq Backing'
        BY <1>3, <2>1, <2>4 DEF PledgeInserted, Pending, Backing, Leaving, TypeOK, Pledged
      <3> QED
        BY <1>3, <2>1, <2>2, <3>1, <1>joins DEF PledgeInserted
    <2> QED
      BY <2>3, <2>4
  <1>4. ASSUME NEW p \in Pledges, HoldAuthorized(p) PROVE Kept
    <2>1. ~ref[p] /\ p \notin Pending /\ p \notin Backing /\ status[p] \in Pledged
      BY <1>0, <1>4 DEF HoldAuthorized, RequestInv, ReleaseInv, Pending, Backing, Pledged
    <2>2. ReleaseInv'
      BY <1>0, <1>4 DEF HoldAuthorized, ReleaseInv, TypeOK
    <2>3. Pending' = Pending \cup {p} /\ Backing \cup {p} \subseteq Backing'
      BY <1>4, <2>1 DEF HoldAuthorized, Pending, Backing, Leaving, TypeOK
    <2> QED
      BY <1>4, <2>1, <2>2, <2>3, <1>joins DEF HoldAuthorized
  <1>5. ASSUME NEW p \in Pledges, HoldFails(p) PROVE Kept
    <2>1. ~ref[p] /\ p \notin Pending /\ p \notin Backing
      BY <1>0, <1>5 DEF HoldFails, RequestInv, Pending, Backing
    <2>2. ReleaseInv'
      BY <1>0, <1>5 DEF HoldFails, ReleaseInv, Pledged, Sweepable, TypeOK
    <2>3. Pending' = Pending /\ Backing \subseteq Backing'
      BY <1>5, <2>1 DEF HoldFails, Pending, Backing, Leaving, TypeOK
    <2> QED
      BY <1>5, <2>2, <2>3, <1>same DEF HoldFails
  <1>6. ASSUME NEW p \in Pledges, PledgeCommitted(p) PROVE Kept
    <2>1. p \in Pending /\ Pending' = Pending \ {p} /\ Backing \subseteq Backing'
      BY <1>6 DEF PledgeCommitted, Pending, Backing, Leaving, TypeOK
    <2>2. ReleaseInv'
      BY <1>0, <1>6 DEF PledgeCommitted, ReleaseInv, TypeOK
    <2>3. raised' = raised + Contribution[p] /\ UNCHANGED settler
      BY <1>6 DEF PledgeCommitted
    <2>4. Covered
      BY <1>0, <2>1, <2>3, BackingCommitted DEF Covered
    <2>5. raised' >= raised
      BY <2>3 DEF TypeOK
    <2> QED
      BY <2>2, <2>3, <2>4, <2>5, <1>read
  <1>7. ASSUME NEW p \in Pledges, HoldLapses(p) \/ Reauthorized(p) PROVE Kept
    <2>3. /\ psp'[p] # "voided" /\ \A q \in Pledges \ {p} : psp'[q] = psp[q]
          /\ UNCHANGED <<status, cancel, request>>
      BY <1>7 DEF HoldLapses, Reauthorized, TypeOK
    <2>1. ReleaseInv'
      BY <1>0, <2>3 DEF ReleaseInv
    <2>2. Pending' = Pending /\ Backing' = Backing
      BY <1>7 DEF HoldLapses, Reauthorized, Pending, Backing, Leaving
    <2> QED
      BY <1>7, <2>1, <2>2, <1>same DEF HoldLapses, Reauthorized
  <1>8. ASSUME NEW p \in Pledges, ReauthParks(p) PROVE Kept
    <2>1. ReleaseInv'
      BY <1>0, <1>8 DEF ReauthParks, ReleaseInv, Pledged, Sweepable, TypeOK
    <2>2. Pending' = Pending /\ Backing \subseteq Backing'
      BY <1>8 DEF ReauthParks, Pending, Backing, Leaving, Pledged, Sweepable, TypeOK
    <2> QED
      BY <1>8, <2>1, <2>2, <1>same DEF ReauthParks
  <1>9. ASSUME NEW p \in Pledges, HookWrites(p) PROVE Kept
    <2>1. psp[p] = "voided" /\ ref[p] /\ request[p] = "over"
      BY <1>0, <1>9 DEF HookWrites, AnswersHold, ChargedOnlyOnSuccess, RequestInv, Active,
         Succeeded
    <2>2. status' = [status EXCEPT ![p] = "REFUNDED"]
          /\ UNCHANGED <<raised, settler, ref, psp, request, cancel>>
      BY <1>9, <2>1 DEF HookWrites
    <2>3. ReleaseInv'
      BY <1>0, <2>1, <2>2 DEF ReleaseInv, Pledged, Sweepable, TypeOK
    <2>4. status[p] \in Pledged => Leaving(p)
      BY <1>0, <2>1 DEF ReleaseInv, Leaving
    <2>5. Pending' = Pending /\ Backing \subseteq Backing'
      BY <2>2, <2>4 DEF Pending, Backing, Leaving, TypeOK
    <2> QED
      BY <2>2, <2>3, <2>5, <1>same
  <1>10. ASSUME NEW p \in Pledges, NEW t \in Tabs,
                CancelAdmitted(p, t) \/ CancelVoided(p, t) \/ CancelRefused(p, t)
         PROVE  Kept
    <2>1. PICK x \in {"void", "flip", "over"} :
            /\ cancel' = [cancel EXCEPT ![p][t] = x]
            /\ cancel[p][t] \in {"none", "void"}
            /\ psp' = psp \/ (x = "flip" /\ psp' = [psp EXCEPT ![p] = "voided"])
      BY <1>10 DEF CancelAdmitted, CancelVoided, CancelRefused
    <2>2. UNCHANGED <<raised, status, ref, request, settler>>
      BY <1>10 DEF CancelAdmitted, CancelVoided, CancelRefused
    <2>3. /\ cancel'[p][t] = x
          /\ \A q \in Pledges, u \in Tabs : cancel'[q][u] = cancel[q][u] \/ (q = p /\ u = t)
      BY <2>1 DEF TypeOK
    <2>4. ReleaseInv'
      BY <1>0, <2>1, <2>2, <2>3 DEF ReleaseInv, TypeOK
    <2>5. \A q \in Pledges : Leaving(q) => Leaving(q)'
      BY <2>1, <2>3 DEF Leaving
    <2>6. Pending' = Pending /\ Backing \subseteq Backing'
      BY <2>2, <2>5 DEF Pending, Backing
    <2> QED
      BY <2>2, <2>4, <2>6, <1>same
  <1>11. ASSUME NEW p \in Pledges, NEW t \in Tabs, CancelFlipped(p, t) PROVE Kept
    <2>1. /\ cancel[p][t] = "flip" /\ cancel'[p][t] = "count"
          /\ \A q \in Pledges, u \in Tabs : cancel'[q][u] = cancel[q][u] \/ (q = p /\ u = t)
          /\ status'[p] = "REFUNDED"
          /\ \A q \in Pledges \ {p} : status'[q] = status[q]
          /\ UNCHANGED <<raised, psp, ref, request, settler>>
      BY <1>11 DEF CancelFlipped, TypeOK
    <2>2. request[p] # "inserted"
      BY <1>0, <2>1 DEF RequestInv
    <2>3. ReleaseInv'
      BY <1>0, <2>1, <2>2 DEF ReleaseInv, Pledged, Sweepable
    <2>4. \A q \in Pledges : (Leaving(q) => Leaving(q)') /\ Leaving(p)'
      BY <2>1 DEF Leaving
    <2>5. Pending' = Pending /\ Backing \subseteq Backing'
      BY <2>1, <2>4 DEF Pending, Backing
    <2> QED
      BY <2>1, <2>3, <2>5, <1>same
  <1>12. ASSUME NEW p \in Pledges, NEW t \in Tabs, CancelCounted(p, t) PROVE Kept
    <2>1. /\ cancel[p][t] = "count" /\ cancel'[p][t] = "over"
          /\ \A q \in Pledges, u \in Tabs : cancel'[q][u] = cancel[q][u] \/ (q = p /\ u = t)
          /\ raised' = raised - Contribution[p]
          /\ UNCHANGED <<status, psp, ref, request, settler>>
      BY <1>12 DEF CancelCounted, TypeOK
    <2>2. clock # "due"
      BY <1>0, <2>1 DEF LockInv
    <2>3. ReleaseInv'
      BY <1>0, <2>1 DEF ReleaseInv
    <2>4. \A q \in Pledges \ {p} : Leaving(q) => Leaving(q)'
      BY <2>1 DEF Leaving
    <2>5. Pending' = Pending /\ Backing \ {p} \subseteq Backing'
      BY <2>1, <2>4 DEF Pending, Backing
    <2>6. Covered
      BY <1>0, <2>1, <2>5, BackingLeft DEF Covered
    <2> QED
      BY <2>1, <2>2, <2>3, <2>6, <1>read
  <1>13. ASSUME NEW s \in Settlers, SettleReads(s) PROVE Kept
    <2>1. UNCHANGED <<raised, ref, psp, request, status, cancel>>
      BY <1>13 DEF SettleReads, Start
    <2>2. Pending' = Pending /\ Backing' = Backing /\ ReleaseInv'
      BY <1>0, <2>1 DEF Pending, Backing, Leaving, ReleaseInv
    <2>3. Covered
      BY <1>0, <2>1, <2>2, SameBacking DEF Covered
    <2>4. /\ settler'[s] = [at |-> "read", job |-> "settle", good |-> raised >= Threshold, pass |-> 1]
          /\ \A r \in Settlers \ {s} : settler'[r] = settler[r]
      <3>1. settler \in [Settlers -> Locals]
        BY DEF TypeOK
      <3>2. settler' = [settler EXCEPT ![s] =
                          [at |-> "read", job |-> "settle", good |-> raised >= Threshold, pass |-> 1]]
        BY <1>13 DEF SettleReads, Start
      <3> QED
        BY ONLY <3>1, <3>2, s \in Settlers
    <2>5. settler'[s].good => raised >= Threshold
      <3>1. settler'[s].good = (raised >= Threshold)
        BY ONLY <2>4
      <3> QED
        BY ONLY <3>1
    <2>6. ASSUME NEW r \in Settlers, settler'[r].at = "read", settler'[r].good
          PROVE  raised' >= Threshold
      <3>1. CASE r = s
        BY <2>1, <2>5, <2>6, <3>1
      <3>2. CASE r # s
        BY <1>0, <2>1, <2>4, <2>6, <3>2 DEF BackedInv
      <3> QED
        BY <3>1, <3>2
    <2> QED
      BY <2>2, <2>3, <2>6 DEF Kept, Covered, BackedInv
  (* No other step starts from a running campaign and leaves it running.    *)
  <1>14. ASSUME NEW s \in Settlers, SettlerStarts(s) \/ SettlerStep(s) PROVE Kept
    <2>1. SettleReads(s) \/ SettleClaims(s)
      BY <1>0, <1>no, <1>14 DEF SettlerStarts, SettlerStep, CampaignCancelled, ForceClosed,
         ResidueSweep, SweepStep, RowReadAgain, PspCaptures, PspVoids, PspRefuses,
         MarkCaptured, EnterGrace, MarkRefunded, LeaveHeld, Settles, WriteDone,
         IntentsSettled, SweepQueries, SecondSweep, SettlerFinishes, Active, Succeeded,
         Failed
    <2>2. ~SettleClaims(s)
      BY DEF SettleClaims, Active
    <2> QED
      BY <2>1, <2>2, <1>13
  <1>15. CASE Crash
    BY <1>15 DEF Crash, TypeOK
  <1> QED
    BY <1>1, <1>2, <1>3, <1>4, <1>5, <1>6, <1>7, <1>8, <1>9, <1>10, <1>11, <1>12, <1>14,
       <1>15
    DEF Next, PledgeStep, CancelStep, vars, ClockAdvances, DeadlineOverride, Pause, Unpause,
        ReauthReads, ReauthRefused, HookReads

(* The claim finds at least the threshold pledged: by then no cancellation  *)
(* is under way, and what is still pending stands on its own.               *)
LEMMA JudgedOnBacking ==
  ASSUME TypeOK, RunningFacts, [Next]_vars, project \in Active, project' \in Succeeded
  PROVE  Threshold <= Total({p \in Pledges : ref[p] /\ status[p] \in Pledged})
  <1> DEFINE Backed == {p \in Pledges : ref[p] /\ status[p] \in Pledged}
  <1>0. /\ VerdictInv /\ LockInv /\ RequestInv /\ BackedInv
        /\ raised + Total(Pending) <= Total(Backing)
    BY DEF RunningFacts, ChargeInv, RunningInv, BackedInv
  <1>no. \A s \in Settlers : settler[s].at \in {"idle", "read"}
    BY <1>0 DEF VerdictInv, Active, Succeeded, Failed, TypeOK, Locals
  <1> USE DEF Active, Succeeded, Failed
  <1>1. PICK s \in Settlers : SettleClaims(s)
    <2>1. ~ \E p \in Pledges : PledgeStep(p) \/ \E t \in Tabs : CancelStep(p, t)
      BY HandlersLeaveVerdict
    <2>2. \A s \in Settlers, p \in Pledges : ~SweepStep(s, p)
      BY SweepLeavesVerdict
    <2>3. \A s \in Settlers : ~(IntentsSettled(s) \/ SweepQueries(s) \/ SecondSweep(s)
                                 \/ SettlerFinishes(s) \/ SettlerStarts(s))
      BY <1>no DEF IntentsSettled, SweepQueries, SecondSweep, SettlerFinishes,
         SettlerStarts, SettleReads, CampaignCancelled, ForceClosed, ResidueSweep
    <2> QED
      BY <2>1, <2>2, <2>3 DEF Next, SettlerStep, ClockAdvances, DeadlineOverride, Pause,
         Unpause, Crash, vars
  <1>2. settler[s].at = "read" /\ settler[s].good
    BY <1>1 DEF SettleClaims
  <1>3. raised >= Threshold /\ \A p \in Pledges : ~Leaving(p)
    BY <1>0, <1>2 DEF BackedInv, LockInv, Leaving
  <1>4. Backing \subseteq Backed \cup Pending /\ Backed \cap Pending = {}
    BY <1>0, <1>3 DEF Backing, Pending, RequestInv
  <1>5. Total(Backed \cup Pending) = Total(Backed) + Total(Pending)
    <2>1. IsFiniteSet(Backed) /\ IsFiniteSet(Pending)
      BY FS_Subset DEF Pending
    <2>2. \A x \in Backed \cup Pending : Contribution[x] \in Nat
      BY DEF Pending
    <2> HIDE DEF Backed
    <2> QED
      BY <1>4, <2>1, <2>2, SumUnion DEF Total
  <1>6. Backing \in SUBSET (Backed \cup Pending) /\ Backed \cup Pending \in SUBSET Pledges
        /\ Backed \in SUBSET Pledges /\ Pending \in SUBSET Pledges /\ Backing \in SUBSET Pledges
    BY <1>4 DEF Backing, Pending
  <1> HIDE DEF Backed
  <1>7. /\ Total(Backing) <= Total(Backed \cup Pending)
        /\ Total(Backed) \in Nat /\ Total(Pending) \in Nat /\ Total(Backing) \in Nat
    BY <1>6, Totals
  <1>8. Threshold <= Total(Backed)
    BY <1>0, <1>3, <1>5, <1>7 DEF TypeOK
  <1> QED
    BY <1>8 DEF Backed

(* A campaign is declared successful only on money still pledged at that    *)
(* moment (SuccessIsBacked), however pledges, cancellations, renewals and   *)
(* settlers overlap, as long as no process dies between a flipped row and   *)
(* its counter, no answer of the provider is lost, and nobody moves the     *)
(* deadline.                                                                *)
THEOREM SuccessStandsOnPledges ==
  ASSUME ~LossyPsp, MaxCrashes = 0, MaxOverrides = 0
  PROVE  Spec => SuccessIsBacked
<1>1. Init => RunningFacts
  <2> SUFFICES ASSUME Init PROVE RunningFacts
    OBVIOUS
  <2>1. RowInv /\ ChargeInv /\ LockInv
    BY DEF Init, RowInv, UnaskedInv, AnswersHold, RowsMatchProvider, Pledges, NoTask, Idle,
       ChargeInv, VerdictInv, ChargedOnlyOnSuccess, LockInv, Active, Succeeded
  <2>2. RequestInv /\ ReleaseInv
    BY DEF Init, RequestInv, ReleaseInv, Pledges
  <2>3. Pending = {} /\ Backing = {}
    BY DEF Init, Pending, Backing
  <2>4. BackedInv
    BY <2>3, SumEmpty DEF Init, BackedInv, Total, Idle
  <2> QED
    BY <2>1, <2>2, <2>4 DEF RunningFacts, RunningInv
<1>2. TypeOK /\ TypeOK' /\ RunningFacts /\ [Next]_vars => RunningFacts'
  <2> SUFFICES ASSUME TypeOK, TypeOK', RunningFacts, [Next]_vars PROVE RunningFacts'
    OBVIOUS
  <2>1. RowInv' /\ ChargeInv' /\ LockInv' /\ RequestInv' /\ VerdictStep
    BY RowsKept, ChargeKept, LockKept, RequestKept, VerdictKept
    DEF RunningFacts, ChargeInv, RunningInv
  <2>2. project' \in Active => project \in Active
    BY <2>1 DEF VerdictStep, Active, Succeeded, Failed, TypeOK
  <2>3. project' \in Active => ReleaseInv' /\ BackedInv'
    BY <2>1, <2>2, BackedKept
  <2> QED
    BY <2>1, <2>3 DEF RunningFacts, RunningInv
<1>3. TypeOK /\ RunningFacts /\ [Next]_vars =>
        [(project \in Active /\ project' \in Succeeded) =>
           (Threshold <= Total({p \in Pledges : ref[p] /\ status[p] \in Pledged}))]_project
  BY JudgedOnBacking
<1> QED
  BY TypeCorrect, <1>1, <1>2, <1>3, PTL DEF Spec, SuccessIsBacked
=============================================================================
