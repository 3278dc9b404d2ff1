----------------------------- MODULE SyncProofs -----------------------------
(***************************************************************************)
(* Proofs about Sync that hold for any repositories, labels, configuration *)
(* and number of overlapping runs, with people editing labels meanwhile.   *)
(***************************************************************************)
EXTENDS Sync, PlannerProofs, TLAPS

-----------------------------------------------------------------------------
(***************************************************************************)
(* The inductive invariant.  TypeOK and RemovesOnlyChosen are not          *)
(* inductive by themselves: a candidate is found by the key of a label and *)
(* carried out by its name, so what a run holds must stay well keyed, and  *)
(* what it has still to delete must have been chosen.                      *)
(***************************************************************************)
AllWellKeyed ==
  /\ \A r \in Repos : WellKeyed(store[r])
  /\ \A p \in Runs, r \in Repos : WellKeyed(seen[p][r])

DeletesAreChosen ==
  \A p \in Runs, r \in Repos : \A a \in Removals(todo[p][r]) :
    /\ Mode[p] = "prune"
    /\ Lower[a.name] \notin Configured(r)
    /\ pc[p] = "applying" => <<r, Lower[a.name]>> \in chosen[p]

SafeInv == TypeOK /\ AllWellKeyed /\ DeletesAreChosen

LEMMA SelectedIsAnAction ==
  ASSUME TypeOK, NEW p \in Runs, NEW r \in Repos, NEW a \in todo[p][r]
  PROVE  a \in Action
BY DEF TypeOK

LEMMA AsUpdateIsAction ==
  ASSUME NEW a \in Action
  PROVE  AsUpdate(a) \in Action /\ AsUpdate(a).kind = "update"
<1>. DEFINE b == AsUpdate(a)
<1>1. b.kind = "update"
  BY ActionFields DEF AsUpdate, ActionRecord
<1>2. b \in ActionRecord
  BY ActionFields DEF AsUpdate, ActionRecord, Kinds
<1>. QED  BY <1>1, <1>2 DEF Action

LEMMA InitSafe ==
  ASSUME Init
  PROVE  SafeInv
<1>1. TypeOK
  <2>1. NoLabels \in Views
    BY DEF NoLabels, Views
  <2>2. store \in [Repos -> Views]
    BY StoresAssumption DEF Init
  <2>3. MaxTries \in Nat /\ MaxRestarts \in Nat /\ MaxEdits \in Nat /\ MaxOutages \in Nat
    BY SyncAssumption
  <2>4. dry \in [Runs -> BOOLEAN]
    BY SyncAssumption DEF Init
  <2>. QED  BY <2>1, <2>2, <2>3, <2>4 DEF Init, TypeOK, Steps, NoPlan, Covered
<1>2. AllWellKeyed
  BY StoresAssumption DEF Init, AllWellKeyed, WellKeyed, NoLabels
<1>3. DeletesAreChosen
  BY DEF Init, DeletesAreChosen, NoPlan, Removals
<1>. QED  BY <1>1, <1>2, <1>3 DEF SafeInv

\* A step preserves the invariant, one action at a time.
LEMMA ReadSafe ==
  ASSUME SafeInv, NEW p \in Runs, NEW r \in Repos, Read(p, r)
  PROVE  SafeInv'
<1>. USE DEF SafeInv
<1>1. TypeOK'
  <2>1. unread' \in [Runs -> SUBSET Repos]
    <3>1. unread' = [unread EXCEPT ![p] = @ \ {r}]
      BY DEF Read
    <3>. QED  BY <3>1 DEF TypeOK
  <2>2. CASE reachable[r]
    <3>1. seen' = [seen EXCEPT ![p][r] = store[r]] /\ skipped' = skipped
      BY <2>2 DEF Read
    <3>. QED  BY <2>1, <3>1 DEF TypeOK, Read, counted
  <2>3. CASE ~reachable[r]
    <3>1. seen' = seen /\ skipped' = [skipped EXCEPT ![p] = @ \cup {r}]
      BY <2>3 DEF Read
    <3>. QED  BY <2>1, <3>1 DEF TypeOK, Read, counted
  <2>. QED  BY <2>2, <2>3
<1>2. AllWellKeyed'
  <2>1. ASSUME NEW q \in Runs, NEW s \in Repos
        PROVE  seen'[q][s] = seen[q][s] \/ seen'[q][s] = store[s]
    <3>1. CASE reachable[r]
      <4>1. seen' = [seen EXCEPT ![p][r] = store[r]]
        BY <3>1 DEF Read
      <4>. QED  BY <4>1 DEF TypeOK
    <3>2. CASE ~reachable[r]
      BY <3>2 DEF Read
    <3>. QED  BY <3>1, <3>2
  <2>. QED  BY <2>1 DEF AllWellKeyed, WellKeyed, Read
<1>3. DeletesAreChosen'
  BY DEF DeletesAreChosen, Read
<1>. QED  BY <1>1, <1>2, <1>3

LEMMA PlanSafe ==
  ASSUME SafeInv, NEW p \in Runs, Plan(p)
  PROVE  SafeInv'
<1>. USE DEF SafeInv
<1>0. PICK twice \in [Repos -> {{}} \cup Rereads] :
        \E plan \in [Repos -> UNION {Plans(p, r, twice[r]) : r \in Repos}] :
          /\ \A r \in Repos : plan[r] \in Plans(p, r, twice[r])
          /\ todo' = [todo EXCEPT ![p] = plan]
  BY DEF Plan
<1>1. PICK plan \in [Repos -> UNION {Plans(p, r, twice[r]) : r \in Repos}] :
        /\ \A r \in Repos : plan[r] \in Plans(p, r, twice[r])
        /\ todo' = [todo EXCEPT ![p] = plan]
  BY <1>0
<1>2. ASSUME NEW r \in Repos
      PROVE  /\ plan[r] \subseteq Action
             /\ \A a \in Removals(plan[r]) : Mode[p] = "prune" /\ Lower[a.name] \notin Configured(r)
  <2>1. CASE r \in Covered \ skipped[p]
    <3>1. \/ plan[r] \in Compute(r, seen[p][r], Mode[p])
          \/ plan[r] = ComputeRepeated(r, seen[p][r], twice[r], Mode[p])
      BY <1>1, <2>1 DEF Plans
    <3>2. seen[p][r] \in Views /\ WellKeyed(seen[p][r])
      BY DEF TypeOK, AllWellKeyed
    <3>. QED  BY <3>1, <3>2, ComputeActions, ComputeRepeatedActions
  <2>2. CASE r \notin Covered \ skipped[p]
    BY <1>1, <2>2 DEF Plans, Removals
  <2>. QED  BY <2>1, <2>2
<1>3. plan \in [Repos -> SUBSET Action]
  BY <1>1, <1>2
<1>4. TypeOK'
  <2>1. [r \in Repos |-> NoLabels] \in [Repos -> Views]
    BY DEF NoLabels, Views
  <2>. QED  BY <1>1, <1>3, <2>1 DEF TypeOK, Plan, Steps, counted
<1>5. AllWellKeyed'
  <2>1. ASSUME NEW q \in Runs, NEW r \in Repos
        PROVE  seen'[q][r] = seen[q][r] \/ seen'[q][r] = NoLabels
    BY DEF TypeOK, Plan
  <2>2. WellKeyed(NoLabels)
    BY DEF WellKeyed, NoLabels
  <2>. QED  BY <2>1, <2>2 DEF AllWellKeyed, WellKeyed, Plan
<1>6. DeletesAreChosen'
  BY <1>1, <1>2 DEF TypeOK, DeletesAreChosen, Plan
<1>. QED  BY <1>4, <1>5, <1>6

LEMMA SelectSafe ==
  ASSUME SafeInv, NEW p \in Runs, Select(p)
  PROVE  SafeInv'
<1>. USE DEF SafeInv
<1>1. PICK keep \in SUBSET Offered(todo[p]) :
        /\ todo' = [todo EXCEPT ![p] = RetainDeletes(@, keep)]
        /\ chosen' = [chosen EXCEPT ![p] = keep]
        /\ declined' = [declined EXCEPT ![p] = Offered(todo[p]) \ keep]
  BY DEF Select
<1>2. todo'[p] = [r \in Repos |->
        {a \in todo[p][r] : a.kind = "delete" => <<r, Lower[a.name]>> \in keep}]
  BY <1>1 DEF TypeOK, RetainDeletes
<1>3. Offered(todo[p]) \subseteq Repos \X Keys
  <2>1. ASSUME NEW r \in Repos, NEW a \in Removals(todo[p][r])
        PROVE  Lower[a.name] \in Keys
    BY SelectedIsAnAction, TargetIsKey DEF Removals
  <2>. QED  BY <2>1 DEF Offered
<1>4. TypeOK'
  <2>1. todo' \in [Runs -> [Repos -> SUBSET Action]]
    <3>1. RetainDeletes(todo[p], keep) \in [Repos -> SUBSET Action]
      BY DEF TypeOK, RetainDeletes
    <3>. QED  BY <1>1, <3>1 DEF TypeOK
  <2>2. chosen' \in [Runs -> SUBSET (Repos \X Keys)]
    BY <1>1, <1>3 DEF TypeOK
  <2>3. declined' \in [Runs -> SUBSET (Repos \X Keys)]
    BY <1>1, <1>3 DEF TypeOK
  <2>4. pc' \in [Runs -> Steps]
    BY DEF TypeOK, Select, Steps
  <2>. QED  BY <2>1, <2>2, <2>3, <2>4 DEF TypeOK, Select, counted
<1>5. AllWellKeyed'
  BY DEF AllWellKeyed, Select
<1>6. DeletesAreChosen'
  <2>1. ASSUME NEW q \in Runs, NEW r \in Repos, NEW a \in Removals(todo'[q][r])
        PROVE  /\ Mode[q] = "prune"
               /\ Lower[a.name] \notin Configured(r)
               /\ pc'[q] = "applying" => <<r, Lower[a.name]>> \in chosen'[q]
    <3>1. CASE q = p
      <4>1. a \in Removals(todo[p][r]) /\ <<r, Lower[a.name]>> \in keep
        BY <1>2, <2>1, <3>1 DEF Removals
      <4>. QED  BY <1>1, <3>1, <4>1 DEF DeletesAreChosen, TypeOK
    <3>2. CASE q # p
      BY <1>1, <2>1, <3>2 DEF DeletesAreChosen, TypeOK, Select
    <3>. QED  BY <3>1, <3>2
  <2>. QED  BY <2>1 DEF DeletesAreChosen
<1>. QED  BY <1>4, <1>5, <1>6

\* A write changes the store and nothing the invariant says of the runs.
LEMMA StoreWritten ==
  ASSUME SafeInv, NEW r \in Repos, NEW v \in Views, WellKeyed(v),
         store' = [store EXCEPT ![r] = v]
  PROVE  store' \in [Repos -> Views] /\ \A q \in Repos : WellKeyed(store'[q])
<1>1. store' \in [Repos -> Views]
  BY DEF SafeInv, TypeOK
<1>2. ASSUME NEW q \in Repos PROVE store'[q] = v \/ store'[q] = store[q]
  BY DEF SafeInv, TypeOK
<1>. QED  BY <1>1, <1>2 DEF SafeInv, AllWellKeyed, WellKeyed

LEMMA SucceedSafe ==
  ASSUME SafeInv, NEW p \in Runs, NEW r \in Repos, NEW a \in todo[p][r], Succeed(p, r, a)
  PROVE  SafeInv'
<1>. USE DEF SafeInv
<1>1. a \in Action /\ store[r] \in Views /\ WellKeyed(store[r])
  BY SelectedIsAnAction DEF TypeOK, AllWellKeyed
<1>2. Effect(store[r], a) \in Views /\ WellKeyed(Effect(store[r], a))
  BY <1>1, EffectOnView DEF Succeed
<1>3. store' = [store EXCEPT ![r] = Effect(store[r], a)]
  BY DEF Succeed
<1>4. store' \in [Repos -> Views] /\ \A q \in Repos : WellKeyed(store'[q])
  BY <1>2, <1>3, StoreWritten
<1>5. TypeOK'
  <2>1. todo' \in [Runs -> [Repos -> SUBSET Action]]
    BY DEF TypeOK, Succeed
  <2>2. tries' \in [Runs -> 0..MaxTries]
    BY SyncAssumption DEF TypeOK, Succeed
  <2>. QED  BY <1>4, <2>1, <2>2 DEF TypeOK, Succeed, counted
<1>6. AllWellKeyed'
  BY <1>4 DEF AllWellKeyed, Succeed
<1>7. DeletesAreChosen'
  <2>1. ASSUME NEW q \in Runs, NEW s \in Repos PROVE todo'[q][s] \subseteq todo[q][s]
    BY DEF TypeOK, Succeed
  <2>. QED  BY <2>1 DEF DeletesAreChosen, Removals, Succeed
<1>. QED  BY <1>5, <1>6, <1>7

LEMMA FallbackSafe ==
  ASSUME SafeInv, NEW p \in Runs, NEW r \in Repos, NEW a \in todo[p][r], Fallback(p, r, a)
  PROVE  SafeInv'
<1>. USE DEF SafeInv
<1>1. AsUpdate(a) \in Action /\ AsUpdate(a).kind = "update"
  BY SelectedIsAnAction, AsUpdateIsAction
<1>2. todo' = [todo EXCEPT ![p][r] = (todo[p][r] \ {a}) \cup {AsUpdate(a)}]
  BY DEF Fallback
<1>3. TypeOK'
  <2>1. todo' \in [Runs -> [Repos -> SUBSET Action]]
    BY <1>1, <1>2 DEF TypeOK
  <2>2. tries' \in [Runs -> 0..MaxTries]
    BY SyncAssumption DEF TypeOK, Fallback
  <2>. QED  BY <2>1, <2>2 DEF TypeOK, Fallback, remote, counted
<1>4. AllWellKeyed'
  BY DEF AllWellKeyed, Fallback, remote
<1>5. DeletesAreChosen'
  <2>1. ASSUME NEW q \in Runs, NEW s \in Repos
        PROVE  todo'[q][s] \subseteq todo[q][s] \cup {AsUpdate(a)}
    BY <1>2 DEF TypeOK
  <2>2. ASSUME NEW q \in Runs, NEW s \in Repos
        PROVE  Removals(todo'[q][s]) \subseteq Removals(todo[q][s])
    BY <1>1, <2>1 DEF Removals
  <2>. QED  BY <2>2 DEF DeletesAreChosen, Fallback
<1>. QED  BY <1>3, <1>4, <1>5

LEMMA AbandonSafe ==
  ASSUME SafeInv, NEW p \in Runs, NEW r \in Repos, NEW a \in todo[p][r], Abandon(p, r, a)
  PROVE  SafeInv'
<1>. USE DEF SafeInv
<1>1. TypeOK'
  <2>1. todo' \in [Runs -> [Repos -> SUBSET Action]]
    BY DEF TypeOK, Abandon
  <2>2. tries' \in [Runs -> 0..MaxTries]
    BY SyncAssumption DEF TypeOK, Abandon
  <2>3. skipped' \in [Runs -> SUBSET Repos]
    BY DEF TypeOK, Abandon
  <2>. QED  BY <2>1, <2>2, <2>3 DEF TypeOK, Abandon, remote, counted
<1>2. AllWellKeyed'
  BY DEF AllWellKeyed, Abandon, remote
<1>3. DeletesAreChosen'
  <2>1. ASSUME NEW q \in Runs, NEW s \in Repos PROVE todo'[q][s] \subseteq todo[q][s]
    BY DEF TypeOK, Abandon
  <2>. QED  BY <2>1 DEF DeletesAreChosen, Removals, Abandon
<1>. QED  BY <1>1, <1>2, <1>3

LEMMA CollideSafe ==
  ASSUME SafeInv, NEW p \in Runs, NEW r \in Repos, NEW a \in todo[p][r], Collide(p, r, a)
  PROVE  SafeInv'
<1>. USE DEF SafeInv
<1>1. TypeOK'
  <2>1. pc' \in [Runs -> Steps] /\ tries' \in [Runs -> 0..MaxTries]
    BY SyncAssumption DEF TypeOK, Collide, Steps
  <2>. QED  BY <2>1 DEF TypeOK, Collide, remote, counted
<1>2. AllWellKeyed'
  BY DEF AllWellKeyed, Collide, remote
<1>3. DeletesAreChosen'
  <2>1. ASSUME NEW q \in Runs PROVE pc'[q] = "applying" => pc[q] = "applying"
    BY DEF TypeOK, Collide
  <2>. QED  BY <2>1 DEF DeletesAreChosen, Collide
<1>. QED  BY <1>1, <1>2, <1>3

LEMMA LoseAnswerSafe ==
  ASSUME SafeInv, NEW p \in Runs, NEW r \in Repos, NEW a \in todo[p][r], LoseAnswer(p, r, a)
  PROVE  SafeInv'
<1>. USE DEF SafeInv
<1>1. a \in Action /\ store[r] \in Views /\ WellKeyed(store[r])
  BY SelectedIsAnAction DEF TypeOK, AllWellKeyed
<1>2. store' \in [Repos -> Views] /\ \A q \in Repos : WellKeyed(store'[q])
  <2>1. CASE store' = store
    BY <2>1 DEF TypeOK, AllWellKeyed
  <2>2. CASE store' = [store EXCEPT ![r] = Served(store[r], a)]
    BY <1>1, <2>2, ServedView, StoreWritten
  <2>. QED  BY <2>1, <2>2 DEF LoseAnswer
<1>3. TypeOK'
  <2>1. tries' \in [Runs -> 0..MaxTries]
    BY SyncAssumption DEF TypeOK, LoseAnswer
  <2>. QED  BY <1>2, <2>1 DEF TypeOK, LoseAnswer, counted
<1>4. AllWellKeyed'
  BY <1>2 DEF AllWellKeyed, LoseAnswer
<1>5. DeletesAreChosen'
  BY DEF DeletesAreChosen, LoseAnswer
<1>. QED  BY <1>3, <1>4, <1>5

LEMMA FinishSafe ==
  ASSUME SafeInv, NEW p \in Runs, Finish(p)
  PROVE  SafeInv'
<1>. USE DEF SafeInv
<1>1. TypeOK'
  BY DEF TypeOK, Finish, Steps, remote, counted
<1>2. AllWellKeyed'
  BY DEF AllWellKeyed, Finish, remote
<1>3. DeletesAreChosen'
  <2>1. ASSUME NEW q \in Runs PROVE pc'[q] = "applying" => pc[q] = "applying"
    BY DEF TypeOK, Finish
  <2>. QED  BY <2>1 DEF DeletesAreChosen, Finish
<1>. QED  BY <1>1, <1>2, <1>3

LEMMA PreviewSafe ==
  ASSUME SafeInv, NEW p \in Runs, Preview(p)
  PROVE  SafeInv'
<1>. USE DEF SafeInv
<1>1. TypeOK'
  BY DEF TypeOK, Preview, Steps, remote, counted
<1>2. AllWellKeyed'
  BY DEF AllWellKeyed, Preview, remote
<1>3. DeletesAreChosen'
  <2>1. ASSUME NEW q \in Runs PROVE pc'[q] = "applying" => pc[q] = "applying"
    BY DEF TypeOK, Preview
  <2>. QED  BY <2>1 DEF DeletesAreChosen, Preview
<1>. QED  BY <1>1, <1>2, <1>3

\* What a process forgets when it ends is within the invariant.
LEMMA ForgetSafe ==
  ASSUME SafeInv, NEW p \in Runs, Forget(p), UNCHANGED <<store, started, reachable>>,
         pc' \in [Runs -> Steps], dry' \in [Runs -> BOOLEAN], asOf' \in [Runs -> Nat],
         restarts' \in 0..MaxRestarts, edits' \in 0..MaxEdits, outages' \in 0..MaxOutages,
         \A q \in Runs : q # p => pc'[q] = pc[q]
  PROVE  SafeInv'
<1>. USE DEF SafeInv
<1>0. [r \in Repos |-> NoLabels] \in [Repos -> Views] /\ NoPlan \in [Repos -> SUBSET Action]
  BY DEF NoLabels, NoPlan, Views
<1>1. TypeOK'
  <2>1. unread' \in [Runs -> SUBSET Repos] /\ skipped' \in [Runs -> SUBSET Repos]
    BY DEF TypeOK, Forget, Covered
  <2>2. seen' \in [Runs -> [Repos -> Views]] /\ todo' \in [Runs -> [Repos -> SUBSET Action]]
    BY <1>0 DEF TypeOK, Forget
  <2>3. tries' \in [Runs -> 0..MaxTries]
    BY SyncAssumption DEF TypeOK, Forget
  <2>4. /\ chosen' \in [Runs -> SUBSET (Repos \X Keys)]
        /\ declined' \in [Runs -> SUBSET (Repos \X Keys)]
    BY DEF TypeOK, Forget
  <2>. QED  BY <2>1, <2>2, <2>3, <2>4 DEF TypeOK
<1>2. AllWellKeyed'
  <2>1. ASSUME NEW q \in Runs, NEW r \in Repos
        PROVE  seen'[q][r] = seen[q][r] \/ seen'[q][r] = NoLabels
    BY DEF TypeOK, Forget
  <2>2. WellKeyed(NoLabels)
    BY DEF WellKeyed, NoLabels
  <2>. QED  BY <2>1, <2>2 DEF AllWellKeyed, WellKeyed
<1>3. DeletesAreChosen'
  <2>1. todo'[p] = NoPlan
    BY DEF TypeOK, Forget
  <2>2. ASSUME NEW q \in Runs, q # p
        PROVE  todo'[q] = todo[q] /\ chosen'[q] = chosen[q] /\ pc'[q] = pc[q]
    BY <2>2 DEF TypeOK, Forget
  <2>. QED  BY <2>1, <2>2 DEF DeletesAreChosen, NoPlan, Removals
<1>. QED  BY <1>1, <1>2, <1>3

LEMMA StopSafe ==
  ASSUME SafeInv, NEW p \in Runs, Stop(p)
  PROVE  SafeInv'
<1>1. pc' \in [Runs -> Steps] /\ \A q \in Runs : q # p => pc'[q] = pc[q]
  BY DEF SafeInv, TypeOK, Stop, Steps
<1>. QED  BY <1>1, ForgetSafe DEF SafeInv, TypeOK, Stop, remote, counted

LEMMA RestartSafe ==
  ASSUME SafeInv, NEW p \in Runs, Restart(p)
  PROVE  SafeInv'
<1>1. pc' \in [Runs -> Steps] /\ \A q \in Runs : q # p => pc'[q] = pc[q]
  BY DEF SafeInv, TypeOK, Restart, Steps
<1>2. edits \in Nat /\ outages \in Nat /\ restarts' \in 0..MaxRestarts
  BY SyncAssumption DEF SafeInv, TypeOK, Restart
<1>3. asOf' \in [Runs -> Nat]
  BY <1>2 DEF SafeInv, TypeOK, Restart
<1>4. dry' \in [Runs -> BOOLEAN]
  BY SyncAssumption DEF SafeInv, TypeOK, Restart
<1>. QED  BY <1>1, <1>2, <1>3, <1>4, ForgetSafe DEF SafeInv, TypeOK, Restart, remote

LEMMA EditSafe ==
  ASSUME SafeInv, NEW r \in Repos, Edit(r)
  PROVE  SafeInv'
<1>. USE DEF SafeInv
<1>1. PICK a \in Handiwork :
        Answer(store[r], a) = "ok" /\ store' = [store EXCEPT ![r] = Effect(store[r], a)]
  BY DEF Edit
<1>2. a \in Action /\ store[r] \in Views /\ WellKeyed(store[r])
  BY SyncAssumption DEF TypeOK, AllWellKeyed
<1>3. store' \in [Repos -> Views] /\ \A q \in Repos : WellKeyed(store'[q])
  BY <1>1, <1>2, EffectOnView, StoreWritten
<1>4. edits' \in 0..MaxEdits
  BY SyncAssumption DEF TypeOK, Edit
<1>5. TypeOK'
  BY <1>3, <1>4 DEF TypeOK, Edit, local
<1>6. AllWellKeyed'
  BY <1>3 DEF AllWellKeyed, Edit, local
<1>7. DeletesAreChosen'
  BY DEF DeletesAreChosen, Edit, local
<1>. QED  BY <1>5, <1>6, <1>7

LEMMA WorldSafe ==
  ASSUME SafeInv, NEW r \in Repos, Outage(r) \/ Recovery(r)
  PROVE  SafeInv'
<1>. USE DEF SafeInv
<1>1. CASE Outage(r)
  BY <1>1, SyncAssumption
  DEF TypeOK, AllWellKeyed, DeletesAreChosen, Outage, local
<1>2. CASE Recovery(r)
  BY <1>2 DEF TypeOK, AllWellKeyed, DeletesAreChosen, Recovery, local, counted
<1>. QED  BY <1>1, <1>2

LEMMA StutterSafe ==
  ASSUME SafeInv, UNCHANGED vars
  PROVE  SafeInv'
BY DEF SafeInv, TypeOK, AllWellKeyed, DeletesAreChosen, vars

LEMMA NextSafe ==
  ASSUME SafeInv, [Next]_vars
  PROVE  SafeInv'
<1>1. ASSUME NEW p \in Runs, Advance(p) PROVE SafeInv'
  <2>1. ASSUME NEW r \in Repos, Read(p, r) PROVE SafeInv'
    BY <2>1, ReadSafe
  <2>2. ASSUME Apply(p) PROVE SafeInv'
    <3>1. PICK r \in Repos : \E a \in todo[p][r] :
            \/ Succeed(p, r, a)
            \/ Fallback(p, r, a)
            \/ Abandon(p, r, a)
            \/ Collide(p, r, a)
            \/ LoseAnswer(p, r, a)
      BY <2>2 DEF Apply
    <3>. QED  BY <3>1, SucceedSafe, FallbackSafe, AbandonSafe, CollideSafe, LoseAnswerSafe
  <2>. QED  BY <1>1, <2>1, <2>2, PlanSafe, SelectSafe, PreviewSafe, FinishSafe DEF Advance
<1>2. ASSUME NEW r \in Repos, Edit(r) \/ Outage(r) \/ Recovery(r) PROVE SafeInv'
  BY <1>2, EditSafe, WorldSafe
<1>. QED  BY <1>1, <1>2, StopSafe, RestartSafe, StutterSafe DEF Next

\* The invariant holds: for any runs, repositories and edits, every variable
\* keeps its type, views stay well keyed, and every delete a run has still to
\* send is of an unconfigured label, in prune mode, and chosen.
THEOREM Safety == Spec => []SafeInv
<1>1. Init => SafeInv
  BY InitSafe
<1>2. SafeInv /\ [Next]_vars => SafeInv'
  BY NextSafe
<1>. QED  BY <1>1, <1>2, PTL DEF Spec

\* Type correctness of Sync.
THEOREM TypeCorrect == Spec => []TypeOK
<1>1. SafeInv => TypeOK
  BY DEF SafeInv
<1>. QED  BY <1>1, Safety, PTL

-----------------------------------------------------------------------------
(***************************************************************************)
(* What a run may never do to a label.                                     *)
(***************************************************************************)

\* Run p changes repository r by carrying out the action a of its plan.
WritesIn(p, r, a) ==
  /\ InFlight(p, r, a)
  /\ Answer(store[r], a) = "ok"
  /\ store' = [store EXCEPT ![r] = Effect(store[r], a)]
  /\ \A q \in Runs : q # p => todo'[q] = todo[q] /\ tries'[q] = tries[q]

\* The store changes by an edit or by one accepted write of one run.
LEMMA OneWriter ==
  ASSUME SafeInv, [Next]_vars, store' # store
  PROVE  \/ \E r \in Repos : Edit(r)
         \/ \E p \in Runs : \E r \in Repos : \E a \in todo[p][r] : WritesIn(p, r, a)
<1>1. ASSUME NEW p \in Runs, Advance(p)
      PROVE  \E r \in Repos : \E a \in todo[p][r] : WritesIn(p, r, a)
  <2>1. PICK r \in Repos : \E a \in todo[p][r] : Succeed(p, r, a) \/ LoseAnswer(p, r, a)
    BY <1>1 DEF Advance, Read, Plan, Select, Preview, Apply, Fallback, Abandon, Collide, Finish, remote
  <2>2. PICK a \in todo[p][r] : Succeed(p, r, a) \/ LoseAnswer(p, r, a)
    BY <2>1
  <2>3. \A q \in Runs : q # p => todo'[q] = todo[q] /\ tries'[q] = tries[q]
    BY <2>2 DEF Succeed, LoseAnswer, SafeInv, TypeOK
  <2>4. CASE Succeed(p, r, a)
    BY <2>3, <2>4 DEF Succeed, WritesIn
  <2>5. CASE LoseAnswer(p, r, a)
    <3>1. store' = [store EXCEPT ![r] = Served(store[r], a)]
      BY <2>5 DEF LoseAnswer
    <3>2. Answer(store[r], a) = "ok"
      <4>1. SUFFICES ASSUME Answer(store[r], a) # "ok" PROVE store' = store
        BY <4>1
      <4>. QED  BY <3>1, <4>1 DEF Served, SafeInv, TypeOK
    <3>. QED  BY <2>3, <2>5, <3>1, <3>2 DEF LoseAnswer, WritesIn, Served
  <2>. QED  BY <2>2, <2>4, <2>5
<1>. QED  BY <1>1 DEF Next, Stop, Restart, Outage, Recovery, vars, remote

\* What one accepted write leaves of a label's identity.
LEMMA IdentityKept ==
  ASSUME SafeInv, NEW p \in Runs, NEW r \in Repos, NEW a \in todo[p][r], WritesIn(p, r, a),
         NEW q \in Repos, NEW k \in Present(store[q]),
         store[q][k].origin \notin Origins(store'[q])
  PROVE  q = r /\ a \in Removals(todo[p][r]) /\ k = Lower[a.name]
<1>1. a \in Action /\ store[r] \in Views /\ store \in [Repos -> Views]
  BY SelectedIsAnAction DEF SafeInv, TypeOK
<1>2. q = r
  <2>1. SUFFICES ASSUME q # r PROVE store'[q] = store[q]
    BY <2>1 DEF Origins
  <2>. QED  BY <1>1, <2>1 DEF WritesIn
<1>3. store'[r] = Effect(store[r], a)
  BY <1>1 DEF WritesIn
<1>4. store[r][k].origin \in Origins(store[r])
  BY <1>2 DEF Origins
<1>5. a.kind \notin {"create", "update"}
  BY <1>1, <1>2, <1>3, <1>4, EffectKeepsOrigins DEF WritesIn
<1>6. k = Lower[a.name]
  BY <1>1, <1>2, <1>3, <1>5, DeleteKeepsOthers
<1>7. a.kind = "delete"
  <2>1. a.kind # "noop"
    BY DEF WritesIn, InFlight, Writes
  <2>. QED  BY <1>1, <1>5, <2>1, ActionFields DEF Kinds
<1>. QED  BY <1>2, <1>6, <1>7 DEF Removals

\* A run removes a label only if it prunes and the user chose that label, and
\* never one whose name is configured: however runs overlap, stop and start
\* again, whatever people edit between the read and the delete.
THEOREM OnlyChosenAreRemoved == Spec => RemovesOnlyChosen
<1>1. ASSUME SafeInv, [Next]_vars, edits' = edits,
             NEW q \in Repos, NEW k \in Present(store[q]),
             store[q][k].origin \notin Origins(store'[q])
      PROVE  k \notin Configured(q) /\ \E p \in Runs : Mode[p] = "prune" /\ <<q, k>> \in chosen[p]
  <2>1. store' # store
    BY <1>1 DEF Origins
  <2>2. ~ \E r \in Repos : Edit(r)
    BY <1>1 DEF Edit, SafeInv, TypeOK
  <2>3. PICK p \in Runs : \E r \in Repos : \E a \in todo[p][r] : WritesIn(p, r, a)
    BY <1>1, <2>1, <2>2, OneWriter
  <2>4. PICK r \in Repos : \E a \in todo[p][r] : WritesIn(p, r, a)
    BY <2>3
  <2>5. PICK a \in todo[p][r] : WritesIn(p, r, a)
    BY <2>4
  <2>6. q = r /\ a \in Removals(todo[p][r]) /\ k = Lower[a.name]
    BY <1>1, <2>5, IdentityKept
  <2>7. pc[p] = "applying"
    BY <2>5 DEF WritesIn, InFlight
  <2>. QED  BY <1>1, <2>6, <2>7 DEF SafeInv, DeletesAreChosen
<1>2. SafeInv /\ [Next]_vars =>
        [edits' = edits =>
           \A r \in Repos : \A k \in Present(store[r]) :
             store[r][k].origin \notin Origins(store'[r]) =>
               /\ k \notin Configured(r)
               /\ \E p \in Runs : Mode[p] = "prune" /\ <<r, k>> \in chosen[p]]_vars
  BY <1>1
<1>. QED  BY <1>2, Safety, PTL DEF Spec, RemovesOnlyChosen

\* Append mode never deletes: no step of an append run destroys the identity
\* of a label, in any repository.
THEOREM AppendRemovesNothing == Spec => AppendKeepsLabels
<1>1. ASSUME SafeInv, [Next]_vars, NEW p \in Runs, Mode[p] = "append", Acts(p), NEW q \in Repos
      PROVE  Origins(store[q]) \subseteq Origins(store'[q])
  <2>1. SUFFICES ASSUME NEW k \in Present(store[q]), store[q][k].origin \notin Origins(store'[q])
                 PROVE  FALSE
    BY DEF Origins
  <2>2. store' # store
    BY <2>1 DEF Origins
  <2>3. ~ \E r \in Repos : Edit(r)
    BY <1>1 DEF Edit, Acts, local
  <2>4. PICK o \in Runs : \E r \in Repos : \E a \in todo[o][r] : WritesIn(o, r, a)
    BY <1>1, <2>2, <2>3, OneWriter
  <2>5. PICK r \in Repos : \E a \in todo[o][r] : WritesIn(o, r, a)
    BY <2>4
  <2>6. PICK a \in todo[o][r] : WritesIn(o, r, a)
    BY <2>5
  <2>7. o = p
    BY <1>1, <2>6 DEF WritesIn, Acts
  <2>8. a \in Removals(todo[p][r])
    BY <1>1, <2>1, <2>6, <2>7, IdentityKept
  <2>. QED  BY <1>1, <2>8 DEF SafeInv, DeletesAreChosen
<1>2. SafeInv /\ [Next]_vars =>
        [\A p \in Runs : Mode[p] = "append" /\ Acts(p) =>
           \A r \in Repos : Origins(store[r]) \subseteq Origins(store'[r])]_vars
  BY <1>1
<1>. QED  BY <1>2, Safety, PTL DEF Spec, AppendKeepsLabels
=============================================================================
