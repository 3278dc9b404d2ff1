--------------------------- MODULE OutcomeProofs ----------------------------
(***************************************************************************)
(* Proofs of what is left behind when runs have ended: which labels are    *)
(* the ones that were there, which repositories were skipped and why, what *)
(* runs that overlap achieve together, what a prune run leaves, whether    *)
(* the exit code says so.                                                  *)
(*                                                                         *)
(* They build on what ConvergenceProofs shows of a single step: each write *)
(* is Allowed, and the plan of the run that makes it is InTurn.            *)
(***************************************************************************)
EXTENDS ConvergenceProofs

-----------------------------------------------------------------------------
(***************************************************************************)
(* What a step does to the labels, while nobody edits them.                *)
(***************************************************************************)
LEMMA StepOfStore ==
  ASSUME TrackInv, TrackInv', [Next]_vars, edits' = 0, NEW r \in Repos
  PROVE  /\ edits = 0
         /\ store[r] \in Views /\ WellKeyed(store[r]) /\ store'[r] \in Views
         /\ Since(r, store[r], store'[r])
         /\ \/ store'[r] = store[r]
            \/ \E p \in Runs : \E a \in todo[p][r] :
                 /\ WritesIn(p, r, a)
                 /\ NextWrite(r, todo[p][r], store[r], a)
                 /\ store'[r] = Effect(store[r], a)
                 /\ Allowed(r, store[r], store'[r])
<1>1. TypeOK /\ TypeOK' /\ AllWellKeyed
  BY DEF TrackInv, SafeInv
<1>2. edits = 0 /\ \A q \in Repos : ~Edit(q)
  BY <1>1, NoEdits
<1>3. store[r] \in Views /\ WellKeyed(store[r]) /\ store'[r] \in Views
  BY <1>1 DEF TypeOK, AllWellKeyed
<1>4. ASSUME store'[r] # store[r]
      PROVE  \E p \in Runs : \E a \in todo[p][r] :
               /\ WritesIn(p, r, a)
               /\ NextWrite(r, todo[p][r], store[r], a)
               /\ store'[r] = Effect(store[r], a)
               /\ Allowed(r, store[r], store'[r])
  <2>1. PICK p \in Runs : \E q \in Repos : \E a \in todo[p][q] : WritesIn(p, q, a)
    BY <1>2, <1>4, OneWriter DEF TrackInv
  <2>2. PICK q \in Repos : \E a \in todo[p][q] : WritesIn(p, q, a)
    BY <2>1
  <2>3. PICK a \in todo[p][q] : WritesIn(p, q, a)
    BY <2>2
  <2>4. q = r /\ store'[r] = Effect(store[r], a)
    BY <1>1, <1>4, <2>3 DEF WritesIn, TypeOK
  <2>5. NextWrite(r, todo[p][r], store[r], a)
    BY <1>2, <2>3, <2>4, NobodyDisturbs, WriteIsNext DEF WritesIn
  <2>6. Allowed(r, store[r], store'[r])
    BY <1>3, <2>4, <2>5, NextIsAllowed
  <2>. QED  BY <2>3, <2>4, <2>5, <2>6
<1>5. Since(r, store[r], store'[r])
  <2>1. CASE store'[r] = store[r]
    BY <2>1, SinceNothing
  <2>2. CASE store'[r] # store[r]
    BY <1>3, <1>4, <2>2, AllowedSince
  <2>. QED  BY <2>1, <2>2
<1>. QED  BY <1>2, <1>3, <1>4, <1>5

\* The past does not change.
LEMMA PastStays == ASSUME [Next]_vars PROVE started' = started
<1>1. ASSUME NEW p \in Runs, Advance(p) PROVE started' = started
  BY <1>1 DEF Advance, Read, Plan, Select, Preview, Apply, Succeed, Fallback, Abandon,
              Collide, LoseAnswer, Finish
<1>. QED  BY <1>1 DEF Next, Stop, Restart, Edit, Outage, Recovery, vars

-----------------------------------------------------------------------------
(***************************************************************************)
(* A renamed label is the same label.                                      *)
(***************************************************************************)

\* The label that rename i is for is still where it was, or is where it belongs.
SameLabel(s, i) ==
  \/ s[From(i)] # None /\ s[From(i)].origin = From(i) /\ s[To(i)] = None
  \/ s[To(i)] # None /\ s[To(i)].origin = From(i)

IdentityInv ==
  edits = 0 => \A r \in Repos : \A i \in DOMAIN Renames :
    /\ started[r][From(i)] # None /\ started[r][To(i)] = None
    /\ To(i) \in Configured(r)
    => SameLabel(store[r], i)

LEMMA SameLabelStays ==
  ASSUME NEW r \in Repos, NEW s \in Views, NEW t, Allowed(r, s, t),
         NEW i \in DOMAIN Renames, To(i) \in Configured(r), SameLabel(s, i)
  PROVE  SameLabel(t, i)
<1>0. /\ From(i) \in Keys /\ To(i) \in Keys /\ From(i) # To(i) /\ From(i) \notin Configured(r)
      /\ s[From(i)] \in Label \cup {None} /\ s[To(i)] \in Label \cup {None}
  BY RenamesApart DEF Views
<1>1. ASSUME NEW j \in DOMAIN Renames, Moves(s, j, t) PROVE SameLabel(t, i)
  <2>1. From(j) \in Keys /\ To(j) \in Keys /\ From(j) # To(j)
        /\ From(j) # To(i) /\ From(i) # To(j)
        /\ (From(i) = From(j) => i = j) /\ (To(i) = To(j) => i = j)
    BY RenamesApart
  <2>2. CASE i = j
    <3>1. s[From(i)] \in Label /\ s[From(i)].origin = From(i)
      BY <1>0, <1>1, <2>2 DEF Moves, SameLabel
    <3>2. t[To(i)] = Moved(s, i)
      BY <1>0, <1>1, <2>2 DEF Moves, Views
    <3>3. Moved(s, i) \in Label /\ Moved(s, i).origin = From(i)
      BY <3>1, RenameFields DEF Moved, Label
    <3>. QED  BY <3>2, <3>3, SentinelAssumption DEF SameLabel
  <2>3. CASE i # j
    <3>1. t[From(i)] = s[From(i)] /\ t[To(i)] = s[To(i)]
      BY <1>0, <1>1, <2>1, <2>3 DEF Moves, Views
    <3>. QED  BY <3>1 DEF SameLabel
  <2>. QED  BY <2>2, <2>3
<1>2. ASSUME NEW k \in Keys, Recolours(r, s, k, t) PROVE SameLabel(t, i)
  <2>1. k # To(i)
    BY <1>2 DEF Recolours, Unconfigured
  <2>2. t[To(i)] = s[To(i)]
    BY <1>0, <1>2, <2>1 DEF Recolours, Views
  <2>3. CASE k = From(i)
    BY <1>2, <2>2, <2>3 DEF Recolours, SameLabel
  <2>4. CASE k # From(i)
    <3>1. t[From(i)] = s[From(i)]
      BY <1>0, <1>2, <2>4 DEF Recolours, Views
    <3>. QED  BY <2>2, <3>1 DEF SameLabel
  <2>. QED  BY <2>3, <2>4
<1>3. ASSUME NEW d \in Desired[r], Settles(r, s, d, t) PROVE SameLabel(t, i)
  <2>. DEFINE k == Lower[d.name]
  <2>0. k \in Keys /\ k \in Configured(r)
    BY DesiredFields DEF Configured
  <2>1. t[From(i)] = s[From(i)] /\ (k # To(i) => t[To(i)] = s[To(i)])
    BY <1>0, <1>3, <2>0 DEF Settles, Views
  <2>2. CASE k = To(i)
    <3>1. s[To(i)] # None /\ s[To(i)].origin = From(i)
      BY <1>3, <2>2 DEF Settles, SameLabel
    <3>2. t[To(i)].origin = From(i)
      BY <1>0, <1>3, <2>2, <3>1 DEF Settles, Views
    <3>3. t[To(i)] # None
      BY <1>3, <2>2, SettlesSince DEF Is
    <3>. QED  BY <3>2, <3>3 DEF SameLabel
  <2>3. CASE k # To(i)
    BY <2>1, <2>3 DEF SameLabel
  <2>. QED  BY <2>2, <2>3
<1>4. ASSUME NEW k \in Keys, Removes(r, s, k, t) PROVE SameLabel(t, i)
  <2>1. k # To(i) /\ s[To(i)] # None
    BY <1>4, ConfiguredKey DEF Removes, Removed, Unconfigured, Conforms
  <2>2. t[To(i)] = s[To(i)]
    BY <1>0, <1>4, <2>1 DEF Removes, Views
  <2>. QED  BY <2>1, <2>2 DEF SameLabel
<1>. QED  BY <1>1, <1>2, <1>3, <1>4 DEF Allowed

\* A label the configuration renames is the same label afterwards: nothing that
\* overlapping runs do, or the runs started after one that was stopped, makes
\* another label of the name it is to have.
THEOREM RenamesKeepIdentity == ASSUME RoomyPalette, SingleReads PROVE Spec => []RenameKeepsIdentity
<1>1. Init => IdentityInv
  <2>1. ASSUME Init, NEW r \in Repos, NEW i \in DOMAIN Renames,
               started[r][From(i)] # None, started[r][To(i)] = None
        PROVE  SameLabel(store[r], i)
    <3>1. From(i) \in Present(store[r])
      BY <2>1, RenamesApart DEF Init, Present
    <3>2. store[r][From(i)].origin = From(i)
      BY <2>1, <3>1, StoresAssumption DEF Init
    <3>. QED  BY <2>1, <3>2 DEF Init, SameLabel
  <2>. QED  BY <2>1 DEF IdentityInv
<1>2. TrackInv /\ TrackInv' /\ IdentityInv /\ [Next]_vars => IdentityInv'
  <2>1. ASSUME TrackInv, TrackInv', IdentityInv, [Next]_vars, edits' = 0,
               NEW r \in Repos, NEW i \in DOMAIN Renames,
               started'[r][From(i)] # None, started'[r][To(i)] = None, To(i) \in Configured(r)
        PROVE  SameLabel(store'[r], i)
    <3>1. started' = started
      BY <2>1, PastStays
    <3>2. SameLabel(store[r], i)
      BY <2>1, <3>1, StepOfStore DEF IdentityInv
    <3>3. /\ store[r] \in Views
          /\ store'[r] = store[r] \/ Allowed(r, store[r], store'[r])
      BY <2>1, StepOfStore
    <3>. QED  BY <2>1, <3>2, <3>3, SameLabelStays
  <2>. QED  BY <2>1 DEF IdentityInv
<1>3. TrackInv /\ IdentityInv => RenameKeepsIdentity
  <2>1. ASSUME TrackInv, IdentityInv, NEW p \in Runs, NEW r \in Repos, NEW i \in DOMAIN Renames,
               Finished(p, r), edits = 0,
               started[r][From(i)] # None, started[r][To(i)] = None, To(i) \in Configured(r)
        PROVE  store[r][To(i)].origin = From(i)
    <3>1. SameLabel(store[r], i)
      BY <2>1 DEF IdentityInv
    <3>2. Conforms(r, store[r])
      BY <2>1, NobodyDisturbs DEF TrackInv, RunsAreTracked, Tracked
    <3>3. store[r][To(i)] # None
      BY <2>1, <3>2, ConfiguredKey DEF Conforms
    <3>. QED  BY <3>1, <3>3 DEF SameLabel
  <2>. QED  BY <2>1 DEF RenameKeepsIdentity
<1>. QED  BY <1>1, <1>2, <1>3, Tracking, PTL DEF Spec

-----------------------------------------------------------------------------
(***************************************************************************)
(* Repositories are skipped for a rename that another run has made, or for *)
(* a label that another run has removed.                                   *)
(***************************************************************************)

\* What a step does to what a run has read and to the renames it has left.
LEMMA StepOfPlan ==
  ASSUME RoomyPalette, SingleReads, TrackInv, [Next]_vars, NEW p \in Runs, NEW r \in Repos
  PROVE  /\ seen'[p][r] \in {seen[p][r], store[r], NoLabels}
         /\ \A i \in DOMAIN Renames : RenameLeft(todo'[p][r], i) =>
              RenameLeft(todo[p][r], i) \/ (pc[p] = "reading" /\ i \in Applicable(seen[p][r]))
<1>. USE DEF Renaming, Recolouring, Creating, Existing, Deleting
<1>0. TypeOK /\ AllWellKeyed /\ PlansAreShaped
  BY DEF TrackInv, SafeInv
<1>1. ASSUME seen' = seen, todo'[p][r] \subseteq todo[p][r]
      PROVE  /\ seen'[p][r] \in {seen[p][r], store[r], NoLabels}
             /\ \A i \in DOMAIN Renames : RenameLeft(todo'[p][r], i) =>
                  RenameLeft(todo[p][r], i) \/ (pc[p] = "reading" /\ i \in Applicable(seen[p][r]))
  BY <1>1 DEF RenameLeft
<1>2. ASSUME NEW q \in Runs, NEW s \in Repos, Read(q, s)
      PROVE  seen'[p][r] \in {seen[p][r], store[r], NoLabels} /\ todo' = todo
  <2>1. CASE reachable[s]
    <3>1. seen' = [seen EXCEPT ![q][s] = store[s]] /\ todo' = todo
      BY <1>2, <2>1 DEF Read
    <3>. QED  BY <1>0, <3>1 DEF TypeOK
  <2>2. CASE ~reachable[s]
    BY <1>2, <2>2 DEF Read
  <2>. QED  BY <2>1, <2>2
<1>3. ASSUME NEW q \in Runs, Plan(q)
      PROVE  /\ seen'[p][r] \in {seen[p][r], store[r], NoLabels}
             /\ \A i \in DOMAIN Renames : RenameLeft(todo'[p][r], i) =>
                  RenameLeft(todo[p][r], i) \/ (pc[p] = "reading" /\ i \in Applicable(seen[p][r]))
  <2>1. PICK plan \in [Repos -> UNION {Plans(q, s, {}) : s \in Repos}] :
          /\ \A s \in Repos : plan[s] \in Plans(q, s, {})
          /\ todo' = [todo EXCEPT ![q] = plan]
    BY <1>3, SinglePlans
  <2>2. seen' = [seen EXCEPT ![q] = [s \in Repos |-> NoLabels]]
    BY <1>3 DEF Plan
  <2>3. CASE q # p
    BY <1>0, <2>1, <2>2, <2>3 DEF TypeOK
  <2>4. CASE q = p
    <3>1. seen'[p][r] = NoLabels /\ todo'[p][r] = plan[r]
      BY <1>0, <2>1, <2>2, <2>4 DEF TypeOK
    <3>2. CASE r \in Covered \ skipped[p]
      <4>1. Desired[r] # {} /\ seen[p][r] \in Views /\ WellKeyed(seen[p][r])
            /\ plan[r] \in Compute(r, seen[p][r], Mode[p])
        BY <1>0, <2>1, <2>4, <3>2 DEF Plans, TypeOK, AllWellKeyed, Covered
      <4>2. \A i \in DOMAIN Renames : RenameLeft(plan[r], i) => i \in Applicable(seen[p][r])
        BY <4>1, PlanPhases
      <4>. QED  BY <1>3, <2>4, <3>1, <4>2 DEF Plan
    <3>3. CASE r \notin Covered \ skipped[p]
      BY <2>1, <2>4, <3>1, <3>3 DEF Plans, RenameLeft
    <3>. QED  BY <3>2, <3>3
  <2>. QED  BY <2>3, <2>4
<1>4. ASSUME NEW q \in Runs, Select(q)
      PROVE  seen' = seen /\ todo'[p][r] \subseteq todo[p][r]
  <2>1. PICK keep \in SUBSET Offered(todo[q]) :
          todo' = [todo EXCEPT ![q] = RetainDeletes(todo[q], keep)]
    BY <1>4 DEF Select
  <2>2. RetainDeletes(todo[q], keep)[r] \subseteq todo[q][r]
    BY DEF RetainDeletes
  <2>. QED  BY <1>0, <1>4, <2>1, <2>2 DEF Select, TypeOK
<1>5. ASSUME NEW q \in Runs, Stop(q) \/ Restart(q)
      PROVE  /\ seen'[p][r] \in {seen[p][r], store[r], NoLabels}
             /\ todo'[p][r] \subseteq todo[p][r]
  <2>1. /\ seen' = [seen EXCEPT ![q] = [s \in Repos |-> NoLabels]]
        /\ todo' = [todo EXCEPT ![q] = NoPlan]
    BY <1>5 DEF Stop, Restart, Forget
  <2>2. CASE q = p
    <3>1. seen'[p][r] = NoLabels /\ todo'[p][r] = {}
      BY <1>0, <2>1, <2>2 DEF TypeOK, NoPlan
    <3>. QED  BY <3>1
  <2>3. CASE q # p
    BY <1>0, <2>1, <2>3 DEF TypeOK
  <2>. QED  BY <2>2, <2>3
<1>6. ASSUME NEW q \in Runs, NEW s \in Repos, NEW a \in todo[q][s], Fallback(q, s, a)
      PROVE  /\ seen' = seen
             /\ \A i \in DOMAIN Renames :
                  RenameLeft(todo'[p][r], i) => RenameLeft(todo[p][r], i)
  <2>1. seen' = seen /\ todo' = [todo EXCEPT ![q][s] = (@ \ {a}) \cup {AsUpdate(a)}]
        /\ a.kind = "create"
    BY <1>6 DEF Fallback
  <2>2. a \in ActionRecord /\ Planned(s, a)
    BY <1>0, SelectedIsAnAction, ActionFields DEF PlansAreShaped, Shaped
  <2>3. AsUpdate(a).phase = Creating
    BY <2>1, <2>2 DEF AsUpdate, ActionRecord, Planned, IsRename, IsRecolour, IsCreate, IsUpdate, IsRemoval
  <2>4. todo'[p][r] \subseteq todo[p][r] \cup {AsUpdate(a)}
    BY <1>0, <2>1 DEF TypeOK
  <2>. QED  BY <2>1, <2>3, <2>4 DEF RenameLeft
<1>7. ASSUME NEW q \in Runs, NEW s \in Repos, NEW a \in todo[q][s],
             Succeed(q, s, a) \/ Abandon(q, s, a) \/ Collide(q, s, a) \/ LoseAnswer(q, s, a)
      PROVE  seen' = seen /\ todo'[p][r] \subseteq todo[p][r]
  <2>1. seen' = seen
    BY <1>7 DEF Succeed, Abandon, Collide, LoseAnswer
  <2>2. \/ todo' = [todo EXCEPT ![q][s] = @ \ {a}]
        \/ todo' = [todo EXCEPT ![q][s] = {}]
        \/ todo' = todo
    BY <1>7 DEF Succeed, Abandon, Collide, LoseAnswer
  <2>3. CASE q = p /\ s = r
    <3>1. \/ todo'[p][r] = todo[p][r] \ {a}
          \/ todo'[p][r] = {}
          \/ todo'[p][r] = todo[p][r]
      BY <1>0, <2>2, <2>3 DEF TypeOK
    <3>. QED  BY <2>1, <3>1
  <2>4. CASE ~(q = p /\ s = r)
    <3>1. todo'[p][r] = todo[p][r]
      BY <1>0, <2>2, <2>4 DEF TypeOK
    <3>. QED  BY <2>1, <3>1
  <2>. QED  BY <2>3, <2>4
<1>8. ASSUME NEW q \in Runs, Preview(q) \/ Finish(q)
      PROVE  seen' = seen /\ todo' = todo
  BY <1>8 DEF Preview, Finish
<1>9. ASSUME (\E s \in Repos : Edit(s) \/ Outage(s) \/ Recovery(s)) \/ UNCHANGED vars
      PROVE  seen' = seen /\ todo' = todo
  BY <1>9 DEF Edit, Outage, Recovery, local, vars
<1>10. ASSUME NEW q \in Runs, Apply(q)
       PROVE  /\ seen' = seen
              /\ \A i \in DOMAIN Renames :
                   RenameLeft(todo'[p][r], i) => RenameLeft(todo[p][r], i)
  <2>1. PICK s \in Repos : \E a \in todo[q][s] :
          \/ Succeed(q, s, a) \/ Fallback(q, s, a) \/ Abandon(q, s, a)
          \/ Collide(q, s, a) \/ LoseAnswer(q, s, a)
    BY <1>10 DEF Apply
  <2>2. PICK a \in todo[q][s] :
          \/ Succeed(q, s, a) \/ Fallback(q, s, a) \/ Abandon(q, s, a)
          \/ Collide(q, s, a) \/ LoseAnswer(q, s, a)
    BY <2>1
  <2>. QED  BY <1>6, <1>7, <2>2 DEF RenameLeft
<1>11. ASSUME NEW q \in Runs, Advance(q)
       PROVE  /\ seen'[p][r] \in {seen[p][r], store[r], NoLabels}
              /\ \A i \in DOMAIN Renames : RenameLeft(todo'[p][r], i) =>
                   RenameLeft(todo[p][r], i) \/ (pc[p] = "reading" /\ i \in Applicable(seen[p][r]))
  <2>1. CASE \E s \in Repos : Read(q, s)
    BY <1>2, <2>1
  <2>2. CASE Select(q)
    BY <1>1, <1>4, <2>2
  <2>3. CASE Preview(q) \/ Finish(q)
    BY <1>8, <2>3
  <2>. QED  BY <1>3, <1>10, <1>11, <2>1, <2>2, <2>3 DEF Advance
<1>12. ASSUME NEW q \in Runs, Stop(q) \/ Restart(q)
       PROVE  /\ seen'[p][r] \in {seen[p][r], store[r], NoLabels}
              /\ \A i \in DOMAIN Renames : RenameLeft(todo'[p][r], i) =>
                   RenameLeft(todo[p][r], i) \/ (pc[p] = "reading" /\ i \in Applicable(seen[p][r]))
  BY <1>5, <1>12 DEF RenameLeft
<1>. QED  BY <1>9, <1>11, <1>12 DEF Next

\* A run only ever sets out to rename a label that was there in the beginning.
BegunInv ==
  edits = 0 => \A r \in Repos : \A i \in DOMAIN Renames :
    \/ started[r][From(i)] # None
    \/ /\ store[r][From(i)] = None
       /\ \A p \in Runs : seen[p][r][From(i)] = None /\ ~RenameLeft(todo[p][r], i)

LEMMA Begins == ASSUME RoomyPalette, SingleReads PROVE Spec => []BegunInv
<1>1. Init => BegunInv
  <2>1. \A k \in Keys : NoLabels[k] = None
    BY DEF NoLabels
  <2>. QED  BY <2>1, RenamesApart DEF Init, BegunInv, NoPlan, RenameLeft
<1>2. TrackInv /\ TrackInv' /\ BegunInv /\ [Next]_vars => BegunInv'
  <2>1. ASSUME TrackInv, TrackInv', BegunInv, [Next]_vars, edits' = 0,
               NEW r \in Repos, NEW i \in DOMAIN Renames, started'[r][From(i)] = None
        PROVE  /\ store'[r][From(i)] = None
               /\ \A p \in Runs : seen'[p][r][From(i)] = None /\ ~RenameLeft(todo'[p][r], i)
    <3>1. started' = started /\ edits = 0 /\ Since(r, store[r], store'[r])
      BY <2>1, PastStays, StepOfStore
    <3>2. /\ store[r][From(i)] = None
          /\ \A p \in Runs : seen[p][r][From(i)] = None /\ ~RenameLeft(todo[p][r], i)
      BY <2>1, <3>1 DEF BegunInv
    <3>3. store'[r][From(i)] = None
      BY <3>1, <3>2 DEF Since
    <3>4. NoLabels[From(i)] = None
      BY RenamesApart DEF NoLabels
    <3>5. ASSUME NEW p \in Runs
          PROVE  seen'[p][r][From(i)] = None /\ ~RenameLeft(todo'[p][r], i)
      BY <2>1, <3>2, <3>4, StepOfPlan DEF Applicable
    <3>. QED  BY <3>3, <3>5
  <2>. QED  BY <2>1 DEF BegunInv
<1>. QED  BY <1>1, <1>2, Tracking, PTL DEF Spec

\* What a label that a plan names can have become.
LEMMA WhatIsMissing ==
  ASSUME NEW r \in Repos, NEW T, NEW s \in Views, NEW a, InTurn(r, T, s, a),
         Answer(s, a) = "missing"
  PROVE  \/ Removed(r, s)
         \/ \E i \in DOMAIN Renames : RenameLeft(T, i) /\ s[From(i)] = None
<1>. USE DEF Renaming, Recolouring, Creating, Existing, Deleting
<1>1. /\ a \in Action /\ a \in T /\ a.kind # "noop" /\ Lower[a.name] \in Keys
      /\ a.phase > Renaming => \A i \in DOMAIN Renames : ~RenameLeft(T, i)
  BY FirstInTurn, TargetIsKey
<1>2. a.kind # "create" /\ s[Lower[a.name]] = None
  BY DEF Answer
<1>3. CASE \E i \in DOMAIN Renames : IsRename(a, i)
  BY <1>1, <1>2, <1>3 DEF IsRename, RenameLeft
<1>4. CASE IsRecolour(r, a)
  <2>1. RecolourLeft(T, Lower[a.name])
    BY <1>1, <1>4 DEF IsRecolour, RecolourLeft
  <2>. QED  BY <1>1, <1>2, <1>4, <2>1 DEF IsRecolour, InTurn, OnTrack, TargetsThere
<1>5. ASSUME NEW d \in Desired[r], IsCreate(a, d) PROVE FALSE
  BY <1>1, <1>2, <1>5 DEF IsCreate, InTurn, OnTrack, TargetsThere
<1>6. ASSUME NEW d \in Desired[r], IsUpdate(a, d) PROVE FALSE
  BY <1>1, <1>2, <1>6 DEF IsUpdate, InTurn, OnTrack, UpdatesRight, Right
<1>7. CASE IsRemoval(r, a)
  <2>1. \A b \in Writes(T) : b.phase = Deleting
    BY <1>7, FirstInTurn, ActionFields DEF IsRemoval, InTurn, Writes
  <2>. QED  BY <1>7, <2>1, NothingButRemovals DEF InTurn, IsRemoval, Removed
<1>. QED  BY <1>1, <1>3, <1>4, <1>5, <1>6, <1>7 DEF InTurn, Planned

\* A repository is skipped only where it cannot be reached or a label is missing.
LEMMA StepOfSkips ==
  ASSUME TypeOK, [Next]_vars, NEW p \in Runs, NEW r \in skipped'[p] \ skipped[p]
  PROVE  \/ ~reachable[r]
         \/ \E a \in todo[p][r] : InFlight(p, r, a) /\ Answer(store[r], a) = "missing"
<1>1. ASSUME NEW q \in Runs, NEW s \in Repos, Read(q, s)
      PROVE  ~reachable[r]
  <2>1. CASE reachable[s]
    BY <1>1, <2>1 DEF Read
  <2>2. CASE ~reachable[s]
    <3>1. skipped' = [skipped EXCEPT ![q] = @ \cup {s}]
      BY <1>1, <2>2 DEF Read
    <3>2. r = s
      BY <3>1 DEF TypeOK
    <3>. QED  BY <2>2, <3>2
  <2>. QED  BY <2>1, <2>2
<1>2. ASSUME NEW q \in Runs, NEW s \in Repos, NEW a \in todo[q][s], Abandon(q, s, a)
      PROVE  \/ ~reachable[r]
             \/ \E b \in todo[p][r] : InFlight(p, r, b) /\ Answer(store[r], b) = "missing"
  <2>1. skipped' = [skipped EXCEPT ![q] = @ \cup {s}]
    BY <1>2 DEF Abandon
  <2>2. q = p /\ r = s
    BY <2>1 DEF TypeOK
  <2>. QED  BY <1>2, <2>2 DEF Abandon
<1>3. ASSUME NEW q \in Runs, Stop(q) \/ Restart(q) PROVE FALSE
  <2>1. skipped' = [skipped EXCEPT ![q] = {}]
    BY <1>3 DEF Stop, Restart, Forget
  <2>. QED  BY <2>1 DEF TypeOK
<1>4. ASSUME NEW q \in Runs, Advance(q), \A s \in Repos : ~Read(q, s) PROVE
             \/ ~reachable[r]
             \/ \E b \in todo[p][r] : InFlight(p, r, b) /\ Answer(store[r], b) = "missing"
  <2>1. CASE skipped' = skipped
    BY <2>1
  <2>2. CASE Apply(q)
    <3>1. PICK s \in Repos : \E a \in todo[q][s] :
            \/ Succeed(q, s, a) \/ Fallback(q, s, a) \/ Abandon(q, s, a)
            \/ Collide(q, s, a) \/ LoseAnswer(q, s, a)
      BY <2>2 DEF Apply
    <3>2. PICK a \in todo[q][s] :
            \/ Succeed(q, s, a) \/ Fallback(q, s, a) \/ Abandon(q, s, a)
            \/ Collide(q, s, a) \/ LoseAnswer(q, s, a)
      BY <3>1
    <3>. QED  BY <1>2, <2>1, <3>2 DEF Succeed, Fallback, Collide, LoseAnswer
  <2>3. CASE Plan(q) \/ Select(q) \/ Preview(q) \/ Finish(q)
    BY <2>1, <2>3 DEF Plan, Select, Preview, Finish
  <2>. QED  BY <1>4, <2>2, <2>3 DEF Advance
<1>. QED  BY <1>1, <1>3, <1>4 DEF Next, Edit, Outage, Recovery, local, vars

\* While no repository has been hidden all of them can be reached.
ReachInv == outages = 0 => \A r \in Repos : reachable[r]

LEMMA StepOfReach ==
  ASSUME TypeOK, ReachInv, [Next]_vars
  PROVE  ReachInv' /\ (outages' = 0 => outages = 0)
<1>1. outages \in Nat
  BY SyncAssumption DEF TypeOK
<1>2. ASSUME NEW r \in Repos, Outage(r) PROVE outages' # 0
  BY <1>1, <1>2 DEF Outage
<1>3. ASSUME NEW p \in Runs, Advance(p) PROVE outages' = outages /\ reachable' = reachable
  BY <1>3 DEF Advance, Read, Plan, Select, Preview, Apply, Succeed, Fallback, Abandon,
              Collide, LoseAnswer, Finish, remote, counted
<1>4. ASSUME NEW r \in Repos, Recovery(r)
      PROVE  outages' = outages /\ reachable' = [reachable EXCEPT ![r] = TRUE]
  BY <1>4 DEF Recovery, counted
<1>5. CASE outages' = outages /\ reachable' = reachable
  BY <1>5 DEF ReachInv
<1>6. CASE \E r \in Repos : Outage(r) \/ Recovery(r)
  BY <1>2, <1>4, <1>6 DEF ReachInv, TypeOK
<1>. QED  BY <1>3, <1>5, <1>6 DEF Next, Stop, Restart, Edit, remote, vars, counted

LEMMA ReachedAll == Spec => []ReachInv
<1>1. Init => ReachInv
  BY DEF Init, ReachInv
<1>2. TypeOK /\ ReachInv /\ [Next]_vars => ReachInv'
  BY StepOfReach
<1>. QED  BY <1>1, <1>2, TypeCorrect, PTL DEF Spec

LEMMA BothAreZero ==
  ASSUME NEW m \in Nat, NEW n \in Nat, m + n = 0
  PROVE  m = 0 /\ n = 0
OBVIOUS

\* In append mode a reachable repository is given up only where a label was to be
\* renamed: whatever else is missing from it, or has come to be there, since it
\* was read, its plan can still be carried out.  That holds of runs in one mode:
\* a prune run may remove what an append run is about to recolour.
THEOREM SkipsAreForRenames ==
  ASSUME RoomyPalette, SingleReads, \A p, q \in Runs : Mode[p] = Mode[q]
  PROVE  Spec => []SkipsOnlyRenames
<1>1. Init => SkipsOnlyRenames
  BY DEF Init, SkipsOnlyRenames
<1>2. /\ TrackInv /\ TrackInv' /\ BegunInv /\ ReachInv /\ SkipsOnlyRenames
      /\ [Next]_vars
      => SkipsOnlyRenames'
  <2>1. ASSUME TrackInv, TrackInv', BegunInv, ReachInv, SkipsOnlyRenames, [Next]_vars,
               edits' = 0, outages' = 0, NEW p \in Runs, NEW r \in skipped'[p],
               Mode[p] # "prune"
        PROVE  \E i \in DOMAIN Renames : started'[r][From(i)] # None
    <3>0. TypeOK /\ TypeOK' /\ r \in Repos
      BY <2>1 DEF TrackInv, SafeInv, TypeOK
    <3>1. started' = started /\ edits = 0 /\ outages = 0
      BY <2>1, <3>0, PastStays, StepOfStore, StepOfReach
    <3>2. CASE r \in skipped[p]
      BY <2>1, <3>1, <3>2 DEF SkipsOnlyRenames
    <3>3. CASE r \notin skipped[p]
      <4>1. PICK a \in todo[p][r] : InFlight(p, r, a) /\ Answer(store[r], a) = "missing"
        BY <2>1, <3>0, <3>1, <3>3, StepOfSkips DEF ReachInv
      <4>2. InTurn(r, todo[p][r], store[r], a) /\ store[r] \in Views
        BY <2>1, <3>0, <3>1, <4>1, NobodyDisturbs, WriteIsInTurn
      <4>3. ~Removed(r, store[r])
        BY <2>1 DEF Removed, SomeRunPrunes
      <4>4. PICK i \in DOMAIN Renames : RenameLeft(todo[p][r], i)
        BY <3>0, <4>1, <4>2, <4>3, WhatIsMissing
      <4>. QED  BY <2>1, <3>0, <3>1, <4>4 DEF BegunInv
    <3>. QED  BY <3>2, <3>3
  <2>2. ASSUME TypeOK', edits' + outages' = 0 PROVE edits' = 0 /\ outages' = 0
    <3>1. edits' \in Nat /\ outages' \in Nat
      BY <2>2, SyncAssumption DEF TypeOK
    <3>. QED  BY <2>2, <3>1, BothAreZero
  <2>. QED  BY <2>1, <2>2 DEF SkipsOnlyRenames, TrackInv, SafeInv
<1>. QED  BY <1>1, <1>2, Tracking, Begins, ReachedAll, PTL DEF Spec

-----------------------------------------------------------------------------
(***************************************************************************)
(* Runs that overlap do not defeat each other.  A run may find that a      *)
(* label it was to rename has been renamed by another one, and gives the   *)
(* repository up.  But not all of them can: one that renames the label is  *)
(* Good afterwards.  It carries out its renames in the order in which they *)
(* are configured, and so has found all the later ones not made yet.       *)
(***************************************************************************)

\* Nothing keeps run p from what it has to do to repository r, or p will not
\* come to the end that OverlapConverges speaks of.
Good(p, r) ==
  \/ pc[p] = "failed"
  \/ pc[p] = "done" /\ dry[p]
  \/ pc[p] = "reading" /\ r \in unread[p] \ skipped[p]
  \/ HasRead(p, r) /\ \A i \in Applicable(seen[p][r]) : store[r][From(i)] # None
  \/ HasPlan(p, r) /\ \A i \in DOMAIN Renames :
       RenameLeft(todo[p][r], i) => store[r][From(i)] # None

\* Renames are made in order: one is not made while an earlier one could be.
OrderedInv ==
  edits = 0 => \A r \in Repos : ~Conforms(r, store[r]) =>
    \A i, j \in DOMAIN Renames :
      i < j /\ i \in Applicable(store[r]) /\ store[r][From(j)] = None =>
        started[r][From(j)] = None

SomeRunIsGood ==
  edits = 0 /\ outages = 0 =>
    \A r \in Covered : Conforms(r, store[r]) \/ \E p \in Runs : Good(p, r)

\* A label to be renamed disappears, in a repository that is not as configured,
\* by being renamed.
LEMMA OnlyRenamed ==
  ASSUME TrackInv, TrackInv', [Next]_vars, edits' = 0, NEW r \in Repos,
         ~Conforms(r, store'[r]), NEW j \in DOMAIN Renames,
         store[r][From(j)] # None, store'[r][From(j)] = None
  PROVE  /\ Moves(store[r], j, store'[r])
         /\ \E p \in Runs : \E a \in todo[p][r] :
              /\ WritesIn(p, r, a)
              /\ NextWrite(r, todo[p][r], store[r], a)
              /\ IsRename(a, j)
<1>. DEFINE s == store[r]
<1>1. s \in Views /\ WellKeyed(s) /\ Since(r, s, store'[r]) /\ store'[r] # s
  BY StepOfStore
<1>2. PICK p \in Runs : \E a \in todo[p][r] :
        /\ WritesIn(p, r, a) /\ NextWrite(r, todo[p][r], s, a) /\ store'[r] = Effect(s, a)
  BY <1>1, StepOfStore
<1>3. PICK a \in todo[p][r] :
        /\ WritesIn(p, r, a) /\ NextWrite(r, todo[p][r], s, a) /\ store'[r] = Effect(s, a)
  BY <1>2
<1>4. /\ Lower[a.name] \in Keys
      /\ \/ \E i \in DOMAIN Renames : IsRename(a, i) /\ Moves(s, i, store'[r])
         \/ Recolours(r, s, Lower[a.name], store'[r])
         \/ \E d \in Desired[r] : Settles(r, s, d, store'[r])
         \/ Removes(r, s, Lower[a.name], store'[r])
  BY <1>1, <1>3, DoNext
<1>5. From(j) \in Keys /\ From(j) \notin Configured(r)
  BY RenamesApart
<1>6. ~Conforms(r, s)
  BY <1>1, StaysConform
<1>7. ASSUME Recolours(r, s, Lower[a.name], store'[r]) PROVE FALSE
  <2>1. PICK c \in Palette : store'[r] = [s EXCEPT ![Lower[a.name]].color = c]
    BY <1>7 DEF Recolours
  <2>2. From(j) = Lower[a.name]
    BY <1>1, <1>4, <1>5, <2>1 DEF Views
  <2>3. s[From(j)] \in Label
    BY <1>1, <1>5 DEF Views
  <2>4. store'[r][From(j)] \in Label
    BY <1>1, <1>5, <2>1, <2>2, <2>3, PaletteAssumption DEF Views, Label
  <2>. QED  BY <2>4, SentinelAssumption
<1>8. ASSUME NEW d \in Desired[r], Settles(r, s, d, store'[r]) PROVE FALSE
  <2>1. Lower[d.name] # From(j)
    BY <1>5 DEF Configured
  <2>. QED  BY <1>1, <1>5, <1>8, <2>1 DEF Settles, Views
<1>9. ~Removes(r, s, Lower[a.name], store'[r])
  BY <1>6 DEF Removes, Removed
<1>10. PICK i \in DOMAIN Renames : IsRename(a, i) /\ Moves(s, i, store'[r])
  BY <1>4, <1>7, <1>8, <1>9
<1>11. i = j
  <2>1. From(i) \in Keys /\ To(i) \in Keys /\ From(j) # To(i) /\ (From(i) = From(j) => i = j)
    BY RenamesApart
  <2>. QED  BY <1>1, <1>5, <1>10, <2>1 DEF Moves, Views
<1>. QED  BY <1>3, <1>10, <1>11

LEMMA Orders == ASSUME RoomyPalette, SingleReads PROVE Spec => []OrderedInv
<1>1. Init => OrderedInv
  BY DEF Init, OrderedInv
<1>2. TrackInv /\ TrackInv' /\ BegunInv /\ OrderedInv /\ [Next]_vars => OrderedInv'
  <2>. SUFFICES ASSUME TrackInv, TrackInv', BegunInv, OrderedInv, [Next]_vars, edits' = 0,
                       NEW r \in Repos, ~Conforms(r, store'[r]),
                       NEW i \in DOMAIN Renames, NEW j \in DOMAIN Renames, i < j,
                       i \in Applicable(store'[r]), store'[r][From(j)] = None
                PROVE  started'[r][From(j)] = None
    BY DEF OrderedInv
  <2>. DEFINE s == store[r]
              t == store'[r]
  <2>1. started' = started /\ edits = 0 /\ Since(r, s, t) /\ ~Conforms(r, s)
    BY PastStays, StepOfStore, StaysConform
  <2>2. To(i) \in Keys /\ From(i) # From(j) /\ \A k \in DOMAIN Renames : To(i) # From(k)
    <3>1. i # j
      BY RenameFields
    <3>. QED  BY <3>1, RenamesApart
  <2>3. i \in Applicable(s)
    BY <2>1, <2>2 DEF Since, Applicable, Removed
  <2>4. CASE s[From(j)] = None
    BY <2>1, <2>3, <2>4 DEF OrderedInv
  <2>5. CASE s[From(j)] # None
    <3>1. PICK p \in Runs : \E a \in todo[p][r] :
            /\ NextWrite(r, todo[p][r], s, a)
            /\ IsRename(a, j)
      BY <2>5, OnlyRenamed
    <3>2. PICK a \in todo[p][r] : NextWrite(r, todo[p][r], s, a) /\ IsRename(a, j)
      BY <3>1
    <3>3. RenameLeft(todo[p][r], i)
      BY <2>1, <2>3, <3>2 DEF NextWrite, InTurn, OnTrack, RenamesLeft, Applicable, Removed
    <3>4. PICK b \in todo[p][r] : b.phase = Renaming /\ b.pos = i
      BY <3>3 DEF RenameLeft
    <3>5. b.kind # "noop"
      BY <3>2, <3>4 DEF NextWrite, InTurn, Planned, IsRename, IsRecolour, IsCreate, IsUpdate,
         IsRemoval, Renaming, Recolouring, Creating, Existing, Deleting
    <3>6. b = a \/ Before(a, b)
      BY <3>2, <3>5 DEF NextWrite, InTurn, Writes
    <3>7. i \in Nat /\ j \in Nat
      BY RenameFields
    <3>. QED  BY <3>2, <3>4, <3>6, <3>7 DEF Before, IsRename, Renaming
  <2>. QED  BY <2>4, <2>5
<1>. QED  BY <1>1, <1>2, Tracking, Begins, PTL DEF Spec

\* What a run knows of its own changes by its own steps only.
Own(p) == <<pc[p], dry[p], unread[p], seen[p], todo[p], skipped[p]>>

LEMMA OneActs ==
  ASSUME TypeOK, [Next]_vars, NEW p \in Runs, ~Advance(p), ~Stop(p), ~Restart(p)
  PROVE  Own(p)' = Own(p)
<1>1. ASSUME NEW q \in Runs \ {p}, Stop(q) \/ Restart(q) PROVE Own(p)' = Own(p)
  BY <1>1 DEF Stop, Restart, Forget, TypeOK, Own
<1>2. ASSUME NEW q \in Runs \ {p}, NEW r \in Repos, Read(q, r) PROVE Own(p)' = Own(p)
  <2>1. CASE reachable[r]
    BY <1>2, <2>1 DEF Read, TypeOK, Own
  <2>2. CASE ~reachable[r]
    BY <1>2, <2>2 DEF Read, TypeOK, Own
  <2>. QED  BY <2>1, <2>2
<1>3. ASSUME NEW q \in Runs \ {p}, Plan(q) \/ Select(q) PROVE Own(p)' = Own(p)
  <2>1. /\ \A s \in Runs \ {q} : pc'[s] = pc[s] /\ todo'[s] = todo[s] /\ seen'[s] = seen[s]
        /\ dry' = dry /\ unread' = unread /\ skipped' = skipped
    BY <1>3 DEF Plan, Select, TypeOK
  <2>. QED  BY <2>1 DEF Own
<1>4. ASSUME NEW q \in Runs \ {p}, Preview(q) \/ Finish(q) PROVE Own(p)' = Own(p)
  BY <1>4 DEF Preview, Finish, TypeOK, Own
<1>5. ASSUME NEW q \in Runs \ {p}, NEW r \in Repos, NEW a \in todo[q][r],
             \/ Succeed(q, r, a) \/ Fallback(q, r, a) \/ Abandon(q, r, a)
             \/ Collide(q, r, a) \/ LoseAnswer(q, r, a)
      PROVE  Own(p)' = Own(p)
  <2>1. /\ \A s \in Runs \ {q} : pc'[s] = pc[s] /\ todo'[s] = todo[s] /\ skipped'[s] = skipped[s]
        /\ dry' = dry /\ unread' = unread /\ seen' = seen
    <3>1. CASE Succeed(q, r, a)
      BY <3>1 DEF Succeed, TypeOK
    <3>2. CASE Fallback(q, r, a)
      BY <3>2 DEF Fallback, TypeOK
    <3>3. CASE Abandon(q, r, a)
      BY <3>3 DEF Abandon, TypeOK
    <3>4. CASE Collide(q, r, a) \/ LoseAnswer(q, r, a)
      BY <3>4 DEF Collide, LoseAnswer, TypeOK
    <3>. QED  BY <1>5, <3>1, <3>2, <3>3, <3>4
  <2>. QED  BY <2>1 DEF Own
<1>6. ASSUME NEW q \in Runs \ {p}, Advance(q) PROVE Own(p)' = Own(p)
  BY <1>2, <1>3, <1>4, <1>5, <1>6 DEF Advance, Apply
<1>. QED  BY <1>1, <1>6 DEF Next, Edit, Outage, Recovery, local, vars, Own

LEMMA GoodStays ==
  ASSUME RoomyPalette, SingleReads, TrackInv, TrackInv', ReachInv, [Next]_vars, edits' = 0, outages' = 0,
         NEW p \in Runs, NEW r \in Covered, Good(p, r), ~Conforms(r, store'[r]),
         \A i \in DOMAIN Renames : store[r][From(i)] # None => store'[r][From(i)] # None
  PROVE  Good(p, r)'
<1>0. /\ TypeOK /\ r \in Repos /\ reachable[r]
      /\ edits = 0 /\ ~Conforms(r, store[r])
  <2>1. TypeOK /\ r \in Repos
    BY DEF TrackInv, SafeInv, Covered
  <2>2. edits = 0 /\ ~Conforms(r, store[r])
    BY <2>1, StepOfStore, StaysConform
  <2>. QED  BY <2>1, <2>2, StepOfReach DEF ReachInv
<1>1. CASE Own(p)' = Own(p)
  <2>1. /\ pc'[p] = pc[p] /\ dry'[p] = dry[p] /\ unread'[p] = unread[p]
        /\ seen'[p] = seen[p] /\ todo'[p] = todo[p] /\ skipped'[p] = skipped[p]
    BY <1>1 DEF Own
  <2>. QED  BY <2>1 DEF Good, HasRead, HasPlan, Applicable
<1>2. CASE Stop(p) \/ Restart(p)
  <2>1. CASE Stop(p)
    <3>1. pc'[p] = "failed"
      BY <1>0, <2>1 DEF Stop, TypeOK
    <3>. QED  BY <3>1 DEF Good
  <2>2. CASE Restart(p)
    <3>1. pc'[p] = "reading" /\ unread'[p] = Covered /\ skipped'[p] = {}
      BY <1>0, <2>2 DEF Restart, Forget, TypeOK
    <3>. QED  BY <3>1 DEF Good
  <2>. QED  BY <1>2, <2>1, <2>2
<1>3. ASSUME NEW s \in Repos, Read(p, s) PROVE Good(p, r)'
  <2>1. /\ pc' = pc /\ pc[p] = "reading" /\ store' = store
        /\ unread' = [unread EXCEPT ![p] = @ \ {s}]
    BY <1>3 DEF Read
  <2>2. CASE s = r
    <3>1. seen' = [seen EXCEPT ![p][r] = store[r]] /\ skipped' = skipped
      BY <1>0, <1>3, <2>2 DEF Read
    <3>2. seen'[p][r] = store'[r] /\ r \notin unread'[p] /\ skipped'[p] = skipped[p]
      BY <1>0, <2>1, <2>2, <3>1 DEF TypeOK
    <3>3. r \in unread[p] /\ r \notin skipped[p]
      BY <1>3, <2>1, <2>2 DEF Read, Good, HasRead, HasPlan
    <3>. QED  BY <2>1, <3>2, <3>3 DEF Good, HasRead, Applicable
  <2>3. CASE s # r
    <3>1. seen'[p][r] = seen[p][r] /\ (r \in skipped'[p] <=> r \in skipped[p])
          /\ (r \in unread'[p] <=> r \in unread[p])
      <4>1. CASE reachable[s]
        BY <1>0, <1>3, <2>1, <2>3, <4>1 DEF Read, TypeOK
      <4>2. CASE ~reachable[s]
        BY <1>0, <1>3, <2>1, <2>3, <4>2 DEF Read, TypeOK
      <4>. QED  BY <4>1, <4>2
    <3>. QED  BY <2>1, <3>1 DEF Good, HasRead, HasPlan
  <2>. QED  BY <2>2, <2>3
<1>4. CASE Plan(p)
  <2>1. pc[p] = "reading" /\ unread[p] = {} /\ pc'[p] = "planned"
        /\ skipped' = skipped /\ store' = store
    BY <1>0, <1>4 DEF Plan, TypeOK
  <2>2. HasRead(p, r) /\ \A i \in Applicable(seen[p][r]) : store[r][From(i)] # None
    BY <2>1 DEF Good, HasPlan
  <2>3. todo[p][r] = {}
    BY <1>0, <2>1 DEF TrackInv, PlansAreShaped, Shaped
  <2>4. \A i \in DOMAIN Renames : RenameLeft(todo'[p][r], i) => i \in Applicable(seen[p][r])
    BY <1>0, <2>3, StepOfPlan DEF RenameLeft
  <2>. QED  BY <2>1, <2>2, <2>4 DEF Good, HasRead, HasPlan
<1>5. CASE Select(p)
  <2>1. pc[p] = "planned" /\ pc'[p] \in {"failed", "applying"}
        /\ skipped' = skipped /\ store' = store /\ seen' = seen
    BY <1>0, <1>5 DEF Select, TypeOK
  <2>2. HasPlan(p, r) /\ \A i \in DOMAIN Renames :
          RenameLeft(todo[p][r], i) => store[r][From(i)] # None
    BY <2>1 DEF Good, HasRead
  <2>3. \A i \in DOMAIN Renames : RenameLeft(todo'[p][r], i) => RenameLeft(todo[p][r], i)
    <3>1. PICK keep \in SUBSET Offered(todo[p]) :
            todo' = [todo EXCEPT ![p] = RetainDeletes(todo[p], keep)]
      BY <1>5 DEF Select
    <3>2. RetainDeletes(todo[p], keep)[r] \subseteq todo[p][r]
      BY <1>0 DEF RetainDeletes
    <3>3. todo'[p][r] \subseteq todo[p][r]
      BY <1>0, <3>1, <3>2 DEF TypeOK
    <3>. QED  BY <3>3 DEF RenameLeft
  <2>. QED  BY <2>1, <2>2, <2>3 DEF Good, HasPlan
<1>6. CASE Preview(p)
  BY <1>0, <1>6 DEF Preview, TypeOK, Good
<1>7. CASE Finish(p)
  <2>1. pc[p] = "applying" /\ pc'[p] = "done" /\ skipped' = skipped /\ dry' = dry
    BY <1>0, <1>7 DEF Finish, TypeOK
  <2>2. r \notin skipped[p]
    BY <2>1 DEF Good, HasRead, HasPlan
  <2>3. ~Finished(p, r)'
    <3>1. Quiet(p)'
      BY <1>0, <2>1 DEF TrackInv, SafeInv, TypeOK, EditsAreCounted, Quiet, Undisturbed
    <3>. QED  BY <1>0, <3>1 DEF TrackInv, RunsAreTracked, Tracked
  <2>. QED  BY <2>1, <2>2, <2>3 DEF Good, Finished
<1>8. ASSUME NEW s \in Repos, NEW a \in todo[p][s],
             \/ Succeed(p, s, a) \/ Fallback(p, s, a) \/ Abandon(p, s, a)
             \/ Collide(p, s, a) \/ LoseAnswer(p, s, a)
      PROVE  Good(p, r)'
  <2>1. pc[p] = "applying" /\ InFlight(p, s, a)
    BY <1>8 DEF Succeed, Fallback, Abandon, Collide, LoseAnswer, InFlight
  <2>2. HasPlan(p, r) /\ \A i \in DOMAIN Renames :
          RenameLeft(todo[p][r], i) => store[r][From(i)] # None
    BY <2>1 DEF Good, HasRead
  <2>3. CASE Collide(p, s, a)
    BY <1>0, <2>3 DEF Collide, TypeOK, Good
  <2>4. ASSUME r \notin skipped'[p], pc'[p] = "applying" PROVE Good(p, r)'
    <3>1. \A i \in DOMAIN Renames : RenameLeft(todo'[p][r], i) => RenameLeft(todo[p][r], i)
      BY <1>0, <2>1, StepOfPlan
    <3>. QED  BY <2>2, <2>4, <3>1 DEF Good, HasPlan
  <2>5. CASE Succeed(p, s, a) \/ Fallback(p, s, a) \/ LoseAnswer(p, s, a)
    <3>1. skipped' = skipped /\ pc' = pc
      BY <2>5 DEF Succeed, Fallback, LoseAnswer
    <3>. QED  BY <2>1, <2>2, <2>4, <3>1 DEF HasPlan
  <2>6. CASE Abandon(p, s, a)
    <3>1. skipped' = [skipped EXCEPT ![p] = @ \cup {s}] /\ pc' = pc
      BY <2>6 DEF Abandon
    <3>2. CASE s # r
      BY <1>0, <2>1, <2>2, <2>4, <3>1, <3>2 DEF HasPlan, TypeOK
    <3>3. CASE s = r
      <4>1. Answer(store[r], a) = "missing"
        BY <1>0, <2>6, <3>3 DEF Abandon
      <4>2. InTurn(r, todo[p][r], store[r], a) /\ store[r] \in Views
        BY <1>0, <1>8, <2>1, <3>3, NobodyDisturbs, WriteIsInTurn
      <4>. QED  BY <1>0, <2>2, <4>1, <4>2, WhatIsMissing DEF Removed
    <3>. QED  BY <3>2, <3>3
  <2>. QED  BY <1>8, <2>3, <2>5, <2>6
<1>9. CASE Apply(p)
  <2>1. PICK s \in Repos : \E a \in todo[p][s] :
          \/ Succeed(p, s, a) \/ Fallback(p, s, a) \/ Abandon(p, s, a)
          \/ Collide(p, s, a) \/ LoseAnswer(p, s, a)
    BY <1>9 DEF Apply
  <2>. QED  BY <1>8, <2>1
<1>. QED  BY <1>0, <1>1, <1>2, <1>3, <1>4, <1>5, <1>6, <1>7, <1>9, OneActs DEF Advance

\* Without lost answers a label is written to by the action that is done with.
LEMMA OneSucceeds ==
  ASSUME MaxTries = 0, TrackInv, TrackInv', [Next]_vars, edits' = 0, NEW r \in Repos,
         NEW p \in Runs, NEW a \in todo[p][r], WritesIn(p, r, a), store'[r] # store[r]
  PROVE  Succeed(p, r, a)
<1>0. TypeOK /\ \A q \in Repos : ~Edit(q)
  <2>1. TypeOK /\ TypeOK'
    BY DEF TrackInv, SafeInv
  <2>. QED  BY <2>1, NoEdits
<1>1. ASSUME NEW q \in Runs, NEW s \in Repos, NEW b \in todo[q][s], LoseAnswer(q, s, b) PROVE FALSE
  <2>1. tries[q] < MaxTries
    BY <1>1 DEF LoseAnswer
  <2>2. tries[q] \in 0..MaxTries
    BY <1>0 DEF TypeOK
  <2>. QED  BY <2>1, <2>2
<1>2. PICK q \in Runs : \E s \in Repos : \E b \in todo[q][s] : Succeed(q, s, b)
  <2>1. PICK q \in Runs : Advance(q)
    BY <1>0 DEF Next, Stop, Restart, Outage, Recovery, vars, remote
  <2>2. Apply(q)
    BY <2>1 DEF Advance, Read, Plan, Select, Preview, Finish, remote
  <2>3. PICK s \in Repos : \E b \in todo[q][s] :
          \/ Succeed(q, s, b) \/ Fallback(q, s, b) \/ Abandon(q, s, b)
          \/ Collide(q, s, b) \/ LoseAnswer(q, s, b)
    BY <2>2 DEF Apply
  <2>4. PICK b \in todo[q][s] :
          \/ Succeed(q, s, b) \/ Fallback(q, s, b) \/ Abandon(q, s, b)
          \/ Collide(q, s, b) \/ LoseAnswer(q, s, b)
    BY <2>3
  <2>5. Succeed(q, s, b)
    BY <1>1, <2>4 DEF Fallback, Abandon, Collide, remote
  <2>. QED  BY <2>1, <2>5
<1>3. PICK s \in Repos : \E b \in todo[q][s] : Succeed(q, s, b)
  BY <1>2
<1>4. PICK b \in todo[q][s] : Succeed(q, s, b)
  BY <1>3
<1>5. s = r
  BY <1>0, <1>4 DEF Succeed, TypeOK
<1>6. q = p
  <2>1. todo'[q][r] = todo[q][r] \ {b}
    BY <1>0, <1>4, <1>5 DEF Succeed, TypeOK
  <2>. QED  BY <1>4, <1>5, <2>1 DEF WritesIn
<1>7. b = a
  <2>1. a \in Action /\ b \in Action
    BY <1>0, <1>4, <1>5, <1>6 DEF TypeOK
  <2>2. (b = a \/ Before(a, b)) /\ (b = a \/ Before(b, a))
    BY <1>4, <1>5, <1>6 DEF WritesIn, Succeed, InFlight
  <2>. QED  BY <2>1, <2>2, ActionFields DEF Before
<1>. QED  BY <1>4, <1>5, <1>6, <1>7

\* The run that renames a label is good afterwards: what it has still to rename
\* comes later in the configuration, and has not been renamed by anybody.
LEMMA RenamingIsGood ==
  ASSUME MaxTries = 0, RoomyPalette, SingleReads, TrackInv, TrackInv', BegunInv, OrderedInv,
         [Next]_vars, edits' = 0, NEW r \in Repos, ~Conforms(r, store'[r]),
         NEW i \in DOMAIN Renames, store[r][From(i)] # None, store'[r][From(i)] = None
  PROVE  \E p \in Runs : Good(p, r)'
<1>0. TypeOK /\ edits = 0
  BY StepOfStore DEF TrackInv, SafeInv
<1>1. Moves(store[r], i, store'[r]) /\ Since(r, store[r], store'[r]) /\ ~Conforms(r, store[r])
  BY <1>0, OnlyRenamed, StepOfStore, StaysConform
<1>2. PICK p \in Runs : \E a \in todo[p][r] :
        /\ WritesIn(p, r, a) /\ NextWrite(r, todo[p][r], store[r], a) /\ IsRename(a, i)
  BY OnlyRenamed
<1>3. PICK a \in todo[p][r] :
        /\ WritesIn(p, r, a) /\ NextWrite(r, todo[p][r], store[r], a) /\ IsRename(a, i)
  BY <1>2
<1>4. Succeed(p, r, a)
  BY <1>3, OneSucceeds
<1>5. /\ todo'[p][r] = todo[p][r] \ {a} /\ pc' = pc /\ pc[p] = "applying"
      /\ skipped' = skipped
  BY <1>0, <1>4 DEF Succeed, InFlight, TypeOK
<1>6. HasPlan(p, r)'
  <2>1. r \in Covered \ skipped[p]
    BY <1>3 DEF TrackInv, PlansAreShaped, Shaped
  <2>. QED  BY <1>5, <2>1 DEF HasPlan
<1>7. ASSUME NEW j \in DOMAIN Renames, RenameLeft(todo'[p][r], j)
      PROVE  store'[r][From(j)] # None
  <2>1. PICK b \in todo[p][r] \ {a} : b.phase = Renaming /\ b.pos = j
    BY <1>5, <1>7 DEF RenameLeft
  <2>2. b.kind # "noop"
    BY <1>3, <2>1 DEF NextWrite, InTurn, Planned, IsRename, IsRecolour, IsCreate, IsUpdate,
       IsRemoval, Renaming, Recolouring, Creating, Existing, Deleting
  <2>3. Before(a, b)
    BY <1>3, <2>1, <2>2 DEF NextWrite, InTurn, Writes
  <2>4. i < j /\ i # j
    <3>1. i \in Nat /\ j \in Nat
      BY RenameFields
    <3>. QED  BY <1>3, <2>1, <2>3, <3>1 DEF Before, IsRename, Renaming
  <2>5. started[r][From(j)] # None
    <3>1. RenameLeft(todo[p][r], j)
      BY <2>1 DEF RenameLeft
    <3>. QED  BY <1>0, <3>1 DEF BegunInv
  <2>6. store[r][From(j)] # None
    <3>1. i \in Applicable(store[r])
      BY <1>1 DEF Moves, Applicable
    <3>. QED  BY <1>0, <1>1, <2>4, <2>5, <3>1 DEF OrderedInv
  <2>7. From(j) # From(i) /\ From(j) # To(i) /\ From(j) \in Keys
    BY <2>4, RenamesApart
  <2>8. store[r] \in Views
    BY <1>0 DEF TypeOK
  <2>. QED  BY <1>1, <2>6, <2>7, <2>8 DEF Moves, Views
<1>. QED  BY <1>6, <1>7 DEF Good

\* Runs that overlap do not defeat each other: once they have all finished,
\* every repository is as configured, also one that none of them completed.
THEOREM OverlapsConverge ==
  ASSUME RoomyPalette, SingleReads, MaxTries = 0, Runs # {} PROVE Spec => []OverlapConverges
<1>1. Init => SomeRunIsGood
  <2>1. PICK p \in Runs : TRUE
    OBVIOUS
  <2>2. Init => \A r \in Covered : Good(p, r)
    BY DEF Init, Good
  <2>. QED  BY <2>2 DEF SomeRunIsGood
<1>2. /\ TrackInv /\ TrackInv' /\ BegunInv /\ OrderedInv /\ ReachInv /\ SomeRunIsGood
      /\ [Next]_vars
      => SomeRunIsGood'
  <2>1. ASSUME TrackInv, TrackInv', BegunInv, OrderedInv, ReachInv, SomeRunIsGood, [Next]_vars,
               edits' = 0, outages' = 0, NEW r \in Covered, ~Conforms(r, store'[r])
        PROVE  \E p \in Runs : Good(p, r)'
    <3>0. TypeOK /\ r \in Repos
      BY <2>1 DEF TrackInv, SafeInv, Covered
    <3>1. edits = 0 /\ outages = 0 /\ ~Conforms(r, store[r])
      BY <2>1, <3>0, StepOfStore, StepOfReach, StaysConform
    <3>2. PICK p \in Runs : Good(p, r)
      BY <2>1, <3>1 DEF SomeRunIsGood
    <3>3. CASE \A i \in DOMAIN Renames :
                 store[r][From(i)] # None => store'[r][From(i)] # None
      BY <2>1, <3>2, <3>3, GoodStays
    <3>4. CASE \E i \in DOMAIN Renames :
                 store[r][From(i)] # None /\ store'[r][From(i)] = None
      BY <2>1, <3>0, <3>4, RenamingIsGood
    <3>. QED  BY <3>3, <3>4
  <2>. QED  BY <2>1 DEF SomeRunIsGood, Covered
<1>3. TypeOK /\ SomeRunIsGood => OverlapConverges
  <2>1. ASSUME TypeOK, SomeRunIsGood, \A p \in Runs : pc[p] = "done" /\ ~dry[p],
               edits + outages = 0, NEW r \in Covered
        PROVE  Conforms(r, store[r])
    <3>1. edits = 0 /\ outages = 0
      <4>1. edits \in Nat /\ outages \in Nat
        BY <2>1 DEF TypeOK
      <4>. QED  BY <2>1, <4>1, BothAreZero
    <3>2. \A p \in Runs : ~Good(p, r)
      BY <2>1 DEF Good, HasRead, HasPlan
    <3>. QED  BY <2>1, <3>1, <3>2 DEF SomeRunIsGood
  <2>. QED  BY <2>1 DEF OverlapConverges
<1>. QED  BY <1>1, <1>2, <1>3, Tracking, Begins, Orders, ReachedAll, TypeCorrect, PTL DEF Spec

-----------------------------------------------------------------------------
(***************************************************************************)
(* What the only run leaves.  Nothing moves under its feet, unless answers *)
(* are lost: then the label it writes to is one step ahead of its plan.    *)
(* What it does not plan to do has been done, or has been declined.        *)
(***************************************************************************)
RemovalLeft(todos, k) == \E a \in todos : a.kind = "delete" /\ Lower[a.name] = k

\* Label k will be gone, or the user keeps it.
Spared(r, T, kept, k) == RemovalLeft(T, k) \/ <<r, k>> \in kept

\* Run p has computed its plan and has not begun to carry it out.
Looking(p, r) ==
  /\ r \in Covered \ skipped[p]
  /\ pc[p] = "planned" \/ (pc[p] = "done" /\ dry[p])

Carrying(p, r) ==
  /\ r \in Covered \ skipped[p]
  /\ pc[p] = "applying" \/ (pc[p] = "done" /\ ~dry[p])

\* What could be renamed will be; but for a name that the run itself has cleared.
RenamesCovered(r, T, s, cleared) ==
  \A i \in Applicable(s) : RenameLeft(T, i) \/ <<r, To(i)>> \in cleared

\* Every unconfigured label is spared, under the name that it will have.
RemovalsCovered(r, T, s, kept) ==
  /\ \A k \in Unconfigured(r, s) :
       \/ Spared(r, T, kept, k)
       \/ \E i \in DOMAIN Renames : k = From(i) /\ RenameLeft(T, i)
  /\ \A i \in DOMAIN Renames :
       RenameLeft(T, i) /\ To(i) \notin Configured(r) => Spared(r, T, kept, To(i))

\* A colour that is to be handed out is nobody's: no label has it under a name
\* that it will keep, none that is to be renamed, and it is handed out once.
ColoursFree(r, T, s) ==
  \A a \in T : a.phase = Recolouring =>
    /\ \A k \in Unconfigured(r, s) :
         k # Lower[a.name] /\ s[k].color = a.color =>
           \E i \in DOMAIN Renames : k = From(i) /\ RenameLeft(T, i)
    /\ \A i \in DOMAIN Renames :
         /\ RenameLeft(T, i) /\ s[From(i)] # None
         /\ To(i) \notin Configured(r) /\ To(i) # Lower[a.name]
         => s[From(i)].color # a.color
    /\ \A b \in T : b.phase = Recolouring /\ Lower[b.name] # Lower[a.name] => b.color # a.color

Alone(p, r) ==
  /\ HasRead(p, r) => seen[p][r] = store[r]
  /\ Looking(p, r) => todo[p][r] \in Compute(r, store[r], Mode[p])
  /\ Carrying(p, r) =>
       /\ RenamesCovered(r, todo[p][r], store[r], chosen[p])
       /\ Mode[p] = "prune" => RemovalsCovered(r, todo[p][r], store[r], declined[p])
       /\ ColoursFree(r, todo[p][r], store[r])

Orderly(p) ==
  /\ pc[p] \in {"reading", "planned"} \/ (pc[p] = "done" /\ dry[p]) =>
       chosen[p] = {} /\ declined[p] = {}
  /\ pc[p] = "applying" => ~dry[p]
  /\ pc[p] = "done" /\ ~dry[p] => \A r \in Repos : Writes(todo[p][r]) = {}

AloneRun(p) ==
  /\ Orderly(p)
  /\ Undisturbed(p) => \A r \in Repos : Alone(p, r)

AloneInv == \A p \in Runs : AloneRun(p)

\* A label that has been moved off a colour has one of its own; g is what the
\* repository held when the behaviour began.
MovedApart(r, s, g) ==
  \A j, k \in Unconfigured(r, s) :
    j # k /\ s[k].origin \in Keys /\ s[k].color # g[s[k].origin].color
    => s[j].color # s[k].color

ApartInv == edits = 0 => \A r \in Repos : MovedApart(r, store[r], started[r])

\* Nothing is planned to be written if and only if nothing is outstanding.
LEMMA PlanTells ==
  ASSUME RoomyPalette, NEW r \in Repos, Desired[r] # {}, NEW v \in Views, WellKeyed(v),
         NEW mode \in {"append", "prune"}, NEW T \in Compute(r, v, mode)
  PROVE  Writes(T) = {} <=> /\ Conforms(r, v) /\ Applicable(v) = {}
                            /\ mode = "prune" => Unconfigured(r, v) = {}
<1>1. Applicable(v) = {} => Renamed(v) = v
  BY DEF Renamed, Views
<1>2. ASSUME Conforms(r, v), Applicable(v) = {}, mode = "prune" => Unconfigured(r, v) = {},
             NEW a \in Writes(T)
      PROVE  FALSE
  <2>1. a.kind = "delete" /\ mode = "prune"
    BY <1>2, Idempotent
  <2>2. Lower[a.name] \in Unconfigured(r, Renamed(v))
    BY <2>1, PlanPhases DEF Writes
  <2>. QED  BY <1>1, <1>2, <2>1, <2>2
<1>3. ASSUME Writes(T) = {}
      PROVE  /\ Conforms(r, v) /\ Applicable(v) = {}
             /\ mode = "prune" => Unconfigured(r, v) = {}
  <2>1. \A a \in T : Planned(r, a)
    BY PlanPhases
  <2>2. Conforms(r, v)
    BY <1>3, <2>1, PlanOnTrack, NothingButRemovals
  <2>3. ASSUME NEW i \in Applicable(v) PROVE FALSE
    <3>1. PICK a \in T : a.phase = Renaming
      BY PlanPhases DEF Applicable, RenameLeft
    <3>2. a.kind # "noop"
      BY <2>1, <3>1 DEF Planned, IsRename, IsRecolour, IsCreate, IsUpdate, IsRemoval,
         Renaming, Recolouring, Creating, Existing, Deleting
    <3>. QED  BY <1>3, <3>2 DEF Writes
  <2>4. ASSUME mode = "prune", NEW k \in Unconfigured(r, v) PROVE FALSE
    <3>1. PICK a \in T : a.kind = "delete"
      BY <1>1, <2>3, <2>4, PlanPhases
    <3>. QED  BY <1>3, <3>1 DEF Writes
  <2>. QED  BY <2>2, <2>3, <2>4
<1>. QED  BY <1>2, <1>3

\* The colours that a plan hands out are free.
LEMMA PlanColours ==
  ASSUME RoomyPalette, NEW r \in Repos, Desired[r] # {}, NEW v \in Views, WellKeyed(v),
         NEW mode, NEW T \in Compute(r, v, mode)
  PROVE  ColoursFree(r, T, v)
<1>. USE DEF Renaming, Recolouring, Creating, Existing, Deleting
<1>. DEFINE w == Renamed(v)
<1>1. PICK f \in Allocations(r, w) :
        T = RenameActions(v) \cup RecolourSquatters(r, w, f) \cup Creates(r, w)
              \cup Converge(r, w) \cup (IF mode = "prune" THEN Candidates(r, w) ELSE {})
  BY DEF Compute
<1>2. w \in Views /\ WellKeyed(w)
  BY RenamedView
<1>3. ASSUME NEW a \in T, a.phase = Recolouring
      PROVE  Lower[a.name] \in Squatters(r, w) /\ a.color = f[Lower[a.name]]
  <2>1. a \notin RenameActions(v)
    BY <1>3 DEF RenameActions
  <2>2. a \notin Creates(r, w)
    BY <1>3 DEF Creates
  <2>3. a \notin Converge(r, w)
    BY <1>3 DEF Converge, Update
  <2>4. a \notin Candidates(r, w)
    BY <1>3 DEF Candidates
  <2>5. PICK k \in Squatters(r, w) :
          a = [kind |-> "update", phase |-> Recolouring, pos |-> Rank[w[k].name],
               name |-> w[k].name, newName |-> Keep, color |-> f[k], desc |-> Keep]
    BY <1>1, <2>1, <2>2, <2>3, <2>4 DEF RecolourSquatters
  <2>6. Lower[w[k].name] = k
    BY <1>2 DEF Squatters, Unconfigured, Present, WellKeyed
  <2>. QED  BY <2>5, <2>6
<1>4. ASSUME NEW k \in Squatters(r, w), NEW j \in Unconfigured(r, w), j # k
      PROVE  w[j].color # f[k] /\ (j \in Squatters(r, w) => f[j] # f[k])
  <2>1. CASE j \in Staying(r, w)
    BY <2>1, <1>2, AllocatedIsFree DEF Staying
  <2>2. CASE j \in Squatters(r, w)
    <3>1. w[j].color \in Reserved(r) /\ f[k] \notin Reserved(r)
      BY <1>2, <2>2, AllocatedIsFree DEF Squatters
    <3>2. /\ Rank[w[j].name] \in Nat /\ Rank[w[k].name] \in Nat
          /\ Rank[w[j].name] # Rank[w[k].name]
      <4>1. j \in Present(w) /\ k \in Present(w)
        BY <2>2 DEF Squatters, Unconfigured
      <4>2. w[j].name # w[k].name
        BY <1>2, <1>4, <4>1 DEF WellKeyed, Present
      <4>. QED  BY <1>2, <4>1, <4>2, PresentFields, NamesAssumption
    <3>3. \/ Rank[w[j].name] < Rank[w[k].name]
          \/ Rank[w[k].name] < Rank[w[j].name]
      BY <3>2
    <3>. QED  BY <1>2, <2>2, <3>1, <3>3, AllocatedIsFree
  <2>. QED  BY <2>1, <2>2 DEF Staying
<1>5. ASSUME NEW a \in T, a.phase = Recolouring, NEW k \in Unconfigured(r, v),
             k # Lower[a.name], v[k].color = a.color
      PROVE  \E i \in DOMAIN Renames : k = From(i) /\ RenameLeft(T, i)
  <2>. SUFFICES ASSUME \A i \in Applicable(v) : k # From(i) PROVE FALSE
    BY PlanPhases DEF Applicable
  <2>1. k \in Keys /\ v[k] # None /\ k \notin Configured(r)
    BY DEF Unconfigured, Present
  <2>2. w[k] = v[k]
    BY <2>1, RenamedLabels DEF Applicable
  <2>3. k \in Unconfigured(r, w)
    BY <2>1, <2>2 DEF Unconfigured, Present
  <2>. QED  BY <1>3, <1>4, <1>5, <2>2, <2>3
<1>6. ASSUME NEW a \in T, a.phase = Recolouring, NEW i \in DOMAIN Renames,
             RenameLeft(T, i), To(i) \notin Configured(r), To(i) # Lower[a.name]
      PROVE  v[From(i)].color # a.color
  <2>1. i \in Applicable(v) /\ From(i) \in Keys /\ To(i) \in Keys
    BY <1>6, PlanPhases, RenameFields
  <2>2. v[From(i)] \in Label
    BY <2>1 DEF Applicable, Views
  <2>3. w[To(i)] = Moved(v, i)
    BY <2>1, RenamedLabels
  <2>4. w[To(i)] \in Label /\ w[To(i)].color = v[From(i)].color
    BY <1>6, <2>2, <2>3, RenameFields DEF Moved, Label
  <2>5. To(i) \in Unconfigured(r, w)
    BY <1>6, <2>1, <2>4, SentinelAssumption DEF Unconfigured, Present
  <2>. QED  BY <1>3, <1>4, <1>6, <2>4, <2>5
<1>7. ASSUME NEW a \in T, a.phase = Recolouring, NEW b \in T, b.phase = Recolouring,
             Lower[b.name] # Lower[a.name]
      PROVE  b.color # a.color
  BY <1>3, <1>4, <1>7 DEF Squatters
<1>. QED  BY <1>5, <1>6, <1>7 DEF ColoursFree

\* A write, seen label by label.
Relabels(s, t, i) ==
  /\ s[From(i)] \in Label /\ s[To(i)] = None
  /\ t[From(i)] = None /\ t[To(i)] \in Label
  /\ t[To(i)].origin = s[From(i)].origin /\ t[To(i)].color = s[From(i)].color
  /\ \A k \in Keys : k # From(i) /\ k # To(i) => t[k] = s[k]

Repaints(s, t, k, c) ==
  /\ k \in Keys /\ s[k] \in Label /\ t[k] \in Label
  /\ t[k].origin = s[k].origin /\ t[k].color = c
  /\ \A j \in Keys : j # k => t[j] = s[j]

Touches(r, s, t, k) ==
  /\ k \in Configured(r) /\ t[k] # None
  /\ \A j \in Keys : j # k => t[j] = s[j]

Drops(s, t, k) == t[k] = None /\ \A j \in Keys : j # k => t[j] = s[j]

NoRenameLeft(T) == \A i \in DOMAIN Renames : ~RenameLeft(T, i)

LEMMA WriteByLabel ==
  ASSUME NEW r \in Repos, NEW T, NEW s \in Views, WellKeyed(s), NEW a, NextWrite(r, T, s, a),
         NEW t, t = Effect(s, a)
  PROVE  \/ \E i \in DOMAIN Renames : IsRename(a, i) /\ Relabels(s, t, i)
         \/ IsRecolour(r, a) /\ NoRenameLeft(T) /\ Repaints(s, t, Lower[a.name], a.color)
         \/ a.kind # "delete" /\ NoRenameLeft(T) /\ \E k \in Keys : Touches(r, s, t, k)
         \/ IsRemoval(r, a) /\ NoRenameLeft(T) /\ Drops(s, t, Lower[a.name])
<1>. USE DEF Renaming, Recolouring, Creating, Existing, Deleting
<1>1. a \in T /\ a \in Action /\ Planned(r, a) /\ Lower[a.name] \in Keys
  BY TargetIsKey DEF NextWrite, InTurn, Writes
<1>2. ASSUME NEW i \in DOMAIN Renames, IsRename(a, i) PROVE Relabels(s, t, i)
  <2>1. Moves(s, i, t)
    BY <1>2, DoRename
  <2>2. From(i) \in Keys /\ To(i) \in Keys /\ From(i) # To(i) /\ Renames[i].to \in Names
    BY RenamesApart, RenameFields
  <2>3. s[From(i)] \in Label
    BY <2>1, <2>2 DEF Moves, Views
  <2>4. Moved(s, i) \in Label /\ Moved(s, i).origin = s[From(i)].origin
        /\ Moved(s, i).color = s[From(i)].color
    BY <2>2, <2>3 DEF Moved, Label
  <2>. QED  BY <2>1, <2>2, <2>3, <2>4 DEF Moves, Relabels, Views
<1>3. ASSUME IsRecolour(r, a)
      PROVE  NoRenameLeft(T) /\ Repaints(s, t, Lower[a.name], a.color)
  <2>. DEFINE k == Lower[a.name]
  <2>1. NoRenameLeft(T)
    BY <1>3, NothingEarlier DEF IsRecolour, NoRenameLeft
  <2>2. s[k] # None /\ s[k] \in Label /\ Target(a) = k
    BY <1>1, <1>3 DEF NextWrite, InTurn, Answer, IsRecolour, Views, Target, Or
  <2>3. a.color \in Colors /\ a.color # Keep
    BY <1>3, PaletteAssumption, SentinelAssumption DEF IsRecolour
  <2>4. /\ Patched(s[k], a) \in Label
        /\ Patched(s[k], a).origin = s[k].origin /\ Patched(s[k], a).color = a.color
    BY <1>1, <2>2, <2>3, PatchedIsLabel DEF Patched, Or
  <2>5. t = [s EXCEPT ![k] = Patched(s[k], a)]
    BY <1>1, <1>3, <2>2 DEF Effect, IsRecolour, Views
  <2>. QED  BY <1>1, <2>1, <2>2, <2>4, <2>5 DEF Repaints, Views
<1>4. ASSUME NEW d \in Desired[r], IsCreate(a, d) \/ IsUpdate(a, d)
      PROVE  NoRenameLeft(T) /\ Touches(r, s, t, Lower[d.name]) /\ Lower[d.name] \in Keys
  <2>1. NoRenameLeft(T)
    BY <1>4, NothingEarlier DEF IsCreate, IsUpdate, NoRenameLeft
  <2>2. Settles(r, s, d, t)
    BY <1>4, DoLabel
  <2>3. t[Lower[d.name]] # None
    BY <2>2, SettlesSince DEF Is
  <2>4. Lower[d.name] \in Keys
    BY DesiredFields
  <2>. QED  BY <2>1, <2>2, <2>3, <2>4 DEF Settles, Touches, Configured, Views
<1>5. ASSUME IsRemoval(r, a)
      PROVE  NoRenameLeft(T) /\ Drops(s, t, Lower[a.name])
  <2>1. NoRenameLeft(T)
    BY <1>5, NothingEarlier DEF IsRemoval, NoRenameLeft
  <2>2. Removes(r, s, Lower[a.name], t)
    BY <1>5, DoRemoval
  <2>. QED  BY <1>1, <2>1, <2>2 DEF Removes, Drops, Views
<1>6. \A d : IsCreate(a, d) \/ IsUpdate(a, d) => a.kind # "delete"
  BY DEF IsCreate, IsUpdate
<1>. QED  BY <1>1, <1>2, <1>3, <1>4, <1>5, <1>6 DEF Planned

\* A write leaves covered what was, whether its action is done with (U is the
\* rest of the plan) or its answer is lost (U is the plan).
LEMMA WriteCovered ==
  ASSUME NEW r \in Repos, NEW T, NEW s \in Views, WellKeyed(s), NEW a, NextWrite(r, T, s, a),
         NEW t, t = Effect(s, a), NEW U \in {T, T \ {a}}, NEW C, NEW D,
         a.kind = "delete" => <<r, Lower[a.name]>> \in C
  PROVE  /\ RenamesCovered(r, T, s, C) => RenamesCovered(r, U, t, C)
         /\ RemovalsCovered(r, T, s, D) => RemovalsCovered(r, U, t, D)
<1>. USE DEF Renaming, Recolouring, Creating, Existing, Deleting
<1>1. \A j \in DOMAIN Renames : RenameLeft(T, j) /\ ~IsRename(a, j) => RenameLeft(U, j)
  <2>1. Planned(r, a)
    BY DEF NextWrite, InTurn, Writes
  <2>. QED  BY <2>1 DEF RenameLeft, Planned, IsRename, IsRecolour, IsCreate, IsUpdate, IsRemoval
<1>2. \A k : RemovalLeft(T, k) /\ (a.kind # "delete" \/ k # Lower[a.name]) => RemovalLeft(U, k)
  BY DEF RemovalLeft
<1>3. \A j : RenameLeft(U, j) => RenameLeft(T, j)
  BY DEF RenameLeft
<1>4. ASSUME NEW i \in DOMAIN Renames, IsRename(a, i), Relabels(s, t, i)
      PROVE  /\ RenamesCovered(r, T, s, C) => RenamesCovered(r, U, t, C)
             /\ RemovalsCovered(r, T, s, D) => RemovalsCovered(r, U, t, D)
  <2>1. /\ From(i) \in Keys /\ To(i) \in Keys
        /\ \A j \in DOMAIN Renames : j # i =>
             /\ From(j) # From(i) /\ From(j) # To(i)
             /\ To(j) # From(i) /\ To(j) # To(i)
             /\ From(j) \in Keys /\ To(j) \in Keys
    BY RenamesApart
  <2>2. RenameLeft(T, i) /\ a.kind # "delete" /\ \A j : IsRename(a, j) => j = i
    BY <1>4 DEF RenameLeft, IsRename, NextWrite, InTurn, Writes
  <2>3. ASSUME RenamesCovered(r, T, s, C), NEW j \in Applicable(t)
        PROVE  RenameLeft(U, j) \/ <<r, To(j)>> \in C
    <3>1. j # i /\ j \in DOMAIN Renames
      BY <1>4 DEF Applicable, Relabels
    <3>2. j \in Applicable(s)
      BY <1>4, <2>1, <3>1 DEF Applicable, Relabels
    <3>. QED  BY <1>1, <2>2, <2>3, <3>1, <3>2 DEF RenamesCovered
  <2>4. ASSUME RemovalsCovered(r, T, s, D), NEW k \in Unconfigured(r, t)
        PROVE  \/ Spared(r, U, D, k)
               \/ \E j \in DOMAIN Renames : k = From(j) /\ RenameLeft(U, j)
    <3>1. k \in Keys /\ k \notin Configured(r) /\ t[k] # None /\ k # From(i)
      BY <1>4 DEF Unconfigured, Present, Relabels
    <3>2. CASE k = To(i)
      BY <1>2, <2>2, <2>4, <3>1, <3>2 DEF RemovalsCovered, Spared
    <3>3. CASE k # To(i)
      <4>1. k \in Unconfigured(r, s)
        BY <1>4, <3>1, <3>3 DEF Unconfigured, Present, Relabels
      <4>. QED  BY <1>1, <1>2, <2>2, <2>4, <3>1, <4>1 DEF RemovalsCovered, Spared
    <3>. QED  BY <3>2, <3>3
  <2>5. ASSUME RemovalsCovered(r, T, s, D), NEW j \in DOMAIN Renames,
               RenameLeft(U, j), To(j) \notin Configured(r)
        PROVE  Spared(r, U, D, To(j))
    BY <1>2, <1>3, <2>2, <2>5 DEF RemovalsCovered, Spared
  <2>. QED  BY <2>3, <2>4, <2>5 DEF RenamesCovered, RemovalsCovered
<1>5. ASSUME NoRenameLeft(T), Applicable(t) \subseteq Applicable(s),
             Unconfigured(r, t) \subseteq Unconfigured(r, s),
             a.kind # "delete" \/ Lower[a.name] \notin Unconfigured(r, t)
      PROVE  /\ RenamesCovered(r, T, s, C) => RenamesCovered(r, U, t, C)
             /\ RemovalsCovered(r, T, s, D) => RemovalsCovered(r, U, t, D)
  BY <1>2, <1>3, <1>5 DEF RenamesCovered, RemovalsCovered, Spared, NoRenameLeft, Applicable
<1>6. ASSUME IsRecolour(r, a), NoRenameLeft(T), Repaints(s, t, Lower[a.name], a.color)
      PROVE  /\ RenamesCovered(r, T, s, C) => RenamesCovered(r, U, t, C)
             /\ RemovalsCovered(r, T, s, D) => RemovalsCovered(r, U, t, D)
  <2>1. \A k \in Keys : t[k] = None <=> s[k] = None
    BY <1>6, SentinelAssumption DEF Repaints
  <2>2. Applicable(t) \subseteq Applicable(s) /\ Unconfigured(r, t) \subseteq Unconfigured(r, s)
    BY <2>1, RenamesApart DEF Applicable, Unconfigured, Present
  <2>. QED  BY <1>5, <1>6, <2>2 DEF IsRecolour
<1>7. ASSUME a.kind # "delete", NoRenameLeft(T), NEW k \in Keys, Touches(r, s, t, k)
      PROVE  /\ RenamesCovered(r, T, s, C) => RenamesCovered(r, U, t, C)
             /\ RemovalsCovered(r, T, s, D) => RemovalsCovered(r, U, t, D)
  <2>1. Applicable(t) \subseteq Applicable(s)
    BY <1>7, RenamesApart DEF Applicable, Touches
  <2>2. Unconfigured(r, t) \subseteq Unconfigured(r, s)
    BY <1>7 DEF Unconfigured, Present, Touches
  <2>. QED  BY <1>5, <1>7, <2>1, <2>2
<1>8. ASSUME IsRemoval(r, a), NoRenameLeft(T), Drops(s, t, Lower[a.name])
      PROVE  /\ RenamesCovered(r, T, s, C) => RenamesCovered(r, U, t, C)
             /\ RemovalsCovered(r, T, s, D) => RemovalsCovered(r, U, t, D)
  <2>1. /\ \A k \in Unconfigured(r, t) : k \in Unconfigured(r, s) /\ k # Lower[a.name]
        /\ \A i \in Applicable(t) : i \in Applicable(s) \/ To(i) = Lower[a.name]
    BY <1>8, RenamesApart DEF Unconfigured, Present, Applicable, Drops
  <2>2. <<r, Lower[a.name]>> \in C
    BY <1>8 DEF IsRemoval
  <2>3. RenamesCovered(r, T, s, C) => RenamesCovered(r, U, t, C)
    BY <1>8, <2>1, <2>2 DEF RenamesCovered, NoRenameLeft, Applicable
  <2>4. RemovalsCovered(r, T, s, D) => RemovalsCovered(r, U, t, D)
    BY <1>2, <1>3, <1>8, <2>1 DEF RemovalsCovered, Spared, NoRenameLeft
  <2>. QED  BY <2>3, <2>4
<1>. QED  BY <1>4, <1>6, <1>7, <1>8, WriteByLabel

\* A write takes none of the colours that are still to be handed out, but the one
\* it hands out.
LEMMA WriteFree ==
  ASSUME NEW r \in Repos, NEW T, NEW s \in Views, WellKeyed(s), NEW a, NextWrite(r, T, s, a),
         NEW t, t = Effect(s, a), NEW U \in {T, T \ {a}}, ColoursFree(r, T, s)
  PROVE  ColoursFree(r, U, t)
<1>. USE DEF Renaming, Recolouring, Creating, Existing, Deleting
<1>1. \A j \in DOMAIN Renames : RenameLeft(T, j) /\ ~IsRename(a, j) => RenameLeft(U, j)
  <2>1. Planned(r, a)
    BY DEF NextWrite, InTurn, Writes
  <2>. QED  BY <2>1 DEF RenameLeft, Planned, IsRename, IsRecolour, IsCreate, IsUpdate, IsRemoval
<1>2. a \in T /\ U \subseteq T /\ \A j : RenameLeft(U, j) => RenameLeft(T, j)
  BY DEF RenameLeft, NextWrite, InTurn, Writes
<1>. SUFFICES ASSUME NEW b \in U, b.phase = Recolouring
              PROVE  /\ \A k \in Unconfigured(r, t) :
                          k # Lower[b.name] /\ t[k].color = b.color =>
                            \E j \in DOMAIN Renames : k = From(j) /\ RenameLeft(U, j)
                     /\ \A j \in DOMAIN Renames :
                          /\ RenameLeft(U, j) /\ t[From(j)] # None
                          /\ To(j) \notin Configured(r) /\ To(j) # Lower[b.name]
                          => t[From(j)].color # b.color
  BY <1>2 DEF ColoursFree
<1>3. b \in T
  BY <1>2
<1>4. ASSUME NEW i \in DOMAIN Renames, IsRename(a, i), Relabels(s, t, i),
             NEW k \in Unconfigured(r, t), k # Lower[b.name], t[k].color = b.color
      PROVE  \E j \in DOMAIN Renames : k = From(j) /\ RenameLeft(U, j)
  <2>1. RenameLeft(T, i) /\ \A j : IsRename(a, j) => j = i
    BY <1>2, <1>4 DEF RenameLeft, IsRename
  <2>2. k \in Keys /\ k \notin Configured(r) /\ t[k] # None /\ k # From(i)
    BY <1>4 DEF Unconfigured, Present, Relabels
  <2>3. k # To(i)
    BY <1>3, <1>4, <2>1, <2>2, SentinelAssumption DEF Relabels, ColoursFree
  <2>4. k \in Unconfigured(r, s) /\ s[k].color = b.color
    BY <1>4, <2>2, <2>3 DEF Unconfigured, Present, Relabels
  <2>5. PICK j \in DOMAIN Renames : k = From(j) /\ RenameLeft(T, j)
    BY <1>3, <1>4, <2>4 DEF ColoursFree
  <2>. QED  BY <1>1, <2>1, <2>2, <2>5
<1>5. ASSUME NEW i \in DOMAIN Renames, IsRename(a, i), Relabels(s, t, i),
             NEW j \in DOMAIN Renames, RenameLeft(U, j), t[From(j)] # None,
             To(j) \notin Configured(r), To(j) # Lower[b.name]
      PROVE  t[From(j)].color # b.color
  <2>1. From(j) # From(i) /\ From(j) # To(i) /\ From(j) \in Keys
    BY <1>5, RenamesApart DEF Relabels
  <2>2. t[From(j)] = s[From(j)]
    BY <1>5, <2>1 DEF Relabels
  <2>. QED  BY <1>2, <1>3, <1>5, <2>2 DEF ColoursFree
<1>6. ASSUME NoRenameLeft(T), NEW k \in Unconfigured(r, t), k # Lower[b.name],
             t[k].color = b.color, k \in Unconfigured(r, s) /\ t[k] = s[k]
      PROVE  FALSE
  BY <1>3, <1>6 DEF ColoursFree, NoRenameLeft
<1>7. ASSUME IsRecolour(r, a), Repaints(s, t, Lower[a.name], a.color), NoRenameLeft(T),
             NEW k \in Unconfigured(r, t), k # Lower[b.name], t[k].color = b.color
      PROVE  FALSE
  <2>1. CASE k = Lower[a.name]
    BY <1>2, <1>3, <1>7, <2>1 DEF ColoursFree, Repaints, IsRecolour
  <2>2. CASE k # Lower[a.name]
    <3>1. k \in Unconfigured(r, s) /\ t[k] = s[k]
      BY <1>7, <2>2 DEF Unconfigured, Present, Repaints
    <3>. QED  BY <1>6, <1>7, <3>1
  <2>. QED  BY <2>1, <2>2
<1>8. ASSUME NoRenameLeft(T), NEW j \in Keys, Touches(r, s, t, j) \/ Drops(s, t, j),
             NEW k \in Unconfigured(r, t), k # Lower[b.name], t[k].color = b.color
      PROVE  FALSE
  <2>1. k \in Unconfigured(r, s) /\ t[k] = s[k]
    BY <1>8 DEF Unconfigured, Present, Touches, Drops
  <2>. QED  BY <1>6, <1>8, <2>1
<1>9. NoRenameLeft(T) => \A j \in DOMAIN Renames : ~RenameLeft(U, j)
  BY <1>2 DEF NoRenameLeft
<1>10. Lower[a.name] \in Keys
  BY <1>2, TargetIsKey DEF NextWrite, InTurn
<1>. QED  BY <1>4, <1>5, <1>7, <1>8, <1>9, <1>10, WriteByLabel

\* And what has been moved keeps a colour of its own.
LEMMA WriteApart ==
  ASSUME NEW r \in Repos, NEW T, NEW s \in Views, WellKeyed(s), NEW a, NextWrite(r, T, s, a),
         NEW t, t = Effect(s, a), ColoursFree(r, T, s), NEW g, MovedApart(r, s, g)
  PROVE  MovedApart(r, t, g)
<1>. USE DEF Renaming, Recolouring, Creating, Existing, Deleting
<1>. SUFFICES ASSUME NEW j \in Unconfigured(r, t), NEW k \in Unconfigured(r, t), j # k,
                     t[k].origin \in Keys, t[k].color # g[t[k].origin].color
              PROVE  t[j].color # t[k].color
  BY DEF MovedApart
<1>0. /\ a \in T /\ Lower[a.name] \in Keys
      /\ j \in Keys /\ j \notin Configured(r) /\ t[j] # None
      /\ k \in Keys /\ k \notin Configured(r) /\ t[k] # None
  BY TargetIsKey DEF NextWrite, InTurn, Writes, Unconfigured, Present
<1>1. ASSUME NEW m \in Unconfigured(r, s), NEW n \in Unconfigured(r, s), m # n,
             s[m].color = t[j].color, s[n].color = t[k].color, s[n].origin = t[k].origin
      PROVE  t[j].color # t[k].color
  BY <1>1 DEF MovedApart
<1>2. ASSUME NEW i \in DOMAIN Renames, IsRename(a, i), Relabels(s, t, i)
      PROVE  t[j].color # t[k].color
  <2>. DEFINE was(x) == IF x = To(i) THEN From(i) ELSE x
  <2>1. From(i) \in Keys /\ From(i) \notin Configured(r) /\ From(i) # To(i)
    BY RenamesApart
  <2>2. ASSUME NEW x \in Unconfigured(r, t)
        PROVE  /\ was(x) \in Unconfigured(r, s) /\ x # From(i)
               /\ s[was(x)].color = t[x].color /\ s[was(x)].origin = t[x].origin
    BY <1>2, <2>1, SentinelAssumption DEF Unconfigured, Present, Relabels
  <2>3. was(j) # was(k)
    BY <2>2
  <2>. QED  BY <1>1, <2>2, <2>3
<1>3. ASSUME IsRecolour(r, a), NoRenameLeft(T), Repaints(s, t, Lower[a.name], a.color)
      PROVE  t[j].color # t[k].color
  <2>1. j \in Unconfigured(r, s) /\ k \in Unconfigured(r, s)
    BY <1>0, <1>3, SentinelAssumption DEF Unconfigured, Present, Repaints
  <2>2. \A x \in Unconfigured(r, s) : x # Lower[a.name] => t[x] = s[x] /\ s[x].color # a.color
    BY <1>0, <1>3 DEF ColoursFree, NoRenameLeft, IsRecolour, Repaints, Unconfigured, Present
  <2>. QED  BY <1>1, <1>3, <2>1, <2>2 DEF Repaints
<1>4. ASSUME NEW x \in Keys, Touches(r, s, t, x) \/ Drops(s, t, x)
      PROVE  t[j].color # t[k].color
  <2>1. j \in Unconfigured(r, s) /\ k \in Unconfigured(r, s) /\ t[j] = s[j] /\ t[k] = s[k]
    BY <1>0, <1>4 DEF Unconfigured, Present, Touches, Drops
  <2>. QED  BY <1>1, <2>1
<1>. QED  BY <1>0, <1>2, <1>3, <1>4, WriteByLabel

\* What the user chooses from, and what follows from it.
LEMMA SelectCovered ==
  ASSUME RoomyPalette, NEW r \in Repos, Desired[r] # {}, NEW v \in Views, WellKeyed(v),
         NEW mode, NEW T \in Compute(r, v, mode), NEW keep, NEW offered,
         \A a \in T : a.kind = "delete" => <<r, Lower[a.name]>> \in offered,
         NEW U, U = {a \in T : a.kind = "delete" => <<r, Lower[a.name]>> \in keep}
  PROVE  /\ RenamesCovered(r, U, v, keep)
         /\ mode = "prune" => RemovalsCovered(r, U, v, offered \ keep)
         /\ ColoursFree(r, U, v)
<1>. USE DEF Renaming, Recolouring, Creating, Existing, Deleting
<1>1. \A i \in DOMAIN Renames : RenameLeft(U, i) <=> i \in Applicable(v)
  <2>1. \A a \in T : Planned(r, a)
    BY PlanPhases
  <2>2. \A a \in T : a.phase = Renaming => a.kind # "delete"
    BY <2>1 DEF Planned, IsRename, IsRecolour, IsCreate, IsUpdate, IsRemoval
  <2>3. \A i \in DOMAIN Renames : RenameLeft(T, i) <=> RenameLeft(U, i)
    BY <2>2 DEF RenameLeft
  <2>. QED  BY <2>3, PlanPhases
<1>2. ASSUME mode = "prune", NEW k \in Unconfigured(r, Renamed(v))
      PROVE  Spared(r, U, offered \ keep, k)
  <2>1. PICK a \in T : a.kind = "delete" /\ Lower[a.name] = k
    BY <1>2, PlanPhases
  <2>. QED  BY <2>1 DEF Spared, RemovalLeft
<1>3. ASSUME NEW k \in Unconfigured(r, v), \A i \in Applicable(v) : k # From(i)
      PROVE  k \in Unconfigured(r, Renamed(v))
  <2>1. k \in Keys /\ k \notin Configured(r) /\ v[k] # None
    BY DEF Unconfigured, Present
  <2>2. Renamed(v)[k] = v[k]
    BY <1>3, <2>1, RenamedLabels DEF Applicable
  <2>. QED  BY <2>1, <2>2 DEF Unconfigured, Present
<1>4. ASSUME NEW i \in Applicable(v), To(i) \notin Configured(r)
      PROVE  To(i) \in Unconfigured(r, Renamed(v))
  <2>1. /\ i \in DOMAIN Renames /\ From(i) \in Keys /\ To(i) \in Keys
        /\ v[From(i)] \in Label /\ Renames[i].to \in Names
    BY RenameFields DEF Applicable, Views
  <2>2. Renamed(v)[To(i)] \in Label
    <3>1. Renamed(v)[To(i)] = Moved(v, i)
      BY RenamedLabels
    <3>. QED  BY <2>1, <3>1 DEF Moved, Label
  <2>. QED  BY <1>4, <2>1, <2>2, SentinelAssumption DEF Unconfigured, Present
<1>5. RenamesCovered(r, U, v, keep)
  BY <1>1 DEF RenamesCovered, Applicable
<1>6. ASSUME mode = "prune" PROVE RemovalsCovered(r, U, v, offered \ keep)
  BY <1>1, <1>2, <1>3, <1>4, <1>6 DEF RemovalsCovered, Applicable
<1>7. ColoursFree(r, U, v)
  <2>1. ColoursFree(r, T, v)
    BY PlanColours
  <2>2. U \subseteq T /\ \A i \in DOMAIN Renames : RenameLeft(U, i) <=> RenameLeft(T, i)
    BY <1>1, PlanPhases
  <2>. QED  BY <2>1, <2>2 DEF ColoursFree
<1>. QED  BY <1>5, <1>6, <1>7

-----------------------------------------------------------------------------
(***************************************************************************)
(* AloneInv is inductive, step by step.                                    *)
(***************************************************************************)
LEMMA ReadAlone ==
  ASSUME TypeOK, NEW p \in Runs, AloneRun(p), NEW r \in Repos, Read(p, r)
  PROVE  AloneRun(p)'
<1>1. /\ pc[p] = "reading" /\ unread' = [unread EXCEPT ![p] = @ \ {r}]
      /\ store' = store /\ pc' = pc /\ dry' = dry /\ todo' = todo /\ asOf' = asOf /\ edits' = edits
      /\ chosen' = chosen /\ declined' = declined
  BY DEF Read, counted
<1>2. \/ reachable[r] /\ seen' = [seen EXCEPT ![p][r] = store[r]] /\ skipped' = skipped
      \/ ~reachable[r] /\ skipped' = [skipped EXCEPT ![p] = @ \cup {r}] /\ seen' = seen
  BY DEF Read
<1>3. Orderly(p)'
  BY <1>1 DEF AloneRun, Orderly
<1>4. ASSUME Undisturbed(p)', NEW q \in Repos PROVE Alone(p, q)'
  <2>1. ~Looking(p, q)' /\ ~Carrying(p, q)'
    BY <1>1 DEF Looking, Carrying
  <2>2. ASSUME HasRead(p, q)' PROVE seen'[p][q] = store'[q]
    <3>1. CASE q = r
      <4>1. reachable[r]
        BY <1>2, <2>2, <3>1 DEF HasRead, TypeOK
      <4>. QED  BY <1>1, <1>2, <3>1, <4>1 DEF TypeOK
    <3>2. CASE q # r
      <4>1. HasRead(p, q)
        BY <1>1, <1>2, <2>2, <3>2 DEF HasRead, TypeOK
      <4>2. seen'[p][q] = seen[p][q]
        BY <1>2, <3>2 DEF TypeOK
      <4>3. Undisturbed(p)
        BY <1>1, <1>4 DEF Undisturbed
      <4>. QED  BY <1>1, <4>1, <4>2, <4>3 DEF AloneRun, Alone
    <3>. QED  BY <3>1, <3>2
  <2>. QED  BY <2>1, <2>2 DEF Alone
<1>. QED  BY <1>3, <1>4 DEF AloneRun

LEMMA PlanAlone ==
  ASSUME SingleReads, TypeOK, NEW p \in Runs, AloneRun(p), Plan(p)
  PROVE  AloneRun(p)'
<1>1. PICK plan \in [Repos -> UNION {Plans(p, r, {}) : r \in Repos}] :
        /\ \A r \in Repos : plan[r] \in Plans(p, r, {})
        /\ todo' = [todo EXCEPT ![p] = plan]
  BY SinglePlans
<1>2. /\ pc[p] = "reading" /\ pc'[p] = "planned" /\ unread[p] = {} /\ todo'[p] = plan
      /\ store' = store /\ skipped' = skipped /\ asOf' = asOf /\ edits' = edits
      /\ chosen' = chosen /\ declined' = declined
  BY <1>1 DEF Plan, counted, TypeOK
<1>3. Orderly(p)'
  BY <1>2 DEF AloneRun, Orderly
<1>4. ASSUME Undisturbed(p)', NEW r \in Repos PROVE Alone(p, r)'
  <2>1. ~HasRead(p, r)' /\ ~Carrying(p, r)'
    BY <1>2 DEF HasRead, Carrying
  <2>2. ASSUME Looking(p, r)' PROVE todo'[p][r] \in Compute(r, store'[r], Mode[p])
    <3>1. r \in Covered \ skipped[p]
      BY <1>2, <2>2 DEF Looking
    <3>2. seen[p][r] = store[r]
      <4>1. HasRead(p, r)
        BY <1>2, <3>1 DEF HasRead
      <4>2. Undisturbed(p)
        BY <1>2, <1>4 DEF Undisturbed
      <4>. QED  BY <4>1, <4>2 DEF AloneRun, Alone
    <3>. QED  BY <1>1, <1>2, <3>1, <3>2 DEF Plans
  <2>. QED  BY <2>1, <2>2 DEF Alone
<1>. QED  BY <1>3, <1>4 DEF AloneRun

LEMMA SelectAlone ==
  ASSUME RoomyPalette, TypeOK, AllWellKeyed, NEW p \in Runs, AloneRun(p), Select(p)
  PROVE  AloneRun(p)'
<1>1. PICK keep \in SUBSET Offered(todo[p]) :
        /\ todo' = [todo EXCEPT ![p] = RetainDeletes(@, keep)]
        /\ chosen' = [chosen EXCEPT ![p] = keep]
        /\ declined' = [declined EXCEPT ![p] = Offered(todo[p]) \ keep]
  BY DEF Select
<1>2. /\ pc[p] = "planned" /\ pc'[p] \in {"failed", "applying"} /\ ~dry[p]
      /\ store' = store /\ dry' = dry /\ skipped' = skipped /\ asOf' = asOf /\ edits' = edits
  BY DEF Select, counted, TypeOK
<1>3. /\ chosen'[p] = keep /\ declined'[p] = Offered(todo[p]) \ keep
      /\ todo'[p] = RetainDeletes(todo[p], keep)
  BY <1>1 DEF TypeOK
<1>4. Orderly(p)'
  BY <1>2 DEF Orderly
<1>5. ASSUME Undisturbed(p)', NEW r \in Repos PROVE Alone(p, r)'
  <2>1. ~HasRead(p, r)' /\ ~Looking(p, r)'
    BY <1>2 DEF HasRead, Looking
  <2>2. ASSUME Carrying(p, r)'
        PROVE  /\ RenamesCovered(r, todo'[p][r], store'[r], chosen'[p])
               /\ Mode[p] = "prune" => RemovalsCovered(r, todo'[p][r], store'[r], declined'[p])
               /\ ColoursFree(r, todo'[p][r], store'[r])
    <3>1. r \in Covered \ skipped[p] /\ Desired[r] # {} /\ Undisturbed(p)
      BY <1>2, <1>5, <2>2 DEF Carrying, Covered, Undisturbed
    <3>2. todo[p][r] \in Compute(r, store[r], Mode[p])
      BY <1>2, <3>1 DEF AloneRun, Alone, Looking
    <3>3. store[r] \in Views /\ WellKeyed(store[r])
      BY DEF TypeOK, AllWellKeyed
    <3>4. todo'[p][r] =
            {a \in todo[p][r] : a.kind = "delete" => <<r, Lower[a.name]>> \in keep}
      BY <1>3 DEF RetainDeletes
    <3>5. \A a \in todo[p][r] : a.kind = "delete" => <<r, Lower[a.name]>> \in Offered(todo[p])
      BY DEF Offered, Removals
    <3>. DEFINE U == todo'[p][r]
    <3>. HIDE DEF U
    <3>6. U = {a \in todo[p][r] : a.kind = "delete" => <<r, Lower[a.name]>> \in keep}
      BY <3>4 DEF U
    <3>7. /\ RenamesCovered(r, U, store[r], keep)
          /\ Mode[p] = "prune" => RemovalsCovered(r, U, store[r], Offered(todo[p]) \ keep)
          /\ ColoursFree(r, U, store[r])
      BY <3>1, <3>2, <3>3, <3>5, <3>6, SelectCovered
    <3>. QED  BY <1>2, <1>3, <3>7 DEF U
  <2>. QED  BY <2>1, <2>2 DEF Alone
<1>. QED  BY <1>4, <1>5 DEF AloneRun

\* The run comes to an end.
LEMMA EndAlone ==
  ASSUME TypeOK, NEW p \in Runs, AloneRun(p), Preview(p) \/ Finish(p)
  PROVE  AloneRun(p)'
<1>1. /\ store' = store /\ dry' = dry /\ unread' = unread /\ seen' = seen /\ todo' = todo
      /\ skipped' = skipped /\ chosen' = chosen /\ declined' = declined
      /\ asOf' = asOf /\ edits' = edits
  BY DEF Preview, Finish, remote, counted
<1>2. /\ pc'[p] = "done"
      /\ \/ pc[p] = "planned" /\ dry[p]
         \/ /\ pc[p] = "applying" /\ ~dry[p]
            /\ \A r \in Repos : Writes(todo[p][r]) = {}
  BY DEF Preview, Finish, TypeOK, AloneRun, Orderly
<1>3. Orderly(p)'
  BY <1>1, <1>2 DEF AloneRun, Orderly
<1>4. ASSUME Undisturbed(p)', NEW r \in Repos PROVE Alone(p, r)'
  <2>1. Alone(p, r)
    BY <1>1, <1>4 DEF AloneRun, Undisturbed
  <2>2. ~HasRead(p, r)'
    BY <1>2 DEF HasRead
  <2>3. (Looking(p, r)' => Looking(p, r)) /\ (Carrying(p, r)' => Carrying(p, r))
    BY <1>1, <1>2 DEF Looking, Carrying
  <2>. QED  BY <1>1, <2>1, <2>2, <2>3 DEF Alone
<1>. QED  BY <1>3, <1>4 DEF AloneRun

LEMMA OverAlone ==
  ASSUME TypeOK, NEW p \in Runs, pc'[p] = "failed"
  PROVE  AloneRun(p)'
BY DEF AloneRun, Orderly, Alone, HasRead, Looking, Carrying

LEMMA RestartAlone ==
  ASSUME TypeOK, NEW p \in Runs, Restart(p)
  PROVE  AloneRun(p)'
<1>1. /\ pc'[p] = "reading" /\ unread'[p] = Covered
      /\ chosen'[p] = {} /\ declined'[p] = {}
  BY DEF Restart, Forget, TypeOK
<1>. QED  BY <1>1 DEF AloneRun, Orderly, Alone, HasRead, Looking, Carrying

LEMMA SameAlone ==
  ASSUME TypeOK, NEW p \in Runs, AloneRun(p),
         UNCHANGED <<pc, dry, unread, seen, todo, skipped, chosen, declined, asOf>>,
         (edits' = edits /\ store' = store) \/ ~Undisturbed(p)'
  PROVE  AloneRun(p)'
<1>1. Orderly(p)'
  BY DEF AloneRun, Orderly
<1>2. CASE ~Undisturbed(p)'
  BY <1>1, <1>2 DEF AloneRun
<1>3. CASE edits' = edits /\ store' = store
  <2>1. ASSUME Undisturbed(p)', NEW r \in Repos PROVE Alone(p, r)'
    <3>1. Alone(p, r)
      BY <1>3, <2>1 DEF AloneRun, Undisturbed
    <3>. QED  BY <1>3, <3>1 DEF Alone, HasRead, Looking, Carrying
  <2>. QED  BY <1>1, <2>1 DEF AloneRun
<1>. QED  BY <1>2, <1>3

LEMMA WriteAlone ==
  ASSUME TrackInv, NEW p \in Runs, \A q \in Runs : q = p, AloneRun(p),
         NEW r \in Repos, NEW a \in todo[p][r], InFlight(p, r, a), Answer(store[r], a) = "ok",
         store' = [store EXCEPT ![r] = Effect(store[r], a)],
         todo' \in {todo, [todo EXCEPT ![p][r] = @ \ {a}]},
         UNCHANGED <<pc, dry, unread, seen, skipped, chosen, declined, asOf, edits>>
  PROVE  AloneRun(p)'
<1>0. TypeOK /\ pc[p] = "applying"
  BY DEF TrackInv, SafeInv, InFlight
<1>. DEFINE s == store[r]
            t == store'[r]
            T == todo[p][r]
            U == todo'[p][r]
<1>1. U \in {T, T \ {a}} /\ \A q \in Repos \ {r} : todo'[p][q] = todo[p][q]
  <2>1. CASE todo' = todo
    BY <2>1
  <2>2. CASE todo' = [todo EXCEPT ![p][r] = @ \ {a}]
    BY <1>0, <2>2 DEF TypeOK
  <2>. QED  BY <2>1, <2>2
<1>2. t = Effect(s, a) /\ \A q \in Repos \ {r} : store'[q] = store[q]
  BY <1>0 DEF TypeOK
<1>3. Orderly(p)'
  BY <1>0 DEF AloneRun, Orderly
<1>4. ASSUME Undisturbed(p)', NEW q \in Repos PROVE Alone(p, q)'
  <2>1. Undisturbed(p) /\ Alone(p, q)
    BY <1>4 DEF AloneRun, Undisturbed
  <2>2. ~HasRead(p, q)' /\ ~Looking(p, q)'
    BY <1>0 DEF HasRead, Looking
  <2>3. ASSUME Carrying(p, q)'
        PROVE  /\ RenamesCovered(q, todo'[p][q], store'[q], chosen'[p])
               /\ Mode[p] = "prune" => RemovalsCovered(q, todo'[p][q], store'[q], declined'[p])
               /\ ColoursFree(q, todo'[p][q], store'[q])
    <3>1. /\ RenamesCovered(q, todo[p][q], store[q], chosen[p])
          /\ Mode[p] = "prune" => RemovalsCovered(q, todo[p][q], store[q], declined[p])
          /\ ColoursFree(q, todo[p][q], store[q])
      BY <2>1, <2>3 DEF Alone, Carrying
    <3>2. CASE q # r
      BY <1>1, <1>2, <3>1, <3>2
    <3>3. CASE q = r
      <4>1. NextWrite(r, T, s, a) /\ s \in Views /\ WellKeyed(s)
        <5>1. Quiet(p)
          BY <2>1 DEF Quiet
        <5>. QED  BY <5>1, WriteIsNext
      <4>2. a.kind = "delete" => <<r, Lower[a.name]>> \in chosen[p]
        BY <1>0 DEF TrackInv, SafeInv, DeletesAreChosen, Removals
      <4>3. ASSUME NEW v, v = t, NEW V, V = U, NEW w, w = s, NEW P, P = T,
                   NEW C, C = chosen[p], NEW D, D = declined[p]
            PROVE  /\ RenamesCovered(r, P, w, C) => RenamesCovered(r, V, v, C)
                   /\ RemovalsCovered(r, P, w, D) => RemovalsCovered(r, V, v, D)
                   /\ ColoursFree(r, P, w) => ColoursFree(r, V, v)
        <5>1. /\ NextWrite(r, P, w, a) /\ w \in Views /\ WellKeyed(w) /\ v = Effect(w, a)
              /\ a.kind = "delete" => <<r, Lower[a.name]>> \in C
          BY <1>2, <4>1, <4>2, <4>3
        <5>2. CASE V = P
          BY ONLY <5>1, <5>2, r \in Repos, WriteFree, WriteCovered
        <5>3. CASE V = P \ {a}
          BY ONLY <5>1, <5>3, r \in Repos, WriteFree, WriteCovered
        <5>. QED  BY <1>1, <4>3, <5>2, <5>3
      <4>. QED  BY <3>1, <3>3, <4>3
    <3>. QED  BY <3>2, <3>3
  <2>. QED  BY <2>2, <2>3 DEF Alone
<1>. QED  BY <1>3, <1>4 DEF AloneRun

LEMMA FallbackAlone ==
  ASSUME TypeOK, PlansAreShaped, NEW p \in Runs, AloneRun(p),
         NEW r \in Repos, NEW a \in todo[p][r], Fallback(p, r, a)
  PROVE  AloneRun(p)'
<1>. USE DEF Renaming, Recolouring, Creating, Existing, Deleting
<1>. DEFINE b == AsUpdate(a)
            T == todo[p][r]
            U == (T \ {a}) \cup {b}
<1>1. /\ pc[p] = "applying" /\ a.kind = "create"
      /\ todo' = [todo EXCEPT ![p][r] = (@ \ {a}) \cup {b}]
      /\ store' = store /\ pc' = pc /\ dry' = dry /\ unread' = unread /\ seen' = seen
      /\ skipped' = skipped /\ chosen' = chosen /\ declined' = declined
      /\ asOf' = asOf /\ edits' = edits
  BY DEF Fallback, InFlight, remote, counted
<1>2. todo'[p][r] = U /\ \A q \in Repos \ {r} : todo'[p][q] = todo[p][q]
  BY <1>1 DEF TypeOK
<1>3. a \in ActionRecord
  BY SelectedIsAnAction, ActionFields
<1>4. b.kind = "update" /\ b.phase = a.phase
  BY <1>3 DEF AsUpdate, ActionRecord
<1>5. a.phase = Creating
  BY <1>1 DEF PlansAreShaped, Shaped, Planned, IsRename, IsRecolour, IsCreate, IsUpdate, IsRemoval
<1>6. \A i : RenameLeft(U, i) <=> RenameLeft(T, i)
  BY <1>4, <1>5 DEF RenameLeft
<1>7. \A k : RemovalLeft(U, k) <=> RemovalLeft(T, k)
  BY <1>1, <1>4 DEF RemovalLeft
<1>8. \A c \in U : c.phase = Recolouring => c \in T
  BY <1>4, <1>5
<1>9. Orderly(p)'
  BY <1>1 DEF AloneRun, Orderly
<1>10. ASSUME Undisturbed(p)', NEW q \in Repos PROVE Alone(p, q)'
  <2>1. Alone(p, q)
    BY <1>1, <1>10 DEF AloneRun, Undisturbed
  <2>2. ~HasRead(p, q)' /\ ~Looking(p, q)' /\ (Carrying(p, q)' => Carrying(p, q))
    BY <1>1 DEF HasRead, Looking, Carrying
  <2>3. CASE q # r
    BY <1>1, <1>2, <2>1, <2>2, <2>3 DEF Alone
  <2>4. CASE q = r
    <3>1. \A s, C : RenamesCovered(r, T, s, C) => RenamesCovered(r, U, s, C)
      BY <1>6 DEF RenamesCovered, Applicable
    <3>2. \A s, D : RemovalsCovered(r, T, s, D) => RemovalsCovered(r, U, s, D)
      BY <1>6, <1>7 DEF RemovalsCovered, Spared
    <3>3. \A s : ColoursFree(r, T, s) => ColoursFree(r, U, s)
      BY <1>6, <1>8 DEF ColoursFree
    <3>4. Carrying(p, r)' =>
            /\ RenamesCovered(r, U, store[r], chosen[p])
            /\ Mode[p] = "prune" => RemovalsCovered(r, U, store[r], declined[p])
            /\ ColoursFree(r, U, store[r])
      BY <2>1, <2>2, <2>4, <3>1, <3>2, <3>3 DEF Alone
    <3>. QED  BY <1>1, <1>2, <2>2, <2>4, <3>4 DEF Alone
  <2>. QED  BY <2>3, <2>4
<1>. QED  BY <1>9, <1>10 DEF AloneRun

LEMMA AbandonAlone ==
  ASSUME TypeOK, NEW p \in Runs, AloneRun(p),
         NEW r \in Repos, NEW a \in todo[p][r], Abandon(p, r, a)
  PROVE  AloneRun(p)'
<1>1. /\ pc[p] = "applying"
      /\ todo' = [todo EXCEPT ![p][r] = {}] /\ skipped' = [skipped EXCEPT ![p] = @ \cup {r}]
      /\ store' = store /\ pc' = pc /\ dry' = dry /\ chosen' = chosen /\ declined' = declined
      /\ asOf' = asOf /\ edits' = edits
  BY DEF Abandon, InFlight, remote, counted
<1>2. /\ skipped'[p] = skipped[p] \cup {r}
      /\ \A q \in Repos \ {r} : todo'[p][q] = todo[p][q]
  BY <1>1 DEF TypeOK
<1>3. Orderly(p)'
  BY <1>1 DEF AloneRun, Orderly
<1>4. ASSUME Undisturbed(p)', NEW q \in Repos PROVE Alone(p, q)'
  <2>1. Alone(p, q)
    BY <1>1, <1>4 DEF AloneRun, Undisturbed
  <2>2. ~HasRead(p, q)' /\ ~Looking(p, q)'
    BY <1>1 DEF HasRead, Looking
  <2>3. Carrying(p, q)' => q # r /\ Carrying(p, q)
    BY <1>1, <1>2 DEF Carrying
  <2>. QED  BY <1>1, <1>2, <2>1, <2>2, <2>3 DEF Alone
<1>. QED  BY <1>3, <1>4 DEF AloneRun

LEMMA ApplyAlone ==
  ASSUME TrackInv, NEW p \in Runs, \A q \in Runs : q = p, AloneRun(p), Apply(p)
  PROVE  AloneRun(p)'
<1>0. TypeOK /\ PlansAreShaped
  BY DEF TrackInv, SafeInv
<1>1. PICK r \in Repos : \E a \in todo[p][r] :
        \/ Succeed(p, r, a) \/ Fallback(p, r, a) \/ Abandon(p, r, a)
        \/ Collide(p, r, a) \/ LoseAnswer(p, r, a)
  BY DEF Apply
<1>2. PICK a \in todo[p][r] :
        \/ Succeed(p, r, a) \/ Fallback(p, r, a) \/ Abandon(p, r, a)
        \/ Collide(p, r, a) \/ LoseAnswer(p, r, a)
  BY <1>1
<1>3. CASE Succeed(p, r, a)
  <2>1. /\ InFlight(p, r, a) /\ Answer(store[r], a) = "ok"
        /\ store' = [store EXCEPT ![r] = Effect(store[r], a)]
        /\ todo' = [todo EXCEPT ![p][r] = @ \ {a}]
        /\ UNCHANGED <<pc, dry, unread, seen, skipped, chosen, declined, asOf, edits>>
    BY <1>3 DEF Succeed, counted
  <2>. QED  BY <2>1, WriteAlone
<1>4. CASE LoseAnswer(p, r, a)
  <2>1. /\ InFlight(p, r, a)
        /\ store' = store \/ store' = [store EXCEPT ![r] = Served(store[r], a)]
        /\ UNCHANGED <<pc, dry, unread, seen, todo, skipped, chosen, declined, asOf, edits>>
    BY <1>4 DEF LoseAnswer, counted
  <2>2. CASE store' = store
    BY <1>0, <2>1, <2>2, SameAlone
  <2>3. CASE store' # store
    <3>1. Answer(store[r], a) = "ok"
      BY <1>0, <2>1, <2>3 DEF Served, TypeOK
    <3>2. store' = [store EXCEPT ![r] = Effect(store[r], a)]
      BY <2>1, <2>3, <3>1 DEF Served
    <3>. QED  BY <2>1, <3>1, <3>2, WriteAlone
  <2>. QED  BY <2>2, <2>3
<1>5. CASE Collide(p, r, a)
  <2>1. pc'[p] = "failed"
    BY <1>0, <1>5 DEF Collide, TypeOK
  <2>. QED  BY <1>0, <2>1, OverAlone
<1>. QED  BY <1>0, <1>2, <1>3, <1>4, <1>5, FallbackAlone, AbandonAlone

LEMMA NextAlone ==
  ASSUME RoomyPalette, SingleReads, TrackInv, NEW p \in Runs, \A q \in Runs : q = p, AloneRun(p), [Next]_vars
  PROVE  AloneRun(p)'
<1>0. TypeOK /\ AllWellKeyed /\ EditsAreCounted
  BY DEF TrackInv, SafeInv
<1>1. CASE Advance(p)
  BY <1>0, <1>1, ReadAlone, PlanAlone, SelectAlone, EndAlone, ApplyAlone DEF Advance
<1>2. CASE Stop(p)
  <2>1. pc'[p] = "failed"
    BY <1>0, <1>2 DEF Stop, TypeOK
  <2>. QED  BY <1>0, <2>1, OverAlone
<1>3. CASE Restart(p)
  BY <1>0, <1>3, RestartAlone
<1>4. ASSUME NEW r \in Repos, Edit(r) PROVE AloneRun(p)'
  <2>1. /\ edits' = edits + 1
        /\ UNCHANGED <<pc, dry, unread, seen, todo, skipped, chosen, declined, asOf>>
    BY <1>4 DEF Edit, local
  <2>2. ~Undisturbed(p)'
    <3>1. asOf[p] \in Nat /\ edits \in Nat /\ asOf[p] <= edits
      BY <1>0 DEF TypeOK, EditsAreCounted
    <3>. QED  BY <2>1, <3>1 DEF Undisturbed
  <2>. QED  BY <1>0, <2>1, <2>2, SameAlone
<1>5. ASSUME (\E r \in Repos : Outage(r) \/ Recovery(r)) \/ UNCHANGED vars
      PROVE  AloneRun(p)'
  <2>1. /\ edits' = edits /\ store' = store
        /\ UNCHANGED <<pc, dry, unread, seen, todo, skipped, chosen, declined, asOf>>
    BY <1>5 DEF Outage, Recovery, vars, local, counted
  <2>. QED  BY <1>0, <2>1, SameAlone
<1>. QED  BY <1>1, <1>2, <1>3, <1>4, <1>5 DEF Next

LEMMA RunsAlone ==
  ASSUME RoomyPalette, SingleReads, \A p, q \in Runs : p = q
  PROVE  Spec => []AloneInv
<1>1. Init => AloneInv
  BY DEF Init, AloneInv, AloneRun, Orderly, Alone, HasRead, Looking, Carrying
<1>2. TrackInv /\ AloneInv /\ [Next]_vars => AloneInv'
  BY NextAlone DEF AloneInv
<1>. QED  BY <1>1, <1>2, Tracking, PTL DEF Spec

\* A run that has ended with nothing left to write has nothing left to do.
LEMMA NothingLeft ==
  ASSUME NEW r \in Repos, NEW T, \A a \in T : Planned(r, a), Writes(T) = {}, NEW s
  PROVE  /\ \A C : RenamesCovered(r, T, s, C) => \A i \in Applicable(s) : <<r, To(i)>> \in C
         /\ \A D : RemovalsCovered(r, T, s, D) => \A k \in Unconfigured(r, s) : <<r, k>> \in D
<1>1. \A i : ~RenameLeft(T, i)
  BY DEF RenameLeft, Planned, IsRename, IsRecolour, IsCreate, IsUpdate, IsRemoval, Writes,
         Renaming, Recolouring, Creating, Existing, Deleting
<1>2. \A k : ~RemovalLeft(T, k)
  BY DEF RemovalLeft, Writes
<1>. QED  BY <1>1, <1>2 DEF RenamesCovered, RemovalsCovered, Spared

LEMMA EndIsExact ==
  ASSUME TrackInv, NEW p \in Runs, AloneRun(p), Undisturbed(p), NEW r \in Repos, Finished(p, r)
  PROVE  /\ \A i \in Applicable(store[r]) : <<r, To(i)>> \in chosen[p]
         /\ Mode[p] = "prune" => \A k \in Unconfigured(r, store[r]) : <<r, k>> \in declined[p]
<1>1. Carrying(p, r) /\ Alone(p, r) /\ Writes(todo[p][r]) = {}
  BY DEF AloneRun, Orderly, Carrying, Finished
<1>2. \A a \in todo[p][r] : Planned(r, a)
  BY DEF TrackInv, PlansAreShaped, Shaped
<1>. QED  BY <1>1, <1>2, NothingLeft DEF Alone

(***************************************************************************)
(* PruneIsExact, for a run that is the only one and that nobody disturbed: *)
(* whatever it was told twice, whatever answers it lost and whatever an    *)
(* earlier process of it had done, the labels that are left unconfigured   *)
(* are the ones that the user declined to remove.                          *)
(***************************************************************************)
THEOREM PrunesExactly ==
  ASSUME RoomyPalette, SingleReads, \A p, q \in Runs : p = q
  PROVE  Spec => []PruneIsExact
<1>1. TrackInv /\ AloneInv => PruneIsExact
  BY EndIsExact DEF AloneInv, PruneIsExact
<1>. QED  BY <1>1, Tracking, RunsAlone, PTL

\* What the plan that a dry run prints says of one repository.
LEMMA DryRunTells ==
  ASSUME RoomyPalette, TrackInv, NEW p \in Runs, AloneRun(p), Undisturbed(p),
         pc[p] = "done", dry[p], NEW r \in Covered \ skipped[p]
  PROVE  Outstanding(p, r) <=> Writes(todo[p][r]) # {}
<1>1. r \in Repos /\ Desired[r] # {}
  BY DEF Covered
<1>2. todo[p][r] \in Compute(r, store[r], Mode[p])
  BY <1>1 DEF AloneRun, Alone, Looking
<1>3. store[r] \in Views /\ WellKeyed(store[r]) /\ Mode[p] \in {"append", "prune"}
  BY <1>1, SyncAssumption DEF TrackInv, SafeInv, TypeOK, AllWellKeyed
<1>4. chosen[p] = {} /\ declined[p] = {}
  BY DEF AloneRun, Orderly
<1>5. Writes(todo[p][r]) = {} <=>
        /\ Conforms(r, store[r]) /\ Applicable(store[r]) = {}
        /\ Mode[p] = "prune" => Unconfigured(r, store[r]) = {}
  BY <1>1, <1>2, <1>3, PlanTells
<1>. QED  BY <1>4, <1>5 DEF Outstanding

(***************************************************************************)
(* ExitIsTrue: what the exit code of the only run claims is so.  A dry run *)
(* reads, plans and stops, so its plan is Compute's of what is there; a    *)
(* run that writes has done what its plan was or has been told not to.     *)
(***************************************************************************)
THEOREM ExitTellsTheTruth ==
  ASSUME RoomyPalette, SingleReads
  PROVE  Spec => []ExitIsTrue
<1>1. CASE \A p, q \in Runs : p = q
  <2>1. ASSUME TrackInv, AloneInv, NEW p \in Runs, pc[p] = "done", Undisturbed(p), Runs = {p}
        PROVE  /\ dry[p] => ("drift" \in Outcome(p)
                               <=> \E r \in Covered \ skipped[p] : Outstanding(p, r))
               /\ Outcome(p) = {} => \A r \in Covered : ~Outstanding(p, r)
    <3>0. AloneRun(p) /\ Covered \subseteq Repos
      BY <2>1 DEF AloneInv, Covered
    <3>1. /\ "drift" \in Outcome(p) <=> dry[p] /\ Drifted(todo[p])
          /\ "skipped" \in Outcome(p) <=> skipped[p] # {}
      BY <2>1 DEF Outcome
    <3>2. \A r \in Repos : Writes(todo[p][r]) # {} => r \in Covered \ skipped[p]
      BY <2>1 DEF TrackInv, PlansAreShaped, Shaped, Writes
    <3>3. ASSUME dry[p] PROVE Drifted(todo[p]) <=> \E r \in Covered \ skipped[p] : Outstanding(p, r)
      BY <2>1, <3>0, <3>2, <3>3, DryRunTells DEF Drifted
    <3>4. ASSUME ~dry[p], skipped[p] = {}, NEW r \in Covered PROVE ~Outstanding(p, r)
      <4>1. r \in Repos /\ Finished(p, r)
        BY <2>1, <3>0, <3>4 DEF Finished
      <4>2. Conforms(r, store[r])
        BY <2>1, <4>1 DEF TrackInv, RunsAreTracked, Quiet, Tracked
      <4>. QED  BY <2>1, <3>0, <4>1, <4>2, EndIsExact DEF Outstanding
    <3>. QED  BY <3>1, <3>3, <3>4
  <2>2. TrackInv /\ AloneInv => ExitIsTrue
    BY <2>1 DEF ExitIsTrue
  <2>. QED  BY <1>1, <2>2, Tracking, RunsAlone, PTL
<1>2. CASE ~(\A p, q \in Runs : p = q)
  <2>1. ExitIsTrue
    BY <1>2 DEF ExitIsTrue
  <2>. QED  BY <2>1, PTL
<1>. QED  BY <1>1, <1>2

\* The labels that a step of the only run writes to stay apart.
LEMMA StepApart ==
  ASSUME TrackInv, TrackInv', [Next]_vars, NEW p \in Runs, \A q \in Runs : q = p, AloneRun(p),
         edits' = 0, NEW r \in Repos, NEW g, MovedApart(r, store[r], g)
  PROVE  MovedApart(r, store'[r], g)
<1>1. CASE store'[r] = store[r]
  BY <1>1 DEF MovedApart
<1>2. CASE store'[r] # store[r]
  <2>1. PICK a \in todo[p][r] : /\ WritesIn(p, r, a) /\ NextWrite(r, todo[p][r], store[r], a)
                                /\ store'[r] = Effect(store[r], a)
    BY <1>2, StepOfStore
  <2>2. pc[p] = "applying" /\ r \in Covered \ skipped[p]
    BY <2>1 DEF WritesIn, InFlight, TrackInv, PlansAreShaped, Shaped
  <2>3. Undisturbed(p)
    BY StepOfStore, NobodyDisturbs DEF Quiet
  <2>4. ColoursFree(r, todo[p][r], store[r])
    BY <2>2, <2>3 DEF AloneRun, Alone, Carrying
  <2>5. store[r] \in Views /\ WellKeyed(store[r])
    BY StepOfStore
  <2>6. ASSUME NEW t, t = store'[r] PROVE MovedApart(r, t, g)
    <3>1. t = Effect(store[r], a)
      BY <2>1, <2>6
    <3>. QED  BY <2>1, <2>4, <2>5, <3>1, WriteApart
  <2>. QED  BY <2>6
<1>. QED  BY <1>1, <1>2

(***************************************************************************)
(* RecoloursApart, for the only run: each colour that an allocation hands  *)
(* out stays that label's own, also when the run is stopped and its        *)
(* successor allocates again, seeing what the first has moved.             *)
(***************************************************************************)
THEOREM RecoloursStayApart ==
  ASSUME RoomyPalette, SingleReads, \A p, q \in Runs : p = q
  PROVE  Spec => []RecoloursApart
<1>1. Init => ApartInv
  BY StoresAssumption DEF Init, ApartInv, MovedApart, Unconfigured
<1>2. ASSUME TrackInv, TrackInv', AloneInv, ApartInv, [Next]_vars
      PROVE  ApartInv'
  <2>1. ASSUME edits' = 0, NEW r \in Repos PROVE MovedApart(r, store[r], started[r])'
    <3>1. started' = started /\ edits = 0
      BY <1>2, <2>1, PastStays, StepOfStore
    <3>2. MovedApart(r, store[r], started[r])
      BY <1>2, <3>1 DEF ApartInv
    <3>3. CASE store'[r] = store[r]
      BY <3>1, <3>2, <3>3 DEF MovedApart
    <3>4. CASE store'[r] # store[r]
      <4>1. PICK p \in Runs : TRUE
        BY <1>2, <2>1, <3>4, StepOfStore
      <4>2. AloneRun(p) /\ \A q \in Runs : q = p
        BY <1>2 DEF AloneInv
      <4>3. ASSUME NEW g, g = started[r] PROVE MovedApart(r, store'[r], g)
        BY <1>2, <2>1, <3>2, <4>2, <4>3, StepApart
      <4>. QED  BY <3>1, <4>3
    <3>. QED  BY <3>3, <3>4
  <2>. QED  BY <2>1 DEF ApartInv
<1>3. ApartInv => RecoloursApart
  BY DEF ApartInv, MovedApart, RecoloursApart
<1>. QED  BY <1>1, <1>2, <1>3, Tracking, RunsAlone, PTL DEF Spec
=============================================================================
