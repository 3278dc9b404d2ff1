------------------------- MODULE ConvergenceProofs --------------------------
(***************************************************************************)
(* Proofs that a run leaves a repository as configured, and that all runs  *)
(* together do to it only what Reconciliation allows, for any number of    *)
(* overlapping runs that are stopped, started again and have answers lost. *)
(*                                                                         *)
(* The argument is one of rely and guarantee.  A run plans from labels     *)
(* that others may have changed since, but only in the steps of            *)
(* Reconciliation; what it has read (Since) and what it has still to do    *)
(* (OnTrack) stay right under such steps.  And because they are right,     *)
(* each write of the run is such a step itself.                            *)
(***************************************************************************)
EXTENDS SyncProofs

-----------------------------------------------------------------------------
(***************************************************************************)
(* The inductive invariant.                                                *)
(***************************************************************************)

\* The kinds of action a plan for repository r is made of, by phase.
IsRename(a, i) ==
  /\ a.kind = "update" /\ a.phase = Renaming /\ a.pos = i
  /\ Lower[a.name] = From(i) /\ a.newName = Renames[i].to
  /\ a.color = Keep /\ a.desc = Keep

IsRecolour(r, a) ==
  /\ a.kind = "update" /\ a.phase = Recolouring
  /\ Lower[a.name] \notin Configured(r)
  /\ a.newName = Keep /\ a.desc = Keep
  /\ a.color \in Palette \ Reserved(r)

IsCreate(a, d) ==
  /\ a.kind \in {"create", "update"} /\ a.phase = Creating
  /\ a.name = d.name /\ a.color = d.color /\ a.desc = d.desc
  /\ a.kind = "update" => a.newName = d.name

IsUpdate(a, d) ==
  /\ a.kind \in {"update", "noop"} /\ a.phase = Existing
  /\ Lower[a.name] = Lower[d.name]
  /\ a.newName \in {Keep, d.name} /\ a.color \in {Keep, d.color} /\ a.desc \in {Keep, d.desc}
  /\ a.kind = "noop" => a.newName = Keep /\ a.color = Keep /\ a.desc = Keep

IsRemoval(r, a) ==
  a.kind = "delete" /\ a.phase = Deleting /\ Lower[a.name] \notin Configured(r)

Planned(r, a) ==
  \/ \E i \in DOMAIN Renames : IsRename(a, i)
  \/ IsRecolour(r, a)
  \/ \E d \in Desired[r] : IsCreate(a, d) \/ IsUpdate(a, d)
  \/ IsRemoval(r, a)

\* The label l is as d asks for.
Is(l, d) == l # None /\ l.name = d.name /\ l.color = d.color /\ l.desc = d.desc

SomeRunPrunes == \E p \in Runs : Mode[p] = "prune"

\* A label may have been removed.
Removed(r, s) == SomeRunPrunes /\ Conforms(r, s)

\* How the labels of repository r may change from v to s by any number of steps
\* of Reconciliation: a configured label stays as it is or becomes as configured,
\* one that a rename makes a configured label is not touched before it, and a
\* label becomes a squatter only by the renaming of one.  Labels go only when they
\* are renamed, or when nothing but removals is left to do.
Since(r, v, s) ==
  /\ \A d \in Desired[r] :
       v[Lower[d.name]] # None =>
         s[Lower[d.name]] = v[Lower[d.name]] \/ Is(s[Lower[d.name]], d)
  /\ \A i \in DOMAIN Renames :
       s[From(i)] # None =>
         /\ v[From(i)] # None
         /\ To(i) \in Configured(r) /\ s[To(i)] = None =>
              v[To(i)] = None /\ s[From(i)] = v[From(i)]
  /\ \A k \in Squatters(r, s) :
       \/ k \in Squatters(r, v)
       \/ \E i \in DOMAIN Renames :
            k = To(i) /\ s[From(i)] = None /\ From(i) \in Squatters(r, v)
  /\ \A k \in Keys :
       v[k] # None /\ s[k] = None =>
         \/ Removed(r, s)
         \/ \E i \in DOMAIN Renames : k = From(i) /\ v[To(i)] = None /\ s[To(i)] # None

RenameLeft(todos, i) == \E a \in todos : a.phase = Renaming /\ a.pos = i

RecolourLeft(todos, k) == \E a \in todos : a.phase = Recolouring /\ Lower[a.name] = k

\* The action a makes of a label l what d asks for.
Brings(l, a, d) ==
  /\ Or(a.newName, l.name) = d.name
  /\ Or(a.color, l.color) = d.color
  /\ Or(a.desc, l.desc) = d.desc

Moved(s, i) == [s[From(i)] EXCEPT !.name = Renames[i].to]

\* An update brings the label it is for, now or once it has been renamed, to
\* what is desired.
Right(s, todos, a, d) ==
  \/ s[Lower[d.name]] # None /\ Brings(s[Lower[d.name]], a, d)
  \/ \E i \in DOMAIN Renames :
       /\ To(i) = Lower[d.name] /\ RenameLeft(todos, i)
       /\ s[From(i)] # None /\ s[To(i)] = None => Brings(Moved(s, i), a, d)

\* Each label that differs is taken care of.
LabelsLeft(r, todos, s) ==
  \A d \in Desired[r] :
    \/ Is(s[Lower[d.name]], d)
    \/ \E a \in todos : a.phase \in {Creating, Existing} /\ Lower[a.name] = Lower[d.name]

UpdatesRight(r, todos, s) ==
  \A a \in todos, d \in Desired[r] : IsUpdate(a, d) => Right(s, todos, a, d)

\* Each squatter will be moved off, or the plan will be given up before the
\* first label is created: a label it names has been renamed by another run.
SquattersLeft(r, todos, s) ==
  \A k \in Squatters(r, s) :
    \/ RecolourLeft(todos, k)
    \/ \E i \in DOMAIN Renames :
         \/ /\ k = From(i) /\ RenameLeft(todos, i)
            /\ To(i) \in Configured(r) \/ RecolourLeft(todos, To(i))
         \/ /\ k = To(i) /\ s[From(i)] = None
            /\ RenameLeft(todos, i) \/ RecolourLeft(todos, From(i))

\* A label that is still to be renamed is not recoloured.
RenamedFirst(r, todos, s) ==
  \A i \in DOMAIN Renames :
    RecolourLeft(todos, From(i)) => s[To(i)] # None \/ Removed(r, s)

\* What can be renamed will be.
RenamesLeft(r, todos, s) ==
  \A i \in DOMAIN Renames :
    s[From(i)] # None /\ s[To(i)] = None => RenameLeft(todos, i) \/ Removed(r, s)

\* A label that is to be recoloured or patched is there, or will be.
TargetsThere(r, todos, s) ==
  /\ \A k \in Keys : RecolourLeft(todos, k) =>
       \/ s[k] # None
       \/ \E i \in DOMAIN Renames : k = To(i) /\ RenameLeft(todos, i)
       \/ Removed(r, s)
  /\ \A a \in todos, d \in Desired[r] :
       IsCreate(a, d) /\ a.kind = "update" => s[Lower[d.name]] # None

OnTrack(r, todos, s) ==
  /\ LabelsLeft(r, todos, s)
  /\ UpdatesRight(r, todos, s)
  /\ SquattersLeft(r, todos, s)
  /\ RenamedFirst(r, todos, s)
  /\ RenamesLeft(r, todos, s)
  /\ TargetsThere(r, todos, s)

HasRead(p, r) == pc[p] = "reading" /\ r \in Covered \ (unread[p] \cup skipped[p])

HasPlan(p, r) == pc[p] \in {"planned", "applying"} /\ r \in Covered \ skipped[p]

Shaped(p, r) ==
  /\ \A a \in todo[p][r] : Planned(r, a)
  /\ todo[p][r] # {} => pc[p] # "reading" /\ r \in Covered \ skipped[p]

PlansAreShaped == \A p \in Runs, r \in Repos : Shaped(p, r)

Tracked(p, r) ==
  /\ HasRead(p, r) => Since(r, seen[p][r], store[r])
  /\ HasPlan(p, r) => OnTrack(r, todo[p][r], store[r])
  /\ Finished(p, r) => Conforms(r, store[r])

\* Nobody but the runs has touched a label since p started, and p is the only
\* run, or nobody has since the beginning.
Quiet(p) == Undisturbed(p) /\ (edits = 0 \/ Runs = {p})

RunsAreTracked == \A p \in Runs, r \in Repos : Quiet(p) => Tracked(p, r)

EditsAreCounted == \A p \in Runs : asOf[p] <= edits

TrackInv == SafeInv /\ EditsAreCounted /\ PlansAreShaped /\ RunsAreTracked

-----------------------------------------------------------------------------
(***************************************************************************)
(* One step of Reconciliation, on the labels of one repository.            *)
(***************************************************************************)
Moves(s, i, t) ==
  /\ s[From(i)] # None /\ s[To(i)] = None
  /\ t = [s EXCEPT ![From(i)] = None, ![To(i)] = Moved(s, i)]

Recolours(r, s, k, t) ==
  /\ k \in Unconfigured(r, s)
  /\ \A i \in DOMAIN Renames : k = From(i) /\ To(i) \in Configured(r) => s[To(i)] # None
  /\ \E c \in Palette \ Reserved(r) : t = [s EXCEPT ![k].color = c]

Settles(r, s, d, t) ==
  /\ \A j \in Squatters(r, s) : s[j].color # d.color
  /\ \A i \in DOMAIN Renames :
       Lower[d.name] = To(i) /\ s[Lower[d.name]] = None => s[From(i)] = None
  /\ t = [s EXCEPT ![Lower[d.name]] =
       [origin |-> IF s[Lower[d.name]] = None THEN Fresh ELSE s[Lower[d.name]].origin,
        name |-> d.name, color |-> d.color, desc |-> d.desc]]

Removes(r, s, k, t) ==
  /\ Removed(r, s)
  /\ k \in Unconfigured(r, s)
  /\ t = [s EXCEPT ![k] = None]

Allowed(r, s, t) ==
  \/ \E i \in DOMAIN Renames : Moves(s, i, t)
  \/ \E k \in Keys : Recolours(r, s, k, t)
  \/ \E d \in Desired[r] : Settles(r, s, d, t)
  \/ \E k \in Keys : Removes(r, s, k, t)

\* The renames touch labels apart from each other and from the configured ones.
LEMMA RenamesApart ==
  ASSUME NEW i \in DOMAIN Renames
  PROVE  /\ From(i) \in Keys /\ To(i) \in Keys
         /\ \A r \in Repos : From(i) \notin Configured(r)
         /\ \A j \in DOMAIN Renames :
              /\ From(i) = From(j) => i = j
              /\ To(i) = To(j) => i = j
              /\ From(i) # To(j)
BY RenamesAssumption, RenameFields DEF SimpleRenames, From, To

LEMMA ConfiguredKey ==
  ASSUME NEW r \in Repos, NEW k \in Configured(r)
  PROVE  /\ k \in Keys
         /\ \E d \in Desired[r] : k = Lower[d.name]
         /\ \A c, d \in Desired[r] : k = Lower[c.name] /\ k = Lower[d.name] => c = d
BY DesiredFields, DesiredAssumption DEF Configured, OneLabelPerKey

\* What each kind of step leaves alone.
LEMMA MovesSince ==
  ASSUME NEW r \in Repos, NEW s \in Views, NEW i \in DOMAIN Renames, NEW t, Moves(s, i, t)
  PROVE  Since(r, s, t)
<1>0. From(i) \in Keys /\ To(i) \in Keys /\ From(i) # To(i) /\ From(i) \notin Configured(r)
  BY RenamesApart
<1>1. /\ t[From(i)] = None /\ t[To(i)] = Moved(s, i)
      /\ \A k \in Keys : k # From(i) /\ k # To(i) => t[k] = s[k]
  BY <1>0 DEF Moves, Views
<1>2. ASSUME NEW d \in Desired[r], s[Lower[d.name]] # None
      PROVE  t[Lower[d.name]] = s[Lower[d.name]]
  <2>1. Lower[d.name] \in Configured(r) /\ Lower[d.name] \in Keys
    BY DesiredFields DEF Configured
  <2>. QED  BY <1>0, <1>1, <1>2, <2>1 DEF Moves
<1>3. ASSUME NEW j \in DOMAIN Renames, t[From(j)] # None
      PROVE  /\ s[From(j)] # None
             /\ t[To(j)] = None => s[To(j)] = None /\ t[From(j)] = s[From(j)]
  <2>1. j # i
    BY <1>1, <1>3
  <2>2. t[From(j)] = s[From(j)] /\ t[To(j)] = s[To(j)]
    BY <1>1, <2>1, RenamesApart
  <2>. QED  BY <1>3, <2>2
<1>4. ASSUME NEW k \in Squatters(r, t)
      PROVE  \/ k \in Squatters(r, s)
             \/ k = To(i) /\ t[From(i)] = None /\ From(i) \in Squatters(r, s)
  <2>1. k \in Keys /\ t[k] # None /\ k \notin Configured(r) /\ t[k].color \in Reserved(r)
    BY <1>4 DEF Squatters, Unconfigured, Present
  <2>2. CASE k = To(i)
    <3>1. s[From(i)] \in Label
      BY <1>0 DEF Moves, Views
    <3>2. t[k].color = s[From(i)].color
      BY <1>1, <2>2, <3>1 DEF Moved, Label
    <3>. QED  BY <1>0, <1>1, <2>1, <2>2, <3>2 DEF Moves, Squatters, Unconfigured, Present
  <2>3. CASE k # To(i)
    BY <1>1, <2>1, <2>3 DEF Squatters, Unconfigured, Present
  <2>. QED  BY <2>2, <2>3
<1>5. ASSUME NEW k \in Keys, s[k] # None, t[k] = None
      PROVE  k = From(i) /\ s[To(i)] = None /\ t[To(i)] # None
  <2>1. Moved(s, i) \in Label
    BY <1>0, RenameFields DEF Moves, Moved, Views, Label
  <2>. QED  BY <1>1, <1>5, <2>1, SentinelAssumption DEF Moves
<1>. QED  BY <1>2, <1>3, <1>4, <1>5 DEF Since

LEMMA RecoloursSince ==
  ASSUME NEW r \in Repos, NEW s \in Views, NEW k \in Keys, NEW t, Recolours(r, s, k, t)
  PROVE  Since(r, s, t)
<1>1. PICK c \in Palette \ Reserved(r) : t = [s EXCEPT ![k].color = c]
  BY DEF Recolours
<1>2. s[k] # None /\ s[k] \in Label /\ k \notin Configured(r)
  BY DEF Recolours, Unconfigured, Present, Views
<1>3. t[k].color = c /\ \A j \in Keys : j # k => t[j] = s[j]
  BY <1>1, <1>2 DEF Label, Views
<1>4. ASSUME NEW d \in Desired[r]
      PROVE  t[Lower[d.name]] = s[Lower[d.name]]
  BY <1>2, <1>3, DesiredFields DEF Configured
<1>5. ASSUME NEW i \in DOMAIN Renames, t[From(i)] # None
      PROVE  /\ s[From(i)] # None
             /\ To(i) \in Configured(r) /\ t[To(i)] = None =>
                  s[To(i)] = None /\ t[From(i)] = s[From(i)]
  <2>1. CASE From(i) = k
    BY <1>2, <1>3, <2>1, RenamesApart DEF Recolours
  <2>2. CASE From(i) # k
    BY <1>2, <1>3, <1>5, <2>2, RenamesApart
  <2>. QED  BY <2>1, <2>2
<1>6. ASSUME NEW j \in Squatters(r, t)
      PROVE  j \in Squatters(r, s)
  BY <1>3, <1>6 DEF Squatters, Unconfigured, Present
<1>7. \A j \in Keys : t[j] = None => s[j] = None
  <2>1. t[k] \in Label
    BY <1>1, <1>2, PaletteAssumption DEF Label, Views
  <2>. QED  BY <1>3, <2>1, SentinelAssumption
<1>. QED  BY <1>4, <1>5, <1>6, <1>7 DEF Since

LEMMA SettlesSince ==
  ASSUME NEW r \in Repos, NEW s \in Views, NEW d \in Desired[r], NEW t, Settles(r, s, d, t)
  PROVE  Since(r, s, t) /\ Is(t[Lower[d.name]], d)
<1>. DEFINE k == Lower[d.name]
            l == [origin |-> IF s[k] = None THEN Fresh ELSE s[k].origin,
                  name |-> d.name, color |-> d.color, desc |-> d.desc]
<1>0. k \in Keys /\ k \in Configured(r)
  BY DesiredFields DEF Configured
<1>1. t[k] = l /\ \A j \in Keys : j # k => t[j] = s[j]
  BY <1>0 DEF Settles, Views
<1>2. l \in Label
  <2>1. s[k] # None => s[k].origin \in Keys \cup {Fresh}
    BY <1>0 DEF Views, Label
  <2>. QED  BY <2>1, DesiredFields DEF Label
<1>3. Is(t[k], d)
  BY <1>1, <1>2, SentinelAssumption DEF Is
<1>4. ASSUME NEW e \in Desired[r]
      PROVE  t[Lower[e.name]] = s[Lower[e.name]] \/ Is(t[Lower[e.name]], e)
  BY <1>0, <1>1, <1>3, DesiredFields, ConfiguredKey
<1>5. ASSUME NEW i \in DOMAIN Renames, t[From(i)] # None
      PROVE  /\ s[From(i)] # None
             /\ t[To(i)] = None => s[To(i)] = None /\ t[From(i)] = s[From(i)]
  <2>1. t[From(i)] = s[From(i)]
    BY <1>0, <1>1, RenamesApart
  <2>2. t[To(i)] = None => t[To(i)] = s[To(i)]
    BY <1>1, <1>3, RenamesApart DEF Is
  <2>. QED  BY <1>5, <2>1, <2>2
<1>6. ASSUME NEW j \in Squatters(r, t)
      PROVE  j \in Squatters(r, s)
  BY <1>0, <1>1, <1>6 DEF Squatters, Unconfigured, Present
<1>7. \A j \in Keys : t[j] = None => s[j] = None
  BY <1>1, <1>2, SentinelAssumption
<1>. QED  BY <1>3, <1>4, <1>5, <1>6, <1>7 DEF Since

LEMMA RemovesSince ==
  ASSUME NEW r \in Repos, NEW s \in Views, NEW k \in Keys, NEW t, Removes(r, s, k, t)
  PROVE  Since(r, s, t)
<1>1. k \notin Configured(r) /\ t[k] = None /\ \A j \in Keys : j # k => t[j] = s[j]
  BY DEF Removes, Unconfigured, Views
<1>2. ASSUME NEW d \in Desired[r]
      PROVE  t[Lower[d.name]] = s[Lower[d.name]]
  BY <1>1, DesiredFields DEF Configured
<1>3. ASSUME NEW i \in DOMAIN Renames, t[From(i)] # None
      PROVE  /\ s[From(i)] # None
             /\ To(i) \in Configured(r) /\ t[To(i)] = None =>
                  s[To(i)] = None /\ t[From(i)] = s[From(i)]
  BY <1>1, <1>3, RenamesApart
<1>4. ASSUME NEW j \in Squatters(r, t)
      PROVE  j \in Squatters(r, s)
  BY <1>1, <1>4 DEF Squatters, Unconfigured, Present
<1>5. Removed(r, t)
  BY <1>2, <1>4 DEF Removes, Removed, Conforms
<1>. QED  BY <1>2, <1>3, <1>4, <1>5 DEF Since

LEMMA AllowedSince ==
  ASSUME NEW r \in Repos, NEW s \in Views, NEW t, Allowed(r, s, t)
  PROVE  Since(r, s, t)
BY MovesSince, RecoloursSince, SettlesSince, RemovesSince DEF Allowed

\* Steps add up.
LEMMA SinceNothing ==
  ASSUME NEW r \in Repos, NEW s
  PROVE  Since(r, s, s)
BY DEF Since

\* A repository that is as configured stays so.
LEMMA StaysConform ==
  ASSUME NEW r \in Repos, NEW s, NEW t, Conforms(r, s), Since(r, s, t)
  PROVE  Conforms(r, t)
<1>1. ASSUME NEW d \in Desired[r]
      PROVE  Is(t[Lower[d.name]], d)
  BY DEF Conforms, Since, Is
<1>2. Squatters(r, t) = {}
  BY DEF Conforms, Since
<1>. QED  BY <1>1, <1>2 DEF Conforms, Is

LEMMA SinceAddsUp ==
  ASSUME NEW r \in Repos, NEW v, NEW s, NEW t, Since(r, v, s), Since(r, s, t)
  PROVE  Since(r, v, t)
<1>1. ASSUME NEW d \in Desired[r], v[Lower[d.name]] # None
      PROVE  t[Lower[d.name]] = v[Lower[d.name]] \/ Is(t[Lower[d.name]], d)
  <2>1. s[Lower[d.name]] = v[Lower[d.name]] \/ Is(s[Lower[d.name]], d)
    BY <1>1 DEF Since
  <2>2. s[Lower[d.name]] # None
    BY <1>1, <2>1 DEF Is
  <2>3. t[Lower[d.name]] = s[Lower[d.name]] \/ Is(t[Lower[d.name]], d)
    BY <2>2 DEF Since
  <2>. QED  BY <2>1, <2>3
<1>2. ASSUME NEW i \in DOMAIN Renames, t[From(i)] # None
      PROVE  /\ v[From(i)] # None
             /\ To(i) \in Configured(r) /\ t[To(i)] = None =>
                  v[To(i)] = None /\ t[From(i)] = v[From(i)]
  BY <1>2 DEF Since
<1>3. ASSUME NEW k \in Squatters(r, t)
      PROVE  \/ k \in Squatters(r, v)
             \/ \E i \in DOMAIN Renames :
                  k = To(i) /\ t[From(i)] = None /\ From(i) \in Squatters(r, v)
  <2>1. ASSUME NEW i \in DOMAIN Renames, From(i) \in Squatters(r, s)
        PROVE  From(i) \in Squatters(r, v)
    <3>1. \A j \in DOMAIN Renames : From(i) # To(j)
      BY RenamesApart
    <3>. QED  BY <2>1, <3>1 DEF Since
  <2>2. CASE k \in Squatters(r, s)
    <3>1. CASE k \in Squatters(r, v)
      BY <3>1
    <3>2. CASE \E i \in DOMAIN Renames :
                 k = To(i) /\ s[From(i)] = None /\ From(i) \in Squatters(r, v)
      <4>1. PICK i \in DOMAIN Renames :
              k = To(i) /\ s[From(i)] = None /\ From(i) \in Squatters(r, v)
        BY <3>2
      <4>2. t[From(i)] = None
        BY <4>1 DEF Since
      <4>. QED  BY <4>1, <4>2
    <3>. QED  BY <2>2, <3>1, <3>2 DEF Since
  <2>3. CASE k \notin Squatters(r, s)
    <3>1. PICK i \in DOMAIN Renames :
            k = To(i) /\ t[From(i)] = None /\ From(i) \in Squatters(r, s)
      BY <1>3, <2>3 DEF Since
    <3>. QED  BY <2>1, <3>1
  <2>. QED  BY <2>2, <2>3
<1>4. Removed(r, s) => Removed(r, t)
  BY StaysConform DEF Removed
<1>5. ASSUME NEW i \in DOMAIN Renames
      PROVE  /\ v[To(i)] # None /\ s[To(i)] = None => Removed(r, s)
             /\ s[To(i)] # None /\ t[To(i)] = None => Removed(r, t)
  <2>1. To(i) \in Keys /\ \A j \in DOMAIN Renames : To(i) # From(j)
    BY RenamesApart
  <2>. QED  BY <2>1 DEF Since
<1>6. ASSUME NEW k \in Keys, v[k] # None, t[k] = None, ~Removed(r, t)
      PROVE  \E i \in DOMAIN Renames : k = From(i) /\ v[To(i)] = None /\ t[To(i)] # None
  <2>1. CASE s[k] = None
    <3>1. PICK i \in DOMAIN Renames : k = From(i) /\ v[To(i)] = None /\ s[To(i)] # None
      BY <1>4, <1>6, <2>1 DEF Since
    <3>. QED  BY <1>5, <1>6, <3>1
  <2>2. CASE s[k] # None
    <3>1. PICK i \in DOMAIN Renames : k = From(i) /\ s[To(i)] = None /\ t[To(i)] # None
      BY <1>6, <2>2 DEF Since
    <3>. QED  BY <1>4, <1>5, <1>6, <3>1
  <2>. QED  BY <2>1, <2>2
<1>. QED  BY <1>1, <1>2, <1>3, <1>6 DEF Since

-----------------------------------------------------------------------------
(***************************************************************************)
(* What is left of a plan stays right whatever others do meanwhile.        *)
(***************************************************************************)
LEMMA RightStays ==
  ASSUME NEW r \in Repos, NEW todos, NEW a, NEW d \in Desired[r], IsUpdate(a, d),
         NEW s, NEW t, Since(r, s, t), Right(s, todos, a, d)
  PROVE  Right(t, todos, a, d)
<1>. DEFINE k == Lower[d.name]
<1>0. k \in Configured(r)
  BY DEF Configured
<1>1. CASE s[k] # None /\ Brings(s[k], a, d)
  <2>1. t[k] # None /\ (t[k] = s[k] \/ Is(t[k], d))
    BY <1>1 DEF Since, Is
  <2>2. Is(t[k], d) => Brings(t[k], a, d)
    BY DEF Is, Brings, IsUpdate, Or
  <2>. QED  BY <1>1, <2>1, <2>2 DEF Right
<1>2. CASE \E i \in DOMAIN Renames :
             /\ To(i) = k /\ RenameLeft(todos, i)
             /\ s[From(i)] # None /\ s[To(i)] = None => Brings(Moved(s, i), a, d)
  <2>1. PICK i \in DOMAIN Renames :
             /\ To(i) = k /\ RenameLeft(todos, i)
             /\ s[From(i)] # None /\ s[To(i)] = None => Brings(Moved(s, i), a, d)
    BY <1>2
  <2>2. ASSUME t[From(i)] # None, t[To(i)] = None
        PROVE  Brings(Moved(t, i), a, d)
    <3>1. s[From(i)] # None /\ s[To(i)] = None /\ t[From(i)] = s[From(i)]
      BY <1>0, <2>1, <2>2 DEF Since
    <3>. QED  BY <2>1, <3>1 DEF Moved
  <2>. QED  BY <2>1, <2>2 DEF Right
<1>. QED  BY <1>1, <1>2 DEF Right

LEMMA SquattersStay ==
  ASSUME NEW r \in Repos, NEW todos, NEW s, NEW t, Since(r, s, t), SquattersLeft(r, todos, s)
  PROVE  SquattersLeft(r, todos, t)
<1>. SUFFICES ASSUME NEW k \in Squatters(r, t)
              PROVE  \/ RecolourLeft(todos, k)
                     \/ \E i \in DOMAIN Renames :
                          \/ /\ k = From(i) /\ RenameLeft(todos, i)
                             /\ To(i) \in Configured(r) \/ RecolourLeft(todos, To(i))
                          \/ /\ k = To(i) /\ t[From(i)] = None
                             /\ RenameLeft(todos, i) \/ RecolourLeft(todos, From(i))
  BY DEF SquattersLeft
<1>1. \A i \in DOMAIN Renames : s[From(i)] = None => t[From(i)] = None
  BY DEF Since
<1>2. CASE k \in Squatters(r, s)
  BY <1>1, <1>2 DEF SquattersLeft
<1>3. CASE \E i \in DOMAIN Renames : k = To(i) /\ t[From(i)] = None /\ From(i) \in Squatters(r, s)
  <2>1. PICK i \in DOMAIN Renames : k = To(i) /\ t[From(i)] = None /\ From(i) \in Squatters(r, s)
    BY <1>3
  <2>2. \A j \in DOMAIN Renames : From(i) # To(j) /\ (From(i) = From(j) => i = j)
    BY RenamesApart
  <2>3. RecolourLeft(todos, From(i)) \/ RenameLeft(todos, i)
    BY <2>1, <2>2 DEF SquattersLeft
  <2>. QED  BY <2>1, <2>3
<1>. QED  BY <1>2, <1>3 DEF Since

LEMMA OnTrackStays ==
  ASSUME NEW r \in Repos, NEW todos, NEW s, NEW t, Since(r, s, t), OnTrack(r, todos, s)
  PROVE  OnTrack(r, todos, t)
<1>1. LabelsLeft(r, todos, t)
  <2>1. ASSUME NEW d \in Desired[r], Is(s[Lower[d.name]], d)
        PROVE  Is(t[Lower[d.name]], d)
    BY <2>1 DEF Since, Is
  <2>. QED  BY <2>1 DEF OnTrack, LabelsLeft
<1>2. UpdatesRight(r, todos, t)
  BY RightStays DEF OnTrack, UpdatesRight
<1>3. SquattersLeft(r, todos, t)
  BY SquattersStay DEF OnTrack
<1>4. Removed(r, s) => Removed(r, t)
  BY StaysConform DEF Removed
<1>5. ASSUME NEW i \in DOMAIN Renames, s[To(i)] # None, t[To(i)] = None
      PROVE  Removed(r, t)
  <2>1. To(i) \in Keys /\ \A j \in DOMAIN Renames : To(i) # From(j)
    BY RenamesApart
  <2>. QED  BY <1>5, <2>1 DEF Since
<1>6. RenamedFirst(r, todos, t)
  BY <1>4, <1>5 DEF OnTrack, RenamedFirst
<1>7. RenamesLeft(r, todos, t)
  <2>. SUFFICES ASSUME NEW i \in DOMAIN Renames, t[From(i)] # None, t[To(i)] = None
                PROVE  RenameLeft(todos, i) \/ Removed(r, t)
    BY DEF RenamesLeft
  <2>1. s[From(i)] # None
    BY DEF Since
  <2>. QED  BY <1>4, <1>5, <2>1 DEF OnTrack, RenamesLeft
<1>8. TargetsThere(r, todos, t)
  <2>1. ASSUME NEW k \in Keys, RecolourLeft(todos, k), t[k] = None, ~Removed(r, t)
        PROVE  \E i \in DOMAIN Renames : k = To(i) /\ RenameLeft(todos, i)
    <3>1. ASSUME s[k] # None PROVE FALSE
      <4>1. PICK i \in DOMAIN Renames : k = From(i) /\ s[To(i)] = None
        BY <2>1, <3>1 DEF Since
      <4>. QED  BY <1>4, <2>1, <4>1 DEF OnTrack, RenamedFirst
    <3>. QED  BY <1>4, <2>1, <3>1 DEF OnTrack, TargetsThere
  <2>2. ASSUME NEW d \in Desired[r], s[Lower[d.name]] # None
        PROVE  t[Lower[d.name]] # None
    BY <2>2 DEF Since, Is
  <2>. QED  BY <2>1, <2>2 DEF OnTrack, TargetsThere
<1>. QED  BY <1>1, <1>2, <1>3, <1>6, <1>7, <1>8 DEF OnTrack

\* The same repairs are left in two sets of actions.
LEMMA SameTasks ==
  ASSUME NEW r \in Repos, NEW s, NEW T, NEW U, OnTrack(r, T, s),
         \A i \in DOMAIN Renames : RenameLeft(T, i) => RenameLeft(U, i),
         \A k : RecolourLeft(T, k) <=> RecolourLeft(U, k),
         \A a \in T : a.phase \in {Creating, Existing} =>
           \E b \in U : b.phase \in {Creating, Existing} /\ Lower[b.name] = Lower[a.name],
         \A a \in U : a.phase = Existing => a \in T,
         \A a \in U : a.phase = Creating /\ a.kind = "update" =>
           a \in T \/ s[Lower[a.name]] # None
  PROVE  OnTrack(r, U, s)
<1>1. LabelsLeft(r, U, s)
  <2>. SUFFICES ASSUME NEW d \in Desired[r], ~Is(s[Lower[d.name]], d)
                PROVE  \E a \in U : a.phase \in {Creating, Existing} /\ Lower[a.name] = Lower[d.name]
    BY DEF LabelsLeft
  <2>1. PICK a \in T : a.phase \in {Creating, Existing} /\ Lower[a.name] = Lower[d.name]
    BY DEF OnTrack, LabelsLeft
  <2>. QED  BY <2>1
<1>2. UpdatesRight(r, U, s)
  <2>. SUFFICES ASSUME NEW a \in U, NEW d \in Desired[r], IsUpdate(a, d)
                PROVE  Right(s, U, a, d)
    BY DEF UpdatesRight
  <2>1. Right(s, T, a, d)
    BY DEF IsUpdate, OnTrack, UpdatesRight
  <2>. QED  BY <2>1 DEF Right
<1>3. SquattersLeft(r, U, s)
  BY DEF OnTrack, SquattersLeft
<1>4. RenamedFirst(r, U, s)
  BY DEF OnTrack, RenamedFirst
<1>5. RenamesLeft(r, U, s)
  BY DEF OnTrack, RenamesLeft
<1>6. TargetsThere(r, U, s)
  <2>1. \A k \in Keys : RecolourLeft(U, k) =>
          \/ s[k] # None
          \/ \E i \in DOMAIN Renames : k = To(i) /\ RenameLeft(U, i)
          \/ Removed(r, s)
    BY DEF OnTrack, TargetsThere
  <2>2. ASSUME NEW a \in U, NEW d \in Desired[r], IsCreate(a, d), a.kind = "update"
        PROVE  s[Lower[d.name]] # None
    <3>1. a.phase = Creating /\ a.name = d.name
      BY <2>2 DEF IsCreate
    <3>2. CASE a \in T
      BY <2>2, <3>2 DEF OnTrack, TargetsThere
    <3>. QED  BY <2>2, <3>1, <3>2
  <2>. QED  BY <2>1, <2>2 DEF TargetsThere
<1>. QED  BY <1>1, <1>2, <1>3, <1>4, <1>5, <1>6 DEF OnTrack

\* Once only removals are left, the repository is as configured.
LEMMA NothingButRemovals ==
  ASSUME NEW r \in Repos, NEW s, NEW T, OnTrack(r, T, s),
         \A a \in T : Planned(r, a),
         \A a \in Writes(T) : a.phase = Deleting
  PROVE  Conforms(r, s)
<1>. USE DEF Renaming, Recolouring, Creating, Existing, Deleting
<1>1. ASSUME NEW a \in T, a.kind # "noop"
      PROVE  a.phase = Deleting
  BY <1>1 DEF Writes
<1>2. \A i \in DOMAIN Renames : ~RenameLeft(T, i)
  <2>1. \A a \in T : a.phase = Renaming => a.kind = "update"
    BY DEF Planned, IsRename, IsRecolour, IsCreate, IsUpdate, IsRemoval
  <2>. QED  BY <1>1, <2>1 DEF RenameLeft
<1>3. \A k : ~RecolourLeft(T, k)
  <2>1. \A a \in T : a.phase = Recolouring => a.kind = "update"
    BY DEF Planned, IsRename, IsRecolour, IsCreate, IsUpdate, IsRemoval
  <2>. QED  BY <1>1, <2>1 DEF RecolourLeft
<1>4. ASSUME NEW d \in Desired[r]
      PROVE  Is(s[Lower[d.name]], d)
  <2>. SUFFICES ASSUME ~Is(s[Lower[d.name]], d) PROVE FALSE
    OBVIOUS
  <2>1. PICK a \in T : a.phase \in {Creating, Existing} /\ Lower[a.name] = Lower[d.name]
    BY DEF OnTrack, LabelsLeft
  <2>2. a.kind = "noop"
    BY <1>1, <2>1
  <2>3. PICK c \in Desired[r] : IsUpdate(a, c)
    BY <2>1, <2>2 DEF Planned, IsRename, IsRecolour, IsCreate, IsRemoval
  <2>4. c = d
    BY <2>1, <2>3, DesiredAssumption DEF IsUpdate, OneLabelPerKey
  <2>5. s[Lower[d.name]] # None /\ Brings(s[Lower[d.name]], a, d)
    BY <1>2, <2>3, <2>4 DEF OnTrack, UpdatesRight, Right
  <2>. QED  BY <2>2, <2>3, <2>4, <2>5 DEF IsUpdate, Brings, Is, Or
<1>5. Squatters(r, s) = {}
  BY <1>2, <1>3 DEF OnTrack, SquattersLeft
<1>. QED  BY <1>4, <1>5 DEF Conforms, Is

-----------------------------------------------------------------------------
(***************************************************************************)
(* Each write of a plan that is on track is a step of Reconciliation, and  *)
(* leaves the rest of the plan on track.                                   *)
(***************************************************************************)
InTurn(r, T, s, a) ==
  /\ T \subseteq Action /\ OnTrack(r, T, s)
  /\ \A b \in T : Planned(r, b)
  /\ a \in Writes(T)
  /\ \A b \in Writes(T) : b = a \/ Before(a, b)
  /\ a.kind = "delete" => SomeRunPrunes

NextWrite(r, T, s, a) == InTurn(r, T, s, a) /\ Answer(s, a) = "ok"

LEMMA FirstInTurn ==
  ASSUME NEW r \in Repos, NEW T, NEW s, NEW a, InTurn(r, T, s, a)
  PROVE  /\ a \in Action /\ a \in T /\ a.kind # "noop"
         /\ \A b \in Writes(T) : a.phase <= b.phase
         /\ a.phase > Renaming => \A i \in DOMAIN Renames : ~RenameLeft(T, i)
         /\ a.phase > Recolouring => \A k : ~RecolourLeft(T, k)
<1>. USE DEF Renaming, Recolouring, Creating, Existing, Deleting
<1>1. a \in Action /\ a \in T /\ a.kind # "noop"
  BY DEF InTurn, Writes
<1>2. ASSUME NEW b \in Writes(T) PROVE a.phase <= b.phase
  BY <1>1, <1>2, ActionFields DEF InTurn, Before, Writes
<1>3. ASSUME NEW b \in T, b.phase \in {Renaming, Recolouring} PROVE b \in Writes(T)
  BY <1>3 DEF InTurn, Writes, Planned, IsRename, IsRecolour, IsCreate, IsUpdate, IsRemoval
<1>4. ASSUME a.phase > Renaming, NEW i \in DOMAIN Renames PROVE ~RenameLeft(T, i)
  BY <1>1, <1>2, <1>3, <1>4, ActionFields DEF RenameLeft
<1>5. ASSUME a.phase > Recolouring, NEW k PROVE ~RecolourLeft(T, k)
  BY <1>1, <1>2, <1>3, <1>5, ActionFields DEF RecolourLeft
<1>. QED  BY <1>1, <1>2, <1>4, <1>5

LEMMA NothingEarlier ==
  ASSUME NEW r \in Repos, NEW T, NEW s, NEW a, NextWrite(r, T, s, a)
  PROVE  /\ a \in Action /\ a \in T /\ a.kind # "noop"
         /\ \A b \in Writes(T) : a.phase <= b.phase
         /\ a.phase > Renaming => \A i \in DOMAIN Renames : ~RenameLeft(T, i)
         /\ a.phase > Recolouring => \A k : ~RecolourLeft(T, k)
BY FirstInTurn DEF NextWrite

LEMMA DoRename ==
  ASSUME NEW r \in Repos, NEW T, NEW s \in Views, NEW a, NextWrite(r, T, s, a),
         NEW i \in DOMAIN Renames, IsRename(a, i), NEW t, t = Effect(s, a)
  PROVE  Moves(s, i, t) /\ OnTrack(r, T \ {a}, t)
<1>. USE DEF Renaming, Recolouring, Creating, Existing, Deleting
<1>0. /\ From(i) \in Keys /\ To(i) \in Keys
      /\ \A j \in DOMAIN Renames : (From(i) = From(j) => i = j) /\ (To(i) = To(j) => i = j)
      /\ \A j \in DOMAIN Renames : From(i) # To(j) /\ From(j) # To(i)
  BY RenamesApart
<1>1. Lower[a.name] = From(i) /\ Target(a) = To(i)
  BY RenameFields, SentinelAssumption DEF IsRename, Target, Or, To
<1>2. s[From(i)] # None /\ s[To(i)] = None
  BY <1>0, <1>1 DEF NextWrite, InTurn, Answer, IsRename
<1>3. s[From(i)] \in Label
  BY <1>0, <1>2 DEF Views
<1>4. Patched(s[From(i)], a) = Moved(s, i)
  BY <1>3, RenameFields, SentinelAssumption DEF Patched, Moved, IsRename, Or, Label
<1>5. /\ t[From(i)] = None /\ t[To(i)] = Moved(s, i)
      /\ \A k \in Keys : k # From(i) /\ k # To(i) => t[k] = s[k]
  BY <1>0, <1>1, <1>4 DEF Effect, IsRename
<1>6. Moves(s, i, t)
  BY <1>0, <1>1, <1>2, <1>4 DEF Moves, Effect, IsRename, Views
<1>. DEFINE U == T \ {a}
<1>7. OnTrack(r, T, t)
  BY <1>6, MovesSince, OnTrackStays DEF NextWrite, InTurn
<1>8. /\ \A j \in DOMAIN Renames : j # i /\ RenameLeft(T, j) => RenameLeft(U, j)
      /\ \A k : RecolourLeft(T, k) => RecolourLeft(U, k)
  BY DEF RenameLeft, RecolourLeft, IsRename
<1>9. LabelsLeft(r, U, t)
  BY <1>7 DEF OnTrack, LabelsLeft, IsRename
<1>10. UpdatesRight(r, U, t)
  <2>. SUFFICES ASSUME NEW b \in U, NEW d \in Desired[r], IsUpdate(b, d)
                PROVE  Right(t, U, b, d)
    BY DEF UpdatesRight
  <2>1. Right(t, T, b, d) /\ Right(s, T, b, d)
    BY <1>7 DEF OnTrack, UpdatesRight, NextWrite, InTurn
  <2>2. CASE To(i) = Lower[d.name]
    <3>1. Brings(Moved(s, i), b, d)
      BY <1>0, <1>2, <2>1, <2>2 DEF Right
    <3>2. t[To(i)] # None
      BY <1>3, <1>4, <1>5, PatchedIsLabel, SentinelAssumption DEF NextWrite, InTurn, Writes
    <3>. QED  BY <1>5, <2>2, <3>1, <3>2 DEF Right
  <2>3. CASE To(i) # Lower[d.name]
    BY <1>8, <2>1, <2>3 DEF Right
  <2>. QED  BY <2>2, <2>3
<1>11. SquattersLeft(r, U, t)
  <2>. SUFFICES ASSUME NEW k \in Squatters(r, t)
                PROVE  \/ RecolourLeft(U, k)
                       \/ \E j \in DOMAIN Renames :
                            \/ /\ k = From(j) /\ RenameLeft(U, j)
                               /\ To(j) \in Configured(r) \/ RecolourLeft(U, To(j))
                            \/ /\ k = To(j) /\ t[From(j)] = None
                               /\ RenameLeft(U, j) \/ RecolourLeft(U, From(j))
    BY DEF SquattersLeft
  <2>0. k \in Keys /\ t[k] # None /\ k \notin Configured(r) /\ t[k].color \in Reserved(r)
    BY DEF Squatters, Unconfigured, Present
  <2>1. CASE k = To(i)
    <3>1. From(i) \in Squatters(r, s)
      <4>1. t[k].color = s[From(i)].color
        BY <1>3, <1>5, <2>1 DEF Moved, Label
      <4>. QED  BY <1>0, <1>2, <2>0, <4>1, RenamesApart DEF Squatters, Unconfigured, Present
    <3>2. \/ RecolourLeft(T, From(i))
          \/ To(i) \in Configured(r) \/ RecolourLeft(T, To(i))
      BY <1>0, <3>1 DEF NextWrite, InTurn, OnTrack, SquattersLeft
    <3>. QED  BY <1>5, <1>8, <2>0, <2>1, <3>2
  <2>2. CASE k # To(i)
    <3>1. k # From(i)
      BY <1>5, <2>0
    <3>. QED  BY <1>0, <1>7, <1>8, <2>2, <3>1 DEF OnTrack, SquattersLeft
  <2>. QED  BY <2>1, <2>2
<1>12. RenamedFirst(r, U, t)
  BY <1>7 DEF OnTrack, RenamedFirst, RecolourLeft
<1>13. RenamesLeft(r, U, t)
  BY <1>5, <1>7, <1>8 DEF OnTrack, RenamesLeft
<1>14. TargetsThere(r, U, t)
  <2>1. t[To(i)] # None
    BY <1>3, <1>4, <1>5, PatchedIsLabel, SentinelAssumption DEF NextWrite, InTurn, Writes
  <2>2. \A k : RecolourLeft(U, k) => RecolourLeft(T, k)
    BY DEF RecolourLeft
  <2>. QED  BY <1>7, <1>8, <2>1, <2>2 DEF OnTrack, TargetsThere
<1>. QED  BY <1>6, <1>9, <1>10, <1>11, <1>12, <1>13, <1>14 DEF OnTrack

LEMMA DoRecolour ==
  ASSUME NEW r \in Repos, NEW T, NEW s \in Views, NEW a, NextWrite(r, T, s, a),
         IsRecolour(r, a), NEW t, t = Effect(s, a)
  PROVE  Recolours(r, s, Lower[a.name], t) /\ OnTrack(r, T \ {a}, t)
<1>. USE DEF Renaming, Recolouring, Creating, Existing, Deleting
<1>. DEFINE k == Lower[a.name]
            U == T \ {a}
<1>0. a \in Action /\ a \in T /\ k \in Keys /\ Target(a) = k
  BY NothingEarlier, TargetIsKey DEF IsRecolour, Target, Or
<1>1. s[k] # None /\ s[k] \in Label
  BY <1>0 DEF NextWrite, InTurn, Answer, IsRecolour, Views
<1>2. a.color \in Palette \ Reserved(r) /\ a.color # Keep
  BY PaletteAssumption, SentinelAssumption DEF IsRecolour
<1>3. Patched(s[k], a) = [s[k] EXCEPT !.color = a.color]
  BY <1>1, <1>2 DEF Patched, IsRecolour, Or, Label
<1>4. t = [s EXCEPT ![k] = Patched(s[k], a)]
  BY <1>0 DEF Effect, IsRecolour, Views
<1>5. Recolours(r, s, k, t)
  <2>1. k \in Unconfigured(r, s)
    BY <1>0, <1>1 DEF Unconfigured, Present, IsRecolour
  <2>2. RecolourLeft(T, k)
    BY <1>0 DEF RecolourLeft, IsRecolour
  <2>3. \A i \in DOMAIN Renames : k = From(i) /\ To(i) \in Configured(r) => s[To(i)] # None
    BY <2>2, ConfiguredKey DEF NextWrite, InTurn, OnTrack, RenamedFirst, Removed, Conforms
  <2>4. t = [s EXCEPT ![k].color = a.color]
    BY <1>3, <1>4
  <2>. QED  BY <1>2, <2>1, <2>3, <2>4 DEF Recolours
<1>6. OnTrack(r, T, t)
  BY <1>0, <1>5, RecoloursSince, OnTrackStays DEF NextWrite, InTurn
<1>7. t[k] # None /\ t[k].color \notin Reserved(r)
  BY <1>0, <1>1, <1>2, <1>3, <1>4, PatchedIsLabel, SentinelAssumption DEF Views, Label
<1>8. \A j \in DOMAIN Renames : ~RenameLeft(T, j)
  BY NothingEarlier DEF IsRecolour
<1>9. \A j : j # k /\ RecolourLeft(T, j) => RecolourLeft(U, j)
  BY DEF RecolourLeft
<1>10. LabelsLeft(r, U, t)
  BY <1>6 DEF OnTrack, LabelsLeft, IsRecolour
<1>11. UpdatesRight(r, U, t)
  BY <1>6, <1>8 DEF OnTrack, UpdatesRight, Right
<1>12. SquattersLeft(r, U, t)
  <2>. SUFFICES ASSUME NEW j \in Squatters(r, t)
                PROVE  \/ RecolourLeft(U, j)
                       \/ \E i \in DOMAIN Renames :
                            j = To(i) /\ t[From(i)] = None /\ RecolourLeft(U, From(i))
    BY DEF SquattersLeft
  <2>1. j # k
    BY <1>7 DEF Squatters
  <2>2. \/ RecolourLeft(T, j)
        \/ \E i \in DOMAIN Renames :
             j = To(i) /\ t[From(i)] = None /\ RecolourLeft(T, From(i))
    BY <1>6, <1>8 DEF OnTrack, SquattersLeft
  <2>. QED  BY <1>7, <1>9, <2>1, <2>2
<1>13. RenamedFirst(r, U, t)
  BY <1>6 DEF OnTrack, RenamedFirst, RecolourLeft
<1>14. RenamesLeft(r, U, t)
  BY <1>6, <1>8 DEF OnTrack, RenamesLeft
<1>15. TargetsThere(r, U, t)
  BY <1>6, <1>8 DEF OnTrack, TargetsThere, RecolourLeft
<1>. QED  BY <1>5, <1>10, <1>11, <1>12, <1>13, <1>14, <1>15 DEF OnTrack

LEMMA DoLabel ==
  ASSUME NEW r \in Repos, NEW T, NEW s \in Views, WellKeyed(s), NEW a, NextWrite(r, T, s, a),
         NEW d \in Desired[r], IsCreate(a, d) \/ IsUpdate(a, d), NEW t, t = Effect(s, a)
  PROVE  Settles(r, s, d, t) /\ OnTrack(r, T \ {a}, t)
<1>. USE DEF Renaming, Recolouring, Creating, Existing, Deleting
<1>. DEFINE k == Lower[d.name]
            U == T \ {a}
            l == [origin |-> IF s[k] = None THEN Fresh ELSE s[k].origin,
                  name |-> d.name, color |-> d.color, desc |-> d.desc]
<1>0. a \in Action /\ a \in T /\ a.kind # "noop" /\ k \in Keys /\ Lower[a.name] = k
  BY NothingEarlier, DesiredFields DEF IsCreate, IsUpdate
<1>1. Target(a) = k
  BY <1>0, DesiredFields, ActionFields, SentinelAssumption DEF IsCreate, IsUpdate, Target, Or
<1>2. /\ \A i \in DOMAIN Renames : ~RenameLeft(T, i)
      /\ \A j : ~RecolourLeft(T, j)
  BY NothingEarlier DEF IsCreate, IsUpdate
<1>3. Squatters(r, s) = {}
  BY <1>2 DEF NextWrite, InTurn, OnTrack, SquattersLeft
<1>4. t = [s EXCEPT ![k] = l]
  <2>1. CASE a.kind = "create"
    <3>1. s[k] = None /\ IsCreate(a, d)
      BY <1>1, <2>1 DEF NextWrite, InTurn, Answer, IsUpdate
    <3>2. Created(a) = l
      BY <3>1 DEF Created, IsCreate
    <3>. QED  BY <1>1, <2>1, <3>2 DEF Effect
  <2>2. CASE a.kind = "update"
    <3>1. s[k] # None /\ s[k] \in Label
      BY <1>0, <2>2 DEF NextWrite, InTurn, Answer, Views
    <3>2. Brings(s[k], a, d)
      <4>1. CASE IsCreate(a, d)
        BY <2>2, <4>1, DesiredFields, SentinelAssumption DEF IsCreate, Brings, Or
      <4>2. CASE IsUpdate(a, d)
        BY <1>0, <1>2, <4>2 DEF NextWrite, InTurn, OnTrack, UpdatesRight, Right
      <4>. QED  BY <4>1, <4>2
    <3>3. Patched(s[k], a) = l
      BY <3>1, <3>2 DEF Patched, Brings
    <3>. QED  BY <1>0, <1>1, <2>2, <3>3 DEF Effect, Views
  <2>. QED  BY <1>0, <2>1, <2>2 DEF IsCreate, IsUpdate
<1>5. Settles(r, s, d, t)
  <2>1. ASSUME NEW i \in DOMAIN Renames, k = To(i), s[k] = None
        PROVE  s[From(i)] = None
    <3>1. ~Removed(r, s)
      BY <2>1 DEF Removed, Conforms
    <3>. QED  BY <1>2, <2>1, <3>1 DEF NextWrite, InTurn, OnTrack, RenamesLeft
  <2>. QED  BY <1>3, <1>4, <2>1 DEF Settles
<1>6. OnTrack(r, T, t) /\ Is(t[k], d)
  BY <1>5, SettlesSince, OnTrackStays DEF NextWrite, InTurn
<1>7. LabelsLeft(r, U, t)
  <2>1. ASSUME NEW e \in Desired[r], Lower[e.name] = k
        PROVE  e = d
    BY <2>1, DesiredAssumption DEF OneLabelPerKey
  <2>. QED  BY <1>0, <1>6, <2>1 DEF OnTrack, LabelsLeft
<1>8. UpdatesRight(r, U, t)
  BY <1>2, <1>6 DEF OnTrack, UpdatesRight, Right
<1>9. SquattersLeft(r, U, t)
  BY <1>2, <1>6 DEF OnTrack, SquattersLeft
<1>10. RenamedFirst(r, U, t)
  BY <1>6 DEF OnTrack, RenamedFirst, RecolourLeft
<1>11. RenamesLeft(r, U, t)
  BY <1>2, <1>6 DEF OnTrack, RenamesLeft
<1>12. TargetsThere(r, U, t)
  BY <1>2, <1>6 DEF OnTrack, TargetsThere, RecolourLeft
<1>. QED  BY <1>5, <1>7, <1>8, <1>9, <1>10, <1>11, <1>12 DEF OnTrack

LEMMA DoRemoval ==
  ASSUME NEW r \in Repos, NEW T, NEW s \in Views, NEW a, NextWrite(r, T, s, a),
         IsRemoval(r, a), NEW t, t = Effect(s, a)
  PROVE  Removes(r, s, Lower[a.name], t) /\ OnTrack(r, T \ {a}, t)
<1>. USE DEF Renaming, Recolouring, Creating, Existing, Deleting
<1>. DEFINE k == Lower[a.name]
            U == T \ {a}
<1>0. a \in Action /\ a \in T /\ k \in Keys
  BY NothingEarlier, TargetIsKey
<1>1. s[k] # None /\ t = [s EXCEPT ![k] = None]
  BY DEF NextWrite, InTurn, Answer, Effect, IsRemoval
<1>2. Conforms(r, s)
  <2>1. \A b \in Writes(T) : b.phase = Deleting
    BY NothingEarlier, ActionFields DEF IsRemoval, NextWrite, InTurn, Writes
  <2>. QED  BY <2>1, NothingButRemovals DEF NextWrite, InTurn
<1>3. Removes(r, s, k, t)
  BY <1>0, <1>1, <1>2 DEF Removes, Removed, Unconfigured, Present, IsRemoval, NextWrite, InTurn
<1>4. OnTrack(r, T, t)
  BY <1>0, <1>3, RemovesSince, OnTrackStays DEF NextWrite, InTurn
<1>5. OnTrack(r, U, t)
  <2>1. \A i \in DOMAIN Renames : RenameLeft(T, i) => RenameLeft(U, i)
    BY DEF RenameLeft, IsRemoval
  <2>2. \A j : RecolourLeft(T, j) <=> RecolourLeft(U, j)
    BY DEF RecolourLeft, IsRemoval
  <2>3. \A b \in T : b.phase \in {Creating, Existing} => b \in U
    BY DEF IsRemoval
  <2>4. \A b \in U : b \in T
    OBVIOUS
  <2>. QED  BY <1>4, <2>1, <2>2, <2>3, <2>4, SameTasks
<1>. QED  BY <1>3, <1>5

LEMMA DoNext ==
  ASSUME NEW r \in Repos, NEW T, NEW s \in Views, WellKeyed(s), NEW a, NextWrite(r, T, s, a),
         NEW t, t = Effect(s, a)
  PROVE  /\ OnTrack(r, T \ {a}, t)
         /\ \/ \E i \in DOMAIN Renames : IsRename(a, i) /\ Moves(s, i, t)
            \/ Recolours(r, s, Lower[a.name], t)
            \/ \E d \in Desired[r] : Settles(r, s, d, t)
            \/ a.kind = "delete" /\ Removes(r, s, Lower[a.name], t)
         /\ Lower[a.name] \in Keys
<1>1. a \in T /\ Planned(r, a) /\ Lower[a.name] \in Keys
  BY TargetIsKey DEF NextWrite, InTurn, Writes
<1>. QED  BY <1>1, DoRename, DoRecolour, DoLabel, DoRemoval DEF Planned, IsRemoval

-----------------------------------------------------------------------------
(***************************************************************************)
(* A plan is on track for the labels it was computed from.                 *)
(***************************************************************************)

\* A squatter is moved to a colour of the grid that nobody configured, that no
\* label which stays has, and that was not handed out before.
LEMMA AllocatedIsFree ==
  ASSUME RoomyPalette, NEW r \in Repos, NEW w \in Views, NEW f \in Allocations(r, w),
         NEW k \in Squatters(r, w)
  PROVE  /\ f[k] \in Palette \ Reserved(r)
         /\ \A j \in Staying(r, w) : w[j].color # f[k]
         /\ \A j \in Squatters(r, w) : Rank[w[j].name] < Rank[w[k].name] => f[j] # f[k]
<1>. DEFINE earlier == {j \in Squatters(r, w) : Rank[w[j].name] < Rank[w[k].name]}
            used    == {w[j].color : j \in Staying(r, w)} \cup {f[j] : j \in earlier}
            others  == [j \in Keys \ (Configured(r) \cup {k}) |->
                          IF j \in Squatters(r, w) THEN f[j]
                          ELSE IF w[j] # None THEN w[j].color ELSE f[k]]
<1>1. f \in [Squatters(r, w) -> Palette] /\ f[k] = Allocate(used, Reserved(r))
  BY DEF Allocations
<1>2. /\ k \in Keys \ Configured(r) /\ w[k] # None
      /\ \A j \in Unconfigured(r, w) : j \in Keys \ Configured(r) /\ w[j] # None
  BY DEF Squatters, Unconfigured, Present
<1>3. others \in [Keys \ (Configured(r) \cup {k}) -> Colors]
  <2>1. ASSUME NEW j \in Keys, w[j] # None PROVE w[j].color \in Colors
    BY <2>1, PresentFields DEF Present
  <2>. QED  BY <1>1, <2>1, PaletteAssumption
<1>4. ~(Palette \subseteq Reserved(r) \cup {others[j] : j \in DOMAIN others})
  BY <1>2, <1>3 DEF RoomyPalette, RoomFor
<1>5. used \subseteq {others[j] : j \in DOMAIN others}
  <2>1. ASSUME NEW j \in Staying(r, w)
        PROVE  j \in DOMAIN others /\ others[j] = w[j].color
    BY <1>2 DEF Staying
  <2>2. ASSUME NEW j \in earlier
        PROVE  j \in DOMAIN others /\ others[j] = f[j]
    <3>1. Rank[w[k].name] \in Nat /\ ~(Rank[w[k].name] < Rank[w[k].name])
      BY <1>2, PresentFields DEF Present
    <3>2. j # k /\ j \in Unconfigured(r, w)
      BY <3>1 DEF Squatters
    <3>. QED  BY <1>2, <3>2
  <2>. QED  BY <2>1, <2>2
<1>6. Palette \ (used \cup Reserved(r)) # {}
  BY <1>4, <1>5
<1>7. f[k] \in Palette \ (used \cup Reserved(r))
  BY <1>1, <1>6 DEF Allocate
<1>. QED  BY <1>7

LEMMA RenamedLabels ==
  ASSUME NEW v \in Views
  PROVE  /\ \A i \in Applicable(v) :
              Renamed(v)[To(i)] = Moved(v, i) /\ Renamed(v)[From(i)] = None
         /\ \A k \in Keys :
              (\A i \in Applicable(v) : k # From(i) /\ k # To(i)) => Renamed(v)[k] = v[k]
<1>1. ASSUME NEW i \in Applicable(v)
      PROVE  Renamed(v)[To(i)] = Moved(v, i) /\ Renamed(v)[From(i)] = None
  <2>1. i \in DOMAIN Renames
    BY DEF Applicable
  <2>2. \A j \in Applicable(v) : (To(j) = To(i) => j = i) /\ To(j) # From(i)
    BY <2>1, RenamesApart DEF Applicable
  <2>3. (CHOOSE j \in Applicable(v) : To(j) = To(i)) = i
    BY <2>2
  <2>. QED  BY <2>1, <2>2, <2>3, RenamesApart DEF Renamed, Moved
<1>2. ASSUME NEW k \in Keys, \A i \in Applicable(v) : k # From(i) /\ k # To(i)
      PROVE  Renamed(v)[k] = v[k]
  BY <1>2 DEF Renamed
<1>. QED  BY <1>1, <1>2

LEMMA UpdateBrings ==
  ASSUME NEW r \in Repos, NEW d \in Desired[r], NEW l \in Label
  PROVE  Brings(l, Update(d, l), d)
<1>1. d.name # Keep /\ d.color # Keep /\ d.desc # Keep
  BY DesiredFields, SentinelAssumption
<1>. QED  BY <1>1 DEF Brings, Update, Differing, Or

\* The actions of a plan, phase by phase.
LEMMA PlanPhases ==
  ASSUME RoomyPalette, NEW r \in Repos, Desired[r] # {}, NEW v \in Views, WellKeyed(v),
         NEW mode, NEW T \in Compute(r, v, mode)
  PROVE  /\ \A a \in T : Planned(r, a)
         /\ \A i \in DOMAIN Renames : RenameLeft(T, i) <=> i \in Applicable(v)
         /\ \A k : RecolourLeft(T, k) <=> k \in Squatters(r, Renamed(v))
         /\ \A d \in Desired[r] :
              \E a \in T : a.phase \in {Creating, Existing} /\ Lower[a.name] = Lower[d.name]
         /\ \A a \in T : a.phase = Existing =>
              \E d \in Desired[r] : /\ Renamed(v)[Lower[d.name]] # None
                                    /\ a = Update(d, Renamed(v)[Lower[d.name]])
         /\ \A a \in T : a.phase = Creating => a.kind = "create"
         /\ \A a \in T : a.kind = "delete" =>
              mode = "prune" /\ Lower[a.name] \in Unconfigured(r, Renamed(v))
         /\ mode = "prune" => \A k \in Unconfigured(r, Renamed(v)) :
              \E a \in T : a.kind = "delete" /\ Lower[a.name] = k
<1>. USE DEF Renaming, Recolouring, Creating, Existing, Deleting
<1>. DEFINE w == Renamed(v)
<1>1. PICK f \in Allocations(r, w) :
        T = RenameActions(v) \cup RecolourSquatters(r, w, f) \cup Creates(r, w)
              \cup Converge(r, w) \cup (IF mode = "prune" THEN Candidates(r, w) ELSE {})
  BY DEF Compute
<1>2. w \in Views /\ WellKeyed(w)
  BY RenamedView
<1>3. ASSUME NEW k \in Unconfigured(r, w)
      PROVE  k \in Keys /\ k \notin Configured(r) /\ Lower[w[k].name] = k
  BY <1>2 DEF Unconfigured, Present, WellKeyed
<1>4. ASSUME NEW a \in RenameActions(v)
      PROVE  \E i \in Applicable(v) : IsRename(a, i)
  <2>1. PICK i \in Applicable(v) :
          a = [kind |-> "update", phase |-> Renaming, pos |-> i, name |-> v[From(i)].name,
               newName |-> Renames[i].to, color |-> Keep, desc |-> Keep]
    BY DEF RenameActions
  <2>2. Lower[v[From(i)].name] = From(i)
    BY RenameFields DEF Applicable, WellKeyed
  <2>. QED  BY <2>1, <2>2 DEF IsRename
<1>5. ASSUME NEW i \in Applicable(v)
      PROVE  RenameLeft(RenameActions(v), i)
  <2>. DEFINE a == [kind |-> "update", phase |-> Renaming, pos |-> i, name |-> v[From(i)].name,
                    newName |-> Renames[i].to, color |-> Keep, desc |-> Keep]
  <2>1. a \in RenameActions(v) /\ a.phase = Renaming /\ a.pos = i
    BY DEF RenameActions
  <2>. QED  BY <2>1 DEF RenameLeft
<1>6. ASSUME NEW a \in RecolourSquatters(r, w, f)
      PROVE  IsRecolour(r, a) /\ Lower[a.name] \in Squatters(r, w)
  <2>1. PICK k \in Squatters(r, w) :
          a = [kind |-> "update", phase |-> Recolouring, pos |-> Rank[w[k].name],
               name |-> w[k].name, newName |-> Keep, color |-> f[k], desc |-> Keep]
    BY DEF RecolourSquatters
  <2>2. Lower[w[k].name] = k /\ k \notin Configured(r)
    BY <1>3 DEF Squatters
  <2>. QED  BY <1>2, <2>1, <2>2, AllocatedIsFree DEF IsRecolour
<1>7. ASSUME NEW k \in Squatters(r, w)
      PROVE  RecolourLeft(RecolourSquatters(r, w, f), k)
  <2>. DEFINE a == [kind |-> "update", phase |-> Recolouring, pos |-> Rank[w[k].name],
                    name |-> w[k].name, newName |-> Keep, color |-> f[k], desc |-> Keep]
  <2>1. a \in RecolourSquatters(r, w, f) /\ a.phase = Recolouring /\ a.name = w[k].name
    BY DEF RecolourSquatters
  <2>2. Lower[w[k].name] = k
    BY <1>3 DEF Squatters
  <2>. QED  BY <2>1, <2>2 DEF RecolourLeft
<1>8. ASSUME NEW a \in Creates(r, w)
      PROVE  a.phase = Creating /\ \E d \in Desired[r] : IsCreate(a, d)
  BY DEF Creates, Missing, IsCreate
<1>9. ASSUME NEW a \in Converge(r, w)
      PROVE  /\ a.phase = Existing
             /\ \E d \in Desired[r] : /\ w[Lower[d.name]] # None
                                      /\ a = Update(d, w[Lower[d.name]])
                                      /\ IsUpdate(a, d)
  <2>1. PICK d \in Desired[r] : w[Lower[d.name]] # None /\ a = Update(d, w[Lower[d.name]])
    BY DEF Converge, Missing
  <2>2. Lower[w[Lower[d.name]].name] = Lower[d.name]
    BY <1>2, <2>1, DesiredFields DEF WellKeyed
  <2>3. IsUpdate(a, d)
    BY <2>1, <2>2 DEF IsUpdate, Update, Differing
  <2>. QED  BY <2>1, <2>3 DEF Update
<1>10. ASSUME NEW a \in Candidates(r, w)
      PROVE  IsRemoval(r, a) /\ Lower[a.name] \in Unconfigured(r, w)
  BY <1>3 DEF Candidates, IsRemoval
<1>11. ASSUME NEW d \in Desired[r]
      PROVE  \E a \in Creates(r, w) \cup Converge(r, w) : Lower[a.name] = Lower[d.name]
  <2>1. CASE w[Lower[d.name]] = None
    <3>. DEFINE a == [kind |-> "create", phase |-> Creating, pos |-> Rank[d.name],
                      name |-> d.name, newName |-> Keep, color |-> d.color, desc |-> d.desc]
    <3>1. a \in Creates(r, w) /\ a.name = d.name
      BY <2>1 DEF Creates, Missing
    <3>. QED  BY <3>1
  <2>2. CASE w[Lower[d.name]] # None
    <3>1. Update(d, w[Lower[d.name]]) \in Converge(r, w)
      BY <2>2 DEF Converge, Missing
    <3>2. Lower[w[Lower[d.name]].name] = Lower[d.name]
      BY <1>2, <2>2, DesiredFields DEF WellKeyed
    <3>. QED  BY <3>1, <3>2 DEF Update
  <2>. QED  BY <2>1, <2>2
<1>12. \A a \in T : Planned(r, a)
  BY <1>1, <1>4, <1>6, <1>8, <1>9, <1>10 DEF Planned, Applicable
<1>13. ASSUME NEW i \in DOMAIN Renames PROVE RenameLeft(T, i) <=> i \in Applicable(v)
  <2>1. ASSUME NEW a \in T, a.phase = Renaming PROVE a \in RenameActions(v)
    BY <1>1, <1>6, <1>8, <1>9, <1>10, <2>1 DEF IsRecolour, IsRemoval
  <2>2. RenameLeft(T, i) => i \in Applicable(v)
    BY <1>4, <2>1 DEF RenameLeft, IsRename
  <2>3. i \in Applicable(v) => RenameLeft(T, i)
    BY <1>1, <1>5 DEF RenameLeft
  <2>. QED  BY <2>2, <2>3
<1>14. ASSUME NEW k PROVE RecolourLeft(T, k) <=> k \in Squatters(r, w)
  <2>1. ASSUME NEW a \in T, a.phase = Recolouring PROVE a \in RecolourSquatters(r, w, f)
    BY <1>1, <1>4, <1>8, <1>9, <1>10, <2>1 DEF IsRename, IsRemoval
  <2>2. RecolourLeft(T, k) => k \in Squatters(r, w)
    BY <1>6, <2>1 DEF RecolourLeft
  <2>3. k \in Squatters(r, w) => RecolourLeft(T, k)
    BY <1>1, <1>7 DEF RecolourLeft
  <2>. QED  BY <2>2, <2>3
<1>15. ASSUME NEW d \in Desired[r]
       PROVE  \E a \in T : a.phase \in {Creating, Existing} /\ Lower[a.name] = Lower[d.name]
  BY <1>1, <1>8, <1>9, <1>11
<1>16. ASSUME NEW a \in T, a.phase = Existing
       PROVE  \E d \in Desired[r] : w[Lower[d.name]] # None /\ a = Update(d, w[Lower[d.name]])
  BY <1>1, <1>4, <1>6, <1>8, <1>9, <1>10, <1>16 DEF IsRename, IsRecolour, IsRemoval
<1>17. ASSUME NEW a \in T, a.phase = Creating PROVE a.kind = "create"
  BY <1>1, <1>4, <1>6, <1>9, <1>10, <1>17 DEF Creates, IsRename, IsRecolour, IsRemoval
<1>18. ASSUME NEW a \in T, a.kind = "delete"
       PROVE  mode = "prune" /\ Lower[a.name] \in Unconfigured(r, w)
  <2>1. a \notin RenameActions(v) \cup RecolourSquatters(r, w, f) \cup Creates(r, w)
    BY <1>4, <1>6, <1>18 DEF IsRename, IsRecolour, Creates
  <2>2. a \notin Converge(r, w)
    BY <1>9, <1>18 DEF IsUpdate
  <2>. QED  BY <1>1, <1>10, <2>1, <2>2
<1>19. ASSUME mode = "prune", NEW k \in Unconfigured(r, w)
       PROVE  \E a \in T : a.kind = "delete" /\ Lower[a.name] = k
  <2>. DEFINE a == [kind |-> "delete", phase |-> Deleting, pos |-> Rank[w[k].name],
                    name |-> w[k].name, newName |-> Keep, color |-> Keep, desc |-> Keep]
  <2>1. a \in Candidates(r, w) /\ a.kind = "delete" /\ Lower[a.name] = k
    BY <1>3 DEF Candidates
  <2>. QED  BY <1>1, <1>19, <2>1
<1>. QED  BY <1>12, <1>13, <1>14, <1>15, <1>16, <1>17, <1>18, <1>19

LEMMA PlanOnTrack ==
  ASSUME RoomyPalette, NEW r \in Repos, Desired[r] # {}, NEW v \in Views, WellKeyed(v),
         NEW mode, NEW T \in Compute(r, v, mode)
  PROVE  OnTrack(r, T, v)
<1>. USE DEF Renaming, Recolouring, Creating, Existing, Deleting
<1>. DEFINE w == Renamed(v)
<1>1. \A i \in DOMAIN Renames : RenameLeft(T, i) <=> i \in Applicable(v)
  BY PlanPhases
<1>2. \A k : RecolourLeft(T, k) <=> k \in Squatters(r, w)
  BY PlanPhases
<1>3. w \in Views /\ WellKeyed(w)
  BY RenamedView
<1>4. LabelsLeft(r, T, v)
  BY PlanPhases DEF LabelsLeft
<1>5. UpdatesRight(r, T, v)
  <2>. SUFFICES ASSUME NEW a \in T, NEW d \in Desired[r], IsUpdate(a, d)
                PROVE  Right(v, T, a, d)
    BY DEF UpdatesRight
  <2>. DEFINE k == Lower[d.name]
  <2>0. k \in Configured(r) /\ k \in Keys
    BY DesiredFields DEF Configured
  <2>1. PICK c \in Desired[r] : w[Lower[c.name]] # None /\ a = Update(c, w[Lower[c.name]])
    BY PlanPhases DEF IsUpdate
  <2>2. Lower[w[Lower[c.name]].name] = Lower[c.name]
    BY <1>3, <2>1, DesiredFields DEF WellKeyed
  <2>3. c = d
    BY <2>1, <2>2, DesiredAssumption DEF IsUpdate, Update, OneLabelPerKey
  <2>4. Brings(w[k], a, d)
    BY <1>3, <2>0, <2>1, <2>3, UpdateBrings DEF Views
  <2>5. CASE \E i \in Applicable(v) : k = To(i)
    <3>1. PICK i \in Applicable(v) : k = To(i)
      BY <2>5
    <3>2. i \in DOMAIN Renames /\ RenameLeft(T, i) /\ w[k] = Moved(v, i)
      BY <1>1, <3>1, RenamedLabels DEF Applicable
    <3>. QED  BY <2>4, <3>1, <3>2 DEF Right
  <2>6. CASE \A i \in Applicable(v) : k # To(i)
    <3>1. \A i \in Applicable(v) : k # From(i)
      BY <2>0, RenamesApart DEF Applicable
    <3>2. w[k] = v[k]
      BY <2>0, <2>6, <3>1, RenamedLabels
    <3>. QED  BY <2>1, <2>3, <2>4, <3>2 DEF Right
  <2>. QED  BY <2>5, <2>6
<1>6. SquattersLeft(r, T, v)
  <2>. SUFFICES ASSUME NEW k \in Squatters(r, v)
                PROVE  \/ RecolourLeft(T, k)
                       \/ \E i \in DOMAIN Renames :
                            /\ k = From(i) /\ RenameLeft(T, i)
                            /\ To(i) \in Configured(r) \/ RecolourLeft(T, To(i))
    BY DEF SquattersLeft
  <2>0. k \in Keys /\ v[k] # None /\ v[k] \in Label
        /\ k \notin Configured(r) /\ v[k].color \in Reserved(r)
    BY DEF Squatters, Unconfigured, Present, Views
  <2>1. CASE \E i \in Applicable(v) : k = From(i)
    <3>1. PICK i \in Applicable(v) : k = From(i)
      BY <2>1
    <3>2. i \in DOMAIN Renames /\ RenameLeft(T, i) /\ To(i) \in Keys
      BY <1>1, <3>1, RenamesApart DEF Applicable
    <3>3. ASSUME To(i) \notin Configured(r) PROVE To(i) \in Squatters(r, w)
      <4>1. w[To(i)] = Moved(v, i)
        BY <3>1, RenamedLabels
      <4>2. w[To(i)].color = v[k].color
        BY <2>0, <3>1, <4>1 DEF Moved, Label
      <4>3. w[To(i)] # None
        <5>1. Moved(v, i) \in Label
          BY <2>0, <3>1, <3>2, RenameFields DEF Moved, Label
        <5>. QED  BY <4>1, <5>1, SentinelAssumption
      <4>. QED  BY <2>0, <3>2, <3>3, <4>2, <4>3 DEF Squatters, Unconfigured, Present
    <3>. QED  BY <1>2, <3>1, <3>2, <3>3
  <2>2. CASE \A i \in Applicable(v) : k # From(i)
    <3>1. \A i \in Applicable(v) : k # To(i)
      BY <2>0 DEF Applicable
    <3>2. w[k] = v[k]
      BY <2>0, <2>2, <3>1, RenamedLabels
    <3>. QED  BY <1>2, <2>0, <3>2 DEF Squatters, Unconfigured, Present
  <2>. QED  BY <2>1, <2>2
<1>7. RenamedFirst(r, T, v)
  <2>. SUFFICES ASSUME NEW i \in DOMAIN Renames, From(i) \in Squatters(r, w)
                PROVE  v[To(i)] # None
    BY <1>2 DEF RenamedFirst
  <2>1. From(i) \in Keys /\ w[From(i)] # None
    BY DEF Squatters, Unconfigured, Present
  <2>2. i \notin Applicable(v)
    BY <2>1, RenamedLabels
  <2>3. v[From(i)] # None
    BY <2>1, <2>2, RenamedLabels, RenamesApart DEF Applicable
  <2>. QED  BY <2>2, <2>3 DEF Applicable
<1>8. RenamesLeft(r, T, v)
  BY <1>1 DEF RenamesLeft, Applicable
<1>9. TargetsThere(r, T, v)
  <2>1. ASSUME NEW k \in Keys, RecolourLeft(T, k), v[k] = None
        PROVE  \E i \in DOMAIN Renames : k = To(i) /\ RenameLeft(T, i)
    <3>1. w[k] # None
      BY <1>2, <2>1 DEF Squatters, Unconfigured, Present
    <3>2. PICK i \in Applicable(v) : k = From(i) \/ k = To(i)
      BY <2>1, <3>1, RenamedLabels
    <3>3. k = To(i) /\ i \in DOMAIN Renames
      BY <3>1, <3>2, RenamedLabels DEF Applicable
    <3>. QED  BY <1>1, <3>2, <3>3
  <2>2. ASSUME NEW a \in T, NEW d \in Desired[r], IsCreate(a, d)
        PROVE  a.kind = "create"
    BY <2>2, PlanPhases DEF IsCreate
  <2>. QED  BY <2>1, <2>2 DEF TargetsThere
<1>. QED  BY <1>4, <1>5, <1>6, <1>7, <1>8, <1>9 DEF OnTrack

-----------------------------------------------------------------------------
(***************************************************************************)
(* TrackInv is inductive.  It speaks of runs that nobody disturbs, and of  *)
(* those of several only while there are no edits at all: a person may     *)
(* remove the target of a rename between the reads of two runs; the        *)
(* earlier one, disturbed, then recolours the label that the later one,    *)
(* which nobody has disturbed, is to rename.                               *)
(***************************************************************************)
\* What a step of run p leaves of the invariant for the others.
Aside(p) ==
  /\ edits' = edits
  /\ \A q \in Runs \ {p} :
       /\ pc'[q] = pc[q] /\ dry'[q] = dry[q] /\ unread'[q] = unread[q] /\ seen'[q] = seen[q]
       /\ todo'[q] = todo[q] /\ skipped'[q] = skipped[q] /\ asOf'[q] = asOf[q]

LEMMA InitTrack ==
  ASSUME Init
  PROVE  TrackInv
<1>1. EditsAreCounted
  BY DEF Init, EditsAreCounted
<1>2. PlansAreShaped
  BY DEF Init, PlansAreShaped, Shaped, NoPlan
<1>3. RunsAreTracked
  BY DEF Init, RunsAreTracked, Tracked, HasRead, HasPlan, Finished
<1>. QED  BY <1>1, <1>2, <1>3, InitSafe DEF TrackInv

LEMMA OneRunTrack ==
  ASSUME TrackInv, SafeInv', NEW p \in Runs, Aside(p),
         \A q \in Runs \ {p}, r \in Repos : Quiet(q) => Since(r, store[r], store'[r]),
         asOf'[p] <= edits,
         \A r \in Repos : Shaped(p, r)',
         \A r \in Repos : Quiet(p)' => Tracked(p, r)'
  PROVE  TrackInv'
<1>1. EditsAreCounted'
  BY DEF TrackInv, EditsAreCounted, Aside
<1>2. PlansAreShaped'
  BY DEF TrackInv, PlansAreShaped, Shaped, Aside
<1>3. ASSUME NEW q \in Runs, q # p, NEW r \in Repos, Quiet(q)'
      PROVE  Tracked(q, r)'
  <2>1. Quiet(q) /\ Tracked(q, r) /\ Since(r, store[r], store'[r])
    BY <1>3 DEF Quiet, Undisturbed, Aside, TrackInv, RunsAreTracked
  <2>2. /\ pc'[q] = pc[q] /\ dry'[q] = dry[q] /\ unread'[q] = unread[q] /\ seen'[q] = seen[q]
        /\ todo'[q] = todo[q] /\ skipped'[q] = skipped[q]
    BY <1>3 DEF Aside
  <2>3. HasRead(q, r)' => Since(r, seen'[q][r], store'[r])
    BY <2>1, <2>2, SinceAddsUp DEF Tracked, HasRead
  <2>4. HasPlan(q, r)' => OnTrack(r, todo'[q][r], store'[r])
    BY <2>1, <2>2, OnTrackStays DEF Tracked, HasPlan
  <2>5. Finished(q, r)' => Conforms(r, store'[r])
    BY <2>1, <2>2, StaysConform DEF Tracked, Finished
  <2>. QED  BY <2>3, <2>4, <2>5 DEF Tracked
<1>4. RunsAreTracked'
  BY <1>3 DEF RunsAreTracked
<1>. QED  BY <1>1, <1>2, <1>4 DEF TrackInv

\* A step of run p that does not write.
LEMMA QuietTrack ==
  ASSUME TrackInv, SafeInv', NEW p \in Runs, Aside(p), store' = store,
         asOf'[p] <= edits,
         \A r \in Repos : Shaped(p, r)',
         \A r \in Repos : Quiet(p)' => Tracked(p, r)'
  PROVE  TrackInv'
<1>1. \A r \in Repos : Since(r, store[r], store'[r])
  BY SinceNothing
<1>. QED  BY <1>1, OneRunTrack

LEMMA ReadTrack ==
  ASSUME TrackInv, NEW p \in Runs, NEW r \in Repos, Read(p, r)
  PROVE  TrackInv'
<1>0. TypeOK /\ SafeInv' /\ EditsAreCounted /\ PlansAreShaped /\ RunsAreTracked
  BY ReadSafe DEF TrackInv, SafeInv
<1>1. /\ pc[p] = "reading" /\ unread' = [unread EXCEPT ![p] = @ \ {r}]
      /\ store' = store /\ pc' = pc /\ dry' = dry /\ todo' = todo /\ asOf' = asOf /\ edits' = edits
  BY DEF Read, counted
<1>2. \/ reachable[r] /\ seen' = [seen EXCEPT ![p][r] = store[r]] /\ skipped' = skipped
      \/ ~reachable[r] /\ skipped' = [skipped EXCEPT ![p] = @ \cup {r}] /\ seen' = seen
  BY DEF Read
<1>3. Aside(p)
  BY <1>0, <1>1, <1>2 DEF Aside, TypeOK
<1>4. ASSUME NEW q \in Repos PROVE Shaped(p, q)'
  <2>1. todo[p][q] = {} /\ todo'[p][q] = {}
    BY <1>0, <1>1 DEF PlansAreShaped, Shaped
  <2>. QED  BY <2>1 DEF Shaped
<1>5. ASSUME NEW q \in Repos, Quiet(p)' PROVE Tracked(p, q)'
  <2>1. Quiet(p) /\ Tracked(p, q)
    BY <1>0, <1>1, <1>5 DEF Quiet, Undisturbed, RunsAreTracked
  <2>2. ~HasPlan(p, q)' /\ ~Finished(p, q)'
    BY <1>1 DEF HasPlan, Finished
  <2>3. ASSUME HasRead(p, q)' PROVE Since(q, seen'[p][q], store'[q])
    <3>1. CASE q = r
      <4>1. reachable[r]
        BY <1>0, <1>2, <2>3, <3>1 DEF HasRead, TypeOK
      <4>2. seen'[p][q] = store'[q]
        BY <1>0, <1>1, <1>2, <3>1, <4>1 DEF TypeOK
      <4>. QED  BY <4>2, SinceNothing
    <3>2. CASE q # r
      <4>1. HasRead(p, q)
        BY <1>0, <1>1, <1>2, <2>3, <3>2 DEF HasRead, TypeOK
      <4>2. seen'[p][q] = seen[p][q]
        BY <1>0, <1>2, <3>2 DEF TypeOK
      <4>. QED  BY <1>1, <2>1, <4>1, <4>2 DEF Tracked
    <3>. QED  BY <3>1, <3>2
  <2>. QED  BY <2>2, <2>3 DEF Tracked
<1>6. asOf'[p] <= edits
  BY <1>0, <1>1 DEF EditsAreCounted
<1>. QED  BY <1>0, <1>1, <1>3, <1>4, <1>5, <1>6, QuietTrack

\* With no page read twice, a plan is one that Compute returns for the labels that
\* were read.
LEMMA SinglePlans ==
  ASSUME SingleReads, NEW p \in Runs, Plan(p)
  PROVE  \E plan \in [Repos -> UNION {Plans(p, r, {}) : r \in Repos}] :
           /\ \A r \in Repos : plan[r] \in Plans(p, r, {})
           /\ todo' = [todo EXCEPT ![p] = plan]
<1>1. PICK twice \in [Repos -> {{}} \cup Rereads] :
        \E plan \in [Repos -> UNION {Plans(p, r, twice[r]) : r \in Repos}] :
          /\ \A r \in Repos : plan[r] \in Plans(p, r, twice[r])
          /\ todo' = [todo EXCEPT ![p] = plan]
  BY DEF Plan
<1>2. PICK plan \in [Repos -> UNION {Plans(p, r, twice[r]) : r \in Repos}] :
        /\ \A r \in Repos : plan[r] \in Plans(p, r, twice[r])
        /\ todo' = [todo EXCEPT ![p] = plan]
  BY <1>1
<1>3. \A r \in Repos : twice[r] = {}
  BY <1>1 DEF SingleReads
<1>4. \A r \in Repos : plan[r] \in Plans(p, r, {})
  BY <1>2, <1>3
<1>5. plan \in [Repos -> UNION {Plans(p, r, {}) : r \in Repos}]
  BY <1>2, <1>4
<1>. QED  BY <1>2, <1>4, <1>5

LEMMA PlanTrack ==
  ASSUME RoomyPalette, SingleReads, TrackInv, NEW p \in Runs, Plan(p)
  PROVE  TrackInv'
<1>0. TypeOK /\ AllWellKeyed /\ SafeInv' /\ EditsAreCounted /\ RunsAreTracked
  BY PlanSafe DEF TrackInv, SafeInv
<1>1. PICK plan \in [Repos -> UNION {Plans(p, r, {}) : r \in Repos}] :
        /\ \A r \in Repos : plan[r] \in Plans(p, r, {})
        /\ todo' = [todo EXCEPT ![p] = plan]
  BY SinglePlans
<1>2. /\ pc[p] = "reading" /\ pc' = [pc EXCEPT ![p] = "planned"] /\ unread[p] = {}
      /\ seen' = [seen EXCEPT ![p] = [r \in Repos |-> NoLabels]]
      /\ store' = store /\ dry' = dry /\ unread' = unread /\ skipped' = skipped
      /\ asOf' = asOf /\ edits' = edits
  BY DEF Plan, counted
<1>3. Aside(p)
  BY <1>0, <1>1, <1>2 DEF Aside, TypeOK
<1>4. pc'[p] = "planned" /\ todo'[p] = plan
  BY <1>0, <1>1, <1>2 DEF TypeOK
<1>5. ASSUME NEW r \in Covered \ skipped[p]
      PROVE  /\ r \in Repos /\ Desired[r] # {}
             /\ seen[p][r] \in Views /\ WellKeyed(seen[p][r])
             /\ plan[r] \in Compute(r, seen[p][r], Mode[p])
  <2>1. r \in Repos /\ Desired[r] # {}
    BY DEF Covered
  <2>. QED  BY <1>0, <1>1, <2>1 DEF Plans, TypeOK, AllWellKeyed
<1>6. ASSUME NEW r \in Repos PROVE Shaped(p, r)'
  <2>1. CASE r \in Covered \ skipped[p]
    BY <1>2, <1>4, <1>5, <2>1, PlanPhases DEF Shaped
  <2>2. CASE r \notin Covered \ skipped[p]
    BY <1>1, <1>4, <2>2 DEF Shaped, Plans
  <2>. QED  BY <2>1, <2>2
<1>7. ASSUME NEW r \in Repos, Quiet(p)' PROVE Tracked(p, r)'
  <2>1. Quiet(p) /\ Tracked(p, r)
    BY <1>0, <1>2, <1>7 DEF Quiet, Undisturbed, RunsAreTracked
  <2>2. ~HasRead(p, r)' /\ ~Finished(p, r)'
    BY <1>4 DEF HasRead, Finished
  <2>3. ASSUME HasPlan(p, r)' PROVE OnTrack(r, todo'[p][r], store'[r])
    <3>1. r \in Covered \ skipped[p]
      BY <1>2, <2>3 DEF HasPlan
    <3>2. OnTrack(r, plan[r], seen[p][r])
      BY <1>5, <3>1, PlanOnTrack
    <3>3. Since(r, seen[p][r], store[r])
      BY <1>2, <2>1, <3>1 DEF Tracked, HasRead
    <3>. QED  BY <1>2, <1>4, <3>2, <3>3, OnTrackStays
  <2>. QED  BY <2>2, <2>3 DEF Tracked
<1>8. asOf'[p] <= edits
  BY <1>0, <1>2 DEF EditsAreCounted
<1>. QED  BY <1>0, <1>2, <1>3, <1>6, <1>7, <1>8, QuietTrack

LEMMA SelectTrack ==
  ASSUME TrackInv, NEW p \in Runs, Select(p)
  PROVE  TrackInv'
<1>. USE DEF Renaming, Recolouring, Creating, Existing, Deleting
<1>0. TypeOK /\ SafeInv' /\ EditsAreCounted /\ PlansAreShaped /\ RunsAreTracked
  BY SelectSafe DEF TrackInv, SafeInv
<1>1. PICK keep \in SUBSET Offered(todo[p]) : todo' = [todo EXCEPT ![p] = RetainDeletes(@, keep)]
  BY DEF Select
<1>2. /\ pc[p] = "planned" /\ ~dry[p]
      /\ store' = store /\ dry' = dry /\ unread' = unread /\ seen' = seen /\ skipped' = skipped
      /\ asOf' = asOf /\ edits' = edits
  BY DEF Select, counted
<1>3. /\ pc'[p] \in {"failed", "applying"}
      /\ \A q \in Runs \ {p} : pc'[q] = pc[q]
  BY <1>0 DEF Select, TypeOK
<1>4. Aside(p)
  BY <1>0, <1>1, <1>2, <1>3 DEF Aside, TypeOK
<1>5. ASSUME NEW r \in Repos
      PROVE  todo'[p][r] = {a \in todo[p][r] : a.kind = "delete" => <<r, Lower[a.name]>> \in keep}
  BY <1>0, <1>1 DEF TypeOK, RetainDeletes
<1>6. ASSUME NEW r \in Repos PROVE Shaped(p, r)'
  BY <1>0, <1>2, <1>3, <1>5 DEF PlansAreShaped, Shaped
<1>7. ASSUME NEW r \in Repos, Quiet(p)' PROVE Tracked(p, r)'
  <2>1. Quiet(p) /\ Tracked(p, r)
    BY <1>0, <1>2, <1>7 DEF Quiet, Undisturbed, RunsAreTracked
  <2>2. ~HasRead(p, r)' /\ ~Finished(p, r)'
    BY <1>3 DEF HasRead, Finished
  <2>3. ASSUME HasPlan(p, r)' PROVE OnTrack(r, todo'[p][r], store'[r])
    <3>. DEFINE T == todo[p][r]
                U == todo'[p][r]
    <3>1. OnTrack(r, T, store[r])
      BY <1>2, <2>1, <2>3 DEF Tracked, HasPlan
    <3>2. \A a \in T : Planned(r, a)
      BY <1>0 DEF PlansAreShaped, Shaped
    <3>3. U \subseteq T /\ \A a \in T : a.phase # Deleting => a \in U
      <4>1. \A a \in T : a.phase # Deleting => a.kind # "delete"
        BY <3>2 DEF Planned, IsRename, IsRecolour, IsCreate, IsUpdate, IsRemoval
      <4>. QED  BY <1>5, <4>1
    <3>4. \A i \in DOMAIN Renames : RenameLeft(T, i) => RenameLeft(U, i)
      BY <3>3 DEF RenameLeft
    <3>5. \A k : RecolourLeft(T, k) <=> RecolourLeft(U, k)
      BY <3>3 DEF RecolourLeft
    <3>6. \A a \in T : a.phase \in {Creating, Existing} => a \in U
      BY <3>3
    <3>7. \A a \in U : a \in T
      BY <3>3
    <3>8. OnTrack(r, U, store[r])
      BY <3>1, <3>4, <3>5, <3>6, <3>7, SameTasks
    <3>. QED  BY <1>2, <3>8
  <2>. QED  BY <2>2, <2>3 DEF Tracked
<1>8. asOf'[p] <= edits
  BY <1>0, <1>2 DEF EditsAreCounted
<1>. QED  BY <1>0, <1>2, <1>4, <1>6, <1>7, <1>8, QuietTrack

LEMMA NobodyDisturbs ==
  ASSUME TrackInv, edits = 0, NEW p \in Runs
  PROVE  Quiet(p)
<1>1. asOf[p] \in Nat /\ asOf[p] <= edits
  BY DEF TrackInv, SafeInv, TypeOK, EditsAreCounted
<1>. QED  BY <1>1 DEF Quiet, Undisturbed

\* A run that nobody disturbed does what Reconciliation allows.
LEMMA WriteIsInTurn ==
  ASSUME TrackInv, NEW p \in Runs, Quiet(p), NEW r \in Repos, NEW a \in todo[p][r],
         InFlight(p, r, a)
  PROVE  /\ InTurn(r, todo[p][r], store[r], a)
         /\ store[r] \in Views /\ WellKeyed(store[r]) /\ r \in Covered
<1>1. /\ store[r] \in Views /\ WellKeyed(store[r])
      /\ todo[p][r] \subseteq Action
  BY DEF TrackInv, SafeInv, TypeOK, AllWellKeyed
<1>2. HasPlan(p, r) /\ \A b \in todo[p][r] : Planned(r, b)
  BY DEF TrackInv, PlansAreShaped, Shaped, HasPlan, InFlight
<1>3. OnTrack(r, todo[p][r], store[r])
  BY <1>2 DEF TrackInv, RunsAreTracked, Tracked
<1>4. a.kind = "delete" => SomeRunPrunes
  BY DEF TrackInv, SafeInv, DeletesAreChosen, Removals, SomeRunPrunes
<1>. QED  BY <1>1, <1>2, <1>3, <1>4 DEF InTurn, InFlight, HasPlan

LEMMA WriteIsNext ==
  ASSUME TrackInv, NEW p \in Runs, Quiet(p), NEW r \in Repos, NEW a \in todo[p][r],
         InFlight(p, r, a), Answer(store[r], a) = "ok"
  PROVE  /\ NextWrite(r, todo[p][r], store[r], a)
         /\ store[r] \in Views /\ WellKeyed(store[r]) /\ r \in Covered
BY WriteIsInTurn DEF NextWrite

LEMMA NextIsAllowed ==
  ASSUME NEW r \in Repos, NEW T, NEW s \in Views, WellKeyed(s), NEW a, NextWrite(r, T, s, a)
  PROVE  /\ Allowed(r, s, Effect(s, a))
         /\ Since(r, s, Effect(s, a))
         /\ OnTrack(r, T \ {a}, Effect(s, a))
<1>. DEFINE t == Effect(s, a)
<1>. HIDE DEF t
<1>1. t = Effect(s, a)
  BY DEF t
<1>2. OnTrack(r, T \ {a}, t) /\ Allowed(r, s, t)
  BY <1>1, DoNext DEF Allowed
<1>3. Since(r, s, t)
  BY <1>2, AllowedSince
<1>. QED  BY <1>1, <1>2, <1>3

\* The write is seen by all runs that are not disturbed.
LEMMA WriteSince ==
  ASSUME TrackInv, NEW p \in Runs, NEW r \in Repos, NEW a \in todo[p][r],
         InFlight(p, r, a), Answer(store[r], a) = "ok",
         store' = [store EXCEPT ![r] = Effect(store[r], a)]
  PROVE  /\ \A q \in Runs \ {p}, s \in Repos : Quiet(q) => Since(s, store[s], store'[s])
         /\ Quiet(p) => \A s \in Repos : Since(s, store[s], store'[s])
<1>1. ASSUME Quiet(p), NEW s \in Repos PROVE Since(s, store[s], store'[s])
  <2>1. CASE s = r
    <3>1. store'[r] = Effect(store[r], a)
      BY DEF TrackInv, SafeInv, TypeOK
    <3>. QED  BY <1>1, <2>1, <3>1, WriteIsNext, NextIsAllowed
  <2>2. CASE s # r
    <3>1. store'[s] = store[s]
      BY <2>2 DEF TrackInv, SafeInv, TypeOK
    <3>. QED  BY <3>1, SinceNothing
  <2>. QED  BY <2>1, <2>2
<1>2. ASSUME NEW q \in Runs, q # p, Quiet(q) PROVE Quiet(p)
  <2>1. edits = 0
    BY <1>2 DEF Quiet
  <2>. QED  BY <2>1, NobodyDisturbs
<1>. QED  BY <1>1, <1>2

LEMMA SucceedTrack ==
  ASSUME TrackInv, NEW p \in Runs, NEW r \in Repos, NEW a \in todo[p][r], Succeed(p, r, a)
  PROVE  TrackInv'
<1>0. TypeOK /\ SafeInv' /\ EditsAreCounted /\ PlansAreShaped /\ RunsAreTracked
  BY SucceedSafe DEF TrackInv, SafeInv
<1>1. /\ pc[p] = "applying" /\ InFlight(p, r, a) /\ Answer(store[r], a) = "ok"
      /\ store' = [store EXCEPT ![r] = Effect(store[r], a)]
      /\ todo' = [todo EXCEPT ![p][r] = @ \ {a}]
      /\ pc' = pc /\ dry' = dry /\ unread' = unread /\ seen' = seen /\ skipped' = skipped
      /\ asOf' = asOf /\ edits' = edits
  BY DEF Succeed, InFlight, counted
<1>2. Aside(p)
  BY <1>0, <1>1 DEF Aside, TypeOK
<1>3. \A q \in Runs \ {p}, s \in Repos : Quiet(q) => Since(s, store[s], store'[s])
  BY <1>1, WriteSince
<1>4. todo'[p][r] = todo[p][r] \ {a} /\ \A s \in Repos \ {r} : todo'[p][s] = todo[p][s]
  BY <1>0, <1>1 DEF TypeOK
<1>5. ASSUME NEW s \in Repos PROVE Shaped(p, s)'
  BY <1>0, <1>1, <1>4 DEF PlansAreShaped, Shaped
<1>6. ASSUME NEW s \in Repos, Quiet(p)' PROVE Tracked(p, s)'
  <2>1. Quiet(p) /\ Tracked(p, s)
    BY <1>0, <1>1, <1>6 DEF Quiet, Undisturbed, RunsAreTracked
  <2>2. ~HasRead(p, s)' /\ ~Finished(p, s)'
    BY <1>1 DEF HasRead, Finished
  <2>3. CASE s = r
    <3>1. store'[r] = Effect(store[r], a)
      BY <1>0, <1>1 DEF TypeOK
    <3>2. OnTrack(r, todo[p][r] \ {a}, Effect(store[r], a))
      BY <1>1, <2>1, WriteIsNext, NextIsAllowed
    <3>. QED  BY <1>4, <2>2, <2>3, <3>1, <3>2 DEF Tracked
  <2>4. CASE s # r
    <3>1. store'[s] = store[s]
      BY <1>0, <1>1, <2>4 DEF TypeOK
    <3>. QED  BY <1>1, <1>4, <2>1, <2>2, <2>4, <3>1 DEF Tracked, HasPlan
  <2>. QED  BY <2>3, <2>4
<1>7. asOf'[p] <= edits
  BY <1>0, <1>1 DEF EditsAreCounted
<1>. QED  BY <1>0, <1>2, <1>3, <1>5, <1>6, <1>7, OneRunTrack

LEMMA LoseAnswerTrack ==
  ASSUME TrackInv, NEW p \in Runs, NEW r \in Repos, NEW a \in todo[p][r], LoseAnswer(p, r, a)
  PROVE  TrackInv'
<1>0. TypeOK /\ SafeInv' /\ EditsAreCounted /\ PlansAreShaped /\ RunsAreTracked
  BY LoseAnswerSafe DEF TrackInv, SafeInv
<1>1. /\ pc[p] = "applying" /\ InFlight(p, r, a)
      /\ todo' = todo /\ pc' = pc /\ dry' = dry /\ unread' = unread /\ seen' = seen
      /\ skipped' = skipped /\ asOf' = asOf /\ edits' = edits
  BY DEF LoseAnswer, InFlight, counted
<1>2. Aside(p)
  BY <1>0, <1>1 DEF Aside, TypeOK
<1>3. /\ \A q \in Runs \ {p}, s \in Repos : Quiet(q) => Since(s, store[s], store'[s])
      /\ Quiet(p) => \A s \in Repos : Since(s, store[s], store'[s])
  <2>1. CASE store' = store
    BY <2>1, SinceNothing
  <2>2. CASE store' = [store EXCEPT ![r] = Served(store[r], a)] /\ Answer(store[r], a) = "ok"
    <3>1. store' = [store EXCEPT ![r] = Effect(store[r], a)]
      BY <2>2 DEF Served
    <3>. QED  BY <1>1, <2>2, <3>1, WriteSince
  <2>3. CASE store' = [store EXCEPT ![r] = Served(store[r], a)] /\ Answer(store[r], a) # "ok"
    <3>1. store' = store
      BY <1>0, <2>3 DEF Served, TypeOK
    <3>. QED  BY <3>1, SinceNothing
  <2>. QED  BY <2>1, <2>2, <2>3 DEF LoseAnswer
<1>4. ASSUME NEW s \in Repos PROVE Shaped(p, s)'
  BY <1>0, <1>1 DEF PlansAreShaped, Shaped
<1>5. ASSUME NEW s \in Repos, Quiet(p)' PROVE Tracked(p, s)'
  <2>1. Quiet(p) /\ Tracked(p, s)
    BY <1>0, <1>1, <1>5 DEF Quiet, Undisturbed, RunsAreTracked
  <2>2. ~HasRead(p, s)' /\ ~Finished(p, s)'
    BY <1>1 DEF HasRead, Finished
  <2>3. HasPlan(p, s)' => OnTrack(s, todo'[p][s], store'[s])
    BY <1>1, <1>3, <2>1, OnTrackStays DEF HasPlan, Tracked
  <2>. QED  BY <2>2, <2>3 DEF Tracked
<1>6. asOf'[p] <= edits
  BY <1>0, <1>1 DEF EditsAreCounted
<1>. QED  BY <1>0, <1>2, <1>3, <1>4, <1>5, <1>6, OneRunTrack

LEMMA FallbackTrack ==
  ASSUME TrackInv, NEW p \in Runs, NEW r \in Repos, NEW a \in todo[p][r], Fallback(p, r, a)
  PROVE  TrackInv'
<1>. USE DEF Renaming, Recolouring, Creating, Existing, Deleting
<1>0. TypeOK /\ SafeInv' /\ EditsAreCounted /\ PlansAreShaped /\ RunsAreTracked
  BY FallbackSafe DEF TrackInv, SafeInv
<1>. DEFINE b == AsUpdate(a)
            T == todo[p][r]
            U == (T \ {a}) \cup {b}
<1>1. /\ pc[p] = "applying" /\ a.kind = "create"
      /\ todo' = [todo EXCEPT ![p][r] = (@ \ {a}) \cup {b}]
      /\ store' = store /\ pc' = pc /\ dry' = dry /\ unread' = unread /\ seen' = seen
      /\ skipped' = skipped /\ asOf' = asOf /\ edits' = edits
  BY DEF Fallback, InFlight, remote, counted
<1>2. Aside(p)
  BY <1>0, <1>1 DEF Aside, TypeOK
<1>3. todo'[p][r] = U /\ \A s \in Repos \ {r} : todo'[p][s] = todo[p][s]
  BY <1>0, <1>1 DEF TypeOK
<1>4. a \in ActionRecord /\ a.newName = Keep
  BY <1>1, SelectedIsAnAction, ActionFields DEF TrackInv, SafeInv
<1>5. /\ b.kind = "update" /\ b.newName = a.name /\ b.name = a.name
      /\ b.phase = a.phase /\ b.pos = a.pos /\ b.color = a.color /\ b.desc = a.desc
  BY <1>4 DEF AsUpdate, ActionRecord
<1>6. PICK d \in Desired[r] : IsCreate(a, d)
  BY <1>0, <1>1 DEF PlansAreShaped, Shaped, Planned, IsRename, IsRecolour, IsUpdate, IsRemoval
<1>7. IsCreate(b, d)
  BY <1>5, <1>6 DEF IsCreate
<1>8. ASSUME NEW s \in Repos PROVE Shaped(p, s)'
  <2>1. CASE s = r
    <3>1. Planned(r, b)
      BY <1>7 DEF Planned
    <3>2. \A c \in U : Planned(r, c)
      BY <1>0, <3>1 DEF PlansAreShaped, Shaped
    <3>. QED  BY <1>0, <1>1, <1>3, <2>1, <3>2 DEF PlansAreShaped, Shaped
  <2>2. CASE s # r
    BY <1>0, <1>1, <1>3, <2>2 DEF PlansAreShaped, Shaped
  <2>. QED  BY <2>1, <2>2
<1>9. ASSUME NEW s \in Repos, Quiet(p)' PROVE Tracked(p, s)'
  <2>1. Quiet(p) /\ Tracked(p, s)
    BY <1>0, <1>1, <1>9 DEF Quiet, Undisturbed, RunsAreTracked
  <2>2. ~HasRead(p, s)' /\ ~Finished(p, s)'
    BY <1>1 DEF HasRead, Finished
  <2>3. CASE s # r
    BY <1>1, <1>3, <2>1, <2>2, <2>3 DEF Tracked, HasPlan
  <2>4. ASSUME s = r, HasPlan(p, r)' PROVE OnTrack(r, U, store[r])
    <3>1. OnTrack(r, T, store[r])
      BY <1>1, <2>1, <2>4 DEF Tracked, HasPlan
    <3>2. a.phase = Creating
      BY <1>6 DEF IsCreate
    <3>3. \A i \in DOMAIN Renames : RenameLeft(T, i) => RenameLeft(U, i)
      BY <3>2 DEF RenameLeft
    <3>4. \A k : RecolourLeft(T, k) <=> RecolourLeft(U, k)
      BY <1>5, <3>2 DEF RecolourLeft
    <3>5. \A c \in T : c.phase \in {Creating, Existing} =>
            \E e \in U : e.phase \in {Creating, Existing} /\ Lower[e.name] = Lower[c.name]
      BY <1>5
    <3>6. \A c \in U : c.phase = Existing => c \in T
      BY <1>5, <3>2
    <3>7. store[r][Lower[a.name]] # None
      BY <1>1, <1>4 DEF Fallback, Answer, Target, Or
    <3>8. \A c \in U : c.phase = Creating /\ c.kind = "update" =>
            c \in T \/ store[r][Lower[c.name]] # None
      BY <1>5, <3>7
    <3>. QED  BY <3>1, <3>3, <3>4, <3>5, <3>6, <3>8, SameTasks
  <2>. QED  BY <1>1, <1>3, <2>2, <2>3, <2>4 DEF Tracked
<1>10. asOf'[p] <= edits
  BY <1>0, <1>1 DEF EditsAreCounted
<1>. QED  BY <1>0, <1>1, <1>2, <1>8, <1>9, <1>10, QuietTrack

LEMMA AbandonTrack ==
  ASSUME TrackInv, NEW p \in Runs, NEW r \in Repos, NEW a \in todo[p][r], Abandon(p, r, a)
  PROVE  TrackInv'
<1>0. TypeOK /\ SafeInv' /\ EditsAreCounted /\ PlansAreShaped /\ RunsAreTracked
  BY AbandonSafe DEF TrackInv, SafeInv
<1>1. /\ pc[p] = "applying"
      /\ todo' = [todo EXCEPT ![p][r] = {}] /\ skipped' = [skipped EXCEPT ![p] = @ \cup {r}]
      /\ store' = store /\ pc' = pc /\ dry' = dry /\ unread' = unread /\ seen' = seen
      /\ asOf' = asOf /\ edits' = edits
  BY DEF Abandon, InFlight, remote, counted
<1>2. Aside(p)
  BY <1>0, <1>1 DEF Aside, TypeOK
<1>3. /\ todo'[p][r] = {} /\ \A s \in Repos \ {r} : todo'[p][s] = todo[p][s]
      /\ skipped'[p] = skipped[p] \cup {r}
  BY <1>0, <1>1 DEF TypeOK
<1>4. ASSUME NEW s \in Repos PROVE Shaped(p, s)'
  BY <1>0, <1>1, <1>3 DEF PlansAreShaped, Shaped
<1>5. ASSUME NEW s \in Repos, Quiet(p)' PROVE Tracked(p, s)'
  <2>1. Tracked(p, s)
    BY <1>0, <1>1, <1>5 DEF Quiet, Undisturbed, RunsAreTracked
  <2>. QED  BY <1>1, <1>3, <2>1 DEF Tracked, HasRead, HasPlan, Finished
<1>6. asOf'[p] <= edits
  BY <1>0, <1>1 DEF EditsAreCounted
<1>. QED  BY <1>0, <1>1, <1>2, <1>4, <1>5, <1>6, QuietTrack

LEMMA FinishTrack ==
  ASSUME TrackInv, NEW p \in Runs, Finish(p)
  PROVE  TrackInv'
<1>0. TypeOK /\ SafeInv' /\ EditsAreCounted /\ PlansAreShaped /\ RunsAreTracked
  BY FinishSafe DEF TrackInv, SafeInv
<1>1. /\ pc[p] = "applying" /\ pc' = [pc EXCEPT ![p] = "done"]
      /\ \A r \in Repos : Writes(todo[p][r]) = {}
      /\ store' = store /\ todo' = todo /\ dry' = dry /\ unread' = unread /\ seen' = seen
      /\ skipped' = skipped /\ asOf' = asOf /\ edits' = edits
  BY DEF Finish, remote, counted
<1>2. Aside(p) /\ pc'[p] = "done"
  BY <1>0, <1>1 DEF Aside, TypeOK
<1>3. ASSUME NEW s \in Repos PROVE Shaped(p, s)'
  BY <1>0, <1>1, <1>2 DEF PlansAreShaped, Shaped
<1>4. ASSUME NEW s \in Repos, Quiet(p)' PROVE Tracked(p, s)'
  <2>1. Quiet(p) /\ Tracked(p, s)
    BY <1>0, <1>1, <1>4 DEF Quiet, Undisturbed, RunsAreTracked
  <2>2. ~HasRead(p, s)' /\ ~HasPlan(p, s)'
    BY <1>2 DEF HasRead, HasPlan
  <2>3. ASSUME Finished(p, s)' PROVE Conforms(s, store[s])
    <3>1. HasPlan(p, s)
      BY <1>1, <2>3 DEF Finished, HasPlan
    <3>2. OnTrack(s, todo[p][s], store[s]) /\ \A a \in todo[p][s] : Planned(s, a)
      BY <1>0, <2>1, <3>1 DEF Tracked, PlansAreShaped, Shaped
    <3>. QED  BY <1>1, <3>2, NothingButRemovals
  <2>. QED  BY <1>1, <2>2, <2>3 DEF Tracked
<1>5. asOf'[p] <= edits
  BY <1>0, <1>1 DEF EditsAreCounted
<1>. QED  BY <1>0, <1>1, <1>2, <1>3, <1>4, <1>5, QuietTrack

\* A run that ends without having finished.
LEMMA EndTrack ==
  ASSUME TrackInv, NEW p \in Runs, Preview(p) \/ \E r \in Repos : \E a \in todo[p][r] : Collide(p, r, a)
  PROVE  TrackInv'
<1>0. TypeOK /\ SafeInv' /\ EditsAreCounted /\ PlansAreShaped /\ RunsAreTracked
  BY PreviewSafe, CollideSafe DEF TrackInv, SafeInv
<1>1. /\ pc[p] # "reading" /\ \A q \in Runs \ {p} : pc'[q] = pc[q]
      /\ pc'[p] \in {"failed", "done"} /\ (pc'[p] = "done" => dry[p])
      /\ store' = store /\ todo' = todo /\ dry' = dry /\ unread' = unread /\ seen' = seen
      /\ skipped' = skipped /\ asOf' = asOf /\ edits' = edits
  BY <1>0 DEF Preview, Collide, InFlight, remote, counted, TypeOK
<1>2. Aside(p)
  BY <1>1 DEF Aside
<1>3. ASSUME NEW s \in Repos PROVE Shaped(p, s)'
  BY <1>0, <1>1 DEF PlansAreShaped, Shaped
<1>4. ASSUME NEW s \in Repos PROVE Tracked(p, s)'
  BY <1>1 DEF Tracked, HasRead, HasPlan, Finished
<1>5. asOf'[p] <= edits
  BY <1>0, <1>1 DEF EditsAreCounted
<1>. QED  BY <1>0, <1>1, <1>2, <1>3, <1>4, <1>5, QuietTrack

LEMMA ForgetTrack ==
  ASSUME TrackInv, NEW p \in Runs, Stop(p) \/ Restart(p)
  PROVE  TrackInv'
<1>0. TypeOK /\ SafeInv' /\ EditsAreCounted
  BY StopSafe, RestartSafe DEF TrackInv, SafeInv
<1>1. /\ Forget(p) /\ store' = store /\ edits' = edits
      /\ pc'[p] \in {"reading", "failed"}
      /\ \A q \in Runs \ {p} : pc'[q] = pc[q] /\ dry'[q] = dry[q] /\ asOf'[q] = asOf[q]
  BY <1>0 DEF Stop, Restart, remote, counted, TypeOK
<1>2. asOf'[p] <= edits
  <2>1. edits \in Nat
    BY <1>0, SyncAssumption DEF TypeOK
  <2>2. asOf'[p] = asOf[p] \/ asOf'[p] = edits
    BY <1>0 DEF Stop, Restart, TypeOK
  <2>. QED  BY <1>0, <2>1, <2>2 DEF EditsAreCounted
<1>3. /\ unread'[p] = Covered /\ todo'[p] = NoPlan
      /\ \A q \in Runs \ {p} : /\ unread'[q] = unread[q] /\ seen'[q] = seen[q]
                               /\ todo'[q] = todo[q] /\ skipped'[q] = skipped[q]
  BY <1>0, <1>1 DEF Forget, TypeOK
<1>4. Aside(p)
  BY <1>1, <1>3 DEF Aside
<1>5. ASSUME NEW s \in Repos PROVE Shaped(p, s)'
  BY <1>3 DEF Shaped, NoPlan
<1>6. ASSUME NEW s \in Repos PROVE Tracked(p, s)'
  BY <1>1, <1>3 DEF Tracked, HasRead, HasPlan, Finished
<1>. QED  BY <1>0, <1>1, <1>2, <1>4, <1>5, <1>6, QuietTrack

\* An edit disturbs every run there is.
LEMMA EditTrack ==
  ASSUME TrackInv, NEW r \in Repos, Edit(r)
  PROVE  TrackInv'
<1>0. TypeOK /\ SafeInv' /\ EditsAreCounted /\ PlansAreShaped
  BY EditSafe DEF TrackInv, SafeInv
<1>1. edits' = edits + 1 /\ asOf' = asOf /\ todo' = todo /\ pc' = pc /\ skipped' = skipped
  BY DEF Edit, local
<1>2. \A p \in Runs : asOf[p] <= edits /\ asOf[p] \in Nat /\ edits \in Nat
  BY <1>0, SyncAssumption DEF TypeOK, EditsAreCounted
<1>3. EditsAreCounted' /\ \A p \in Runs : ~Quiet(p)'
  BY <1>1, <1>2 DEF EditsAreCounted, Quiet, Undisturbed
<1>4. PlansAreShaped'
  BY <1>0, <1>1 DEF PlansAreShaped, Shaped
<1>. QED  BY <1>0, <1>3, <1>4 DEF TrackInv, RunsAreTracked

LEMMA WorldTrack ==
  ASSUME TrackInv, (\E r \in Repos : Outage(r) \/ Recovery(r)) \/ UNCHANGED vars
  PROVE  TrackInv'
<1>1. SafeInv'
  BY WorldSafe, StutterSafe DEF TrackInv
<1>2. /\ store' = store /\ todo' = todo /\ pc' = pc /\ dry' = dry /\ unread' = unread
      /\ seen' = seen /\ skipped' = skipped /\ asOf' = asOf /\ edits' = edits
  BY DEF Outage, Recovery, vars, local, counted
<1>3. EditsAreCounted' /\ PlansAreShaped'
  BY <1>2 DEF TrackInv, EditsAreCounted, PlansAreShaped, Shaped
<1>4. RunsAreTracked'
  BY <1>2 DEF TrackInv, RunsAreTracked, Tracked, HasRead, HasPlan, Finished, Quiet, Undisturbed
<1>. QED  BY <1>1, <1>3, <1>4 DEF TrackInv

LEMMA NextTrack ==
  ASSUME RoomyPalette, SingleReads, TrackInv, [Next]_vars
  PROVE  TrackInv'
<1>1. ASSUME NEW p \in Runs, Advance(p) PROVE TrackInv'
  <2>1. CASE \E r \in Repos : Read(p, r)
    BY <2>1, ReadTrack
  <2>2. CASE Apply(p)
    <3>1. PICK r \in Repos : \E a \in todo[p][r] :
            \/ Succeed(p, r, a)
            \/ Fallback(p, r, a)
            \/ Abandon(p, r, a)
            \/ Collide(p, r, a)
            \/ LoseAnswer(p, r, a)
      BY <2>2 DEF Apply
    <3>. QED  BY <3>1, SucceedTrack, FallbackTrack, AbandonTrack, EndTrack, LoseAnswerTrack
  <2>3. CASE Plan(p) \/ Select(p) \/ Preview(p) \/ Finish(p)
    BY <2>3, PlanTrack, SelectTrack, EndTrack, FinishTrack
  <2>. QED  BY <1>1, <2>1, <2>2, <2>3 DEF Advance
<1>2. ASSUME NEW r \in Repos, Edit(r) \/ Outage(r) \/ Recovery(r) PROVE TrackInv'
  BY <1>2, EditTrack, WorldTrack
<1>. QED  BY <1>1, <1>2, ForgetTrack, WorldTrack DEF Next

\* The invariant holds: what every undisturbed run has read is still good enough
\* to plan from, what it has still to do is still right and enough, and what it
\* has finished stays as configured.
THEOREM Tracking == ASSUME RoomyPalette, SingleReads PROVE Spec => []TrackInv
<1>1. Init => TrackInv
  BY InitTrack
<1>2. TrackInv /\ [Next]_vars => TrackInv'
  BY NextTrack
<1>. QED  BY <1>1, <1>2, PTL DEF Spec

\* A run that finishes leaves every repository it did not skip as configured,
\* for any number of runs that overlap, are stopped and started again, lose
\* answers and find repositories unreachable.
THEOREM RunsConverge ==
  ASSUME RoomyPalette, SingleReads, MaxEdits = 0 \/ \A p, q \in Runs : p = q
  PROVE  Spec => []Converged
<1>1. ASSUME TrackInv, NEW p \in Runs, Undisturbed(p) PROVE Quiet(p)
  <2>1. CASE MaxEdits = 0
    BY <1>1, <2>1 DEF TrackInv, SafeInv, TypeOK, Quiet
  <2>2. CASE \A q, r \in Runs : q = r
    BY <1>1, <2>2 DEF Quiet
  <2>. QED  BY <2>1, <2>2
<1>2. TrackInv => Converged
  BY <1>1 DEF TrackInv, RunsAreTracked, Tracked, Converged
<1>. QED  BY <1>2, Tracking, PTL

-----------------------------------------------------------------------------
(***************************************************************************)
(* All runs together implement Reconciliation, where nobody edits labels.  *)
(* The refinement mapping is the identity on the store: a step that writes *)
(* maps to a step of Reconciliation, any other one to a stutter.           *)
(***************************************************************************)

\* The definitions Reconciliation shares with this module mean the same in both.
LEMMA SameTerms ==
  /\ \A i : Promise!From(i) = From(i) /\ Promise!To(i) = To(i)
  /\ \A r : Promise!Configured(r) = Configured(r) /\ Promise!Reserved(r) = Reserved(r)
  /\ \A r, v : Promise!Unconfigured(r, v) = Unconfigured(r, v)
  /\ \A r, v : Promise!Squatters(r, v) = Squatters(r, v)
  /\ \A r, v : Promise!Conforms(r, v) <=> Conforms(r, v)
<1>1. \A i : Promise!From(i) = From(i) /\ Promise!To(i) = To(i)
  BY DEF Promise!From, Promise!To, From, To
<1>2. \A r : Promise!Configured(r) = Configured(r) /\ Promise!Reserved(r) = Reserved(r)
  BY DEF Promise!Configured, Promise!Reserved, Configured, Reserved
<1>3. \A r, v : Promise!Unconfigured(r, v) = Unconfigured(r, v)
  BY <1>2 DEF Promise!Unconfigured, Unconfigured, Promise!Present, Present, Promise!Keys, Keys
<1>4. \A r, v : Promise!Squatters(r, v) = Squatters(r, v)
  BY <1>2, <1>3 DEF Promise!Squatters, Squatters
<1>5. \A r, v : Promise!Conforms(r, v) <=> Conforms(r, v)
  BY <1>4 DEF Promise!Conforms, Conforms
<1>. QED  BY <1>1, <1>2, <1>3, <1>4, <1>5

LEMMA StepIsPromised ==
  ASSUME NEW r \in Repos, Desired[r] # {}, NEW t, store' = [store EXCEPT ![r] = t],
         \/ \E i \in DOMAIN Renames : Moves(store[r], i, t)
         \/ \E k \in Keys : Recolours(r, store[r], k, t)
         \/ \E d \in Desired[r] : Settles(r, store[r], d, t)
         \/ \E k \in Keys : Removes(r, store[r], k, t)
  PROVE  Promise!PromiseNext
<1>1. Promise!Becomes(r, t)
  BY DEF Promise!Becomes
<1>2. ASSUME NEW i \in DOMAIN Renames, Moves(store[r], i, t)
      PROVE  Promise!MoveLabel(r, i)
  <2>1. t = [store[r] EXCEPT ![From(i)] = None,
                             ![To(i)] = [store[r][From(i)] EXCEPT !.name = Renames[i].to]]
    BY <1>2 DEF Moves, Moved
  <2>. QED  BY <1>1, <1>2, <2>1, SameTerms DEF Moves, Promise!MoveLabel
<1>3. ASSUME NEW k \in Keys, Recolours(r, store[r], k, t)
      PROVE  Promise!MoveColor(r, k)
  BY <1>1, <1>3, SameTerms DEF Recolours, Promise!MoveColor
<1>4. ASSUME NEW d \in Desired[r], Settles(r, store[r], d, t)
      PROVE  Promise!Settle(r, d)
  BY <1>1, <1>4, SameTerms DEF Settles, Promise!Settle
<1>5. ASSUME NEW k \in Keys, Removes(r, store[r], k, t)
      PROVE  Promise!Remove(r, k)
  BY <1>1, <1>5, SameTerms DEF Removes, Removed, Promise!Remove, SomeRunPrunes
<1>6. Keys = Promise!Keys
  BY DEF Keys, Promise!Keys
<1>. QED  BY <1>2, <1>3, <1>4, <1>5, <1>6 DEF Promise!PromiseNext

LEMMA NoEdits ==
  ASSUME TypeOK, [Next]_vars, TypeOK'
  PROVE  /\ MaxEdits = 0 => edits' = 0
         /\ edits' = 0 => edits = 0 /\ \A r \in Repos : ~Edit(r)
<1>1. edits \in Nat /\ (MaxEdits = 0 => edits' = 0)
  BY SyncAssumption DEF TypeOK
<1>2. ASSUME NEW r \in Repos, Edit(r) PROVE edits' = edits + 1
  BY <1>2 DEF Edit
<1>3. edits' = edits \/ \E r \in Repos : Edit(r)
  <2>1. ASSUME NEW p \in Runs, Advance(p) PROVE edits' = edits
    BY <2>1 DEF Advance, Read, Plan, Select, Preview, Apply, Succeed, Fallback, Abandon,
                Collide, LoseAnswer, Finish, counted
  <2>. QED  BY <2>1 DEF Next, Stop, Restart, Outage, Recovery, vars, counted
<1>. QED  BY <1>1, <1>2, <1>3

\* What a step does to the store.
LEMMA StepOfRuns ==
  ASSUME TrackInv, [Next]_vars, edits' = 0, TypeOK', store' # store
  PROVE  \E r \in Repos : \E t :
           /\ Desired[r] # {}
           /\ store' = [store EXCEPT ![r] = t]
           /\ \/ \E i \in DOMAIN Renames : Moves(store[r], i, t)
              \/ \E k \in Keys : Recolours(r, store[r], k, t)
              \/ \E d \in Desired[r] : Settles(r, store[r], d, t)
              \/ \E k \in Keys : Removes(r, store[r], k, t)
<1>0. edits = 0 /\ \A r \in Repos : ~Edit(r)
  BY NoEdits DEF TrackInv, SafeInv
<1>1. PICK p \in Runs : \E r \in Repos : \E a \in todo[p][r] : WritesIn(p, r, a)
  BY <1>0, OneWriter DEF TrackInv
<1>2. PICK r \in Repos : \E a \in todo[p][r] : WritesIn(p, r, a)
  BY <1>1
<1>3. PICK a \in todo[p][r] : WritesIn(p, r, a)
  BY <1>2
<1>. DEFINE t == Effect(store[r], a)
<1>4. InFlight(p, r, a) /\ Answer(store[r], a) = "ok" /\ store' = [store EXCEPT ![r] = t]
  BY <1>3 DEF WritesIn
<1>5. /\ NextWrite(r, todo[p][r], store[r], a)
      /\ store[r] \in Views /\ WellKeyed(store[r]) /\ r \in Covered
  BY <1>0, <1>4, NobodyDisturbs, WriteIsNext
<1>6. Lower[a.name] \in Keys
      /\ \/ \E i \in DOMAIN Renames : IsRename(a, i) /\ Moves(store[r], i, t)
         \/ Recolours(r, store[r], Lower[a.name], t)
         \/ \E d \in Desired[r] : Settles(r, store[r], d, t)
         \/ a.kind = "delete" /\ Removes(r, store[r], Lower[a.name], t)
  <2>. HIDE DEF t
  <2>1. t = Effect(store[r], a)
    BY DEF t
  <2>. QED  BY <1>5, <2>1, DoNext
<1>7. Desired[r] # {}
  BY <1>5 DEF Covered
<1>. QED  BY <1>4, <1>6, <1>7

\* Whatever the runs do to the labels, however many of them there are and
\* whatever becomes of them and of the answers to their requests: each of their
\* writes is one that Reconciliation allows in the state it finds.
THEOREM RunsKeepPromise == ASSUME RoomyPalette, SingleReads, MaxEdits = 0 PROVE Spec => KeepsPromise
<1>1. TrackInv /\ [Next]_vars => edits' = 0 /\ TypeOK'
  BY NextSafe, NoEdits DEF TrackInv, SafeInv
<1>2. Init => Promise!PromiseInit
  BY DEF Init, Promise!PromiseInit
<1>3. ASSUME TrackInv, [Next]_vars
      PROVE  [Promise!PromiseNext]_store
  <2>1. CASE store' = store
    BY <2>1
  <2>2. CASE store' # store
    BY <1>1, <1>3, <2>2, StepOfRuns, StepIsPromised
  <2>. QED  BY <2>1, <2>2
<1>4. TrackInv /\ [Next]_vars => [Promise!PromiseNext]_store
  BY <1>3
<1>5. Spec => []TrackInv
  BY Tracking
<1>. QED  BY <1>2, <1>4, <1>5, PTL DEF Spec, KeepsPromise, Promise!PromiseSpec

-----------------------------------------------------------------------------
(***************************************************************************)
(* What follows from the promise for single steps.                         *)
(***************************************************************************)

\* Deletes come last: a run that destroys a label of a repository finds it as
\* configured, by its own writes or by those of the runs it overlaps.
THEOREM RemovalsComeLast ==
  ASSUME RoomyPalette, SingleReads, MaxEdits = 0 PROVE Spec => RemovesAfterRepair
<1>1. ASSUME TrackInv, [Next]_vars, NEW q \in Repos,
             ~(Origins(store[q]) \subseteq Origins(store'[q]))
      PROVE  Conforms(q, store[q])
  <2>1. PICK k \in Present(store[q]) : store[q][k].origin \notin Origins(store'[q])
    BY <1>1 DEF Origins
  <2>2. store' # store /\ edits = 0 /\ \A r \in Repos : ~Edit(r)
    BY <1>1, NextSafe, NoEdits DEF TrackInv, SafeInv
  <2>3. PICK p \in Runs : \E r \in Repos : \E a \in todo[p][r] : WritesIn(p, r, a)
    BY <1>1, <2>2, OneWriter DEF TrackInv
  <2>4. PICK r \in Repos : \E a \in todo[p][r] : WritesIn(p, r, a)
    BY <2>3
  <2>5. PICK a \in todo[p][r] : WritesIn(p, r, a)
    BY <2>4
  <2>6. q = r /\ a \in Removals(todo[p][r])
    BY <1>1, <2>1, <2>5, IdentityKept DEF TrackInv
  <2>7. NextWrite(r, todo[p][r], store[r], a) /\ store[r] \in Views
    BY <1>1, <2>2, <2>5, NobodyDisturbs, WriteIsNext DEF WritesIn
  <2>8. IsRemoval(r, a)
    BY <2>6, <2>7 DEF Removals, NextWrite, InTurn, Planned, IsRename, IsRecolour, IsCreate, IsUpdate
  <2>. QED  BY <2>6, <2>7, <2>8, DoRemoval DEF Removes, Removed
<1>2. TrackInv /\ [Next]_vars =>
        [edits' = edits =>
           \A r \in Repos :
             ~(Origins(store[r]) \subseteq Origins(store'[r])) => Conforms(r, store[r])]_vars
  BY <1>1
<1>3. Spec => []TrackInv
  BY Tracking
<1>. QED  BY <1>2, <1>3, PTL DEF Spec, RemovesAfterRepair

\* Squatters move off first: a write after which a configured label shares its
\* colour with one that should have moved only found that label with the colour
\* it has, and at most gave it its new name.
THEOREM ColoursAreClaimedClear ==
  ASSUME RoomyPalette, SingleReads, MaxEdits = 0 PROVE Spec => ClaimsClearColour
<1>1. ASSUME TrackInv, [Next]_vars, NEW q \in Repos,
             NEW pair \in Sharing(q, store'[q]) \ Sharing(q, store[q])
      PROVE  LET l == store'[q][pair[1]]
             IN  \E k \in Present(store[q]) :
                   store[q][k].origin = l.origin /\ store[q][k].color = l.color
  <2>1. store' # store /\ edits' = 0 /\ TypeOK'
    BY <1>1, NextSafe, NoEdits DEF TrackInv, SafeInv
  <2>2. PICK r \in Repos : \E t :
          /\ store' = [store EXCEPT ![r] = t]
          /\ \/ \E i \in DOMAIN Renames : Moves(store[r], i, t)
             \/ \E k \in Keys : Recolours(r, store[r], k, t)
             \/ \E d \in Desired[r] : Settles(r, store[r], d, t)
             \/ \E k \in Keys : Removes(r, store[r], k, t)
    BY <1>1, <2>1, StepOfRuns
  <2>3. PICK t :
          /\ store' = [store EXCEPT ![r] = t]
          /\ \/ \E i \in DOMAIN Renames : Moves(store[r], i, t)
             \/ \E k \in Keys : Recolours(r, store[r], k, t)
             \/ \E d \in Desired[r] : Settles(r, store[r], d, t)
             \/ \E k \in Keys : Removes(r, store[r], k, t)
    BY <2>2
  <2>. DEFINE s == store[r]
              c == pair[1]
              j == pair[2]
  <2>4. s \in Views /\ store'[r] = t /\ q = r
    BY <1>1, <2>3 DEF TrackInv, SafeInv, TypeOK
  <2>5. /\ c \in Configured(r) /\ c \in Keys /\ t[c] # None
        /\ j \in Squatters(r, t) /\ t[c].color = t[j].color
    BY <1>1, <2>4 DEF Sharing, Present
  <2>. SUFFICES \E k \in Present(s) : s[k].origin = t[c].origin /\ s[k].color = t[c].color
    BY <2>4
  <2>6. CASE t[c] = s[c]
    BY <2>5, <2>6 DEF Present
  <2>7. ASSUME NEW i \in DOMAIN Renames, Moves(s, i, t)
        PROVE  \E k \in Present(s) : s[k].origin = t[c].origin /\ s[k].color = t[c].color
    <3>1. From(i) \in Keys /\ To(i) \in Keys /\ From(i) # To(i) /\ From(i) # c
      BY <2>5, RenamesApart
    <3>2. CASE c = To(i)
      <4>1. s[From(i)] \in Label /\ From(i) \in Present(s)
        BY <2>4, <2>7, <3>1 DEF Moves, Views, Present
      <4>2. t[c] = [s[From(i)] EXCEPT !.name = Renames[i].to]
        BY <2>4, <2>7, <3>1, <3>2 DEF Moves, Moved, Views
      <4>3. t[c].origin = s[From(i)].origin /\ t[c].color = s[From(i)].color
        BY <4>1, <4>2 DEF Label
      <4>. QED  BY <4>1, <4>3
    <3>3. CASE c # To(i)
      BY <2>4, <2>5, <2>6, <2>7, <3>1, <3>3 DEF Moves, Views
    <3>. QED  BY <3>2, <3>3
  <2>8. ASSUME NEW k \in Keys, Recolours(r, s, k, t) \/ Removes(r, s, k, t)
        PROVE  t[c] = s[c]
    <3>1. k # c
      BY <2>5, <2>8 DEF Recolours, Removes, Unconfigured
    <3>. QED  BY <2>4, <2>5, <2>8, <3>1 DEF Recolours, Removes, Views
  <2>9. ASSUME NEW d \in Desired[r], Settles(r, s, d, t)
        PROVE  t[c] = s[c]
    <3>1. Lower[d.name] \in Configured(r) /\ Lower[d.name] \in Keys
      BY DesiredFields DEF Configured
    <3>2. j \in Keys \ Configured(r) /\ j # Lower[d.name]
      BY <2>5, <3>1 DEF Squatters, Unconfigured, Present
    <3>3. t[j] = s[j]
      BY <2>4, <2>9, <3>1, <3>2 DEF Settles, Views
    <3>4. s[j].color # d.color
      BY <2>5, <2>9, <3>3 DEF Settles, Squatters, Unconfigured, Present
    <3>5. CASE c = Lower[d.name]
      <4>1. Is(t[c], d)
        BY <2>4, <2>9, <3>5, SettlesSince
      <4>. QED  BY <2>5, <3>3, <3>4, <4>1 DEF Is
    <3>6. CASE c # Lower[d.name]
      BY <2>4, <2>5, <2>9, <3>1, <3>6 DEF Settles, Views
    <3>. QED  BY <3>5, <3>6
  <2>. QED  BY <2>3, <2>6, <2>7, <2>8, <2>9
<1>2. TrackInv /\ [Next]_vars =>
        [edits' = edits =>
           \A r \in Repos : \A s \in Sharing(r, store'[r]) \ Sharing(r, store[r]) :
             LET l == store'[r][s[1]]
             IN  \E k \in Present(store[r]) :
                   store[r][k].origin = l.origin /\ store[r][k].color = l.color]_vars
  BY <1>1
<1>3. Spec => []TrackInv
  BY Tracking
<1>. QED  BY <1>2, <1>3, PTL DEF Spec, ClaimsClearColour
=============================================================================
