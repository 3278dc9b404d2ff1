---------------------------- MODULE PlannerProofs ---------------------------
(***************************************************************************)
(* Lemmas about the labels of a repository and the writes made to them,    *)
(* and about the plans Compute returns, for any labels and configuration.  *)
(***************************************************************************)
EXTENDS Planner, SequenceTheorems, TLAPS

-----------------------------------------------------------------------------
(***************************************************************************)
(* Labels and the writes made to them.                                     *)
(***************************************************************************)

LEMMA KeyOfName == ASSUME NEW n \in Names PROVE Lower[n] \in Keys
BY DEF Keys

LEMMA ActionFields ==
  ASSUME NEW a \in Action
  PROVE  /\ a \in ActionRecord
         /\ a.kind \in Kinds /\ a.phase \in 1..5 /\ a.pos \in Nat /\ a.name \in Names
         /\ a.newName \in Names \cup {Keep}
         /\ a.color \in Colors \cup {Keep}
         /\ a.desc \in Descs \cup {Keep}
         /\ a.kind = "create" => a.newName = Keep /\ a.color # Keep /\ a.desc # Keep
BY DEF Action, ActionRecord

LEMMA TargetIsKey ==
  ASSUME NEW a \in Action
  PROVE  Target(a) \in Keys /\ Lower[a.name] \in Keys
BY ActionFields, KeyOfName, SentinelAssumption DEF Target, Or

\* A PATCH of a label gives a label.
LEMMA PatchedIsLabel ==
  ASSUME NEW a \in Action, NEW l \in Label
  PROVE  /\ Patched(l, a) \in Label
         /\ Patched(l, a).origin = l.origin
         /\ Patched(l, a).name = Or(a.newName, l.name)
<1>1. Or(a.newName, l.name) \in Names
  BY ActionFields DEF Or, Label
<1>2. Or(a.color, l.color) \in Colors
  BY ActionFields DEF Or, Label
<1>3. Or(a.desc, l.desc) \in Descs
  BY ActionFields DEF Or, Label
<1>. QED  BY <1>1, <1>2, <1>3 DEF Patched, Label

LEMMA CreatedIsLabel ==
  ASSUME NEW a \in Action, a.kind = "create"
  PROVE  Created(a) \in Label /\ Created(a).name = a.name
BY ActionFields DEF Created, Label

\* An accepted write turns a view into a view, and keeps every label under its
\* own key.
LEMMA EffectOnView ==
  ASSUME NEW v \in Views, WellKeyed(v), NEW a \in Action, Answer(v, a) = "ok"
  PROVE  Effect(v, a) \in Views /\ WellKeyed(Effect(v, a))
<1>. DEFINE s == Lower[a.name]
            t == Target(a)
<1>0. s \in Keys /\ t \in Keys /\ a.kind \in Kinds
  BY TargetIsKey, ActionFields
<1>1. CASE a.kind = "create"
  <2>1. Effect(v, a) = [v EXCEPT ![t] = Created(a)]
    BY <1>1 DEF Effect
  <2>2. t = Lower[a.name]
    BY <1>1, ActionFields DEF Target, Or
  <2>. QED  BY <1>0, <1>1, <2>1, <2>2, CreatedIsLabel, SentinelAssumption DEF Views, WellKeyed
<1>2. CASE a.kind = "update"
  <2>1. v[s] # None /\ v[s] \in Label
    BY <1>0, <1>2 DEF Answer, Views
  <2>2. Effect(v, a) = [k \in Keys |-> IF k = t THEN Patched(v[s], a)
                                       ELSE IF k = s THEN None ELSE v[k]]
    BY <1>2 DEF Effect
  <2>3. Patched(v[s], a) \in Label /\ Patched(v[s], a).name = Or(a.newName, v[s].name)
    BY <2>1, PatchedIsLabel
  <2>4. Lower[Or(a.newName, v[s].name)] = t
    BY <1>0, <2>1 DEF Or, Target, WellKeyed
  <2>. QED  BY <1>0, <2>2, <2>3, <2>4 DEF Views, WellKeyed
<1>3. CASE a.kind \notin {"create", "update"}
  <2>1. Effect(v, a) = [v EXCEPT ![s] = None]
    BY <1>3 DEF Effect
  <2>. QED  BY <1>0, <2>1 DEF Views, WellKeyed
<1>. QED  BY <1>1, <1>2, <1>3

LEMMA ServedView ==
  ASSUME NEW v \in Views, WellKeyed(v), NEW a \in Action
  PROVE  Served(v, a) \in Views /\ WellKeyed(Served(v, a))
BY EffectOnView DEF Served

\* A write that is no delete destroys no label.
LEMMA EffectKeepsOrigins ==
  ASSUME NEW v \in Views, NEW a \in Action, a.kind \in {"create", "update"},
         Answer(v, a) = "ok"
  PROVE  Origins(v) \subseteq Origins(Effect(v, a))
<1>. DEFINE s == Lower[a.name]
            t == Target(a)
<1>0. s \in Keys /\ t \in Keys
  BY TargetIsKey
<1>1. CASE a.kind = "create"
  <2>1. Effect(v, a) = [v EXCEPT ![t] = Created(a)] /\ v[t] = None
    BY <1>1 DEF Effect, Answer
  <2>. QED  BY <1>0, <2>1 DEF Origins, Present, Views
<1>2. CASE a.kind = "update"
  <2>1. v[s] # None /\ v[s] \in Label
    BY <1>0, <1>2 DEF Answer, Views
  <2>2. t = s \/ v[t] = None
    BY <1>2 DEF Answer
  <2>3. Effect(v, a) = [k \in Keys |-> IF k = t THEN Patched(v[s], a)
                                       ELSE IF k = s THEN None ELSE v[k]]
    BY <1>2 DEF Effect
  <2>4. Patched(v[s], a) # None /\ Patched(v[s], a).origin = v[s].origin
    BY <2>1, PatchedIsLabel, SentinelAssumption
  <2>5. ASSUME NEW k \in Keys, v[k] # None
        PROVE  \E j \in Keys : Effect(v, a)[j] # None /\ Effect(v, a)[j].origin = v[k].origin
    <3>1. CASE k = s
      BY <1>0, <2>3, <2>4, <3>1
    <3>2. CASE k # s
      BY <2>2, <2>3, <2>5, <3>2
    <3>. QED  BY <3>1, <3>2
  <2>. QED  BY <2>5 DEF Origins, Present
<1>. QED  BY <1>1, <1>2

\* An accepted delete destroys no label but the one it names.
LEMMA DeleteKeepsOthers ==
  ASSUME NEW v \in Views, NEW a \in Action, a.kind \notin {"create", "update"},
         NEW k \in Present(v), k # Lower[a.name]
  PROVE  v[k].origin \in Origins(Effect(v, a))
<1>1. Effect(v, a) = [v EXCEPT ![Lower[a.name]] = None]
  BY DEF Effect
<1>. QED  BY <1>1, TargetIsKey DEF Origins, Present, Views
-----------------------------------------------------------------------------
(***************************************************************************)
(* Plans.                                                                  *)
(***************************************************************************)

LEMMA RenameFields ==
  ASSUME NEW i \in DOMAIN Renames
  PROVE  /\ i \in Nat
         /\ Renames[i].from \in Names /\ Renames[i].to \in Names
         /\ From(i) \in Keys /\ To(i) \in Keys
<1>1. Renames \in Seq([from : Names, to : Names])
  BY RenamesAssumption DEF SimpleRenames
<1>2. i \in Nat /\ Renames[i] \in [from : Names, to : Names]
  <2>1. /\ Len(Renames) \in Nat
        /\ Renames \in [1..Len(Renames) -> [from : Names, to : Names]]
        /\ DOMAIN Renames = 1..Len(Renames)
    BY <1>1, LenProperties, Zenon
  <2>. QED  BY <2>1
<1>. QED  BY <1>2, KeyOfName DEF From, To

\* The renames turn a view into a view, and keep every label under its own key.
LEMMA RenamedView ==
  ASSUME NEW v \in Views, WellKeyed(v)
  PROVE  Renamed(v) \in Views /\ WellKeyed(Renamed(v))
<1>. DEFINE moved == Applicable(v)
            w == Renamed(v)
<1>1. ASSUME NEW k \in Keys
      PROVE  w[k] \in Label \cup {None} /\ (w[k] # None => Lower[w[k].name] = k)
  <2>1. CASE \E i \in moved : To(i) = k
    <3>. DEFINE i == CHOOSE i \in moved : To(i) = k
    <3>1. i \in moved /\ To(i) = k
      BY <2>1
    <3>2. i \in DOMAIN Renames /\ v[From(i)] # None
      BY <3>1 DEF Applicable
    <3>3. v[From(i)] \in Label
      BY <3>2, RenameFields DEF Views
    <3>4. w[k] = [v[From(i)] EXCEPT !.name = Renames[i].to]
      BY <2>1 DEF Renamed
    <3>5. w[k] \in Label /\ w[k].name = Renames[i].to
      BY <3>2, <3>3, <3>4, RenameFields DEF Label
    <3>6. Lower[w[k].name] = k
      BY <3>1, <3>5 DEF To
    <3>. QED  BY <3>5, <3>6
  <2>2. CASE ~ \E i \in moved : To(i) = k
    <3>1. w[k] = None \/ w[k] = v[k]
      BY <2>2 DEF Renamed
    <3>. QED  BY <3>1 DEF Views, WellKeyed
  <2>. QED  BY <2>1, <2>2
<1>2. w = [k \in Keys |-> w[k]]
  BY DEF Renamed
<1>. QED  BY <1>1, <1>2 DEF Views, WellKeyed

\* The fields of a label under its key.
LEMMA PresentFields ==
  ASSUME NEW v \in Views, NEW k \in Present(v)
  PROVE  /\ k \in Keys /\ v[k] \in Label
         /\ v[k].name \in Names /\ v[k].color \in Colors /\ v[k].desc \in Descs
         /\ Rank[v[k].name] \in Nat
BY NamesAssumption DEF Present, Views, Label

LEMMA DesiredFields ==
  ASSUME NEW r \in Repos, NEW d \in Desired[r]
  PROVE  /\ d.name \in Names /\ d.color \in Colors /\ d.desc \in Descs
         /\ Lower[d.name] \in Keys /\ Rank[d.name] \in Nat
<1>1. d \in [name : Names, color : Colors, desc : Descs]
  BY DesiredAssumption DEF Wanted, OneLabelPerKey
<1>. QED  BY <1>1, KeyOfName, NamesAssumption

\* The parts of a plan that no list of labels doubles: actions, and no removals.
LEMMA PartsAreActions ==
  ASSUME NEW r \in Repos, NEW v \in Views, WellKeyed(v), NEW w \in Views, WellKeyed(w),
         NEW a \in RenameActions(v) \cup Creates(r, w) \cup Converge(r, w)
  PROVE  a \in Action /\ a.kind # "delete"
<1>1. CASE a \in RenameActions(v)
  <2>1. PICK i \in Applicable(v) :
          a = [kind |-> "update", phase |-> Renaming, pos |-> i, name |-> v[From(i)].name,
               newName |-> Renames[i].to, color |-> Keep, desc |-> Keep]
    BY <1>1 DEF RenameActions
  <2>2. i \in DOMAIN Renames /\ From(i) \in Present(v)
    BY RenameFields DEF Applicable, Present
  <2>. QED  BY <2>1, <2>2, RenameFields, PresentFields
            DEF Action, ActionRecord, Kinds, Renaming
<1>2. CASE a \in Creates(r, w)
  <2>1. PICK d \in Desired[r] :
          a = [kind |-> "create", phase |-> Creating, pos |-> Rank[d.name], name |-> d.name,
               newName |-> Keep, color |-> d.color, desc |-> d.desc]
    BY <1>2 DEF Creates, Missing
  <2>. QED  BY <2>1, DesiredFields, SentinelAssumption
            DEF Action, ActionRecord, Kinds, Creating
<1>3. CASE a \in Converge(r, w)
  <2>1. PICK d \in Desired[r] :
          a = Update(d, w[Lower[d.name]]) /\ w[Lower[d.name]] # None
    BY <1>3 DEF Converge, Missing
  <2>2. Lower[d.name] \in Present(w)
    BY <2>1, DesiredFields DEF Present
  <2>3. w[Lower[d.name]].name \in Names
    BY <2>2, PresentFields
  <2>4. /\ a.kind \in {"noop", "update"}
        /\ a.newName \in Names \cup {Keep}
        /\ a.color \in Colors \cup {Keep}
        /\ a.desc \in Descs \cup {Keep}
    BY <2>1, DesiredFields DEF Update, Differing
  <2>. QED  BY <2>1, <2>3, <2>4, DesiredFields
            DEF Action, ActionRecord, Kinds, Existing, Update
<1>. QED  BY <1>1, <1>2, <1>3

\* A recolour and a removal of a label that is present are actions.
LEMMA RecolourIsAction ==
  ASSUME NEW w \in Views, NEW k \in Present(w), NEW n \in Nat, NEW c \in Colors
  PROVE  [kind |-> "update", phase |-> Recolouring, pos |-> n, name |-> w[k].name,
          newName |-> Keep, color |-> c, desc |-> Keep] \in Action
BY PresentFields DEF Action, ActionRecord, Kinds, Recolouring

LEMMA RemovalIsAction ==
  ASSUME NEW w \in Views, WellKeyed(w), NEW r \in Repos, NEW k \in Unconfigured(r, w), NEW n \in Nat,
         NEW a, a = [kind |-> "delete", phase |-> Deleting, pos |-> n, name |-> w[k].name,
                     newName |-> Keep, color |-> Keep, desc |-> Keep]
  PROVE  a \in Action /\ Lower[a.name] \notin Configured(r)
<1>1. k \in Present(w) /\ k \notin Configured(r)
  BY DEF Unconfigured
<1>2. Lower[w[k].name] = k
  BY <1>1 DEF WellKeyed, Present
<1>. QED  BY <1>1, <1>2, PresentFields DEF Action, ActionRecord, Kinds, Deleting

\* What Compute returns is a set of actions; it deletes nothing in append mode,
\* and in prune mode only labels the configuration does not know.
LEMMA ComputeActions ==
  ASSUME NEW r \in Repos, NEW v \in Views, WellKeyed(v), NEW mode,
         NEW actions \in Compute(r, v, mode)
  PROVE  /\ actions \subseteq Action
         /\ \A a \in Removals(actions) : mode = "prune" /\ Lower[a.name] \notin Configured(r)
<1>. DEFINE w == Renamed(v)
<1>1. CASE Desired[r] = {}
  BY <1>1 DEF Compute, Removals
<1>2. CASE Desired[r] # {}
  <2>1. PICK f \in Allocations(r, w) :
          actions = RenameActions(v) \cup RecolourSquatters(r, w, f) \cup Creates(r, w)
                      \cup Converge(r, w) \cup (IF mode = "prune" THEN Candidates(r, w) ELSE {})
    BY <1>2 DEF Compute
  <2>2. w \in Views /\ WellKeyed(w)
    BY RenamedView
  <2>3. ASSUME NEW a \in RenameActions(v) \cup Creates(r, w) \cup Converge(r, w)
        PROVE  a \in Action /\ a.kind # "delete"
    BY <2>2, PartsAreActions
  <2>4. ASSUME NEW a \in RecolourSquatters(r, w, f)
        PROVE  a \in Action /\ a.kind # "delete"
    <3>1. PICK k \in Squatters(r, w) :
            a = [kind |-> "update", phase |-> Recolouring, pos |-> Rank[w[k].name],
                 name |-> w[k].name, newName |-> Keep, color |-> f[k], desc |-> Keep]
      BY <2>4 DEF RecolourSquatters
    <3>2. k \in Present(w)
      BY DEF Squatters, Unconfigured
    <3>3. f[k] \in Colors
      BY PaletteAssumption DEF Allocations
    <3>. QED  BY <2>2, <3>1, <3>2, <3>3, PresentFields, RecolourIsAction
  <2>5. ASSUME NEW a \in Candidates(r, w)
        PROVE  a \in Action /\ Lower[a.name] \notin Configured(r)
    <3>1. PICK k \in Unconfigured(r, w) :
            a = [kind |-> "delete", phase |-> Deleting, pos |-> Rank[w[k].name],
                 name |-> w[k].name, newName |-> Keep, color |-> Keep, desc |-> Keep]
      BY <2>5 DEF Candidates
    <3>2. Rank[w[k].name] \in Nat
      BY <2>2, PresentFields DEF Unconfigured
    <3>. QED  BY <2>2, <3>1, <3>2, RemovalIsAction
  <2>. QED  BY <2>1, <2>3, <2>4, <2>5 DEF Removals
<1>. QED  BY <1>1, <1>2

\* The same of the plan for a list that holds some labels two times.
LEMMA ComputeRepeatedActions ==
  ASSUME NEW r \in Repos, NEW v \in Views, WellKeyed(v), NEW twice, NEW mode
  PROVE  /\ ComputeRepeated(r, v, twice, mode) \subseteq Action
         /\ \A a \in Removals(ComputeRepeated(r, v, twice, mode)) :
              mode = "prune" /\ Lower[a.name] \notin Configured(r)
<1>. DEFINE w     == RenamedButTwins(v, twice)
            twins == Twins(v, twice)
<1>1. CASE Desired[r] = {}
  BY <1>1 DEF ComputeRepeated, Removals
<1>2. CASE Desired[r] # {}
  <2>1. ComputeRepeated(r, v, twice, mode)
          = RenameActions(v) \cup CopyRecolours(r, w, twins) \cup Creates(r, w) \cup Converge(r, w)
              \cup (IF mode = "prune" THEN CopyCandidates(r, w, twins) ELSE {})
    BY <1>2 DEF ComputeRepeated
  <2>2. w \in Views /\ WellKeyed(w)
    <3>1. \A k \in Keys : w[k] = v[k] \/ w[k] = Renamed(v)[k]
      BY DEF RenamedButTwins
    <3>2. w = [k \in Keys |-> w[k]]
      BY DEF RenamedButTwins
    <3>. QED  BY <3>1, <3>2, RenamedView DEF Views, WellKeyed
  <2>. HIDE DEF w, twins
  <2>3. ASSUME NEW a \in RenameActions(v) \cup Creates(r, w) \cup Converge(r, w)
        PROVE  a \in Action /\ a.kind # "delete"
    BY <2>2, PartsAreActions
  <2>4. ASSUME NEW ks, NEW c \in Copies(ks, twins), ks \subseteq Present(w)
        PROVE  c[1] \in ks /\ CopyPlace(w, c) \in Nat
    <3>1. c[1] \in ks /\ c[2] \in {0, 1}
      BY DEF Copies
    <3>2. Rank[w[c[1]].name] \in Nat
      BY <2>2, <2>4, <3>1, PresentFields
    <3>. QED  BY <3>1, <3>2 DEF CopyPlace
  <2>5. ASSUME NEW a \in CopyRecolours(r, w, twins)
        PROVE  a \in Action /\ a.kind # "delete"
    <3>1. PICK c \in Copies(Squatters(r, w), twins) :
            a = [kind |-> "update", phase |-> Recolouring, pos |-> CopyPlace(w, c),
                 name |-> w[c[1]].name, newName |-> Keep, color |-> CopyColors(r, w, twins)[c],
                 desc |-> Keep]
      BY <2>5 DEF CopyRecolours, CopyColors
    <3>0. \E used : CopyColors(r, w, twins)[c] = Allocate(used, Reserved(r))
      BY DEF CopyColors
    <3>2. Squatters(r, w) \subseteq Present(w)
      BY DEF Squatters, Unconfigured
    <3>3. c[1] \in Present(w) /\ CopyPlace(w, c) \in Nat
      BY <2>4, <3>2
    <3>4. CopyColors(r, w, twins)[c] \in Colors
      BY <3>0, PaletteAssumption DEF Allocate
    <3>. QED  BY <2>2, <3>1, <3>3, <3>4, RecolourIsAction
  <2>6. ASSUME NEW a \in CopyCandidates(r, w, twins)
        PROVE  a \in Action /\ Lower[a.name] \notin Configured(r)
    <3>1. PICK c \in Copies(Unconfigured(r, w), twins) :
            a = [kind |-> "delete", phase |-> Deleting, pos |-> CopyPlace(w, c),
                 name |-> w[c[1]].name, newName |-> Keep, color |-> Keep, desc |-> Keep]
      BY <2>6 DEF CopyCandidates
    <3>2. Unconfigured(r, w) \subseteq Present(w)
      BY DEF Unconfigured
    <3>3. c[1] \in Unconfigured(r, w) /\ CopyPlace(w, c) \in Nat
      BY <2>4, <3>2
    <3>. QED  BY <2>2, <3>1, <3>3, RemovalIsAction
  <2>. QED  BY <2>1, <2>3, <2>5, <2>6 DEF Removals
<1>. QED  BY <1>1, <1>2

\* A plan for a repository that is as configured, with no rename left to do,
\* sends nothing but removals: running labelsync a second time, whatever the
\* first run had to change, is a no-op in append mode.
THEOREM Idempotent ==
  ASSUME NEW r \in Repos, NEW v \in Views, WellKeyed(v), Conforms(r, v), Applicable(v) = {},
         NEW mode, NEW actions \in Compute(r, v, mode)
  PROVE  /\ \A a \in Writes(actions) : a.kind = "delete"
         /\ mode = "append" => Writes(actions) = {}
<1>1. Renamed(v) = v
  BY DEF Renamed, Views
<1>2. Squatters(r, v) = {} /\ Missing(r, v) = {}
  BY DEF Conforms, Missing
<1>3. \A f : RecolourSquatters(r, v, f) = {}
  BY <1>2 DEF RecolourSquatters
<1>4. RenameActions(v) = {} /\ Creates(r, v) = {}
  BY <1>2 DEF RenameActions, Creates
<1>5. \A a \in Converge(r, v) : a.kind = "noop"
  BY DEF Converge, Update, Conforms
<1>6. CASE Desired[r] = {}
  BY <1>6 DEF Compute, Writes
<1>7. CASE Desired[r] # {}
  <2>1. actions = Converge(r, v) \cup (IF mode = "prune" THEN Candidates(r, v) ELSE {})
    BY <1>1, <1>3, <1>4, <1>7 DEF Compute
  <2>2. \A a \in Candidates(r, v) : a.kind = "delete"
    BY DEF Candidates
  <2>. QED  BY <1>5, <2>1, <2>2 DEF Writes
<1>. QED  BY <1>6, <1>7
=============================================================================
