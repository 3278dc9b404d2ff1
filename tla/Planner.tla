------------------------------ MODULE Planner -------------------------------
(***************************************************************************)
(* plan.Compute (internal/plan/compute.go): the pure function that turns a *)
(* repository's configured labels and its current labels into the ordered  *)
(* actions that converge the second onto the first.                        *)
(*                                                                         *)
(* The renames are those config.Validate accepts (RenamesAssumption): no   *)
(* two share a source or a target and none continues another, so the pass  *)
(* over them in config order and the simultaneous reading below agree.     *)
(***************************************************************************)
EXTENDS Labels

CONSTANTS
  Desired,   \* config.Resolution.Desired: the labels resolved for a repository
  Renames,   \* config.Config.Renames
  Palette    \* the grid palette.Allocate picks from

Configured(r) == {Lower[d.name] : d \in Desired[r]}

Reserved(r) == {d.color : d \in Desired[r]}

ASSUME DesiredAssumption ==
  /\ Desired \in [Repos -> SUBSET Wanted]
  /\ \A r \in Repos : OneLabelPerKey(Desired[r])

ASSUME PaletteAssumption == Palette \subseteq Colors /\ Palette # {}

From(i) == Lower[Renames[i].from]
To(i)   == Lower[Renames[i].to]

ASSUME RenamesAssumption ==
  SimpleRenames(Renames, UNION {Configured(r) : r \in Repos})

-----------------------------------------------------------------------------
\* Mutant: no rename is ever found applicable.
NeverApplicable(v) == {}

\* The renames that can be applied: the source is there, the target is not.
Applicable(v) == {i \in DOMAIN Renames : v[From(i)] # None /\ v[To(i)] = None}

RenameActions(v) ==
  {[kind |-> "update", phase |-> Renaming, pos |-> i, name |-> v[From(i)].name,
    newName |-> Renames[i].to, color |-> Keep, desc |-> Keep] : i \in Applicable(v)}

\* The repository's labels as they will look once the renames have landed.
Renamed(v) ==
  LET moved == Applicable(v)
  IN  [k \in Keys |->
        IF \E i \in moved : To(i) = k
          THEN LET i == CHOOSE i \in moved : To(i) = k
               IN  [v[From(i)] EXCEPT !.name = Renames[i].to]
        ELSE IF \E i \in moved : From(i) = k THEN None
        ELSE v[k]]

-----------------------------------------------------------------------------
\* partition: the labels a repository holds beyond its configured set.
Unconfigured(r, v) == Present(v) \ Configured(r)

Squatters(r, v) == {k \in Unconfigured(r, v) : v[k].color \in Reserved(r)}

Staying(r, v) == Unconfigured(r, v) \ Squatters(r, v)

\* palette.Allocate: a grid colour at the largest distance from all the
\* colours to avoid, so one of them only when the grid has no other left.
Allocate(used, reserved) ==
  IF Palette \ (used \cup reserved) # {}
    THEN CHOOSE c \in Palette \ (used \cup reserved) : TRUE
    ELSE CHOOSE c \in Palette : TRUE

\* The grid has a colour left for label k of repository r, whatever colours the
\* other unconfigured labels have and are given.  An assumption of some theorems
\* only: the code goes on without it, with a colour that is taken.
RoomFor(r, k) ==
  \A others \in [Keys \ (Configured(r) \cup {k}) -> Colors] :
    ~(Palette \subseteq Reserved(r) \cup {others[j] : j \in DOMAIN others})

RoomyPalette == \A r \in Repos : \A k \in Keys \ Configured(r) : RoomFor(r, k)

\* Mutant: an allocation is not fed back into the colours in use.
AllocationsWithoutFeedback(r, v) ==
  {f \in [Squatters(r, v) -> Palette] :
     \A k \in Squatters(r, v) :
       f[k] = Allocate({v[j].color : j \in Staying(r, v)}, Reserved(r))}

\* The colours handed to the squatters of v: in ascending name order, each one
\* avoiding the colours that stay and those handed out before it.
Allocations(r, v) ==
  {f \in [Squatters(r, v) -> Palette] :
     \A k \in Squatters(r, v) :
       LET earlier == {j \in Squatters(r, v) : Rank[v[j].name] < Rank[v[k].name]}
           used    == {v[j].color : j \in Staying(r, v)} \cup {f[j] : j \in earlier}
       IN  f[k] = Allocate(used, Reserved(r))}

\* Mutant: squatters are moved off after the configured labels were written.
RecolourLast(r, v, f) ==
  {[kind |-> "update", phase |-> Deleting, pos |-> Rank[v[k].name], name |-> v[k].name,
    newName |-> Keep, color |-> f[k], desc |-> Keep] : k \in Squatters(r, v)}

RecolourSquatters(r, v, f) ==
  {[kind |-> "update", phase |-> Recolouring, pos |-> Rank[v[k].name], name |-> v[k].name,
    newName |-> Keep, color |-> f[k], desc |-> Keep] : k \in Squatters(r, v)}

-----------------------------------------------------------------------------
Missing(r, v) == {d \in Desired[r] : v[Lower[d.name]] = None}

\* Mutant: a create leaves the description out.
CreatesWithoutDescription(r, v) ==
  {[kind |-> "create", phase |-> Creating, pos |-> Rank[d.name], name |-> d.name,
    newName |-> Keep, color |-> d.color, desc |-> Keep] : d \in Missing(r, v)}

Creates(r, v) ==
  {[kind |-> "create", phase |-> Creating, pos |-> Rank[d.name], name |-> d.name,
    newName |-> Keep, color |-> d.color, desc |-> d.desc] : d \in Missing(r, v)}

\* A field an update sends only when it differs.
Differing(want, have) == IF want = have THEN Keep ELSE want

\* Mutant: labels that differ only in casing are taken for equal.
UpdateIgnoringCase(d, l) ==
  [kind    |-> IF d.color = l.color /\ d.desc = l.desc THEN "noop" ELSE "update",
   phase   |-> Existing,
   pos     |-> Rank[d.name],
   name    |-> l.name,
   newName |-> Keep,
   color   |-> Differing(d.color, l.color),
   desc    |-> Differing(d.desc, l.desc)]

\* Mutant: a configured label without a description keeps the one it has.
UpdateKeepingDescription(d, l) ==
  [kind    |-> IF d.name = l.name /\ d.color = l.color /\ d.desc \in {l.desc, NoDesc}
                 THEN "noop" ELSE "update",
   phase   |-> Existing,
   pos     |-> Rank[d.name],
   name    |-> l.name,
   newName |-> Differing(d.name, l.name),
   color   |-> Differing(d.color, l.color),
   desc    |-> IF d.desc = NoDesc THEN Keep ELSE Differing(d.desc, l.desc)]

\* update: the fields of the held label l that differ from the desired label d,
\* or a no-op when none does.
Update(d, l) ==
  [kind    |-> IF d.name = l.name /\ d.color = l.color /\ d.desc = l.desc
                 THEN "noop" ELSE "update",
   phase   |-> Existing,
   pos     |-> Rank[d.name],
   name    |-> l.name,
   newName |-> Differing(d.name, l.name),
   color   |-> Differing(d.color, l.color),
   desc    |-> Differing(d.desc, l.desc)]

Converge(r, v) ==
  {Update(d, v[Lower[d.name]]) : d \in Desired[r] \ Missing(r, v)}

\* Mutant: a recoloured label is no candidate for removal.
CandidatesButSquatters(r, v) ==
  {[kind |-> "delete", phase |-> Deleting, pos |-> Rank[v[k].name], name |-> v[k].name,
    newName |-> Keep, color |-> Keep, desc |-> Keep] : k \in Staying(r, v)}

\* Mutant: removals go out before the configured labels are written.
CandidatesEarly(r, v) ==
  {[kind |-> "delete", phase |-> Recolouring, pos |-> 10 + Rank[v[k].name], name |-> v[k].name,
    newName |-> Keep, color |-> Keep, desc |-> Keep] : k \in Unconfigured(r, v)}

Candidates(r, v) ==
  {[kind |-> "delete", phase |-> Deleting, pos |-> Rank[v[k].name], name |-> v[k].name,
    newName |-> Keep, color |-> Keep, desc |-> Keep] : k \in Unconfigured(r, v)}

-----------------------------------------------------------------------------
\* Every plan Compute can return for repository r holding the labels v.  There
\* is exactly one: the colours in Allocations are determined.
Compute(r, v, mode) ==
  IF Desired[r] = {} THEN {{}}
  ELSE LET w == Renamed(v)
       IN  {RenameActions(v) \cup RecolourSquatters(r, w, f) \cup Creates(r, w)
              \cup Converge(r, w) \cup (IF mode = "prune" THEN Candidates(r, w) ELSE {})
            : f \in Allocations(r, w)}

-----------------------------------------------------------------------------
(***************************************************************************)
(* A list that holds some labels two times: what ListLabels hands on when  *)
(* it is refused behind the first page and reads that page again.  Compute *)
(* works on the list as it is.  A rename moves the last copy only, the one *)
(* its index keeps; a configured label is looked up by key, its copies     *)
(* being one; any other label is recoloured, and offered for removal, once *)
(* for each copy.                                                          *)
(***************************************************************************)
MovedTwins(v, twice) == {From(i) : i \in Applicable(v)} \cap twice

\* The view once the renames have landed, as Compute sees it: the first copy of
\* a label that a rename moves is still there.
RenamedButTwins(v, twice) ==
  [k \in Keys |-> IF k \in MovedTwins(v, twice) THEN v[k] ELSE Renamed(v)[k]]

\* The labels that are still there two times then.
Twins(v, twice) == (twice \ MovedTwins(v, twice)) \cap Present(v)

\* The copies of the labels ks of the view w: pairs of a key and 0 or 1.
Copies(ks, twins) == {c \in ks \X {0, 1} : c[2] = 1 => c[1] \in twins}

\* The place of a copy in ascending name order, copies of a label side by side.
CopyPlace(w, c) == 2 * Rank[w[c[1]].name] + c[2]

\* The colours handed to the copies of the squatters: in that order, each one
\* avoiding the colours that stay and those handed out before it.
CopyColors(r, w, twins) ==
  LET copies == Copies(Squatters(r, w), twins)
      used[place \in Nat] ==
        IF place = 0 THEN {w[j].color : j \in Staying(r, w)}
        ELSE LET before == used[place - 1]
             IN  before \cup {Allocate(before, Reserved(r)) :
                                c \in {c \in copies : CopyPlace(w, c) = place - 1}}
  IN  [c \in copies |-> Allocate(used[CopyPlace(w, c)], Reserved(r))]

CopyRecolours(r, w, twins) ==
  LET f == CopyColors(r, w, twins)
  IN  {[kind |-> "update", phase |-> Recolouring, pos |-> CopyPlace(w, c), name |-> w[c[1]].name,
        newName |-> Keep, color |-> f[c], desc |-> Keep] : c \in DOMAIN f}

CopyCandidates(r, w, twins) ==
  {[kind |-> "delete", phase |-> Deleting, pos |-> CopyPlace(w, c), name |-> w[c[1]].name,
    newName |-> Keep, color |-> Keep, desc |-> Keep] : c \in Copies(Unconfigured(r, w), twins)}

\* The plan Compute returns when the list holds the labels `twice` two times.
ComputeRepeated(r, v, twice, mode) ==
  IF Desired[r] = {} THEN {}
  ELSE LET w     == RenamedButTwins(v, twice)
           twins == Twins(v, twice)
       IN  RenameActions(v) \cup CopyRecolours(r, w, twins) \cup Creates(r, w)
             \cup Converge(r, w)
             \cup (IF mode = "prune" THEN CopyCandidates(r, w, twins) ELSE {})

-----------------------------------------------------------------------------
\* What Compute is for, said without it: the repository holds every configured
\* label as configured, and nothing else on a colour the configuration owns.
Conforms(r, v) ==
  /\ \A d \in Desired[r] : LET l == v[Lower[d.name]]
                           IN  /\ l # None
                               /\ l.name = d.name /\ l.color = d.color /\ l.desc = d.desc
  /\ Squatters(r, v) = {}
=============================================================================
