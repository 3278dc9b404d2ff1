---------------------------- MODULE LoadedPlans ----------------------------
(***************************************************************************)
(* A configuration that is loaded, and the plans Compute makes from it:    *)
(* Loading composed with Planner through Resolution.Desired.               *)
(***************************************************************************)
EXTENDS Loading

CONSTANTS
  Selecting,   \* the groups whose own selector selects the repository at hand
  Palette      \* the grid palette.Allocate picks from

ASSUME SelectingAssumption == ExportGroup \in Selecting

Plan(Desired, Renames) == INSTANCE Planner

\* Resolution.Desired: the labels that name a group which selects the repository.
DesiredHere ==
  {[name |-> labels[i].name, color |-> labels[i].color, desc |-> labels[i].desc] :
     i \in {j \in DOMAIN labels :
              \E g \in ToSet(labels[j].groups) : ToSet(done[g]) \cap Selecting # {}}}

\* A sync of the repository a file was exported from, with the file as it is,
\* writes nothing, and has nothing to offer for removal either.
ExportPlansNothing ==
  stage = "accepted" /\ ExportIsLoaded =>
    /\ DesiredHere # {}
    /\ \A r \in Repos : \A mode \in {"append", "prune"} :
         LET desired == [q \in Repos |-> DesiredHere]
         IN  \A p \in Plan(desired, renames)!Compute(r, held, mode) : Writes(p) = {}
=============================================================================
