------------------------------- MODULE MCSync -------------------------------
(***************************************************************************)
(* Small instances of Sync for TLC.  Names: "bug" and "feat" may be        *)
(* configured, "old" is renamed to "bug", "x" and "y" are in nobody's      *)
(* configuration; "Bug" is "bug" in another casing.  Colours: red and blue *)
(* are configured, g1 to g4 are on the palette's grid.                     *)
(***************************************************************************)
EXTENDS Sync

MCNames == {"bug", "Bug", "feat", "old", "x", "y"}

MCLower == [n \in MCNames |-> IF n = "Bug" THEN "bug" ELSE n]

MCRank == [n \in MCNames |->
             CASE n = "Bug" -> 1 [] n = "bug" -> 2 [] n = "feat" -> 3
               [] n = "old" -> 4 [] n = "x" -> 5 [] n = "y" -> 6]

MCColors == {"red", "blue", "g1", "g2", "g3", "g4"}

MCPalette == {"blue", "g1", "g2", "g3", "g4"}

MCRepoRank == [r \in Repos |-> IF r = "A" THEN 1 ELSE 2]

BugAndFeat == {[name |-> "bug",  color |-> "red",  desc |-> "text"],
               [name |-> "feat", color |-> "blue", desc |-> ""]}

OnlyFeat == {[name |-> "feat", color |-> "blue", desc |-> ""]}

\* One repository.
DesiredOne == [r \in Repos |-> BugAndFeat]

\* Two repositories, the second without "bug": there a label renamed to "bug"
\* is as unconfigured as any other.
DesiredTwo == [r \in Repos |-> IF r = "A" THEN BugAndFeat ELSE OnlyFeat]

OldToBug == <<[from |-> "old", to |-> "bug"]>>

Has(k, n, c, d) == [origin |-> k, name |-> n, color |-> c, desc |-> d]

\* What a repository may hold under each key.
Choices(k) ==
  CASE k = "bug"  -> {None, Has("bug", "bug", "red", "text"), Has("bug", "Bug", "g1", "")}
    [] k = "feat" -> {None, Has("feat", "feat", "blue", ""), Has("feat", "feat", "red", "")}
    [] k = "old"  -> {None, Has("old", "old", "red", ""), Has("old", "old", "g1", "text")}
    [] k = "x"    -> {None, Has("x", "x", "red", ""), Has("x", "x", "g1", "text")}
    [] k = "y"    -> {None, Has("y", "y", "red", "")}

ViewsOf(choices(_)) ==
  [bug : choices("bug"), feat : choices("feat"), old : choices("old"),
   x : choices("x"), y : choices("y")]

StoresAll == [Repos -> ViewsOf(Choices)]

\* Fewer: the labels that matter when a repository is unreachable.
FewChoices(k) ==
  CASE k = "feat" -> {None, Has("feat", "feat", "red", "")}
    [] k = "x"    -> {None, Has("x", "x", "g1", "text")}
    [] k = "y"    -> {Has("y", "y", "red", "")}
    [] OTHER      -> Choices(k)

\* Two repositories that start alike.
StoresAlike == {[r \in Repos |-> v] : v \in ViewsOf(FewChoices)}

AllAppend == [p \in Runs |-> "append"]
AllPrune  == [p \in Runs |-> "prune"]
Mixed     == [p \in Runs |-> IF p = "p1" THEN "append" ELSE "prune"]

\* The first page, when it is read twice, holds the rename's source and target.
\* With no more copies than that, the grid has a colour for every squatter.
PageTwice == {{"bug", "old"}}

NoHands == {}

Hand(kind, n, m, c) ==
  [kind |-> kind, phase |-> 1, pos |-> 0, name |-> n, newName |-> m, color |-> c, desc |-> "text"]

\* A person creates the target of the rename, takes a squatter's colour over,
\* renames a label to a configured name, or deletes a label.
Hands == {Hand("create", "bug", Keep, "blue"), Hand("update", "x", Keep, "blue"),
          Hand("update", "y", "feat", "red"), Hand("delete", "x", Keep, Keep),
          Hand("delete", "bug", Keep, Keep)}

\* The theorems about what a plan leaves are for such a palette.
ASSUME PaletteIsRoomy == RoomyPalette
=============================================================================
