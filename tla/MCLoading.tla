----------------------------- MODULE MCLoading -----------------------------
(***************************************************************************)
(* Files to load: every way three groups can include each other and one    *)
(* that is missing; lists of labels and of renames with every rule broken  *)
(* alone and next to others; the files init and export write; and where    *)
(* files may be.  " bug" is "bug" with space around it, "zap" a name of    *)
(* nothing but emoji.                                                      *)
(***************************************************************************)
EXTENDS LoadedPlans

MCGroupNames == {"all", "exported", "missing", "web", "zoo"}

MCAscending == [g \in MCGroupNames |->
                  CASE g = "all" -> 1 [] g = "exported" -> 2 [] g = "missing" -> 3 [] g = "web" -> 4
                    [] OTHER -> 5]

MCNames == {"", " bug", "bug", "Bug", "doc", "old", "Old", "zap"}

MCLower == [n \in MCNames |-> CASE n = "Bug" -> "bug" [] n = "Old" -> "old" [] OTHER -> n]

MCTrim == [n \in MCNames |-> IF n = " bug" THEN "bug" ELSE n]

MCRank == [n \in MCNames |->
             CASE n = "" -> 1 [] n = " bug" -> 2 [] n = "Bug" -> 3 [] n = "Old" -> 4
               [] n = "bug" -> 5 [] n = "doc" -> 6 [] n = "old" -> 7 [] n = "zap" -> 8]

MCSpellings == {"red", "#RED", "blue", "gray", "teapot"}

MCBare == [c \in MCSpellings |-> IF c = "#RED" THEN "red" ELSE c]

Leaf(s) == [sources |-> s, includes |-> <<>>, valid |-> TRUE]

Composite(s, i) == [sources |-> s, includes |-> i, valid |-> TRUE]

Included == {<<x>> : x \in {"all", "web", "zoo", "missing"}}
              \cup {<<x, y>> : x, y \in {"all", "web", "zoo", "missing"}}

Shapes ==
  {Leaf(s) : s \in {{"org"}, {}, {"org", "user"}}}
    \cup {[Leaf({"repos"}) EXCEPT !.valid = FALSE]}
    \cup {Composite({"include_groups"}, i) : i \in Included}
    \cup {Composite({"org", "include_groups"}, <<"all">>)}

Written(versions, sections, defaults, lists, moves) ==
  [version : versions, groups : sections, defaults : defaults, labels : lists, renames : moves,
   notes : {{}}]

Entry(n, c, d, g) == [name |-> n, color |-> c, desc |-> d, groups |-> g]

TwoGroups == [g \in {"all", "web"} |->
                IF g = "web" THEN Leaf({"org"}) ELSE Composite({"include_groups"}, <<"web">>)]

Good == <<Entry("bug", "red", "", <<"all">>), Entry("doc", "blue", "", <<>>)>>

\* Every configuration of three groups.
GroupFiles == Written({1}, [{"all", "web", "zoo"} -> Shapes], {<<>>}, {Good}, {<<>>})

\* Every list of n labels.
Entries ==
  {Entry(n, c, "", <<>>) : n \in {"", " bug", "bug", "Bug", "doc", "zap"},
                           c \in {"red", "#RED", "blue", "teapot"}}
    \cup {Entry("bug", "red", "long", <<"web">>), Entry("old", "blue", "", <<"all">>), Entry("doc", "gray", "", <<"missing">>),
          Entry("old", "gray", "", <<"missing", "web">>), Entry("zap", "teapot", "long", <<>>)}

LabelFiles(n) ==
  Written({1, 2}, {TwoGroups}, {<<>>, <<"all">>, <<"web", "missing">>}, [1..n -> Entries], {<<>>})

\* Every list of n renames.
Moves == [from : {"", "old", "Old", " bug", "zap"}, to : {"", "Bug", "doc", "old"}]

RenameFiles(n) == Written({1}, {TwoGroups}, {<<"all">>}, {Good}, [1..n -> Moves])

Has(k, n, c) == [origin |-> k, name |-> n, color |-> c, desc |-> ""]

HeldUnder(k) ==
  CASE k = "bug" -> {None, Has("bug", "Bug", "red"), Has("bug", "bug", "gray")}
    [] k \in {"doc", "old"} -> {None} \cup {Has(k, k, c) : c \in {"red", "blue", "gray"}}
    [] OTHER -> {None}

Holding(views) ==
  {[k \in Keys |-> IF k \in DOMAIN v THEN v[k] ELSE None] :
     v \in {v \in views : \A k \in DOMAIN v : v[k] \in HeldUnder(k)}}

Unexported == [k \in Keys |-> None]

AllHeld == Holding([{"bug", "doc", "old"} -> UNION {HeldUnder(k) : k \in Keys}])

\* One label, and two of one colour.
FewHeld == Holding([{"bug"} -> {Has("bug", "Bug", "red")}])
             \cup Holding([{"doc", "old"} -> {Has(k, k, "blue") : k \in {"doc", "old"}}])

\* A file in the working directory.
One(files) ==
  [disk : [{<<"working", "yml">>} -> files], explicit : {<<>>}, held : {Unexported}]

MCScaffold ==
  [version |-> 1, defaults |-> <<"all">>, renames |-> <<[from |-> "old", to |-> "bug"]>>, notes |-> {},
   groups |-> [g \in {"all", "web"} |-> Leaf(IF g = "web" THEN {"repos"} ELSE {"org"})],
   labels |-> <<Entry("bug", "#RED", "", <<>>), Entry("doc", "blue", "", <<"web">>)>>]

\* Any files in the places that are searched and one more, and any --config.
Somebodys == Written({1}, {TwoGroups}, {<<"all">>}, {Good}, {<<>>})

Places ==
  [disk : UNION {[D -> Somebodys] : D \in SUBSET Paths}, explicit : Answers, held : FewHeld]

MCSettings ==
  <<One(GroupFiles), One(LabelFiles(0)), One(LabelFiles(1)), One(LabelFiles(2)),
    One(RenameFiles(1)), One(RenameFiles(2)), One(RenameFiles(3)),
    [disk : {<<>>}, explicit : {<<>>}, held : AllHeld], Places>>
=============================================================================
