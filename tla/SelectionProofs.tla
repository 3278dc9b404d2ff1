-------------------------- MODULE SelectionProofs --------------------------
(***************************************************************************)
(* What holds of Selection for any repositories, selectors and command     *)
(* lines, any pages and limits, and any order of the answers: its types,   *)
(* what a run covers, and by which facts it judges what it covers.         *)
(***************************************************************************)
EXTENDS Selection, FiniteSetTheorems, TLAPS

LEMMA Constants ==
  /\ IsFiniteSet(Repos) /\ Position \in [Repos -> Nat] /\ FirstFacts \in [Repos -> Facts]
  /\ \A r, q \in Repos : Position[r] = Position[q] => r = q
  /\ Selectors \in [DOMAIN Selectors -> Selector]
  /\ \A g \in DOMAIN Resolved : Resolved[g] \in Seq(DOMAIN Selectors)
  /\ \A c \in Commands : c.groups \in Seq(STRING) /\ c.explicit \subseteq Repos
  /\ PerPage \in Nat /\ PerPage > 0 /\ MaxChanges \in Nat /\ MaxLimits \in Nat
BY SelectionAssumption DEF SelectionAssumption, IsInjective

-----------------------------------------------------------------------------
(***************************************************************************)
(* Types.                                                                  *)
(***************************************************************************)

LEMMA ListedTyped ==
  /\ facts \in [Repos -> Facts] => \A r \in Repos : Listed(r) \in Repo
  /\ \A r \in Repos : Named(r) \in Repo
BY DEF Listed, Named, Repo, Facts

LEMMA PlacesTyped ==
  ASSUME opts \in Commands, Range(opts.groups) \subseteq DOMAIN Resolved
  PROVE  /\ Places \subseteq Nat \X Nat
         /\ \A p \in Places : /\ p[1] \in DOMAIN opts.groups
                              /\ p[2] \in DOMAIN Resolved[opts.groups[p[1]]]
                              /\ SelectorAt(p) \in DOMAIN Selectors
<1>1. opts.groups \in Seq(STRING)
  BY Constants
<1>2. ASSUME NEW i \in DOMAIN opts.groups
      PROVE  i \in Nat /\ Resolved[opts.groups[i]] \in Seq(DOMAIN Selectors)
  BY <1>1, Constants DEF Range
<1>3. ASSUME NEW p \in Places
      PROVE  /\ p \in Nat \X Nat /\ p[1] \in DOMAIN opts.groups
             /\ p[2] \in DOMAIN Resolved[opts.groups[p[1]]]
  <2>1. PICK i \in DOMAIN opts.groups : p \in {i} \X DOMAIN Resolved[opts.groups[i]]
    BY DEF Places
  <2> QED
    BY <2>1, <1>2
<1>4. ASSUME NEW p \in Places PROVE SelectorAt(p) \in DOMAIN Selectors
  BY <1>2, <1>3 DEF SelectorAt
<1> QED
  BY <1>3, <1>4

LEMMA InitTyped == Init => TypeOK
<1> SUFFICES ASSUME Init PROVE TypeOK
  OBVIOUS
<1>1. past \in [Repos -> SUBSET Facts]
  BY Constants DEF Init
<1>2. tasks \in [DOMAIN tasks -> Task] /\ desired \in [DOMAIN desired -> (SUBSET DOMAIN LabelGroups) \ {{}}]
      /\ DOMAIN desired = {}
  BY DEF Init
<1> QED
  BY <1>1, <1>2, Constants DEF Init, TypeOK

\* A step that changes one task.
LEMMA TaskTyped ==
  ASSUME TypeOK, NEW i \in DOMAIN tasks, NEW t \in Task, tasks' = [tasks EXCEPT ![i] = t]
  PROVE  tasks' \in [DOMAIN tasks' -> Task]
BY DEF TypeOK

LEMMA StartTyped == ASSUME TypeOK, NEW i \in DOMAIN tasks, Start(i) PROVE TypeOK'
<1> DEFINE s == SelectorOf(i)
<1>1. tasks[i] \in Task /\ s \in Selector
  BY Constants DEF TypeOK, Task, SelectorOf
<1>2. \/ tasks' = [tasks EXCEPT ![i] = [@ EXCEPT !.status = "selected", !.repos = <<{Named(r) : r \in s.named}>>]]
      \/ tasks' = [tasks EXCEPT ![i] = [@ EXCEPT !.status = "listing"]]
  BY DEF Start
<1>3. {Named(r) : r \in s.named} \in SUBSET Repo
  BY <1>1, ListedTyped DEF Selector
<1> DEFINE pages == <<{Named(r) : r \in s.named}>>
<1>6. pages \in Seq(SUBSET Repo)
  BY <1>3
<1> HIDE DEF s, pages
<1>4. \E t \in Task : tasks' = [tasks EXCEPT ![i] = t]
  <2>1. CASE tasks' = [tasks EXCEPT ![i] = [@ EXCEPT !.status = "selected", !.repos = <<{Named(r) : r \in s.named}>>]]
    <3>1. [tasks[i] EXCEPT !.status = "selected", !.repos = pages] \in Task
      BY <1>1, <1>6 DEF Task
    <3> QED
      BY <2>1, <3>1 DEF pages
  <2>2. CASE tasks' = [tasks EXCEPT ![i] = [@ EXCEPT !.status = "listing"]]
    <3>1. [tasks[i] EXCEPT !.status = "listing"] \in Task
      BY <1>1 DEF Task
    <3> QED
      BY <2>2, <3>1
  <2> QED
    BY <1>2, <2>1, <2>2
<1>5. tasks' \in [DOMAIN tasks' -> Task]
  BY <1>4, TaskTyped
<1> QED
  BY <1>5 DEF Start, TypeOK

LEMMA FilteredTyped ==
  ASSUME NEW s, NEW pages \in Seq(SUBSET Repo)
  PROVE  /\ Filtered(s, pages) \in Seq(SUBSET Repo) /\ Len(Filtered(s, pages)) = Len(pages)
         /\ \A n \in 1..Len(pages) : Filtered(s, pages)[n] = {c \in pages[n] : Matches(s, c)}
BY DEF Filtered

LEMMA ListPageTyped == ASSUME TypeOK, NEW i \in DOMAIN tasks, ListPage(i) PROVE TypeOK'
<1> DEFINE s == SelectorOf(i)
           n == PageNumber(tasks[i])
           page == {Listed(r) : r \in Page(s, n)}
           repos == Append(tasks[i].repos, page)
<1>1. tasks[i] \in Task /\ s \in Selector /\ n \in Nat
  BY Constants DEF TypeOK, Task, SelectorOf, PageNumber
<1>2. page \in SUBSET Repo
  BY ListedTyped DEF TypeOK, Page, Visible
<1>3. repos \in Seq(SUBSET Repo)
  BY <1>1, <1>2 DEF Task
<1>4. NextPage(s, n) \in Nat
  BY <1>1 DEF NextPage
<1>5. \/ tasks' = [tasks EXCEPT ![i] = [@ EXCEPT !.page = NextPage(s, n), !.repos = repos]]
      \/ tasks' = [tasks EXCEPT ![i] = [@ EXCEPT !.page = 0, !.repos = Filtered(s, repos), !.status = "selected"]]
  BY DEF ListPage
<1>6. Filtered(s, repos) \in Seq(SUBSET Repo)
  BY <1>3, FilteredTyped
<1> HIDE DEF s, n, repos
<1>7. \E t \in Task : tasks' = [tasks EXCEPT ![i] = t]
  <2>1. CASE tasks' = [tasks EXCEPT ![i] = [@ EXCEPT !.page = NextPage(s, n), !.repos = repos]]
    <3>1. [tasks[i] EXCEPT !.page = NextPage(s, n), !.repos = repos] \in Task
      BY <1>1, <1>3, <1>4 DEF Task
    <3> QED
      BY <2>1, <3>1
  <2>2. CASE tasks' = [tasks EXCEPT ![i] = [@ EXCEPT !.page = 0, !.repos = Filtered(s, repos), !.status = "selected"]]
    <3>1. [tasks[i] EXCEPT !.page = 0, !.repos = Filtered(s, repos), !.status = "selected"] \in Task
      BY <1>1, <1>6 DEF Task
    <3> QED
      BY <2>2, <3>1
  <2> QED
    BY <1>5, <2>1, <2>2
<1>8. tasks' \in [DOMAIN tasks' -> Task]
  BY <1>7, TaskTyped
<1> QED
  BY <1>8 DEF ListPage, TypeOK

LEMMA AnsweredTyped ==
  ASSUME TypeOK, NEW i \in DOMAIN tasks, Limited(i) \/ Inaccessible(i) \/ Fail(i) PROVE TypeOK'
<1>1. tasks[i] \in Task
  BY DEF TypeOK
<1>2. CASE Limited(i)
  <2>1. [tasks[i] EXCEPT !.page = 0] \in Task
    BY <1>1 DEF Task
  <2>2. tasks' = [tasks EXCEPT ![i] = [tasks[i] EXCEPT !.page = 0]]
    BY <1>2 DEF Limited, RefusedPage, TypeOK
  <2>3. tasks' \in [DOMAIN tasks' -> Task]
    BY <2>1, <2>2, TaskTyped
  <2> QED
    BY <1>2, <2>3, Constants DEF Limited, TypeOK
<1>3. CASE Inaccessible(i)
  <2>1. [tasks[i] EXCEPT !.status = "skipped", !.page = 0, !.repos = <<>>] \in Task
    <3>1. <<>> \in Seq(SUBSET Repo)
      OBVIOUS
    <3> QED
      BY <1>1, <3>1 DEF Task
  <2>2. tasks' \in [DOMAIN tasks' -> Task]
    BY <1>3, <2>1, TaskTyped DEF Inaccessible
  <2> QED
    BY <1>3, <2>2 DEF Inaccessible, TypeOK
<1> QED
  BY <1>2, <1>3 DEF Fail, TypeOK

LEMMA CoverTyped == ASSUME TypeOK, Cover PROVE TypeOK'
<1> DEFINE Chosen(r) == CHOOSE c \in Kept : c.repo = r
           R == {c.repo : c \in Kept}
<1>1. desired' = [r \in R |-> Desired(Chosen(r))]
  BY DEF Cover
<1>2. \A r \in R : Chosen(r) \in Kept
  OBVIOUS
<1>3. \A c \in Kept : Desired(c) \in (SUBSET DOMAIN LabelGroups) \ {{}}
  BY DEF Kept, Desired
<1>4. R \subseteq Repos
  BY DEF Kept, TypeOK, Repo
<1> HIDE DEF Chosen, R
<1>5. desired' \in [R -> (SUBSET DOMAIN LabelGroups) \ {{}}] /\ DOMAIN desired' = R
  BY <1>1, <1>2, <1>3
<1> QED
  BY <1>4, <1>5 DEF Cover, TypeOK

LEMMA ChangeTyped == ASSUME TypeOK, NEW r \in Repos, Change(r) PROVE TypeOK'
<1>1. facts' \in [Repos -> Facts]
  <2>1. PICK archived, private \in BOOLEAN :
          facts' = [facts EXCEPT ![r] = [@ EXCEPT !.archived = archived, !.private = private]]
    BY DEF Change
  <2>2. [facts[r] EXCEPT !.archived = archived, !.private = private] \in Facts
    BY DEF TypeOK, Facts
  <2> QED
    BY <2>1, <2>2 DEF TypeOK
<1>2. past' \in [Repos -> SUBSET Facts]
  BY <1>1 DEF Change, TypeOK
<1> QED
  BY <1>1, <1>2, Constants DEF Change, TypeOK

LEMMA StartSelectTyped == ASSUME TypeOK, StartSelect PROVE TypeOK'
<1>1. \A p \in Work : SelectorAt(p) \in DOMAIN Selectors
  BY PlacesTyped DEF StartSelect, TypeOK, Work
<1>2. tasks' \in [Work -> Task] /\ DOMAIN tasks' = Work
  BY <1>1 DEF StartSelect, Task
<1> QED
  BY <1>2 DEF StartSelect, TypeOK

LEMMA NextTyped == TypeOK /\ [Next]_vars => TypeOK'
<1> SUFFICES ASSUME TypeOK, [Next]_vars PROVE TypeOK'
  OBVIOUS
<1>1. CASE TakeExplicit
  <2>1. targets' \subseteq Repo
    BY <1>1, ListedTyped, Constants DEF TakeExplicit, TypeOK
  <2> QED
    BY <1>1, <2>1 DEF TakeExplicit, TypeOK
<1>2. CASE UnknownGroup
  BY <1>2 DEF UnknownGroup, TypeOK
<1>3. CASE Enumerate
  <2>1. Union \subseteq Repo
    BY DEF Union
  <2> QED
    BY <1>3, <2>1 DEF Enumerate, TypeOK
<1>4. CASE UNCHANGED vars
  BY <1>4 DEF vars, TypeOK
<1> QED
  BY <1>1, <1>2, <1>3, <1>4, StartSelectTyped, StartTyped, CoverTyped, ListPageTyped,
     AnsweredTyped, ChangeTyped DEF Next, Proceed, Answered

\* What is listed, selected, covered and desired keeps its type, and no covered
\* repository is without a label.
THEOREM TypeCorrect == Spec => []TypeOK
<1> QED
  BY InitTyped, NextTyped, PTL DEF Spec
-----------------------------------------------------------------------------
(***************************************************************************)
(* What a task holds.  Its pages carry facts that their repositories have  *)
(* had, each repository at most once a page, and what is selected matches  *)
(* (Sound).  As long as nobody changes a repository, they hold what there  *)
(* is to list up to the page that is asked for, or in the end all of it    *)
(* that matches, and nothing else (Whole).  A page that is listed again    *)
(* after a refusal adds nothing new.                                       *)
(***************************************************************************)

Sound(t) ==
  LET s == Selectors[t.selector]
  IN  /\ t.status \in {"waiting", "skipped"} => t.repos = <<>>
      /\ t.status = "waiting" => t.page = 0
      /\ t.status = "listing" => s.kind # "repos"
      /\ t.status = "selected" /\ s.kind = "repos" => t.repos = <<{Named(r) : r \in s.named}>>
      /\ \A n \in DOMAIN t.repos : \A c \in t.repos[n] :
           /\ s.kind # "repos" => c.facts \in past[c.repo]
           /\ t.status = "selected" => Matches(s, c)
           /\ \A d \in t.repos[n] : d.repo = c.repo => d = c

Lists(t, r) == \E n \in DOMAIN t.repos : Listed(r) \in t.repos[n]

Whole(t) ==
  LET s == Selectors[t.selector]
  IN  s.kind # "repos" =>
        /\ \A n \in DOMAIN t.repos : \A c \in t.repos[n] : c = Listed(c.repo) /\ c.repo \in Visible(s)
        /\ t.status = "listing" =>
             \A r \in Visible(s) : Rank(s, r) < (PageNumber(t) - 1) * PerPage => Lists(t, r)
        /\ t.status = "selected" =>
             \A r \in Visible(s) : Matches(s, Listed(r)) => Lists(t, r)

Witnessed == \A r \in Repos : facts[r] \in past[r]

TasksInv ==
  /\ Witnessed
  /\ \A i \in DOMAIN tasks : Sound(tasks[i])
  /\ changes = 0 => \A i \in DOMAIN tasks : Whole(tasks[i])

LEMMA SoundKept ==
  ASSUME NEW t \in Task, Sound(t), \A r \in Repos : past[r] \subseteq past'[r]
  PROVE  Sound(t)'
<1>1. \A n \in DOMAIN t.repos : \A c \in t.repos[n] : c.repo \in Repos
  BY DEF Task, Repo
<1> QED
  BY <1>1 DEF Sound

LEMMA SameFacts ==
  ASSUME UNCHANGED facts
  PROVE  /\ \A s : Visible(s)' = Visible(s)
         /\ \A s, r : Rank(s, r)' = Rank(s, r)
         /\ \A r : Listed(r)' = Listed(r)
<1>1. \A s : Visible(s)' = Visible(s)
  BY DEF Visible
<1>2. \A s, r : Rank(s, r)' = Rank(s, r)
  BY <1>1 DEF Rank
<1> QED
  BY <1>1, <1>2 DEF Listed

LEMMA WholeKept == ASSUME NEW t \in Task, Whole(t), UNCHANGED facts PROVE Whole(t)'
<1>1. \A s : Visible(s)' = Visible(s)
  BY SameFacts
<1>2. \A s, r : Rank(s, r)' = Rank(s, r)
  BY SameFacts
<1>3. \A r : Listed(r)' = Listed(r)
  BY SameFacts
<1> QED
  BY <1>1, <1>2, <1>3 DEF Whole, Lists, PageNumber

\* A step that changes one task and nothing that is known of a repository.
LEMMA TaskKept ==
  ASSUME TypeOK, TasksInv, NEW i \in DOMAIN tasks, NEW u \in Task,
         tasks' = [tasks EXCEPT ![i] = u], UNCHANGED <<facts, past, changes>>,
         Sound(u), changes = 0 => Whole(u)
  PROVE  TasksInv'
<1>1. DOMAIN tasks' = DOMAIN tasks /\ \A j \in DOMAIN tasks : tasks'[j] = IF j = i THEN u ELSE tasks[j]
  BY DEF TypeOK
<1>2. ASSUME NEW j \in DOMAIN tasks PROVE Sound(tasks[j])' /\ (changes = 0 => Whole(tasks[j])')
  <2>1. PICK t \in Task : t = tasks'[j]
    BY <1>1 DEF TypeOK
  <2>2. Sound(t) /\ (changes = 0 => Whole(t))
    BY <1>1, <2>1 DEF TasksInv
  <2>3. Sound(t)' /\ (changes = 0 => Whole(t)')
    BY <2>2, SoundKept, WholeKept
  <2> QED
    BY <2>1, <2>3
<1> QED
  BY <1>1, <1>2 DEF TasksInv, Witnessed

\* A repository is one of those that are listed, so fewer are listed before it.
LEMMA RankBelow ==
  ASSUME NEW s, NEW r \in Visible(s)
  PROVE  /\ Rank(s, r) \in Nat /\ Cardinality(Visible(s)) \in Nat
         /\ Rank(s, r) < Cardinality(Visible(s))
<1> DEFINE Before == {q \in Visible(s) : Position[q] < Position[r]}
<1>1. IsFiniteSet(Visible(s))
  BY Constants, FS_Subset DEF Visible
<1>2. r \in Repos /\ Position[r] \in Nat
  BY Constants DEF Visible
<1>3. Before \subseteq Visible(s) /\ Before # Visible(s)
  BY <1>2
<1>4. IsFiniteSet(Before) /\ Cardinality(Before) <= Cardinality(Visible(s))
      /\ Cardinality(Before) # Cardinality(Visible(s))
  BY <1>1, <1>3, FS_Subset
<1>5. Cardinality(Before) \in Nat /\ Cardinality(Visible(s)) \in Nat
  BY <1>1, <1>4, FS_CardinalityType
<1> QED
  BY <1>4, <1>5 DEF Rank

-----------------------------------------------------------------------------
ListedPage(s, n) == {Listed(r) : r \in Page(s, n)}

\* What is listed of a repository is what it is at the moment, once a page.
LEMMA PageSound ==
  ASSUME TypeOK, Witnessed, NEW s, NEW n \in Nat,
         NEW c \in ListedPage(s, n)
  PROVE  /\ c.facts \in past[c.repo] /\ c = Listed(c.repo) /\ c.repo \in Visible(s)
         /\ \A d \in ListedPage(s, n) : d.repo = c.repo => d = c
<1>1. \A r : Listed(r).repo = r /\ Listed(r).facts = facts[r]
  BY DEF Listed
<1>2. Page(s, n) \subseteq Visible(s) /\ Visible(s) \subseteq Repos
  BY DEF Page, Visible
<1> QED
  BY <1>1, <1>2 DEF Witnessed, ListedPage

\* A task that has got another page, before the filters are applied.
LEMMA AppendedSound ==
  ASSUME TypeOK, Witnessed, NEW t \in Task, t.status = "listing", Sound(t),
         NEW s, s = Selectors[t.selector], NEW n \in Nat,
         NEW repos, repos = Append(t.repos, ListedPage(s, n))
  PROVE  \A m \in DOMAIN repos : \A c \in repos[m] :
           c.facts \in past[c.repo] /\ \A d \in repos[m] : d.repo = c.repo => d = c
<1>1. t.repos \in Seq(SUBSET Repo) /\ s.kind # "repos"
  BY DEF Task, Sound
<1>2. /\ DOMAIN repos = 1..(Len(t.repos) + 1) /\ DOMAIN t.repos = 1..Len(t.repos)
      /\ \A m \in DOMAIN repos : repos[m] = IF m = Len(t.repos) + 1 THEN ListedPage(s, n) ELSE t.repos[m]
  BY <1>1
<1>3. \A c \in ListedPage(s, n) : c.facts \in past[c.repo] /\ \A d \in ListedPage(s, n) : d.repo = c.repo => d = c
  BY PageSound
<1>4. \A m \in DOMAIN t.repos : \A c \in t.repos[m] :
        c.facts \in past[c.repo] /\ \A d \in t.repos[m] : d.repo = c.repo => d = c
  BY <1>1 DEF Sound
<1> QED
  BY <1>1, <1>2, <1>3, <1>4

LEMMA AppendedWhole ==
  ASSUME TypeOK, Witnessed, NEW t \in Task, t.status = "listing", Sound(t), Whole(t),
         NEW s, s = Selectors[t.selector], NEW n \in Nat, n = PageNumber(t),
         NEW repos, repos = Append(t.repos, ListedPage(s, n))
  PROVE  /\ \A m \in DOMAIN repos : \A c \in repos[m] : c = Listed(c.repo) /\ c.repo \in Visible(s)
         /\ \A r \in Visible(s) : Rank(s, r) < n * PerPage => \E m \in DOMAIN repos : Listed(r) \in repos[m]
<1>1. t.repos \in Seq(SUBSET Repo) /\ s.kind # "repos"
  BY DEF Task, Sound
<1>2. /\ DOMAIN repos = 1..(Len(t.repos) + 1) /\ DOMAIN t.repos = 1..Len(t.repos) /\ Len(t.repos) \in Nat
      /\ \A m \in DOMAIN repos : repos[m] = IF m = Len(t.repos) + 1 THEN ListedPage(s, n) ELSE t.repos[m]
  BY <1>1
<1>3. \A c \in ListedPage(s, n) : c = Listed(c.repo) /\ c.repo \in Visible(s)
  BY PageSound
<1>4. \A m \in DOMAIN t.repos : \A c \in t.repos[m] : c = Listed(c.repo) /\ c.repo \in Visible(s)
  BY <1>1 DEF Whole
<1>5. ASSUME NEW r \in Visible(s), Rank(s, r) < n * PerPage
      PROVE  \E m \in DOMAIN repos : Listed(r) \in repos[m]
  <2>1. CASE Rank(s, r) < (n - 1) * PerPage
    <3>1. PICK m \in DOMAIN t.repos : Listed(r) \in t.repos[m]
      BY <1>1, <2>1 DEF Whole, Lists
    <3>2. m \in DOMAIN repos /\ repos[m] = t.repos[m]
      BY <1>2, <3>1
    <3> QED
      BY <3>1, <3>2
  <2>2. CASE ~(Rank(s, r) < (n - 1) * PerPage)
    <3>1. Rank(s, r) \in Nat
      BY RankBelow
    <3>2. (n - 1) * PerPage \in Int
      BY Constants
    <3>3. (n - 1) * PerPage <= Rank(s, r)
      BY <2>2, <3>1, <3>2
    <3>4. Listed(r) \in ListedPage(s, n)
      BY <1>5, <3>3 DEF Page, ListedPage
    <3> QED
      BY <1>2, <3>4
  <2> QED
    BY <2>1, <2>2
<1> QED
  BY <1>2, <1>3, <1>4, <1>5

LEMMA ListPageKeeps == ASSUME TypeOK, TasksInv, NEW i \in DOMAIN tasks, ListPage(i) PROVE TasksInv'
<1>1. PICK t \in Task : t = tasks[i]
  BY DEF TypeOK
<1>2. t.status = "listing" /\ Sound(t) /\ (changes = 0 => Whole(t)) /\ Witnessed
  BY <1>1 DEF ListPage, Listing, TasksInv
<1>3. PICK s : s = Selectors[t.selector]
  OBVIOUS
<1>4. s.kind # "repos" /\ t.repos \in Seq(SUBSET Repo)
  BY <1>2, <1>3 DEF Sound, Task
<1>5. PICK n \in Nat : n = PageNumber(t)
  BY DEF PageNumber, Task
<1>7. PICK repos : repos = Append(t.repos, ListedPage(s, n))
  OBVIOUS
<1>8. \A m \in DOMAIN repos : \A c \in repos[m] :
        c.facts \in past[c.repo] /\ \A d \in repos[m] : d.repo = c.repo => d = c
  BY <1>2, <1>3, <1>5, <1>7, AppendedSound
<1>9. changes = 0 =>
        /\ \A m \in DOMAIN repos : \A c \in repos[m] : c = Listed(c.repo) /\ c.repo \in Visible(s)
        /\ \A r \in Visible(s) : Rank(s, r) < n * PerPage => \E m \in DOMAIN repos : Listed(r) \in repos[m]
  <2> SUFFICES ASSUME changes = 0
               PROVE  /\ \A m \in DOMAIN repos : \A c \in repos[m] : c = Listed(c.repo) /\ c.repo \in Visible(s)
                      /\ \A r \in Visible(s) : Rank(s, r) < n * PerPage =>
                           \E m \in DOMAIN repos : Listed(r) \in repos[m]
    OBVIOUS
  <2>1. Whole(t) /\ Sound(t) /\ Witnessed /\ t.status = "listing"
    BY <1>2
  <2> QED
    BY <2>1, <1>3, <1>5, <1>7, AppendedWhole
<1>10. ListedPage(s, n) \in SUBSET Repo
  BY ListedTyped DEF TypeOK, Page, Visible, ListedPage
<1>11. repos \in Seq(SUBSET Repo)
  BY <1>4, <1>7, <1>10
<1>12. /\ UNCHANGED <<facts, past, changes>>
       /\ \/ /\ NextPage(s, n) # 0
             /\ tasks' = [tasks EXCEPT ![i] = [t EXCEPT !.page = NextPage(s, n), !.repos = repos]]
          \/ /\ NextPage(s, n) = 0
             /\ tasks' = [tasks EXCEPT ![i] =
                  [t EXCEPT !.page = 0, !.repos = Filtered(s, repos), !.status = "selected"]]
  BY <1>1, <1>3, <1>5, <1>7 DEF ListPage, SelectorOf, TypeOK, ListedPage
<1>13. CASE NextPage(s, n) # 0
  <2>1. NextPage(s, n) = n + 1
    BY <1>13 DEF NextPage
  <2>2. PICK u \in Task : u = [t EXCEPT !.page = NextPage(s, n), !.repos = repos]
    <3>1. NextPage(s, n) \in Nat
      BY <2>1
    <3>2. [t EXCEPT !.page = NextPage(s, n), !.repos = repos] \in Task
      BY <1>11, <3>1 DEF Task
    <3> QED
      BY <3>2
  <2>3. u.status = "listing" /\ u.selector = t.selector /\ u.repos = repos /\ PageNumber(u) = n + 1
    BY <1>2, <2>1, <2>2 DEF Task, PageNumber
  <2>4. Sound(u)
    BY <1>3, <1>4, <1>8, <2>3 DEF Sound
  <2>5. (n + 1) - 1 = n
    OBVIOUS
  <2>6. changes = 0 => Whole(u)
    BY <1>3, <1>4, <1>9, <2>3, <2>5 DEF Whole, Lists
  <2> QED
    BY <1>12, <1>13, <2>2, <2>4, <2>6, TaskKept
<1>14. CASE NextPage(s, n) = 0
  <2>1. PICK kept : kept = Filtered(s, repos)
    OBVIOUS
  <2>2. /\ kept \in Seq(SUBSET Repo) /\ DOMAIN kept = DOMAIN repos
        /\ \A m \in DOMAIN repos : kept[m] = {c \in repos[m] : Matches(s, c)}
    BY <1>11, <2>1, FilteredTyped DEF Filtered
  <2>3. PICK u \in Task : u = [t EXCEPT !.page = 0, !.repos = kept, !.status = "selected"]
    BY <2>2 DEF Task
  <2>4. u.status = "selected" /\ u.selector = t.selector /\ u.repos = kept
    BY <2>3 DEF Task
  <2>5. Sound(u)
    BY <1>3, <1>4, <1>8, <2>2, <2>4 DEF Sound
  <2>6. ASSUME changes = 0 PROVE Whole(u)
    <3>1. \A r \in Visible(s) : Rank(s, r) < n * PerPage
      <4>1. ~(n * PerPage < Cardinality(Visible(s)))
        BY <1>14 DEF NextPage
      <4>2. n * PerPage \in Nat
        BY Constants
      <4> QED
        BY <4>1, <4>2, RankBelow
    <3>2. \A r \in Visible(s) : Matches(s, Listed(r)) => \E m \in DOMAIN kept : Listed(r) \in kept[m]
      BY <1>9, <2>2, <2>6, <3>1
    <3> QED
      BY <1>3, <1>9, <2>2, <2>4, <2>6, <3>2 DEF Whole, Lists
  <2> QED
    BY <1>12, <1>14, <2>1, <2>3, <2>5, <2>6, TaskKept
<1> QED
  BY <1>13, <1>14
LEMMA StartKeeps == ASSUME TypeOK, TasksInv, NEW i \in DOMAIN tasks, Start(i) PROVE TasksInv'
<1>1. PICK t \in Task : t = tasks[i]
  BY DEF TypeOK
<1>2. t.status = "waiting" /\ t.repos = <<>> /\ t.page = 0
  BY <1>1 DEF Start, Waiting, TasksInv, Sound
<1>3. PICK s : s = Selectors[t.selector]
  OBVIOUS
<1>4. s \in Selector
  BY <1>3, Constants DEF Task
<1>5. PICK page : page = {Named(r) : r \in s.named}
  OBVIOUS
<1>6. page \in SUBSET Repo
  BY <1>4, <1>5, ListedTyped DEF Selector
<1>7. /\ UNCHANGED <<facts, past, changes>>
      /\ \/ s.kind = "repos" /\ tasks' = [tasks EXCEPT ![i] = [t EXCEPT !.status = "selected", !.repos = <<page>>]]
         \/ s.kind # "repos" /\ tasks' = [tasks EXCEPT ![i] = [t EXCEPT !.status = "listing"]]
  BY <1>1, <1>3, <1>5 DEF Start, SelectorOf, TypeOK
<1>8. CASE s.kind = "repos"
  <2>1. <<page>> \in Seq(SUBSET Repo) /\ DOMAIN <<page>> = {1} /\ <<page>>[1] = page
    BY <1>6
  <2>2. PICK u \in Task : u = [t EXCEPT !.status = "selected", !.repos = <<page>>]
    BY <2>1 DEF Task
  <2>3. u.status = "selected" /\ u.selector = t.selector /\ u.repos = <<page>>
    BY <2>2 DEF Task
  <2>4. \A c \in page : c.repo \in s.named /\ \A d \in page : d.repo = c.repo => d = c
    <3>1. \A r : Named(r).repo = r
      BY DEF Named
    <3> QED
      BY <1>5, <3>1
  <2>5. \A c \in page : Matches(s, c)
    BY <1>8, <2>4 DEF Matches
  <2>6. \A n \in DOMAIN u.repos : u.repos[n] = page
    BY <2>1, <2>3
  <2>7. u.repos = <<{Named(r) : r \in s.named}>>
    BY <1>5, <2>3
  <2>8. Sound(u)
    BY <1>3, <1>8, <2>3, <2>4, <2>5, <2>6, <2>7 DEF Sound
  <2>9. Whole(u)
    BY <1>3, <1>8, <2>3 DEF Whole
  <2> QED
    BY <1>7, <1>8, <2>2, <2>8, <2>9, TaskKept
<1>9. CASE s.kind # "repos"
  <2>1. PICK u \in Task : u = [t EXCEPT !.status = "listing"]
    BY DEF Task
  <2>2. u.status = "listing" /\ u.selector = t.selector /\ u.repos = <<>> /\ PageNumber(u) = 1
    BY <1>2, <2>1 DEF Task, PageNumber
  <2>3. Sound(u)
    BY <1>3, <1>9, <2>2 DEF Sound
  <2>4. \A r \in Visible(s) : ~(Rank(s, r) < (1 - 1) * PerPage)
    BY RankBelow, Constants
  <2>5. Whole(u)
    BY <1>3, <2>2, <2>4 DEF Whole
  <2> QED
    BY <1>7, <1>9, <2>1, <2>3, <2>5, TaskKept
<1> QED
  BY <1>8, <1>9

\* The cursor is back at the first page: what was listed stays listed.
LEMMA LimitedKeeps == ASSUME TypeOK, TasksInv, NEW i \in DOMAIN tasks, Limited(i) PROVE TasksInv'
<1>1. PICK t \in Task : t = tasks[i]
  BY DEF TypeOK
<1>2. t.status = "listing" /\ Sound(t) /\ (changes = 0 => Whole(t))
  BY <1>1 DEF Limited, Listing, TasksInv
<1>3. tasks' = [tasks EXCEPT ![i] = [t EXCEPT !.page = 0]] /\ UNCHANGED <<facts, past, changes>>
  BY <1>1 DEF Limited, RefusedPage, TypeOK
<1>4. PICK u \in Task : u = [t EXCEPT !.page = 0]
  BY DEF Task
<1>5. u.status = t.status /\ u.selector = t.selector /\ u.repos = t.repos /\ PageNumber(u) = 1
  BY <1>4 DEF Task, PageNumber
<1>6. Sound(u)
  BY <1>2, <1>5 DEF Sound
<1>7. ASSUME changes = 0 PROVE Whole(u)
  <2>1. \A s : \A r \in Visible(s) : ~(Rank(s, r) < (1 - 1) * PerPage)
    BY RankBelow, Constants
  <2> QED
    BY <1>2, <1>5, <1>7, <2>1 DEF Whole
<1> QED
  BY <1>3, <1>4, <1>6, <1>7, TaskKept

LEMMA InaccessibleKeeps ==
  ASSUME TypeOK, TasksInv, NEW i \in DOMAIN tasks, Inaccessible(i) PROVE TasksInv'
<1>1. PICK t \in Task : t = tasks[i]
  BY DEF TypeOK
<1>2. /\ tasks' = [tasks EXCEPT ![i] = [t EXCEPT !.status = "skipped", !.page = 0, !.repos = <<>>]]
      /\ UNCHANGED <<facts, past, changes>>
  BY <1>1 DEF Inaccessible
<1>3. PICK u \in Task : u = [t EXCEPT !.status = "skipped", !.page = 0, !.repos = <<>>]
  <2>1. <<>> \in Seq(SUBSET Repo)
    OBVIOUS
  <2>2. [t EXCEPT !.status = "skipped", !.page = 0, !.repos = <<>>] \in Task
    BY <2>1 DEF Task
  <2> QED
    BY <2>2
<1>4. u.status = "skipped" /\ u.repos = <<>>
  BY <1>3 DEF Task
<1>5. Sound(u) /\ Whole(u)
  BY <1>4 DEF Sound, Whole
<1> QED
  BY <1>2, <1>3, <1>5, TaskKept

LEMMA ChangeKeeps == ASSUME TypeOK, TasksInv, NEW r \in Repos, Change(r) PROVE TasksInv'
<1>1. UNCHANGED tasks /\ changes' # 0
  BY DEF Change, TypeOK
<1>2. \A q \in Repos : past[q] \subseteq past'[q]
  BY DEF Change, TypeOK
<1>3. Witnessed'
  BY <1>2 DEF Change, TypeOK, TasksInv, Witnessed
<1>4. ASSUME NEW i \in DOMAIN tasks PROVE Sound(tasks[i])'
  <2>1. PICK t \in Task : t = tasks[i]
    BY DEF TypeOK
  <2>2. Sound(t)'
    BY <1>2, <2>1, SoundKept DEF TasksInv
  <2> QED
    BY <1>1, <2>1, <2>2
<1> QED
  BY <1>1, <1>3, <1>4 DEF TasksInv

\* No step of the others touches a task once it is there, nor a repository.
LEMMA RestKeeps ==
  ASSUME TypeOK, TasksInv, UNCHANGED <<facts, past, changes, tasks>> PROVE TasksInv'
<1>1. ASSUME NEW i \in DOMAIN tasks PROVE Sound(tasks[i])' /\ (changes = 0 => Whole(tasks[i])')
  <2>1. PICK t \in Task : t = tasks[i]
    BY DEF TypeOK
  <2>2. Sound(t)' /\ (changes = 0 => Whole(t)')
    BY <2>1, SoundKept, WholeKept DEF TasksInv
  <2> QED
    BY <2>1, <2>2
<1> QED
  BY <1>1 DEF TasksInv, Witnessed

LEMMA StartSelectKeeps == ASSUME TypeOK, TasksInv, StartSelect PROVE TasksInv'
<1>1. /\ UNCHANGED <<facts, past, changes>> /\ DOMAIN tasks' = Work
      /\ \A p \in Work : /\ tasks'[p].status = "waiting" /\ tasks'[p].repos = <<>>
                         /\ tasks'[p].page = 0
  BY DEF StartSelect
<1>2. \A p \in Work : Sound(tasks[p])' /\ Whole(tasks[p])'
  BY <1>1 DEF Sound, Whole
<1> QED
  BY <1>1, <1>2 DEF TasksInv, Witnessed

LEMMA TasksInvKept == TypeOK /\ TasksInv /\ [Next]_vars => TasksInv'
<1> SUFFICES ASSUME TypeOK, TasksInv, [Next]_vars PROVE TasksInv'
  OBVIOUS
<1>1. CASE TakeExplicit \/ UnknownGroup \/ Enumerate \/ Cover \/ UNCHANGED vars
  BY <1>1, RestKeeps DEF TakeExplicit, UnknownGroup, Enumerate, Cover, vars
<1>2. ASSUME NEW i \in DOMAIN tasks, Fail(i) PROVE TasksInv'
  BY <1>2, RestKeeps DEF Fail
<1> QED
  BY <1>1, <1>2, StartSelectKeeps, StartKeeps, ListPageKeeps, LimitedKeeps, InaccessibleKeeps,
     ChangeKeeps DEF Next, Proceed, Answered

-----------------------------------------------------------------------------
(***************************************************************************)
(* How far the run is, and what the targets and the labels are made of.    *)
(***************************************************************************)

Covering == [r \in {c.repo : c \in Kept} |-> Desired(CHOOSE c \in Kept : c.repo = r)]

Ended(t) == t.status \in {"selected", "skipped"}

RunInv ==
  /\ opts.explicit # {} => phase \in {"starting", "targets", "covered"}
  /\ opts.explicit = {} /\ phase \in {"listing", "targets", "covered"} =>
       /\ Range(opts.groups) \subseteq DOMAIN Resolved
       /\ DOMAIN tasks = Work /\ \A p \in Work : tasks[p].selector = SelectorAt(p)
  /\ opts.explicit = {} /\ phase \in {"targets", "covered"} =>
       targets = Union /\ \A i \in DOMAIN tasks : Ended(tasks[i])
  /\ opts.explicit # {} /\ phase \in {"targets", "covered"} =>
       targets = {Named(r) : r \in opts.explicit}
  /\ phase = "covered" => desired = Covering
  /\ phase # "covered" => desired = <<>>

LEMMA WorkKept == ASSUME UNCHANGED opts PROVE Work' = Work /\ \A p : SelectorAt(p)' = SelectorAt(p)
BY DEF Work, Places, SelectorAt

\* A step of a task while the run is listing.
LEMMA ListingKeeps ==
  ASSUME TypeOK, RunInv, NEW i \in DOMAIN tasks,
         Start(i) \/ ListPage(i) \/ Limited(i) \/ Inaccessible(i) \/ Fail(i)
  PROVE  RunInv'
<1>1. phase = "listing" /\ phase' \in {"listing", "failed"} /\ UNCHANGED <<opts, desired>>
  BY DEF Start, ListPage, Limited, Inaccessible, Fail
<1>2. DOMAIN tasks' = DOMAIN tasks /\ \A p \in DOMAIN tasks : tasks'[p].selector = tasks[p].selector
  <2>1. PICK t \in Task : t = tasks[i]
    BY DEF TypeOK
  <2>2. CASE UNCHANGED tasks
    BY <2>2
  <2>3. CASE Start(i)
    <3>1. PICK pages :
            \/ tasks' = [tasks EXCEPT ![i] = [t EXCEPT !.status = "selected", !.repos = pages]]
            \/ tasks' = [tasks EXCEPT ![i] = [t EXCEPT !.status = "listing"]]
      BY <2>1, <2>3 DEF Start
    <3>2. CASE tasks' = [tasks EXCEPT ![i] = [t EXCEPT !.status = "selected", !.repos = pages]]
      BY <2>1, <3>2 DEF Task, TypeOK
    <3>3. CASE tasks' = [tasks EXCEPT ![i] = [t EXCEPT !.status = "listing"]]
      BY <2>1, <3>3 DEF Task, TypeOK
    <3> QED
      BY <3>1, <3>2, <3>3
  <2>4. CASE ListPage(i)
    <3>1. PICK page, pages :
            \/ tasks' = [tasks EXCEPT ![i] = [t EXCEPT !.page = page, !.repos = pages]]
            \/ tasks' = [tasks EXCEPT ![i] = [t EXCEPT !.page = 0, !.repos = pages, !.status = "selected"]]
      BY <2>1, <2>4 DEF ListPage
    <3>2. CASE tasks' = [tasks EXCEPT ![i] = [t EXCEPT !.page = page, !.repos = pages]]
      BY <2>1, <3>2 DEF Task, TypeOK
    <3>3. CASE tasks' = [tasks EXCEPT ![i] = [t EXCEPT !.page = 0, !.repos = pages, !.status = "selected"]]
      BY <2>1, <3>3 DEF Task, TypeOK
    <3> QED
      BY <3>1, <3>2, <3>3
  <2>5. CASE Limited(i)
    <3>1. tasks' = [tasks EXCEPT ![i] = [t EXCEPT !.page = 0]]
      BY <2>1, <2>5 DEF Limited, RefusedPage, TypeOK
    <3> QED
      BY <2>1, <3>1 DEF Task, TypeOK
  <2>6. CASE Inaccessible(i)
    <3>1. tasks' = [tasks EXCEPT ![i] = [t EXCEPT !.status = "skipped", !.page = 0, !.repos = <<>>]]
      BY <2>1, <2>6 DEF Inaccessible
    <3> QED
      BY <2>1, <3>1 DEF Task, TypeOK
  <2> QED
    BY <2>2, <2>3, <2>4, <2>5, <2>6 DEF Fail
<1>3. Work' = Work /\ \A p : SelectorAt(p)' = SelectorAt(p)
  BY <1>1, WorkKept
<1> QED
  BY <1>1, <1>2, <1>3 DEF RunInv

LEMMA UnionKept == ASSUME UNCHANGED tasks PROVE Union' = Union
BY DEF Union, Unseen, Holds

LEMMA CoveringKept == ASSUME UNCHANGED targets PROVE Covering' = Covering
BY DEF Covering, Kept, Desired, GroupsOf

LEMMA RunInvKept == TypeOK /\ RunInv /\ [Next]_vars => RunInv'
<1> SUFFICES ASSUME TypeOK, RunInv, [Next]_vars PROVE RunInv'
  OBVIOUS
<1>1. CASE TakeExplicit \/ UnknownGroup
  BY <1>1 DEF TakeExplicit, UnknownGroup, RunInv
<1>2. CASE StartSelect
  <2>1. /\ UNCHANGED <<opts, desired>> /\ opts.explicit = {} /\ phase = "starting" /\ phase' = "listing"
        /\ Range(opts.groups) \subseteq DOMAIN Resolved
        /\ DOMAIN tasks' = Work /\ \A p \in Work : tasks'[p].selector = SelectorAt(p)
    BY <1>2 DEF StartSelect
  <2>2. Work' = Work /\ \A p : SelectorAt(p)' = SelectorAt(p)
    BY <2>1, WorkKept
  <2> QED
    BY <2>1, <2>2 DEF RunInv
<1>3. CASE Enumerate
  <2>1. /\ UNCHANGED <<opts, desired, tasks>> /\ phase = "listing" /\ phase' = "targets" /\ targets' = Union
        /\ Waiting = {} /\ Listing = {}
    BY <1>3 DEF Enumerate
  <2>2. Work' = Work /\ \A p : SelectorAt(p)' = SelectorAt(p)
    BY <2>1, WorkKept
  <2>3. Union' = Union
    BY <2>1, UnionKept
  <2>4. \A i \in DOMAIN tasks : Ended(tasks[i])
    BY <2>1 DEF Waiting, Listing, Ended, TypeOK, Task
  <2> QED
    BY <2>1, <2>2, <2>3, <2>4 DEF RunInv, Ended
<1>4. CASE Cover \/ UNCHANGED vars \/ \E r \in Repos : Change(r)
  <2>1. UNCHANGED <<opts, tasks, targets>>
    BY <1>4 DEF Cover, vars, Change
  <2>2. Work' = Work /\ \A p : SelectorAt(p)' = SelectorAt(p)
    BY <2>1, WorkKept
  <2>3. Union' = Union /\ Covering' = Covering
    BY <2>1, UnionKept, CoveringKept
  <2>4. \/ UNCHANGED <<phase, desired>>
        \/ phase = "targets" /\ phase' = "covered" /\ desired' = Covering
    BY <1>4 DEF Cover, vars, Change, Covering
  <2> QED
    BY <2>1, <2>2, <2>3, <2>4 DEF RunInv, Ended
<1> QED
  BY <1>1, <1>2, <1>3, <1>4, ListingKeeps DEF Next, Proceed, Answered
-----------------------------------------------------------------------------
(***************************************************************************)
(* The theorems about what a run covers.                                   *)
(***************************************************************************)

LEMMA RunsGoWell == Spec => [](TasksInv /\ RunInv)
<1>1. Init => TasksInv /\ RunInv
  <2> SUFFICES ASSUME Init PROVE TasksInv /\ RunInv
    OBVIOUS
  <2>1. DOMAIN tasks = {}
    BY DEF Init
  <2> QED
    BY <2>1, Constants DEF Init, TasksInv, RunInv, Witnessed
<1> QED
  BY <1>1, TypeCorrect, TasksInvKept, RunInvKept, PTL DEF Spec

\* The facts a label is given by: those of the record that is kept.
LEMMA CoveredBy ==
  ASSUME RunInv, phase = "covered", NEW r \in DOMAIN desired
  PROVE  \E c \in targets : c.repo = r /\ desired[r] = Desired(c)
<1>1. desired = Covering
  BY DEF RunInv
<1>2. r \in {c.repo : c \in Kept} /\ desired[r] = Desired(CHOOSE c \in Kept : c.repo = r)
  BY <1>1 DEF Covering
<1>3. PICK c : c = CHOOSE d \in Kept : d.repo = r
  OBVIOUS
<1>4. c \in Kept /\ c.repo = r
  BY <1>2, <1>3
<1> QED
  BY <1>2, <1>3, <1>4 DEF Kept

\* Where a target was selected.
LEMMA TargetSelected ==
  ASSUME TypeOK, TasksInv, RunInv, phase \in {"targets", "covered"}, opts.explicit = {},
         NEW c \in targets
  PROVE  \E i \in DOMAIN tasks : \E n \in DOMAIN tasks[i].repos :
           /\ c \in tasks[i].repos[n] /\ Unseen(i, n, c.repo) /\ tasks[i].status = "selected"
<1>1. PICK i \in DOMAIN tasks : \E n \in DOMAIN tasks[i].repos :
        c \in tasks[i].repos[n] /\ Unseen(i, n, c.repo)
  BY DEF RunInv, Union
<1>2. PICK n \in DOMAIN tasks[i].repos : c \in tasks[i].repos[n] /\ Unseen(i, n, c.repo)
  BY <1>1
<1>3. tasks[i].status # "skipped"
  BY <1>2 DEF TasksInv, Sound
<1>4. tasks[i].status = "selected"
  BY <1>3 DEF RunInv, Ended
<1> QED
  BY <1>2, <1>4

\* The labels of a repository that was listed are those the configuration gives
\* it in one state it has been in, however the listings and the changes met.
THEOREM JudgementsAreSeen == Spec => []JudgedAsSeen
<1>1. TypeOK /\ TasksInv /\ RunInv => JudgedAsSeen
  <2> SUFFICES ASSUME TypeOK, TasksInv, RunInv, phase = "covered", NEW r \in DOMAIN desired,
                      opts.explicit = {}, ~IsNamed(r)
               PROVE  \E f \in past[r] : desired[r] = Desired([repo |-> r, facts |-> f])
    BY DEF JudgedAsSeen
  <2>1. PICK c \in targets : c.repo = r /\ desired[r] = Desired(c)
    BY CoveredBy
  <2>2. PICK i \in DOMAIN tasks : \E n \in DOMAIN tasks[i].repos :
          c \in tasks[i].repos[n] /\ tasks[i].status = "selected"
    BY TargetSelected
  <2>3. PICK n \in DOMAIN tasks[i].repos : c \in tasks[i].repos[n] /\ tasks[i].status = "selected"
    BY <2>2
  <2>4. Sound(tasks[i]) /\ c \in Repo
    BY DEF TasksInv, TypeOK
  <2>5. CASE SelectorOf(i).kind = "repos"
    <3>1. Matches(SelectorOf(i), c)
      BY <2>3, <2>4 DEF Sound, SelectorOf
    <3>2. IsNamed(r)
      BY <2>1, <2>5, <3>1 DEF Matches, IsNamed
    <3> QED
      BY <3>2
  <2>6. CASE SelectorOf(i).kind # "repos"
    <3>1. c.facts \in past[r]
      BY <2>1, <2>3, <2>4, <2>6 DEF Sound, SelectorOf
    <3>2. c = [repo |-> r, facts |-> c.facts]
      BY <2>1, <2>4 DEF Repo
    <3> QED
      BY <2>1, <3>1, <3>2
  <2> QED
    BY <2>5, <2>6
<1> QED
  BY <1>1, TypeCorrect, RunsGoWell, PTL

\* What a selector matches, it selects.
LEMMA MatchedIsSelected ==
  ASSUME NEW s \in Selector, NEW c \in Repo, Matches(s, c)
  PROVE  Selects(s, c.repo, c.facts)
<1>1. CASE s.kind = "repos"
  BY <1>1 DEF Matches, Selects
<1>2. CASE s.kind # "repos"
  <2>1. s.visibility \in {"all", "public", "private"} /\ c.facts.private \in BOOLEAN
    BY DEF Selector, Repo, Facts
  <2>2. s.visibility \in {"all", IF c.facts.private THEN "private" ELSE "public"}
    BY <1>2, <2>1 DEF Matches
  <2>3. s.owner = Owner[c.repo] /\ c.repo \in s.include \ s.exclude
    BY <1>2 DEF Matches
  <2>4. (c.facts.archived => ~s.skipArchived) /\ (c.facts.fork => ~s.skipForks)
    BY <1>2 DEF Matches
  <2> QED
    BY <1>2, <2>2, <2>3, <2>4 DEF Selects
<1> QED
  BY <1>1, <1>2

\* The attributes of a target are those of a state it has been in, or, when it was
\* named, those that nobody asked for.
LEMMA TargetJudgeable ==
  ASSUME TypeOK, TasksInv, RunInv, phase = "covered", NEW c \in targets
  PROVE  c.facts \in Judgeable(c.repo)
<1>1. CASE opts.explicit # {}
  <2>1. PICK r \in opts.explicit : c = Named(r)
    BY <1>1 DEF RunInv
  <2>2. c.repo = r
    BY <2>1 DEF Named
  <2> QED
    BY <2>1, <2>2 DEF Judgeable
<1>2. CASE opts.explicit = {}
  <2>1. PICK i \in DOMAIN tasks : \E n \in DOMAIN tasks[i].repos :
          c \in tasks[i].repos[n] /\ tasks[i].status = "selected"
    BY <1>2, TargetSelected
  <2>2. PICK n \in DOMAIN tasks[i].repos : c \in tasks[i].repos[n] /\ tasks[i].status = "selected"
    BY <2>1
  <2>3. Sound(tasks[i])
    BY DEF TasksInv
  <2>4. CASE SelectorOf(i).kind = "repos"
    <3>1. PICK named : named = SelectorOf(i).named
      OBVIOUS
    <3>2. tasks[i].repos = <<{Named(r) : r \in named}>>
      BY <2>2, <2>3, <2>4, <3>1 DEF Sound, SelectorOf
    <3>3. c \in {Named(r) : r \in named}
      BY <2>2, <3>2
    <3>4. PICK r \in named : c = Named(r)
      BY <3>3
    <3>5. c.repo = r
      BY <3>4 DEF Named
    <3>6. IsNamed(c.repo)
      BY <3>1, <3>5 DEF IsNamed
    <3> QED
      BY <3>4, <3>5, <3>6 DEF Judgeable
  <2>5. CASE SelectorOf(i).kind # "repos"
    BY <1>2, <2>2, <2>3, <2>5 DEF Sound, SelectorOf, Judgeable
  <2> QED
    BY <2>4, <2>5
<1> QED
  BY <1>1, <1>2

\* No run gives a repository a label of groups that do not select it, with --repo
\* or without, all of its labels judged by the same attributes.
THEOREM LabelsAreAskedFor == Spec => []UncoveredIsLeftAlone
<1>1. TypeOK /\ TasksInv /\ RunInv => UncoveredIsLeftAlone
  <2> SUFFICES ASSUME TypeOK, TasksInv, RunInv, NEW r \in DOMAIN desired
               PROVE  \E f \in Judgeable(r) : \A l \in desired[r] :
                        \E g \in LabelGroups[l] : \E name \in Range(Resolved[g]) :
                          Selects(Selectors[name], r, f)
    BY DEF UncoveredIsLeftAlone
  <2>1. phase = "covered"
    BY DEF RunInv
  <2>2. PICK c \in targets : c.repo = r /\ desired[r] = Desired(c)
    BY <2>1, CoveredBy
  <2>3. c \in Repo /\ c.facts \in Judgeable(r)
    BY <2>1, <2>2, TargetJudgeable DEF TypeOK
  <2>4. ASSUME NEW l \in desired[r]
        PROVE  \E g \in LabelGroups[l] : \E name \in Range(Resolved[g]) :
                 Selects(Selectors[name], r, c.facts)
    <3>1. PICK g \in LabelGroups[l] : g \in GroupsOf(c)
      BY <2>2 DEF Desired
    <3>2. PICK k \in DOMAIN Resolved[g] : Matches(Selectors[Resolved[g][k]], c)
      BY <3>1 DEF GroupsOf
    <3>3. g \in DOMAIN Resolved /\ Resolved[g] \in Seq(DOMAIN Selectors)
      BY <3>1, Constants DEF GroupsOf
    <3>4. PICK name \in DOMAIN Selectors : name = Resolved[g][k] /\ name \in Range(Resolved[g])
      BY <3>2, <3>3 DEF Range
    <3>5. Selectors[name] \in Selector
      BY Constants
    <3> QED
      BY <2>2, <2>3, <3>2, <3>4, <3>5, MatchedIsSelected
  <2> QED
    BY <2>3, <2>4
<1> QED
  BY <1>1, TypeCorrect, RunsGoWell, PTL
-----------------------------------------------------------------------------
(***************************************************************************)
(* What is covered, exactly.  Every selector has a first place among those *)
(* of the requested groups, and every selected repository a first page     *)
(* that holds it.  Both rest on the least element of a set of numbers,     *)
(* which the finite initial segments of the numbers give.                  *)
(***************************************************************************)

LEMMA LeastElement ==
  ASSUME NEW T \in SUBSET Nat, T # {}
  PROVE  \E x \in T : \A y \in T : x <= y
<1>1. PICK z \in T : TRUE
  OBVIOUS
<1> DEFINE Segments == {0..x : x \in {y \in T : y <= z}}
           Smaller == StrictSubsetOrdering(Nat)
<1>2. Segments \subseteq FiniteSubsetsOf(Nat) /\ Segments # {}
  <2>1. ASSUME NEW s \in Segments PROVE s \in FiniteSubsetsOf(Nat)
    <3>1. PICK x \in Nat : s = 0..x
      OBVIOUS
    <3>2. IsFiniteSet(0..x) /\ 0..x \in SUBSET Nat
      BY FS_Interval
    <3> HIDE DEF Segments
    <3> QED
      BY <3>1, <3>2 DEF FiniteSubsetsOf
  <2>2. 0..z \in Segments
    <3>1. z \in Nat /\ z <= z
      OBVIOUS
    <3>2. z \in {y \in T : y <= z}
      BY <3>1
    <3> QED
      BY <3>2
  <2> HIDE DEF Segments
  <2> QED
    BY <2>1, <2>2
<1>3. IsWellFoundedOn(Smaller, FiniteSubsetsOf(Nat))
  BY FS_StrictSubsetOrderingWellFounded
<1>4. PICK m \in Segments : \A y \in Segments : ~(<<y, m>> \in Smaller)
  <2> HIDE DEF Segments, Smaller
  <2> QED
    BY <1>2, <1>3, WFMin
<1>5. PICK x \in T : x <= z /\ m = 0..x
  BY <1>4
<1>6. ASSUME NEW y \in T, y < x PROVE FALSE
  <2>1. 0..y \in Segments
    BY <1>5, <1>6
  <2>2. (0..y) \subseteq (0..x) /\ x \in 0..x /\ x \notin 0..y
    BY <1>6
  <2>3. <<0..y, m>> \in Smaller
    BY <1>5, <2>2 DEF StrictSubsetOrdering
  <2> QED
    BY <1>4, <2>1, <2>3
<1> QED
  BY <1>6

LEMMA FirstPlace ==
  ASSUME NEW S \in SUBSET (Nat \X Nat), S # {}
  PROVE  \E p \in S : \A q \in S : ~Precedes(q, p)
<1> DEFINE Rows == {p[1] : p \in S}
<1>1. Rows \in SUBSET Nat /\ Rows # {}
  OBVIOUS
<1>2. PICK x \in Rows : \A y \in Rows : x <= y
  <2> HIDE DEF Rows
  <2> QED
    BY <1>1, LeastElement
<1> DEFINE Columns == {p[2] : p \in {q \in S : q[1] = x}}
<1>3. Columns \in SUBSET Nat /\ Columns # {}
  BY <1>2
<1>4. PICK z \in Columns : \A y \in Columns : z <= y
  <2> HIDE DEF Rows, Columns
  <2> QED
    BY <1>3, LeastElement
<1>5. PICK p \in S : p[1] = x /\ p[2] = z
  BY <1>4
<1>6. ASSUME NEW q \in S, Precedes(q, p) PROVE FALSE
  <2>1. q[1] \in Nat /\ q[2] \in Nat /\ q[1] \in Rows /\ x \in Nat /\ z \in Nat
    BY <1>1, <1>3
  <2>2. x <= q[1]
    BY <1>2, <2>1
  <2>3. q[1] = x /\ q[2] < z
    BY <1>5, <1>6, <2>1, <2>2 DEF Precedes
  <2>4. q[2] \in Columns
    BY <2>3
  <2> QED
    BY <1>4, <2>1, <2>3, <2>4
<1> QED
  BY <1>6

LEMMA PrecedesTotal ==
  ASSUME NEW p \in Nat \X Nat, NEW q \in Nat \X Nat, p # q
  PROVE  Precedes(p, q) \/ Precedes(q, p)
<1>1. p = <<p[1], p[2]>> /\ q = <<q[1], q[2]>> /\ p[1] \in Nat /\ p[2] \in Nat /\ q[1] \in Nat /\ q[2] \in Nat
  OBVIOUS
<1>2. p[1] # q[1] \/ p[2] # q[2]
  BY <1>1
<1> QED
  BY <1>1, <1>2 DEF Precedes

\* A selector that is named somewhere has exactly one task.
LEMMA OneTask ==
  ASSUME TypeOK, RunInv, opts.explicit = {}, phase \in {"listing", "targets", "covered"},
         NEW g \in Range(opts.groups), NEW name \in Range(Resolved[g])
  PROVE  \E p \in DOMAIN tasks : tasks[p].selector = name
<1>1. DOMAIN tasks = Work /\ \A p \in Work : tasks[p].selector = SelectorAt(p)
  BY DEF RunInv
<1>2. PICK i \in DOMAIN opts.groups : g = opts.groups[i]
  BY DEF Range
<1>3. PICK k \in DOMAIN Resolved[g] : name = Resolved[g][k]
  BY DEF Range
<1> DEFINE Occurrences == {p \in Places : SelectorAt(p) = name}
<1>4. <<i, k>> \in Places /\ SelectorAt(<<i, k>>) = name
  BY <1>2, <1>3 DEF Places, SelectorAt
<1>5. Places \subseteq Nat \X Nat
  BY PlacesTyped DEF RunInv, TypeOK
<1>6. PICK p \in Occurrences : \A q \in Occurrences : ~Precedes(q, p)
  <2>1. Occurrences \in SUBSET (Nat \X Nat) /\ Occurrences # {}
    BY <1>4, <1>5
  <2> HIDE DEF Occurrences
  <2> QED
    BY <2>1, FirstPlace
<1>7. p \in Work
  BY <1>6 DEF Work
<1> QED
  BY <1>1, <1>6, <1>7

LEMMA TasksApart ==
  ASSUME TypeOK, RunInv, opts.explicit = {}, phase \in {"listing", "targets", "covered"},
         NEW p \in DOMAIN tasks, NEW q \in DOMAIN tasks
  PROVE  /\ p \in Nat \X Nat
         /\ \E g \in Range(opts.groups) : tasks[p].selector \in Range(Resolved[g])
         /\ tasks[p].selector = tasks[q].selector => p = q
<1>1. DOMAIN tasks = Work /\ \A i \in Work : tasks[i].selector = SelectorAt(i)
  BY DEF RunInv
<1>2. /\ Places \subseteq Nat \X Nat
      /\ \A i \in Places : i[1] \in DOMAIN opts.groups /\ i[2] \in DOMAIN Resolved[opts.groups[i[1]]]
  BY PlacesTyped DEF RunInv, TypeOK
<1>3. p \in Places /\ q \in Places
  BY <1>1 DEF Work
<1>4. opts.groups[p[1]] \in Range(opts.groups) /\ SelectorAt(p) \in Range(Resolved[opts.groups[p[1]]])
  BY <1>2, <1>3 DEF Range, SelectorAt
<1>5. tasks[p].selector = tasks[q].selector => p = q
  BY <1>1, <1>2, <1>3, PrecedesTotal DEF Work
<1> QED
  BY <1>1, <1>2, <1>3, <1>4, <1>5

\* Of two pages that hold a repository, one comes before the other.
LEMMA TargetsApart ==
  ASSUME TypeOK, TasksInv, RunInv, phase \in {"targets", "covered"}, opts.explicit = {},
         NEW c \in targets, NEW d \in targets, c.repo = d.repo
  PROVE  c = d
<1>1. PICK i \in DOMAIN tasks : \E n \in DOMAIN tasks[i].repos :
        c \in tasks[i].repos[n] /\ Unseen(i, n, c.repo)
  BY TargetSelected
<1>2. PICK n \in DOMAIN tasks[i].repos : c \in tasks[i].repos[n] /\ Unseen(i, n, c.repo)
  BY <1>1
<1>3. PICK j \in DOMAIN tasks : \E m \in DOMAIN tasks[j].repos :
        d \in tasks[j].repos[m] /\ Unseen(j, m, d.repo)
  BY TargetSelected
<1>4. PICK m \in DOMAIN tasks[j].repos : d \in tasks[j].repos[m] /\ Unseen(j, m, d.repo)
  BY <1>3
<1>5. ~Precedes(i, j) /\ ~Precedes(j, i)
  BY <1>2, <1>4 DEF Unseen, Holds
<1>6. i = j
  BY <1>5, TasksApart, PrecedesTotal
<1>7. tasks[i].repos \in Seq(SUBSET Repo)
  BY DEF TypeOK, Task
<1>8. n \in Nat /\ n >= 1 /\ m \in Nat /\ m >= 1
  BY <1>6, <1>7
<1>9. ~(n < m) /\ ~(m < n)
  BY <1>2, <1>4, <1>6, <1>8 DEF Unseen, Holds
<1>10. n = m
  BY <1>8, <1>9
<1>11. Sound(tasks[i])
  BY DEF TasksInv
<1> QED
  BY <1>2, <1>4, <1>6, <1>10, <1>11 DEF Sound

\* Whatever a task has selected is covered, by that task or by one before it.
LEMMA SelectedCovered ==
  ASSUME TypeOK, TasksInv, RunInv, phase \in {"targets", "covered"}, opts.explicit = {},
         NEW i \in DOMAIN tasks, NEW n \in DOMAIN tasks[i].repos, NEW c \in tasks[i].repos[n]
  PROVE  \E d \in targets : d.repo = c.repo
<1> DEFINE Holders == {j \in DOMAIN tasks : \E m \in DOMAIN tasks[j].repos : Holds(tasks[j].repos[m], c.repo)}
<1>1. Holders \in SUBSET (Nat \X Nat) /\ Holders # {}
  BY TasksApart DEF Holds
<1>2. PICK j \in Holders : \A k \in Holders : ~Precedes(k, j)
  <2> HIDE DEF Holders
  <2> QED
    BY <1>1, FirstPlace
<1> DEFINE Pages == {m \in DOMAIN tasks[j].repos : Holds(tasks[j].repos[m], c.repo)}
<1>3. tasks[j].repos \in Seq(SUBSET Repo)
  BY DEF TypeOK, Task
<1>4. Pages \in SUBSET Nat /\ Pages # {}
  BY <1>2, <1>3
<1>5. PICK m \in Pages : \A k \in Pages : m <= k
  <2> HIDE DEF Pages, Holders
  <2> QED
    BY <1>4, LeastElement
<1>6. PICK d \in tasks[j].repos[m] : d.repo = c.repo
  BY <1>5 DEF Holds
<1>7. \A k \in 1..(m - 1) : ~Holds(tasks[j].repos[k], d.repo)
  <2> SUFFICES ASSUME NEW k \in 1..(m - 1), Holds(tasks[j].repos[k], c.repo) PROVE FALSE
    BY <1>6
  <2>1. k \in Pages
    BY <1>3, <1>5
  <2> QED
    BY <1>4, <1>5, <2>1
<1>8. Unseen(j, m, d.repo)
  BY <1>2, <1>6, <1>7 DEF Unseen
<1>9. d \in Repo
  BY <1>3, <1>5, <1>6
<1>10. d \in Union
  BY <1>2, <1>5, <1>8, <1>9 DEF Union
<1> QED
  BY <1>6, <1>10 DEF RunInv

LEMMA Covers ==
  ASSUME TypeOK, TasksInv, RunInv, phase \in {"targets", "covered"}, opts.explicit = {}, changes = 0,
         NEW r \in Repos, NEW g \in Range(opts.groups), NEW name \in Range(Resolved[g]) \ Skipped,
         NEW s, s = Selectors[name], Matches(s, Listed(r)), s.kind = "repos" \/ r \in Visible(s)
  PROVE  \E c \in targets : c.repo = r
<1>1. PICK i \in DOMAIN tasks : tasks[i].selector = name
  BY OneTask
<1>2. tasks[i].status = "selected" /\ Sound(tasks[i]) /\ Whole(tasks[i])
  BY <1>1 DEF Skipped, RunInv, Ended, TasksInv
<1>3. Listed(r).repo = r /\ Named(r).repo = r
  BY DEF Listed, Named
<1>4. \E n \in DOMAIN tasks[i].repos : \E c \in tasks[i].repos[n] : c.repo = r
  <2>1. CASE s.kind = "repos"
    <3>1. r \in s.named
      BY <1>3, <2>1 DEF Matches
    <3>2. PICK page : page = {Named(q) : q \in s.named}
      OBVIOUS
    <3>3. Named(r) \in page
      BY <3>1, <3>2
    <3>4. tasks[i].repos = <<page>>
      BY <1>1, <1>2, <2>1, <3>2 DEF Sound
    <3> QED
      BY <1>3, <3>3, <3>4
  <2>2. CASE s.kind # "repos"
    <3>1. Lists(tasks[i], r)
      BY <1>1, <1>2, <2>2 DEF Whole
    <3> QED
      BY <1>3, <3>1 DEF Lists
  <2> QED
    BY <2>1, <2>2
<1> QED
  BY <1>4, SelectedCovered

LEMMA CoversNothingElse ==
  ASSUME TypeOK, TasksInv, RunInv, phase \in {"targets", "covered"}, opts.explicit = {}, changes = 0,
         NEW c \in targets
  PROVE  /\ c.repo \in Repos
         /\ \E g \in Range(opts.groups) : \E name \in Range(Resolved[g]) \ Skipped :
              LET s == Selectors[name]
              IN  Matches(s, Listed(c.repo)) /\ (s.kind = "repos" \/ c.repo \in Visible(s))
<1>1. PICK i \in DOMAIN tasks : \E n \in DOMAIN tasks[i].repos :
        c \in tasks[i].repos[n] /\ tasks[i].status = "selected"
  BY TargetSelected
<1>2. PICK n \in DOMAIN tasks[i].repos : c \in tasks[i].repos[n] /\ tasks[i].status = "selected"
  BY <1>1
<1>3. Sound(tasks[i]) /\ Whole(tasks[i]) /\ c \in Repo
  BY DEF TasksInv, TypeOK
<1>4. PICK name : name = tasks[i].selector
  OBVIOUS
<1>5. name \notin Skipped
  BY <1>2, <1>4, TasksApart DEF Skipped
<1>6. PICK g \in Range(opts.groups) : name \in Range(Resolved[g])
  BY <1>4, TasksApart
<1>7. PICK s : s = Selectors[name]
  OBVIOUS
<1>8. Matches(s, c)
  BY <1>2, <1>3, <1>4, <1>7 DEF Sound
<1>9. Matches(s, Listed(c.repo)) /\ (s.kind = "repos" \/ c.repo \in Visible(s))
  <2>1. CASE s.kind = "repos"
    BY <1>8, <2>1 DEF Matches, Listed
  <2>2. CASE s.kind # "repos"
    BY <1>2, <1>3, <1>4, <1>7, <1>8, <2>2 DEF Whole
  <2> QED
    BY <2>1, <2>2
<1> QED
  BY <1>3, <1>5, <1>6, <1>7, <1>9 DEF Repo

\* While nobody changes a repository, a run covers what the selectors of its groups
\* select and nothing else, each repository once, for pages of any size and any
\* number of goroutines, refusals and owners that cannot be listed.
THEOREM EnumerationIsExact == Spec => []EnumeratesExactly
<1>1. TypeOK /\ TasksInv /\ RunInv => EnumeratesExactly
  <2> SUFFICES ASSUME TypeOK, TasksInv, RunInv,
                      phase \in {"targets", "covered"}, opts.explicit = {}, changes = 0
               PROVE  /\ \A c, d \in targets : c.repo = d.repo => c = d
                      /\ {c.repo : c \in targets} =
                           {r \in Repos : \E g \in Range(opts.groups) : \E name \in Range(Resolved[g]) \ Skipped :
                              LET s == Selectors[name]
                              IN  Matches(s, Listed(r)) /\ (s.kind = "repos" \/ r \in Visible(s))}
    BY DEF EnumeratesExactly
  <2>1. \A c, d \in targets : c.repo = d.repo => c = d
    BY TargetsApart
  <2>2. ASSUME NEW r \in Repos, NEW g \in Range(opts.groups), NEW name \in Range(Resolved[g]) \ Skipped,
               Matches(Selectors[name], Listed(r)),
               Selectors[name].kind = "repos" \/ r \in Visible(Selectors[name])
        PROVE  \E c \in targets : c.repo = r
    BY <2>2, Covers
  <2>3. ASSUME NEW c \in targets
        PROVE  /\ c.repo \in Repos
               /\ \E g \in Range(opts.groups) : \E name \in Range(Resolved[g]) \ Skipped :
                    LET s == Selectors[name]
                    IN  Matches(s, Listed(c.repo)) /\ (s.kind = "repos" \/ c.repo \in Visible(s))
    BY CoversNothingElse
  <2> QED
    BY <2>1, <2>2, <2>3
<1> QED
  BY <1>1, TypeCorrect, RunsGoWell, PTL
=============================================================================
