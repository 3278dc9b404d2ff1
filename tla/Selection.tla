----------------------------- MODULE Selection -----------------------------
(***************************************************************************)
(* Which repositories a run is about, and which labels each is given:      *)
(* targets and coveredRepos (internal/cmd/sync.go) over the enumeration    *)
(* (internal/github/repos.go) and the membership rules                     *)
(* (internal/config/resolve.go).                                           *)
(*                                                                         *)
(* Every selector is listed by a goroutine of its own, page by page, while *)
(* repositories are archived and change their visibility.  Each listing    *)
(* carries the facts of the moment it was answered; a repository named in  *)
(* the configuration or with --repo carries none.  Repository names differ *)
(* in case only for what is printed and are compared without it, so a      *)
(* repository is its identity; globs are the repositories they match.  A   *)
(* page is the set of what it holds; the order of the result is left out,  *)
(* and so are repeats of --repo.                                           *)
(***************************************************************************)
EXTENDS Integers, Sequences, FiniteSets, Functions

CONSTANTS
  Repos,       \* the repositories there are
  Position,    \* where each of them comes in a listing
  Owner,       \* the owner of each
  FirstFacts,  \* archived, fork and private of each, when the run starts
  Selectors,   \* the selectors of the leaf groups
  Resolved,    \* what each group is flattened into: the names of leaf groups
  LabelGroups, \* the groups of each configured label
  Commands,    \* the runs: the groups each is about and what it names with --repo
  PerPage,     \* repositories per page
  Concurrency, \* --concurrency
  MaxChanges,  \* bound: changes people make to repositories
  MaxLimits    \* bound: answers refused for a rate limit

Facts == [archived : BOOLEAN, fork : BOOLEAN, private : BOOLEAN]

Selector ==
  [kind : {"org", "user", "repos"}, owner : {Owner[r] : r \in Repos}, own : BOOLEAN,
   named : SUBSET Repos, include : SUBSET Repos, exclude : SUBSET Repos,
   skipArchived : BOOLEAN, skipForks : BOOLEAN, visibility : {"all", "public", "private"}]

ASSUME SelectionAssumption ==
  /\ IsFiniteSet(Repos) /\ Position \in [Repos -> Nat] /\ IsInjective(Position)
  /\ FirstFacts \in [Repos -> Facts]
  /\ Selectors \in [DOMAIN Selectors -> Selector]
  /\ \A g \in DOMAIN Resolved : Resolved[g] \in Seq(DOMAIN Selectors)
  /\ \A l \in DOMAIN LabelGroups : LabelGroups[l] \subseteq DOMAIN Resolved
  /\ \A c \in Commands : c.groups \in Seq(STRING) /\ c.explicit \subseteq Repos
  /\ PerPage \in Nat \ {0} /\ Concurrency \in Nat \ {0}
  /\ MaxChanges \in Nat /\ MaxLimits \in Nat

\* A config.Repo: a repository and what is known of it.
Repo == [repo : Repos, facts : Facts]

VARIABLES
  opts,    \* the command line of the run
  facts,   \* the repositories on GitHub
  past,    \* history: every combination of facts a repository has had
  tasks,   \* per selector to list: its goroutine, the page it asks for, what it has listed,
           \* page by page, and in the end selected
  phase,   \* how far the run is
  targets, \* the repositories the run is about
  desired, \* the repositories covered, and the labels of each
  changes, limits

vars == <<opts, facts, past, tasks, phase, targets, desired, changes, limits>>

Task ==
  [selector : DOMAIN Selectors, status : {"waiting", "listing", "selected", "skipped"},
   page : Nat, repos : Seq(SUBSET Repo)]

TypeOK ==
  /\ opts \in Commands
  /\ facts \in [Repos -> Facts] /\ past \in [Repos -> SUBSET Facts]
  /\ tasks \in [DOMAIN tasks -> Task]
  /\ phase \in {"starting", "listing", "targets", "covered", "failed"}
  /\ targets \subseteq Repo
  /\ desired \in [DOMAIN desired -> (SUBSET DOMAIN LabelGroups) \ {{}}]
  /\ DOMAIN desired \subseteq Repos
  /\ changes \in 0..MaxChanges /\ limits \in 0..MaxLimits

Init ==
  /\ opts \in Commands
  /\ facts = FirstFacts /\ past = [r \in Repos |-> {FirstFacts[r]}]
  /\ tasks = <<>> /\ phase = "starting"
  /\ targets = {} /\ desired = <<>>
  /\ changes = 0 /\ limits = 0

-----------------------------------------------------------------------------
(***************************************************************************)
(* Membership.                                                             *)
(***************************************************************************)

\* Mutant: a group of private repositories admits one of unknown visibility.
MatchesHidden(s, c) ==
  IF s.kind = "repos" THEN c.repo \in s.named
  ELSE /\ Owner[c.repo] = s.owner
       /\ ~(s.skipArchived /\ c.facts.archived) /\ ~(s.skipForks /\ c.facts.fork)
       /\ s.visibility = "public" => ~c.facts.private
       /\ c.repo \in s.include /\ c.repo \notin s.exclude

\* Selector.Reject, and so Matches: a repos entry looks at the name alone.
Matches(s, c) ==
  IF s.kind = "repos" THEN c.repo \in s.named
  ELSE /\ Owner[c.repo] = s.owner
       /\ ~(s.skipArchived /\ c.facts.archived)
       /\ ~(s.skipForks /\ c.facts.fork)
       /\ s.visibility = "public" => ~c.facts.private
       /\ s.visibility = "private" => c.facts.private
       /\ c.repo \in s.include /\ c.repo \notin s.exclude

\* Resolution.Groups.
GroupsOf(c) == {g \in DOMAIN Resolved : \E i \in DOMAIN Resolved[g] : Matches(Selectors[Resolved[g][i]], c)}

\* Resolution.Desired.
Desired(c) == {l \in DOMAIN LabelGroups : LabelGroups[l] \cap GroupsOf(c) # {}}

\* A repository that was named and not listed: its facts are unknown, that is, false.
Named(r) == [repo |-> r, facts |-> [archived |-> FALSE, fork |-> FALSE, private |-> FALSE]]

\* Mutant: the visibility of a listed repository is not carried.
ListedPublic(r) == [repo |-> r, facts |-> [facts[r] EXCEPT !.private = FALSE]]

Listed(r) == [repo |-> r, facts |-> facts[r]]

-----------------------------------------------------------------------------
(***************************************************************************)
(* Listing.                                                                *)
(***************************************************************************)

\* Where the requested groups name a selector, group by group.
Places == UNION {{i} \X DOMAIN Resolved[opts.groups[i]] : i \in DOMAIN opts.groups}

Precedes(p, q) == p[1] < q[1] \/ (p[1] = q[1] /\ p[2] < q[2])

SelectorAt(p) == Resolved[opts.groups[p[1]]][p[2]]

\* The selectors to list: those of the requested groups, each at its first place.
Work == {p \in Places : \A q \in Places : Precedes(q, p) => SelectorAt(q) # SelectorAt(p)}

\* GitHub: what the endpoint of a selector lists.  Only the token's own user
\* is shown private repositories of a user.
Visible(s) ==
  {r \in Repos : Owner[r] = s.owner /\ (s.kind = "org" \/ s.own \/ ~facts[r].private)}

\* GitHub: how many repositories are listed before this one.
Rank(s, r) == Cardinality({q \in Visible(s) : Position[q] < Position[r]})

Page(s, n) == {r \in Visible(s) : (n - 1) * PerPage <= Rank(s, r) /\ Rank(s, r) < n * PerPage}

NextPage(s, n) == IF n * PerPage < Cardinality(Visible(s)) THEN n + 1 ELSE 0

PageNumber(t) == IF t.page = 0 THEN 1 ELSE t.page

SelectorOf(i) == Selectors[tasks[i].selector]

\* Mutant: a goroutine that is done keeps its place.
EverStarted == {i \in DOMAIN tasks : tasks[i].status # "waiting"}

Listing == {i \in DOMAIN tasks : tasks[i].status = "listing"}

Waiting == {i \in DOMAIN tasks : tasks[i].status = "waiting"}

\* targets: --repo bypasses the enumeration, not the configuration.
TakeExplicit ==
  /\ phase = "starting" /\ opts.explicit # {}
  /\ targets' = {Named(r) : r \in opts.explicit}
  /\ phase' = "targets"
  /\ UNCHANGED <<opts, facts, past, tasks, desired, changes, limits>>

\* requestedGroups: a group the configuration does not define ends the run.
UnknownGroup ==
  /\ phase = "starting" /\ opts.explicit = {}
  /\ ~(Range(opts.groups) \subseteq DOMAIN Resolved)
  /\ phase' = "failed"
  /\ UNCHANGED <<opts, facts, past, tasks, targets, desired, changes, limits>>

\* Select: one goroutine per selector.
StartSelect ==
  /\ phase = "starting" /\ opts.explicit = {}
  /\ Range(opts.groups) \subseteq DOMAIN Resolved
  /\ tasks' =
       [p \in Work |-> [selector |-> SelectorAt(p), status |-> "waiting", page |-> 0, repos |-> <<>>]]
  /\ phase' = "listing"
  /\ UNCHANGED <<opts, facts, past, targets, desired, changes, limits>>

\* The next goroutine starts when there is room for it; a repos entry is
\* passed through and issues no request.
Start(i) ==
  /\ phase = "listing" /\ Cardinality(Listing) < Concurrency
  /\ i \in Waiting /\ \A j \in Waiting : ~Precedes(j, i)
  /\ LET s == SelectorOf(i)
     IN  tasks' = [tasks EXCEPT ![i] =
           IF s.kind = "repos"
           THEN [@ EXCEPT !.status = "selected", !.repos = <<{Named(r) : r \in s.named}>>]
           ELSE [@ EXCEPT !.status = "listing"]]
  /\ UNCHANGED <<opts, facts, past, phase, targets, desired, changes, limits>>

\* What is left of what was listed when the filters are applied.
Filtered(s, pages) == [n \in DOMAIN pages |-> {c \in pages[n] : Matches(s, c)}]

\* A page is listed; after the last one the filters are applied.
ListPage(i) ==
  /\ phase = "listing" /\ i \in Listing
  /\ LET s == SelectorOf(i)  n == PageNumber(tasks[i])
         repos == Append(tasks[i].repos, {Listed(r) : r \in Page(s, n)})
     IN  tasks' = [tasks EXCEPT ![i] =
           IF NextPage(s, n) # 0 THEN [@ EXCEPT !.page = NextPage(s, n), !.repos = repos]
           ELSE [@ EXCEPT !.page = 0, !.repos = Filtered(s, repos), !.status = "selected"]]
  /\ UNCHANGED <<opts, facts, past, phase, targets, desired, changes, limits>>

\* Mutant: the cursor moves on although the page was refused.
SkippedPage(s, t) == NextPage(s, PageNumber(t))

\* The cursor is set from an answer that has no next page.
RefusedPage(s, t) == 0

\* A page is refused for a rate limit; Do waits and repeats the call.
Limited(i) ==
  /\ phase = "listing" /\ i \in Listing /\ limits < MaxLimits
  /\ tasks' = [tasks EXCEPT ![i].page = RefusedPage(SelectorOf(i), tasks[i])]
  /\ limits' = limits + 1
  /\ UNCHANGED <<opts, facts, past, phase, targets, desired, changes>>

\* An owner that cannot be listed is recorded and its selection is empty.
Inaccessible(i) ==
  /\ phase = "listing" /\ i \in Listing
  /\ tasks' = [tasks EXCEPT ![i] = [@ EXCEPT !.status = "skipped", !.page = 0, !.repos = <<>>]]
  /\ UNCHANGED <<opts, facts, past, phase, targets, desired, changes, limits>>

\* Any other error ends the run.
Fail(i) ==
  /\ phase = "listing" /\ i \in Listing
  /\ phase' = "failed"
  /\ UNCHANGED <<opts, facts, past, tasks, targets, desired, changes, limits>>

-----------------------------------------------------------------------------
(***************************************************************************)
(* What is covered.                                                        *)
(***************************************************************************)

\* A page holds the repository.
Holds(page, r) == \E c \in page : c.repo = r

\* No page before the n-th of this selector holds the repository.
Unseen(i, n, r) ==
  /\ \A m \in 1..(n - 1) : ~Holds(tasks[i].repos[m], r)
  /\ \A j \in DOMAIN tasks : Precedes(j, i) =>
       \A m \in DOMAIN tasks[j].repos : ~Holds(tasks[j].repos[m], r)

\* Union: each repository once, as the first selector that selected it has it.
Union ==
  {c \in Repo : \E i \in DOMAIN tasks : \E n \in DOMAIN tasks[i].repos :
                  c \in tasks[i].repos[n] /\ Unseen(i, n, c.repo)}

Enumerate ==
  /\ phase = "listing" /\ Waiting = {} /\ Listing = {}
  /\ targets' = Union
  /\ phase' = "targets"
  /\ UNCHANGED <<opts, facts, past, tasks, desired, changes, limits>>

\* Mutant: a repository without configured labels is kept.
KeptAll == targets

Kept == {c \in targets : Desired(c) # {}}

\* coveredRepos: a repository without configured labels is dropped.
Cover ==
  /\ phase = "targets"
  /\ desired' = [r \in {c.repo : c \in Kept} |-> Desired(CHOOSE c \in Kept : c.repo = r)]
  /\ phase' = "covered"
  /\ UNCHANGED <<opts, facts, past, tasks, targets, changes, limits>>

\* Somebody archives a repository or changes its visibility.
Change(r) ==
  /\ changes < MaxChanges
  /\ \E archived, private \in BOOLEAN :
       facts' = [facts EXCEPT ![r] = [@ EXCEPT !.archived = archived, !.private = private]]
  /\ past' = [past EXCEPT ![r] = @ \cup {facts'[r]}]
  /\ changes' = changes + 1
  /\ UNCHANGED <<opts, tasks, phase, targets, desired, limits>>

\* GitHub answers the request of a goroutine, one way or another.
Answered(i) ==
  \/ ListPage(i)
  \/ Limited(i)
  \/ Inaccessible(i)
  \/ Fail(i)

Proceed ==
  \/ TakeExplicit
  \/ UnknownGroup
  \/ StartSelect
  \/ \E i \in DOMAIN tasks : Start(i)
  \/ Enumerate
  \/ Cover

Next ==
  \/ Proceed
  \/ \E i \in DOMAIN tasks : Answered(i)
  \/ \E r \in Repos : Change(r)

Spec == Init /\ [][Next]_vars

\* The process keeps going while its requests are answered.
FairSpec == Spec /\ WF_vars(Proceed \/ \E i \in DOMAIN tasks : Answered(i))

-----------------------------------------------------------------------------
(***************************************************************************)
(* Properties.                                                             *)
(***************************************************************************)

\* The selectors whose owner could not be listed.
Skipped == {tasks[i].selector : i \in {j \in DOMAIN tasks : tasks[j].status = "skipped"}}

\* A repository that the run is about because a repos entry names it.
IsNamed(r) == \E i \in DOMAIN tasks : r \in SelectorOf(i).named

\* While nobody changes a repository, a run covers what the selectors of the
\* groups it is about select and nothing else, each repository once, whatever was
\* repeated for a rate limit; an owner that cannot be listed takes away no
\* repository that another selector selects.
EnumeratesExactly ==
  (phase \in {"targets", "covered"} /\ opts.explicit = {} /\ changes = 0) =>
    /\ \A c, d \in targets : c.repo = d.repo => c = d
    /\ {c.repo : c \in targets} =
         {r \in Repos : \E g \in Range(opts.groups) : \E name \in Range(Resolved[g]) \ Skipped :
            LET s == Selectors[name]
            IN  Matches(s, Listed(r)) /\ (s.kind = "repos" \/ r \in Visible(s))}

\* The labels of a repository that was listed are those the configuration gives
\* it in one state it has been in, though the listings of several selectors saw it
\* at different times.  One that a repos entry names is left out: it may be judged
\* by facts that nobody asked for.
JudgedAsSeen ==
  phase = "covered" =>
    \A r \in DOMAIN desired :
      (opts.explicit = {} /\ ~IsNamed(r)) =>
        \E f \in past[r] : desired[r] = Desired([repo |-> r, facts |-> f])

\* The attributes a run may judge a repository by: those of a state it has been
\* in, if it was listed, and if it was named those that nobody asked for.
Judgeable(r) ==
  {f \in past[r] : opts.explicit = {}}
    \cup {f \in {Named(r).facts} : r \in opts.explicit \/ IsNamed(r)}

\* What the documentation says of a selector: a repos entry is about the
\* repositories it names, any other about an owner's, globs and filters permitting.
Selects(s, r, f) ==
  \/ s.kind = "repos" /\ r \in s.named
  \/ /\ s.kind # "repos" /\ s.owner = Owner[r] /\ r \in s.include \ s.exclude
     /\ f.archived => ~s.skipArchived
     /\ f.fork => ~s.skipForks
     /\ s.visibility \in {"all", IF f.private THEN "private" ELSE "public"}

\* No run gives a repository a label of groups that do not select it, all of its
\* labels judged by the same attributes.  What naming a repository waives, with
\* --repo or in a repos entry, is its own attributes and nothing more: it stays out
\* of another owner's groups, of globs that do not admit it and of a group of
\* private repositories, and --repo puts it into no repos entry.
UncoveredIsLeftAlone ==
  \A r \in DOMAIN desired : \E f \in Judgeable(r) : \A l \in desired[r] :
    \E g \in LabelGroups[l] : \E name \in Range(Resolved[g]) : Selects(Selectors[name], r, f)

\* A repository named with --repo gets the labels of the groups that select it
\* and no others (expected to be violated: its facts are unknown too).
ExplicitJudgedAsSeen ==
  (phase = "covered" /\ opts.explicit # {}) =>
    \A r \in opts.explicit :
      \E f \in past[r] :
        Desired([repo |-> r, facts |-> f]) = IF r \in DOMAIN desired THEN desired[r] ELSE {}

\* The enumeration comes to an end.
SelectionEnds == <>(phase \in {"covered", "failed"})
=============================================================================
