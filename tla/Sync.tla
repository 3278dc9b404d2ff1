-------------------------------- MODULE Sync --------------------------------
(***************************************************************************)
(* Runs of `labelsync sync` against the repositories they share: the       *)
(* second half of runSync (internal/cmd/sync.go), ReadLabels and the write *)
(* calls of internal/github, and apply.Apply.  A run reads every covered   *)
(* repository, computes a plan, lets the user choose the removals, and     *)
(* then sends the plan's writes one at a time, repository by repository.   *)
(*                                                                         *)
(* Modelled: runs that overlap; a run that is killed, or ended by an       *)
(* error, between any two requests, and the run that is started after it;  *)
(* an answer lost to a 5xx, which the transport answers by repeating the   *)
(* request; repositories that become unreachable and come back; people who *)
(* edit labels meanwhile.                                                  *)
(*                                                                         *)
(* Not here: pages and caching of a label read (what a page that is read   *)
(* again does to a plan is: Rereads), pacing and rate limits, the          *)
(* selection of the repositories.                                          *)
(***************************************************************************)
EXTENDS Planner

CONSTANTS
  Runs,           \* the runs of the tool, by process
  Mode,           \* --mode of each run
  DryRun,         \* the values of --dry-run that runs are started with
  RepoRank,       \* the order in which a plan holds the repositories
  Stores,         \* the labels the repositories may start with
  Handiwork,      \* the edits people make to labels, as actions
  Rereads,        \* the sets of labels that a read may hold two times
  MaxTries,       \* bound: lost answers per request (4 attempts in the code)
  MaxRestarts,    \* bound: runs started after another one has ended
  MaxEdits,       \* bound: label edits by people
  MaxOutages      \* bound: repositories becoming unreachable

ASSUME SyncAssumption ==
  /\ Mode \in [Runs -> {"append", "prune"}]
  /\ DryRun \subseteq BOOLEAN
  /\ RepoRank \in [Repos -> Nat]
  /\ \A q, r \in Repos : RepoRank[q] = RepoRank[r] => q = r
  /\ Handiwork \subseteq {a \in Action : a.kind # "noop"}
  /\ Rereads \subseteq SUBSET Keys
  /\ MaxTries \in Nat /\ MaxRestarts \in Nat /\ MaxEdits \in Nat /\ MaxOutages \in Nat

\* No page is read twice: an assumption of some theorems only.
SingleReads == Rereads = {}

\* GitHub keeps names unique in any casing; origins name the starting keys.
ASSUME StoresAssumption ==
  /\ Stores \subseteq [Repos -> Views]
  /\ \A s \in Stores : \A r \in Repos :
        /\ WellKeyed(s[r])
        /\ \A k \in Present(s[r]) : s[r][k].origin = k

VARIABLES
  store,      \* the labels of each repository, on GitHub
  reachable,  \* whether the token can reach the repository
  pc,         \* how far each run has come
  dry,        \* whether it only reports what it would do
  unread,     \* the covered repositories a run has still to read
  seen,       \* what a run read of each repository
  todo,       \* the actions of a run's plan it has still to carry out
  skipped,    \* github.Failures: the repositories a run gave up on
  tries,      \* answers lost to the request a run has in flight
  started,    \* (history) the store when the behaviour began
  asOf,       \* (history) the edits made before a run started
  chosen,     \* (history) the labels the user let a run remove
  declined,   \* (history) the labels the user was offered and kept
  restarts, edits, outages   \* how often each bounded event has happened

remote  == <<store, reachable>>
local   == <<pc, dry, unread, seen, todo, skipped, tries, chosen, declined>>
counted == <<restarts, edits, outages>>
vars    == <<store, reachable, pc, dry, unread, seen, todo, skipped, tries, chosen, declined,
             started, asOf, restarts, edits, outages>>

Steps == {"reading", "planned", "applying", "done", "failed"}

\* coveredRepos drops the repositories that no configured label selects.
Covered == {r \in Repos : Desired[r] # {}}

TypeOK ==
  /\ store \in [Repos -> Views]
  /\ reachable \in [Repos -> BOOLEAN]
  /\ pc \in [Runs -> Steps]
  /\ dry \in [Runs -> BOOLEAN]
  /\ unread \in [Runs -> SUBSET Repos]
  /\ seen \in [Runs -> [Repos -> Views]]
  /\ todo \in [Runs -> [Repos -> SUBSET Action]]
  /\ skipped \in [Runs -> SUBSET Repos]
  /\ tries \in [Runs -> 0..MaxTries]
  /\ chosen \in [Runs -> SUBSET (Repos \X Keys)]
  /\ declined \in [Runs -> SUBSET (Repos \X Keys)]
  /\ started \in [Repos -> Views]
  /\ asOf \in [Runs -> Nat]
  /\ restarts \in 0..MaxRestarts
  /\ edits \in 0..MaxEdits
  /\ outages \in 0..MaxOutages

NoLabels == [k \in Keys |-> None]
NoPlan   == [r \in Repos |-> {}]

Init ==
  /\ store \in Stores
  /\ started = store
  /\ reachable = [r \in Repos |-> TRUE]
  /\ pc = [p \in Runs |-> "reading"]
  /\ dry \in [Runs -> DryRun]
  /\ unread = [p \in Runs |-> Covered]
  /\ seen = [p \in Runs |-> [r \in Repos |-> NoLabels]]
  /\ todo = [p \in Runs |-> NoPlan]
  /\ skipped = [p \in Runs |-> {}]
  /\ tries = [p \in Runs |-> 0]
  /\ chosen = [p \in Runs |-> {}]
  /\ declined = [p \in Runs |-> {}]
  /\ asOf = [p \in Runs |-> 0]
  /\ restarts = 0 /\ edits = 0 /\ outages = 0

-----------------------------------------------------------------------------
(***************************************************************************)
(* Reading and planning.                                                   *)
(***************************************************************************)

\* ReadLabels reads the repositories concurrently, so in any order.  One that
\* cannot be reached is recorded as skipped and is absent from the result.
Read(p, r) ==
  /\ pc[p] = "reading"
  /\ r \in unread[p]
  /\ unread' = [unread EXCEPT ![p] = @ \ {r}]
  /\ IF reachable[r]
       THEN /\ seen' = [seen EXCEPT ![p][r] = store[r]]
            /\ UNCHANGED skipped
       ELSE /\ skipped' = [skipped EXCEPT ![p] = @ \cup {r}]
            /\ UNCHANGED seen
  /\ UNCHANGED <<store, reachable, pc, dry, todo, tries, chosen, declined, started, asOf, counted>>

\* Compute plans each repository that was read, from a list that holds each of
\* the labels `twice` two times.
Plans(p, r, twice) ==
  IF r \notin Covered \ skipped[p] THEN {{}}
  ELSE IF twice = {} THEN Compute(r, seen[p][r], Mode[p])
  ELSE {ComputeRepeated(r, seen[p][r], twice, Mode[p])}

\* Once every read is in.  A read that was refused behind its first page has read
\* that page again, and holds its labels two times.
Plan(p) ==
  /\ pc[p] = "reading"
  /\ unread[p] = {}
  /\ \E twice \in [Repos -> {{}} \cup Rereads] :
        \E plan \in [Repos -> UNION {Plans(p, r, twice[r]) : r \in Repos}] :
          /\ \A r \in Repos : plan[r] \in Plans(p, r, twice[r])
          /\ todo' = [todo EXCEPT ![p] = plan]
  /\ pc' = [pc EXCEPT ![p] = "planned"]
  /\ seen' = [seen EXCEPT ![p] = [r \in Repos |-> NoLabels]]
  /\ UNCHANGED <<store, reachable, dry, unread, skipped, tries, chosen, declined, started, asOf, counted>>

\* Candidates: the removals a plan holds, by repository and label.
Offered(plan) == UNION {{<<r, Lower[a.name]>> : a \in Removals(plan[r])} : r \in Repos}

\* Mutant: the whole plan is applied whatever was chosen.
RetainEverything(plan, keep) == plan

\* RetainDeletes: the plan without the removals that were not chosen.
RetainDeletes(plan, keep) ==
  [r \in Repos |->
     {a \in plan[r] : a.kind = "delete" => <<r, Lower[a.name]>> \in keep}]

\* selectRemovals, then the check with which Apply begins.  The user keeps some
\* of the candidates, --yes all of them; append mode has nothing to choose from.
\* Apply refuses removals unless the mode asked for them.
Select(p) ==
  /\ pc[p] = "planned"
  /\ ~dry[p]
  /\ \E keep \in SUBSET Offered(todo[p]) :
       /\ Mode[p] = "append" => keep = Offered(todo[p])
       /\ todo' = [todo EXCEPT ![p] = RetainDeletes(@, keep)]
       /\ chosen' = [chosen EXCEPT ![p] = keep]
       /\ declined' = [declined EXCEPT ![p] = Offered(todo[p]) \ keep]
  /\ pc' = [pc EXCEPT ![p] =
       IF Mode[p] # "prune" /\ Offered(todo'[p]) # {} THEN "failed" ELSE "applying"]
  /\ UNCHANGED <<store, reachable, dry, unread, seen, skipped, tries, started, asOf, counted>>

\* --dry-run: the plan is the result, none of it is chosen from or carried out.
Preview(p) ==
  /\ pc[p] = "planned"
  /\ dry[p]
  /\ pc' = [pc EXCEPT ![p] = "done"]
  /\ UNCHANGED <<remote, dry, unread, seen, todo, skipped, tries, chosen, declined, started, asOf, counted>>

-----------------------------------------------------------------------------
(***************************************************************************)
(* Applying.  The request in flight is the first action of the first       *)
(* repository that has any left: nothing is reordered, and two             *)
(* repositories are never written to at once.                              *)
(***************************************************************************)
InFlight(p, r, a) ==
  /\ pc[p] = "applying"
  /\ a \in Writes(todo[p][r])
  /\ \A b \in Writes(todo[p][r]) : b = a \/ Before(a, b)
  /\ \A q \in Repos : Writes(todo[p][q]) # {} => RepoRank[r] <= RepoRank[q]

\* The write is answered with a success.
Succeed(p, r, a) ==
  /\ InFlight(p, r, a)
  /\ reachable[r]
  /\ Answer(store[r], a) = "ok"
  /\ store' = [store EXCEPT ![r] = Effect(@, a)]
  /\ todo' = [todo EXCEPT ![p][r] = @ \ {a}]
  /\ tries' = [tries EXCEPT ![p] = 0]
  /\ UNCHANGED <<reachable, pc, dry, unread, seen, skipped, chosen, declined, started, asOf, counted>>

\* Mutant: a name that already exists is freed by deleting the label first.
AsReplacement(a) == [a EXCEPT !.kind = "delete"]

\* The whole label as a patch, addressed by its desired name.
AsUpdate(a) == [a EXCEPT !.kind = "update", !.newName = a.name]

\* CreateLabel: a name that already exists turns the create into an update,
\* which is a second request.
Fallback(p, r, a) ==
  /\ InFlight(p, r, a)
  /\ reachable[r]
  /\ a.kind = "create" /\ Answer(store[r], a) = "exists"
  /\ todo' = [todo EXCEPT ![p][r] = (@ \ {a}) \cup {AsUpdate(a)}]
  /\ tries' = [tries EXCEPT ![p] = 0]
  /\ UNCHANGED <<remote, pc, dry, unread, seen, skipped, chosen, declined, started, asOf, counted>>

\* Mutant: a failed repository ends the writes to all of them.
AbandonEverything(p, r, a) ==
  /\ InFlight(p, r, a)
  /\ ~reachable[r] \/ Answer(store[r], a) = "missing"
  /\ todo' = [todo EXCEPT ![p] = NoPlan]
  /\ skipped' = [skipped EXCEPT ![p] = @ \cup {r}]
  /\ tries' = [tries EXCEPT ![p] = 0]
  /\ UNCHANGED <<remote, pc, dry, unread, seen, chosen, declined, started, asOf, counted>>

\* Mutant: a failed request is recorded but not given up.
AbandonNothing(p, r, a) ==
  /\ InFlight(p, r, a)
  /\ ~reachable[r] \/ Answer(store[r], a) = "missing"
  /\ skipped' = [skipped EXCEPT ![p] = @ \cup {r}]
  /\ tries' = [tries EXCEPT ![p] = 0]
  /\ UNCHANGED <<remote, pc, dry, unread, seen, todo, chosen, declined, started, asOf, counted>>

\* Mutant: 422 is a repository failure too.
AbandonOnExists(p, r, a) ==
  /\ InFlight(p, r, a)
  /\ ~reachable[r] \/ Answer(store[r], a) # "ok"
  /\ todo' = [todo EXCEPT ![p][r] = {}]
  /\ skipped' = [skipped EXCEPT ![p] = @ \cup {r}]
  /\ tries' = [tries EXCEPT ![p] = 0]
  /\ UNCHANGED <<remote, pc, dry, unread, seen, chosen, declined, started, asOf, counted>>

\* 403, 404 and 410 are Classify's repository failures, and a label that is
\* missing is a 404 too: the repository is recorded and abandoned.
Abandon(p, r, a) ==
  /\ InFlight(p, r, a)
  /\ ~reachable[r] \/ Answer(store[r], a) = "missing"
  /\ todo' = [todo EXCEPT ![p][r] = {}]
  /\ skipped' = [skipped EXCEPT ![p] = @ \cup {r}]
  /\ tries' = [tries EXCEPT ![p] = 0]
  /\ UNCHANGED <<remote, pc, dry, unread, seen, chosen, declined, started, asOf, counted>>

\* Any other error is the run's: here the 422 of a rename whose target has
\* come to exist since the read.
Collide(p, r, a) ==
  /\ InFlight(p, r, a)
  /\ reachable[r]
  /\ a.kind # "create" /\ Answer(store[r], a) = "exists"
  /\ pc' = [pc EXCEPT ![p] = "failed"]
  /\ tries' = [tries EXCEPT ![p] = 0]
  /\ UNCHANGED <<remote, dry, unread, seen, todo, skipped, chosen, declined, started, asOf, counted>>

\* retryTransport: the answer is a 5xx, whether or not GitHub served the
\* request, and the same request is sent again.
LoseAnswer(p, r, a) ==
  /\ InFlight(p, r, a)
  /\ reachable[r]
  /\ tries[p] < MaxTries
  /\ store' \in {store, [store EXCEPT ![r] = Served(@, a)]}
  /\ tries' = [tries EXCEPT ![p] = @ + 1]
  /\ UNCHANGED <<reachable, pc, dry, unread, seen, todo, skipped, chosen, declined, started, asOf, counted>>

Apply(p) ==
  \E r \in Repos : \E a \in todo[p][r] :
    \/ Succeed(p, r, a)
    \/ Fallback(p, r, a)
    \/ Abandon(p, r, a)
    \/ Collide(p, r, a)
    \/ LoseAnswer(p, r, a)

\* Nothing is left to write: the run reports and exits.
Finish(p) ==
  /\ pc[p] = "applying"
  /\ \A r \in Repos : Writes(todo[p][r]) = {}
  /\ pc' = [pc EXCEPT ![p] = "done"]
  /\ UNCHANGED <<remote, dry, unread, seen, todo, skipped, tries, chosen, declined, started, asOf, counted>>

\* drifted: whether a plan holds anything that would change a repository.
Drifted(plan) == \E r \in Repos : Writes(plan[r]) # {}

\* Mutant: a run that wrote does not say what it skipped.
OutcomeOfWrites(p) ==
  IF pc[p] = "failed" THEN {"error"}
  ELSE {c \in {"drift", "skipped"} :
          dry[p] /\ (c = "drift" => Drifted(todo[p])) /\ (c = "skipped" => skipped[p] # {})}

\* outcome: the bits of the exit code, none of them for exit.OK.  A failure is
\* exclusive.
Outcome(p) ==
  IF pc[p] = "failed" THEN {"error"}
  ELSE {c \in {"drift", "skipped"} :
          \/ c = "drift" /\ dry[p] /\ Drifted(todo[p])
          \/ c = "skipped" /\ skipped[p] # {}}

\* What a process loses when it ends.
Forget(p) ==
  /\ unread' = [unread EXCEPT ![p] = Covered]
  /\ seen' = [seen EXCEPT ![p] = [r \in Repos |-> NoLabels]]
  /\ todo' = [todo EXCEPT ![p] = NoPlan]
  /\ skipped' = [skipped EXCEPT ![p] = {}]
  /\ tries' = [tries EXCEPT ![p] = 0]
  /\ chosen' = [chosen EXCEPT ![p] = {}]
  /\ declined' = [declined EXCEPT ![p] = {}]

\* The run ends where it stands: killed, cancelled, out of retries, a wait
\* past --max-wait, a declined prompt, a plan over the budget.
Stop(p) ==
  /\ pc[p] \in {"reading", "planned", "applying"}
  /\ restarts < MaxRestarts
  /\ pc' = [pc EXCEPT ![p] = "failed"]
  /\ Forget(p)
  /\ UNCHANGED <<remote, dry, started, asOf, counted>>

\* The command is started again, perhaps to look only, with nothing of the
\* earlier run but the store.
Restart(p) ==
  /\ pc[p] \in {"done", "failed"}
  /\ restarts < MaxRestarts
  /\ restarts' = restarts + 1
  /\ pc' = [pc EXCEPT ![p] = "reading"]
  /\ \E d \in DryRun : dry' = [dry EXCEPT ![p] = d]
  /\ Forget(p)
  /\ asOf' = [asOf EXCEPT ![p] = edits]
  /\ UNCHANGED <<remote, started, edits, outages>>

-----------------------------------------------------------------------------
(***************************************************************************)
(* The world around the runs.                                              *)
(***************************************************************************)

\* Somebody creates, changes, renames or deletes a label by hand.
Edit(r) ==
  /\ edits < MaxEdits
  /\ \E a \in Handiwork :
        /\ Answer(store[r], a) = "ok"
        /\ store' = [store EXCEPT ![r] = Effect(@, a)]
  /\ edits' = edits + 1
  /\ UNCHANGED <<reachable, local, started, asOf, restarts, outages>>

\* The repository is archived, deleted or hidden from the token ...
Outage(r) ==
  /\ reachable[r]
  /\ outages < MaxOutages
  /\ reachable' = [reachable EXCEPT ![r] = FALSE]
  /\ outages' = outages + 1
  /\ UNCHANGED <<store, local, started, asOf, restarts, edits>>

\* ... and comes back.
Recovery(r) ==
  /\ ~reachable[r]
  /\ reachable' = [reachable EXCEPT ![r] = TRUE]
  /\ UNCHANGED <<store, local, started, asOf, counted>>

Advance(p) ==
  \/ \E r \in Repos : Read(p, r)
  \/ Plan(p)
  \/ Select(p)
  \/ Preview(p)
  \/ Apply(p)
  \/ Finish(p)

Next ==
  \/ \E p \in Runs : Advance(p) \/ Stop(p) \/ Restart(p)
  \/ \E r \in Repos : Edit(r) \/ Outage(r) \/ Recovery(r)

Spec == Init /\ [][Next]_vars

\* The process keeps going while its requests are answered, and the prompt is.
FairSpec == Spec /\ \A p \in Runs : WF_vars(Advance(p))

-----------------------------------------------------------------------------
(***************************************************************************)
(* Properties.                                                             *)
(***************************************************************************)

\* A run p has written to, or given up on, something in this step.
Acts(p) == <<todo[p], tries[p]>>' # <<todo[p], tries[p]>>

\* Nobody but the runs has touched a label since run p started.
Undisturbed(p) == asOf[p] = edits

Finished(p, r) == pc[p] = "done" /\ ~dry[p] /\ r \in Covered \ skipped[p]

\* A run that finishes, having skipped nothing, leaves the repository as
\* configured, whatever an earlier run that was stopped had already changed,
\* whatever answers were lost and whatever other runs did meanwhile: what
\* plan.Compute's order and apply.Apply's are for.
Converged ==
  \A p \in Runs : \A r \in Repos :
    Finished(p, r) /\ Undisturbed(p) => Conforms(r, store[r])

\* A label the configuration renames is the same label afterwards, issues and
\* pull requests attached, also when the run that renamed it was stopped or
\* its answer was lost: "a PATCH and never a delete plus a create".
RenameKeepsIdentity ==
  \A p \in Runs : \A r \in Repos : \A i \in DOMAIN Renames :
    /\ Finished(p, r) /\ edits = 0
    /\ started[r][From(i)] # None /\ started[r][To(i)] = None
    /\ To(i) \in Configured(r)
    => store[r][To(i)].origin = From(i)

\* The labels moved off a configured colour end up on colours of their own:
\* each allocation counts for the next one, within a run and across a restart.
RecoloursApart ==
  \A p \in Runs : \A r \in Repos :
    Finished(p, r) /\ edits = 0 =>
      \A j, k \in Unconfigured(r, store[r]) :
        /\ j # k
        /\ store[r][k].origin \in Keys
        /\ store[r][k].color # started[r][store[r][k].origin].color
        => store[r][j].color # store[r][k].color

\* Append mode never deletes: no write of an append run destroys a label.
AppendKeepsLabels ==
  [][\A p \in Runs : Mode[p] = "append" /\ Acts(p) =>
        \A r \in Repos : Origins(store[r]) \subseteq Origins(store'[r])]_vars

\* A label disappears by a run's hand only if the user was offered it and
\* chose it, and never if the configuration knows its name.
RemovesOnlyChosen ==
  [][edits' = edits =>
      \A r \in Repos : \A k \in Present(store[r]) :
        store[r][k].origin \notin Origins(store'[r]) =>
          /\ k \notin Configured(r)
          /\ \E p \in Runs : Mode[p] = "prune" /\ <<r, k>> \in chosen[p]]_vars

\* Deletes come last: when a run destroys a label, everything recoverable has
\* been done in that repository already, by this run or by one it overlaps.
RemovesAfterRepair ==
  [][edits' = edits =>
      \A r \in Repos :
        ~(Origins(store[r]) \subseteq Origins(store'[r])) => Conforms(r, store[r])]_vars

\* The pairs of a configured label and a squatter on its colour.
Sharing(r, v) ==
  {pair \in (Configured(r) \cap Present(v)) \X Squatters(r, v) :
     v[pair[1]].color = v[pair[2]].color}

\* Squatters move off before a configured label claims the colour: no write
\* that gives a configured label its colour leaves it sharing that colour with
\* a label that was supposed to move.
ClaimsClearColour ==
  [][edits' = edits =>
      \A r \in Repos : \A s \in Sharing(r, store'[r]) \ Sharing(r, store[r]) :
        LET l == store'[r][s[1]]
        IN  \E k \in Present(store[r]) :
              store[r][k].origin = l.origin /\ store[r][k].color = l.color]_vars

\* Only a repository that was unreachable at some time is skipped, so that
\* repeating a request whose answer was lost is safe (expected to be violated: a
\* rename that was served and is sent again is answered 404).
SkipsOnlyUnreachable == edits = 0 /\ outages = 0 => \A p \in Runs : skipped[p] = {}

\* It is only for a rename or a removal that repeating is not safe: in append mode,
\* a reachable repository that had no label to rename is never given up.
SkipsOnlyRenames ==
  edits = 0 /\ outages = 0 =>
    \A p \in Runs : \A r \in skipped[p] :
      Mode[p] = "prune" \/ \E i \in DOMAIN Renames : started[r][From(i)] # None

\* Runs that overlap do not defeat each other: once they have all finished,
\* each repository is as configured, even if none of them completed it alone.
OverlapConverges ==
  (\A p \in Runs : pc[p] = "done" /\ ~dry[p]) /\ edits + outages = 0 =>
    \A r \in Covered : Conforms(r, store[r])

\* Prune makes the repository match the configuration exactly, but for the
\* candidates the user kept: recoloured labels are candidates like any other.
PruneIsExact ==
  \A p \in Runs : \A r \in Repos :
    Finished(p, r) /\ Undisturbed(p) /\ Mode[p] = "prune" =>
      \A k \in Unconfigured(r, store[r]) : <<r, k>> \in declined[p]

\* What a run p in its mode would still have to do to a repository.  A rename
\* whose target p itself has removed is not held against it.
Outstanding(p, r) ==
  \/ ~Conforms(r, store[r])
  \/ \E i \in Applicable(store[r]) : <<r, To(i)>> \notin chosen[p]
  \/ Mode[p] = "prune" /\ \E k \in Unconfigured(r, store[r]) : <<r, k>> \notin declined[p]

\* The exit code of the only run tells the truth.  A dry run reports drift if
\* and only if a repository it could read has something outstanding: a label
\* that differs in casing only, one on a configured colour and one that an
\* earlier run was stopped before are drift, a plan of no-ops is none.  And no
\* bit at all "means the run succeeded and left nothing outstanding".
ExitIsTrue ==
  \A p \in Runs : pc[p] = "done" /\ Undisturbed(p) /\ Runs = {p} =>
    /\ dry[p] => ("drift" \in Outcome(p) <=> \E r \in Covered \ skipped[p] : Outstanding(p, r))
    /\ Outcome(p) = {} => \A r \in Covered : ~Outstanding(p, r)

\* Overlapping or restarted, with answers lost, the runs do to each repository
\* only what Reconciliation allows (the refinement mapping is the identity on
\* the store, the rest of the state being the runs' own).
Promise == INSTANCE Reconciliation WITH MayRemove <- \E p \in Runs : Mode[p] = "prune"

KeepsPromise == Promise!PromiseSpec

\* Every run comes to an end.
EveryRunEnds == \A p \in Runs : <>(pc[p] \in {"done", "failed"})
=============================================================================
