----------------------------- MODULE LabelReads -----------------------------
(***************************************************************************)
(* Reading the labels of several repositories at once, with the ETag cache *)
(* on disk: ReadLabels and ListLabels (internal/github/labels.go), load    *)
(* and save (cache.go), and Store.Clear (store.go).  The runs are          *)
(* processes that share a cache directory; a task is the goroutine of a    *)
(* run that reads one repository.                                          *)
(*                                                                         *)
(* GitHub is external: the labels of a repository are a sequence, served a *)
(* page at a time, and the ETag of a page is what is on it.  People edit   *)
(* the labels between any two requests.  Not here: the order in which the  *)
(* goroutines start, an entry of another schema (a miss, as none is),      *)
(* the temporary files a killed run leaves, which nobody reads, and        *)
(* whatever else is in the directory, which Clear does not list.           *)
(***************************************************************************)
EXTENDS Integers, Sequences, FiniteSets, SequencesExt

CONSTANTS
  Runs,         \* processes that read
  Repos,        \* what each of them reads
  Caching,      \* the runs without --no-cache
  Concurrency,  \* requests in flight of one run
  Labels,       \* what a repository may have
  MaxLabels,    \* GitHub: how many of them at most
  PageSize,     \* labelsPerPage
  Lists,        \* GitHub: what the repositories may start with
  MaxLimits,    \* rate limits a read sits out before --max-wait ends the run
  MaxRestarts,  \* how often runs are started again, altogether
  Outages,      \* GitHub: whether requests fail other than by a rate limit
  MaxEdits,     \* GitHub: how often people edit labels meanwhile
  Clears        \* whether the cache is cleared meanwhile

ASSUME LabelReadsAssumption ==
  /\ Caching \subseteq Runs
  /\ Concurrency \in Nat \ {0} /\ PageSize \in Nat \ {0}
  /\ MaxLabels \in Nat /\ MaxLimits \in Nat /\ MaxRestarts \in Nat
  /\ Lists \subseteq Seq(Labels) /\ Lists # {}
  /\ \A s \in Lists : IsInjective(s)
  /\ Outages \in BOOLEAN /\ MaxEdits \in Nat /\ Clears \in BOOLEAN

Tasks == Runs \X Repos

VARIABLES
  list,      \* GitHub: the labels of each repository
  edits,     \* GitHub: how often people have edited them
  entry,     \* the cache entry of each repository, or Absent
  temps,     \* the tasks whose temporary file is in the cache directory
  pc,        \* how far each task has come
  cached,    \* ListLabels: the entry's labels
  etag,      \* ListLabels: the ETag to offer, or NoTag
  cursor,    \* ListLabels: opts.Page, 0 for the first page and after the last
  pages,     \* ListLabels: pages read
  freshETag, \* ListLabels: the ETag of the first page
  labels,    \* ListLabels: the labels so far, and at the end its result
  limits,    \* rate limits a task has sat out
  restarts,  \* how often a run was started again
  clearing,  \* the files Clear has listed and not removed, or Idle
  steady,    \* (history) the labels a repository has had throughout a read
  still,     \* (history) its list, as long as nobody has edited it meanwhile
  saved      \* (history) the repositories saved since Clear listed the files

local   == <<cached, etag, cursor, pages, freshETag, labels>>
history == <<steady, still, saved>>
vars    == <<list, edits, entry, temps, pc, cached, etag, cursor, pages, freshETag, labels,
             limits, restarts, clearing, steady, still, saved>>

Absent == [etag |-> {}, pages |-> 0, labels |-> <<>>]
NoTag  == {}        \* no ETag, and {p} for the one of page p
Idle   == {<<"idle">>}

FirstPage(s) == SubSeq(s, 1, IF Len(s) < PageSize THEN Len(s) ELSE PageSize)

Entry == [etag : SUBSET Seq(Labels), pages : Nat \ {0}, labels : Seq(Labels)]

EntryFile(repo) == <<"entry", repo>>
TempFile(t)     == <<"temp", t>>

Ended == {"done", "absent", "failed"}

TypeOK ==
  /\ list \in [Repos -> Seq(Labels)] /\ edits \in 0..MaxEdits
  /\ entry \in [Repos -> Entry \cup {Absent}]
  /\ temps \subseteq Tasks
  /\ pc \in [Tasks -> {"queued", "reading", "saving", "renaming"} \cup Ended]
  /\ cached \in [Tasks -> Seq(Labels)]
  /\ etag \in [Tasks -> SUBSET Seq(Labels)]
  /\ cursor \in [Tasks -> Nat] /\ pages \in [Tasks -> Nat] /\ limits \in [Tasks -> 0..MaxLimits]
  /\ freshETag \in [Tasks -> SUBSET Seq(Labels)]
  /\ labels \in [Tasks -> Seq(Labels)]
  /\ \A t \in Tasks : pc[t] \in {"saving", "renaming"} => pages[t] > 0 /\ freshETag[t] # NoTag
  /\ restarts \in 0..MaxRestarts
  /\ \/ clearing = Idle
     \/ clearing \subseteq {EntryFile(r) : r \in Repos} \cup {TempFile(t) : t \in Tasks}
  /\ steady \in [Tasks -> SUBSET Labels] /\ still \in [Tasks -> SUBSET Seq(Labels)]
  /\ saved \subseteq Repos

Init ==
  /\ list \in [Repos -> Lists] /\ edits = 0
  /\ entry = [r \in Repos |-> Absent] /\ temps = {}
  /\ pc = [t \in Tasks |-> "queued"]
  /\ cached = [t \in Tasks |-> <<>>] /\ etag = [t \in Tasks |-> NoTag]
  /\ cursor = [t \in Tasks |-> 0] /\ pages = [t \in Tasks |-> 0]
  /\ freshETag = [t \in Tasks |-> NoTag] /\ labels = [t \in Tasks |-> <<>>]
  /\ limits = [t \in Tasks |-> 0] /\ restarts = 0
  /\ clearing = Idle
  /\ steady = [t \in Tasks |-> {}] /\ still = [t \in Tasks |-> {}] /\ saved = {}

-----------------------------------------------------------------------------
\* Mutant: a goroutine that has returned keeps its place in the group.
BusyForever(run) == {repo \in Repos : pc[run, repo] # "queued"}

\* errgroup.SetLimit: the goroutines of a run that have not returned.
Busy(run) == {repo \in Repos : pc[run, repo] \in {"reading", "saving", "renaming"}}

\* Mutant: a list of several pages is served from the cache as well.
UsableAnyway(e) == e # Absent

\* load, and the condition ListLabels adds: one page only.
Usable(e) == e # Absent /\ e.pages = 1

\* A goroutine starts, and looks for the repository's entry.
Start(t) ==
  /\ pc[t] = "queued" /\ Cardinality(Busy(t[1])) < Concurrency
  /\ pc' = [pc EXCEPT ![t] = "reading"]
  /\ IF t[1] \in Caching /\ Usable(entry[t[2]])
       THEN /\ etag' = [etag EXCEPT ![t] = entry[t[2]].etag]
            /\ cached' = [cached EXCEPT ![t] = entry[t[2]].labels]
       ELSE UNCHANGED <<etag, cached>>
  /\ steady' = [steady EXCEPT ![t] = ToSet(list[t[2]])]
  /\ still' = [still EXCEPT ![t] = {list[t[2]]}]
  /\ UNCHANGED <<list, edits, entry, temps, cursor, pages, freshETag, labels, limits, restarts,
                 clearing, saved>>

\* The page a request asks for, and what the answer says comes next.
PageNumber(t) == IF cursor[t] = 0 THEN 1 ELSE cursor[t]

Page(t) ==
  LET all == list[t[2]]  p == PageNumber(t)
  IN  SubSeq(all, (p - 1) * PageSize + 1,
             IF p * PageSize < Len(all) THEN p * PageSize ELSE Len(all))

NextPage(t) ==
  IF PageNumber(t) * PageSize < Len(list[t[2]]) THEN PageNumber(t) + 1 ELSE 0

\* Not Modified: If-None-Match goes out with the first page only.
Matches(t) ==
  cursor[t] <= 1 /\ etag[t] = {FirstPage(list[t[2]])}

\* A 304 is recognised before it is classified, and the cached list returned.
NotModified(t) ==
  /\ pc[t] = "reading" /\ Matches(t)
  /\ labels' = [labels EXCEPT ![t] = cached[t]]
  /\ pc' = [pc EXCEPT ![t] = "done"]
  /\ UNCHANGED <<list, edits, entry, temps, cached, etag, cursor, pages, freshETag, limits, restarts,
                 clearing, history>>

\* Mutant: the pages of a list are not counted.
Uncounted(n) == n

\* Mutant: only the first one is.
CountedOnce(n) == 1

Counted(n) == n + 1

\* A page: its labels are appended, and the first one's ETag is kept.  After the
\* last page the list goes to the cache.
ReadPage(t) ==
  /\ pc[t] = "reading" /\ ~Matches(t)
  /\ labels' = [labels EXCEPT ![t] = @ \o Page(t)]
  /\ cursor' = [cursor EXCEPT ![t] = NextPage(t)]
  /\ pages' = [pages EXCEPT ![t] = Counted(@)]
  /\ IF pages[t] = 0
       THEN /\ freshETag' = [freshETag EXCEPT ![t] = {Page(t)}]
            /\ etag' = [etag EXCEPT ![t] = NoTag]
       ELSE UNCHANGED <<freshETag, etag>>
  /\ pc' = [pc EXCEPT ![t] =
       IF NextPage(t) # 0 THEN "reading" ELSE IF t[1] \in Caching THEN "saving" ELSE "done"]
  /\ UNCHANGED <<list, edits, entry, temps, cached, limits, restarts, clearing, history>>

\* A rate limit, which Do sits out before it makes the call again.  The refusal
\* has no next page, and the cursor is moved before it is classified: back to
\* the first page, wherever the read was.
Limited(t) ==
  /\ pc[t] = "reading" /\ limits[t] < MaxLimits
  /\ limits' = [limits EXCEPT ![t] = @ + 1]
  /\ cursor' = [cursor EXCEPT ![t] = 0]
  /\ UNCHANGED <<list, edits, entry, temps, pc, cached, etag, pages, freshETag, labels, restarts,
                 clearing, history>>

\* Mutant: a repository that cannot be reached has no labels.
InaccessibleIsEmpty(t) ==
  /\ Outages /\ pc[t] = "reading"
  /\ pc' = [pc EXCEPT ![t] = "done"]
  /\ UNCHANGED <<list, edits, entry, temps, local, limits, restarts, clearing, history>>

\* 403, 404 or 410: recorded, and absent from the result of ReadLabels.
Inaccessible(t) ==
  /\ Outages /\ pc[t] = "reading"
  /\ pc' = [pc EXCEPT ![t] = "absent"]
  /\ UNCHANGED <<list, edits, entry, temps, local, limits, restarts, clearing, history>>

\* Any other error is the run's, and cancels what the other goroutines wait for.
Fail(t) ==
  /\ pc[t] = "reading"
  /\ Outages \/ \E repo \in Repos : pc[t[1], repo] = "failed"
  /\ pc' = [pc EXCEPT ![t] = "failed"]
  /\ UNCHANGED <<list, edits, entry, temps, local, limits, restarts, clearing, history>>

-----------------------------------------------------------------------------
\* save: the entry is written to a temporary file ...
CreateTemp(t) ==
  /\ pc[t] = "saving"
  /\ temps' = temps \cup {t}
  /\ pc' = [pc EXCEPT ![t] = "renaming"]
  /\ UNCHANGED <<list, edits, entry, local, limits, restarts, clearing, history>>

\* ... and renamed into place, unless Clear has taken it away.
Rename(t) ==
  /\ pc[t] = "renaming"
  /\ IF t \in temps
       THEN /\ entry' = [entry EXCEPT ![t[2]] =
                 [etag |-> freshETag[t], pages |-> pages[t], labels |-> labels[t]]]
            /\ saved' = saved \cup {t[2]}
       ELSE UNCHANGED <<entry, saved>>
  /\ temps' = temps \ {t}
  /\ pc' = [pc EXCEPT ![t] = "done"]
  /\ UNCHANGED <<list, edits, local, limits, restarts, clearing, steady, still>>

\* Saving fails at any point, which costs the next run a request and no more.
SaveFails(t) ==
  /\ pc[t] \in {"saving", "renaming"}
  /\ temps' = temps \ {t}
  /\ pc' = [pc EXCEPT ![t] = "done"]
  /\ UNCHANGED <<list, edits, entry, local, limits, restarts, clearing, history>>

\* A run has ended, or is killed, and is started again.
Restart(run) ==
  /\ restarts < MaxRestarts /\ restarts' = restarts + 1
  /\ pc' = [t \in Tasks |-> IF t[1] = run THEN "queued" ELSE pc[t]]
  /\ temps' = {t \in temps : t[1] # run}
  /\ cached' = [t \in Tasks |-> IF t[1] = run THEN <<>> ELSE cached[t]]
  /\ etag' = [t \in Tasks |-> IF t[1] = run THEN NoTag ELSE etag[t]]
  /\ cursor' = [t \in Tasks |-> IF t[1] = run THEN 0 ELSE cursor[t]]
  /\ pages' = [t \in Tasks |-> IF t[1] = run THEN 0 ELSE pages[t]]
  /\ freshETag' = [t \in Tasks |-> IF t[1] = run THEN NoTag ELSE freshETag[t]]
  /\ labels' = [t \in Tasks |-> IF t[1] = run THEN <<>> ELSE labels[t]]
  /\ limits' = [t \in Tasks |-> IF t[1] = run THEN 0 ELSE limits[t]]
  /\ UNCHANGED <<list, edits, entry, clearing, history>>

-----------------------------------------------------------------------------
\* Clear: the files this tool wrote are listed ...
ListFiles ==
  /\ Clears /\ clearing = Idle
  /\ clearing' = {EntryFile(r) : r \in {r \in Repos : entry[r] # Absent}}
                   \cup {TempFile(t) : t \in temps}
  /\ saved' = {}
  /\ UNCHANGED <<list, edits, entry, temps, pc, local, limits, restarts, steady, still>>

\* Mutant: a file that is gone already ends Clear.
StopAtMissing(file) ==
  /\ clearing # Idle /\ file \in clearing
  /\ LET there == {EntryFile(r) : r \in {r \in Repos : entry[r] # Absent}}
                    \cup {TempFile(t) : t \in temps}
     IN  clearing' = IF file \in there THEN clearing \ {file} ELSE {}
  /\ entry' = [r \in Repos |-> IF file = EntryFile(r) THEN Absent ELSE entry[r]]
  /\ temps' = {t \in temps : file # TempFile(t)}
  /\ UNCHANGED <<list, edits, pc, local, limits, restarts, history>>

\* ... and removed one by one; one that is gone already is passed over.
RemoveFile(file) ==
  /\ clearing # Idle /\ file \in clearing
  /\ clearing' = clearing \ {file}
  /\ entry' = [r \in Repos |-> IF file = EntryFile(r) THEN Absent ELSE entry[r]]
  /\ temps' = {t \in temps : file # TempFile(t)}
  /\ UNCHANGED <<list, edits, pc, local, limits, restarts, history>>

\* Clear returns.  Or it has failed to remove a file, and what is left stays.
Cleared ==
  /\ clearing # Idle
  /\ clearing = {} \/ Outages
  /\ clearing' = Idle
  /\ UNCHANGED <<list, edits, entry, temps, pc, local, limits, restarts, history>>

\* Somebody creates, deletes or changes a label.
Edit(repo) ==
  /\ edits < MaxEdits /\ edits' = edits + 1
  /\ \/ /\ Len(list[repo]) < MaxLabels
        /\ \E l \in Labels \ ToSet(list[repo]) : list' = [list EXCEPT ![repo] = Append(@, l)]
     \/ \E i \in DOMAIN list[repo] : list' = [list EXCEPT ![repo] = RemoveAt(@, i)]
     \/ \E i \in DOMAIN list[repo], l \in Labels \ ToSet(list[repo]) :
          list' = [list EXCEPT ![repo][i] = l]
  /\ steady' = [t \in Tasks |-> IF t[2] = repo /\ pc[t] = "reading"
                                  THEN steady[t] \cap ToSet(list'[repo]) ELSE steady[t]]
  /\ still' = [t \in Tasks |-> IF t[2] = repo /\ pc[t] = "reading" THEN {} ELSE still[t]]
  /\ UNCHANGED <<entry, temps, pc, local, limits, restarts, clearing, saved>>

Proceed(t) ==
  \/ Start(t)
  \/ NotModified(t)
  \/ ReadPage(t)
  \/ Inaccessible(t)
  \/ Fail(t)
  \/ CreateTemp(t)
  \/ Rename(t)
  \/ SaveFails(t)

Clear == ListFiles \/ Cleared \/ \E file \in clearing : RemoveFile(file)

Next ==
  \/ \E t \in Tasks : Proceed(t) \/ Limited(t)
  \/ \E run \in Runs : Restart(run)
  \/ Clear
  \/ \E repo \in Repos : Edit(repo)

Spec == Init /\ [][Next]_vars

\* Goroutines run, and GitHub answers their requests in the end.
FairSpec == Spec /\ \A t \in Tasks : WF_vars(Proceed(t))

-----------------------------------------------------------------------------
(***************************************************************************)
(* Properties.                                                             *)
(***************************************************************************)

FromCache(t) == pc[t] = "done" /\ pages[t] = 0

\* A list from the cache that fills its page exactly: one that was added behind it
\* is missed, for the ETag of the first page is the same.
FullPage(t) == FromCache(t) /\ Len(labels[t]) = PageSize

\* A repository nobody edits is read as it is, whatever other runs do and however
\* old the cache is: the read ends with its labels, all of them and in order, and
\* holds no others; before them there is something only when the read was refused,
\* and one that cannot be reached is not read as one without labels.
QuietReadsAreRight ==
  \A t \in Tasks : pc[t] = "done" /\ ~FullPage(t) =>
    \A s \in still[t] :
      /\ IsSuffix(s, labels[t]) /\ ToSet(labels[t]) = ToSet(s)
      /\ limits[t] = 0 => labels[t] = s

\* A read that sat out a rate limit returns the labels of the repository, each of
\* them once (expected to be violated: a refusal behind the first page moves the
\* cursor back to it, and what was read before stays in the list).
ListsEachLabelOnce ==
  \A t \in Tasks : pc[t] = "done" /\ still[t] # {} => IsInjective(labels[t])

\* A label that was there throughout is not missing from a list that came from
\* the cache, or in one page.
SinglePageMissesNothing ==
  \A t \in Tasks :
    pc[t] = "done" /\ pages[t] <= 1 /\ ~FullPage(t) => steady[t] \subseteq ToSet(labels[t])

\* Serving a list of one page from the cache is correct, so that a label is never
\* taken for missing, and created again (expected to be violated: when the list
\* fills the page, the next label to be added is on another one).
CacheMissesNothing ==
  \A t \in Tasks : FromCache(t) => steady[t] \subseteq ToSet(labels[t])

\* An entry that may be served is the list its ETag stands for, whatever runs
\* were killed, overtook each other or had their files cleared while saving it.
EntriesAreHonest ==
  \A repo \in Repos : Usable(entry[repo]) => entry[repo].etag = {entry[repo].labels}

\* Clear leaves no entry behind but those saved after it listed the directory.
ClearEmpties ==
  [][clearing = {} /\ clearing' = Idle =>
       \A repo \in Repos : entry[repo] # Absent => repo \in saved]_vars

\* Every read ends, and with it ReadLabels: no goroutine waits for a place for ever.
EveryReadEnds == \A t \in Tasks : []<>(pc[t] \in Ended)
=============================================================================
