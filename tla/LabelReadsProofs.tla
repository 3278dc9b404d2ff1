-------------------------- MODULE LabelReadsProofs --------------------------
(***************************************************************************)
(* A cache entry that may be served is the list its ETag stands for, for   *)
(* any number of runs and repositories that share a cache directory, any   *)
(* page size, and however runs are killed, overtake each other while they  *)
(* save, or have their files cleared under them.  From this follow what a  *)
(* list that has been read is worth, and what Clear leaves behind.         *)
(***************************************************************************)
EXTENDS LabelReads, SequenceTheorems, TLAPS

-----------------------------------------------------------------------------
(***************************************************************************)
(* The inductive invariant.  What is stored is what a goroutine has in     *)
(* hand when it renames its file, so the entries are honest because what   *)
(* every goroutine has in hand is: before the first page nothing, after it *)
(* the page and its ETag.  From the second page on nothing is claimed, and *)
(* nothing is needed, for such an entry is never served.                   *)
(***************************************************************************)
TagsKept == \A t \in Tasks : pages[t] > 0 => freshETag[t] # NoTag

InHand(t) ==
  pc[t] \notin Ended =>
    /\ pages[t] = 0 => labels[t] = <<>>
    /\ pages[t] = 1 => freshETag[t] = {labels[t]}

HonestInv == TypeOK /\ TagsKept /\ (\A t \in Tasks : InHand(t)) /\ EntriesAreHonest

\* A part of a sequence has the elements of the sequence.
LEMMA PartOfSeq ==
  ASSUME NEW S, NEW s \in Seq(S), NEW m \in Nat \ {0}, NEW n \in Nat, n <= Len(s)
  PROVE  SubSeq(s, m, n) \in Seq(S)
<1>1. CASE n < m
  <2>1. SubSeq(s, m, n) = <<>>
    BY <1>1
  <2>. QED  BY <2>1
<1>2. CASE m <= n
  BY <1>2, SubSeqProperties
<1>. QED  BY <1>1, <1>2

\* A page is a list of labels.
LEMMA PageIsList ==
  ASSUME TypeOK, NEW t \in Tasks
  PROVE  Page(t) \in Seq(Labels) /\ NextPage(t) \in Nat
<1>. DEFINE all == list[t[2]]
            p == PageNumber(t)
            m == (p - 1) * PageSize + 1
            n == IF p * PageSize < Len(all) THEN p * PageSize ELSE Len(all)
<1>1. all \in Seq(Labels)
  BY DEF TypeOK, Tasks
<1>2. p \in Nat \ {0}
  BY DEF TypeOK, PageNumber
<1>3. m \in Nat \ {0} /\ n \in Nat /\ n <= Len(all)
  <2>1. PageSize \in Nat \ {0}
    BY LabelReadsAssumption
  <2>2. ASSUME NEW i \in Nat PROVE i * PageSize \in Nat
    BY <2>1
  <2>3. (p - 1) * PageSize \in Nat /\ p * PageSize \in Nat
    BY <1>2, <2>2
  <2>4. Len(all) \in Nat
    BY <1>1
  <2>. HIDE DEF p, all
  <2>. QED  BY <2>3, <2>4
<1>4. NextPage(t) \in Nat
  BY <1>2 DEF NextPage
<1>5. Page(t) = SubSeq(all, m, n)
  BY DEF Page
<1>. HIDE DEF all, m, n
<1>. QED  BY <1>1, <1>3, <1>4, <1>5, PartOfSeq

LEMMA InitHonest ==
  ASSUME Init
  PROVE  HonestInv
<1>1. TypeOK
  <2>1. list \in [Repos -> Seq(Labels)]
    BY LabelReadsAssumption DEF Init
  <2>2. <<>> \in Seq(Labels)
    OBVIOUS
  <2>. QED  BY <2>1, <2>2, LabelReadsAssumption DEF Init, TypeOK, Ended, NoTag
<1>2. TagsKept
  BY DEF Init, TagsKept
<1>3. \A t \in Tasks : InHand(t)
  BY DEF Init, InHand
<1>4. EntriesAreHonest
  BY DEF Init, EntriesAreHonest, Usable
<1>. QED  BY <1>1, <1>2, <1>3, <1>4 DEF HonestInv

-----------------------------------------------------------------------------
(***************************************************************************)
(* One action at a time.                                                   *)
(***************************************************************************)

\* A step that changes no entry keeps the entries honest.
LEMMA SameEntries ==
  ASSUME EntriesAreHonest, entry' = entry
  PROVE  EntriesAreHonest'
BY DEF EntriesAreHonest, Usable

\* A step that changes no list, and starts no goroutine that has ended, changes
\* nothing in hand.
LEMMA SameInHand ==
  ASSUME \A t \in Tasks : InHand(t), UNCHANGED <<pages, labels, freshETag>>,
         \A t \in Tasks : pc[t] \in Ended => pc'[t] \in Ended
  PROVE  \A t \in Tasks : InHand(t)'
BY DEF InHand

LEMMA StartHonest ==
  ASSUME HonestInv, NEW t \in Tasks, Start(t)
  PROVE  HonestInv'
<1>. USE DEF HonestInv
<1>1. pc[t] = "queued" /\ pc' = [pc EXCEPT ![t] = "reading"]
  BY DEF Start
<1>2. /\ list' = list /\ edits' = edits /\ entry' = entry /\ temps' = temps /\ cursor' = cursor
      /\ pages' = pages /\ freshETag' = freshETag /\ labels' = labels /\ limits' = limits
      /\ restarts' = restarts /\ clearing' = clearing /\ saved' = saved
  BY DEF Start
<1>3. TypeOK'
  <2>1. pc' \in [Tasks -> {"queued", "reading", "saving", "renaming"} \cup Ended]
    BY <1>1 DEF TypeOK
  <2>2. etag' \in [Tasks -> SUBSET Seq(Labels)] /\ cached' \in [Tasks -> Seq(Labels)]
    <3>1. t[2] \in Repos
      BY DEF Tasks
    <3>2. CASE t[1] \in Caching /\ Usable(entry[t[2]])
      <4>1. entry[t[2]] \in Entry
        BY <3>1, <3>2 DEF Usable, TypeOK
      <4>2. entry[t[2]].etag \in SUBSET Seq(Labels) /\ entry[t[2]].labels \in Seq(Labels)
        BY <4>1 DEF Entry
      <4>3. /\ etag' = [etag EXCEPT ![t] = entry[t[2]].etag]
            /\ cached' = [cached EXCEPT ![t] = entry[t[2]].labels]
        BY <3>2 DEF Start
      <4>. QED  BY <4>2, <4>3 DEF TypeOK
    <3>3. CASE ~(t[1] \in Caching /\ Usable(entry[t[2]]))
      BY <3>3 DEF TypeOK, Start
    <3>. QED  BY <3>2, <3>3
  <2>3. steady' \in [Tasks -> SUBSET Labels] /\ still' \in [Tasks -> SUBSET Seq(Labels)]
    <3>1. ToSet(list[t[2]]) \subseteq Labels /\ list[t[2]] \in Seq(Labels)
      BY DEF ToSet, TypeOK, Tasks
    <3>. QED  BY <3>1 DEF TypeOK, Start
  <2>4. \A u \in Tasks : pc'[u] \in {"saving", "renaming"} => pages'[u] > 0 /\ freshETag'[u] # NoTag
    BY <1>1, <1>2 DEF TypeOK
  <2>. QED  BY <1>2, <2>1, <2>2, <2>3, <2>4 DEF TypeOK
<1>4. TagsKept'
  BY <1>2 DEF TagsKept
<1>5. \A u \in Tasks : InHand(u)'
  <2>1. \A u \in Tasks : pc[u] \in Ended => pc'[u] \in Ended
    BY <1>1 DEF TypeOK, Ended
  <2>. QED  BY <1>2, <2>1, SameInHand
<1>. QED  BY <1>2, <1>3, <1>4, <1>5, SameEntries

LEMMA NotModifiedHonest ==
  ASSUME HonestInv, NEW t \in Tasks, NotModified(t)
  PROVE  HonestInv'
<1>. USE DEF HonestInv
<1>1. pc' = [pc EXCEPT ![t] = "done"] /\ labels' = [labels EXCEPT ![t] = cached[t]]
  BY DEF NotModified
<1>2. /\ list' = list /\ edits' = edits /\ entry' = entry /\ temps' = temps /\ cached' = cached
      /\ etag' = etag /\ cursor' = cursor /\ pages' = pages /\ freshETag' = freshETag
      /\ limits' = limits /\ restarts' = restarts /\ clearing' = clearing
      /\ steady' = steady /\ still' = still /\ saved' = saved
  BY DEF NotModified, history
<1>3. TypeOK'
  <2>1. pc' \in [Tasks -> {"queued", "reading", "saving", "renaming"} \cup Ended]
    BY <1>1 DEF TypeOK, Ended
  <2>2. labels' \in [Tasks -> Seq(Labels)]
    BY <1>1 DEF TypeOK
  <2>3. \A u \in Tasks : pc'[u] \in {"saving", "renaming"} => pages'[u] > 0 /\ freshETag'[u] # NoTag
    BY <1>1, <1>2 DEF TypeOK
  <2>. QED  BY <1>2, <2>1, <2>2, <2>3 DEF TypeOK
<1>4. TagsKept'
  BY <1>2 DEF TagsKept
<1>5. ASSUME NEW u \in Tasks PROVE InHand(u)'
  <2>1. CASE u = t
    BY <1>1, <2>1 DEF TypeOK, InHand, Ended
  <2>2. CASE u # t
    BY <1>1, <1>2, <2>2 DEF TypeOK, InHand
  <2>. QED  BY <2>1, <2>2
<1>. QED  BY <1>2, <1>3, <1>4, <1>5, SameEntries

LEMMA ReadPageHonest ==
  ASSUME HonestInv, NEW t \in Tasks, ReadPage(t)
  PROVE  HonestInv'
<1>. USE DEF HonestInv
<1>1. /\ pc[t] = "reading"
      /\ labels' = [labels EXCEPT ![t] = @ \o Page(t)]
      /\ cursor' = [cursor EXCEPT ![t] = NextPage(t)]
      /\ pages' = [pages EXCEPT ![t] = @ + 1]
  BY DEF ReadPage, Counted
<1>2. /\ list' = list /\ edits' = edits /\ entry' = entry /\ temps' = temps /\ cached' = cached
      /\ limits' = limits /\ restarts' = restarts /\ clearing' = clearing
      /\ steady' = steady /\ still' = still /\ saved' = saved
  BY DEF ReadPage, history
<1>3. PICK next \in {"reading", "saving", "done"} : pc' = [pc EXCEPT ![t] = next]
  BY DEF ReadPage
<1>4. Page(t) \in Seq(Labels) /\ NextPage(t) \in Nat
  BY PageIsList
<1>5. pages[t] \in Nat /\ labels[t] \in Seq(Labels) /\ pages'[t] = pages[t] + 1
  BY <1>1 DEF TypeOK
<1>6. /\ freshETag' \in [Tasks -> SUBSET Seq(Labels)] /\ etag' \in [Tasks -> SUBSET Seq(Labels)]
      /\ freshETag'[t] # NoTag
      /\ pages[t] = 0 => freshETag'[t] = {Page(t)}
      /\ \A u \in Tasks : u # t => freshETag'[u] = freshETag[u]
  <2>1. CASE pages[t] = 0
    <3>1. freshETag' = [freshETag EXCEPT ![t] = {Page(t)}] /\ etag' = [etag EXCEPT ![t] = NoTag]
      BY <2>1 DEF ReadPage
    <3>2. {Page(t)} \in SUBSET Seq(Labels) /\ {Page(t)} # NoTag /\ NoTag \in SUBSET Seq(Labels)
      <4>. DEFINE page == Page(t)
      <4>1. page \in Seq(Labels)
        BY <1>4
      <4>. HIDE DEF page
      <4>2. {page} \in SUBSET Seq(Labels) /\ {page} # {}
        BY <4>1
      <4>. QED  BY <4>2 DEF NoTag, page
    <3>3. freshETag \in [Tasks -> SUBSET Seq(Labels)] /\ etag \in [Tasks -> SUBSET Seq(Labels)]
      BY DEF TypeOK
    <3> HIDE DEF NoTag
    <3>. QED  BY <3>1, <3>2, <3>3
  <2>2. CASE pages[t] # 0
    <3>1. freshETag' = freshETag /\ etag' = etag
      BY <2>2 DEF ReadPage
    <3>2. freshETag[t] # NoTag
      BY <1>5, <2>2 DEF TagsKept
    <3>. QED  BY <2>2, <3>1, <3>2 DEF TypeOK
  <2>. QED  BY <2>1, <2>2
<1>7. TypeOK'
  <2>1. pc' \in [Tasks -> {"queued", "reading", "saving", "renaming"} \cup Ended]
    BY <1>3 DEF TypeOK, Ended
  <2>2. labels' \in [Tasks -> Seq(Labels)]
    <3>1. labels[t] \o Page(t) \in Seq(Labels)
      BY <1>4, <1>5, ConcatProperties
    <3>. QED  BY <1>1, <3>1 DEF TypeOK
  <2>3. cursor' \in [Tasks -> Nat] /\ pages' \in [Tasks -> Nat]
    BY <1>1, <1>4, <1>5 DEF TypeOK
  <2>4. ASSUME NEW u \in Tasks, pc'[u] \in {"saving", "renaming"}
        PROVE  pages'[u] > 0 /\ freshETag'[u] # NoTag
    <3>1. CASE u = t
      BY <1>5, <1>6, <3>1
    <3>2. CASE u # t
      BY <1>1, <1>3, <1>6, <2>4, <3>2 DEF TypeOK
    <3>. QED  BY <3>1, <3>2
  <2>. QED  BY <1>2, <1>6, <2>1, <2>2, <2>3, <2>4 DEF TypeOK
<1>8. TagsKept'
  BY <1>1, <1>6 DEF TagsKept, TypeOK
<1>9. ASSUME NEW u \in Tasks PROVE InHand(u)'
  <2>1. CASE u = t
    <3>1. CASE pages[t] = 0
      <4>1. labels[t] = <<>>
        BY <1>1, <3>1 DEF InHand, Ended
      <4>2. labels'[t] = <<>> \o Page(t)
        BY <1>1, <4>1 DEF TypeOK
      <4>3. <<>> \o Page(t) = Page(t)
        BY <1>4, ConcatEmptySeq
      <4>. QED  BY <1>5, <1>6, <2>1, <3>1, <4>2, <4>3 DEF InHand
    <3>2. CASE pages[t] # 0
      <4>1. pages'[t] # 0 /\ pages'[t] # 1
        BY <1>5, <3>2
      <4>. QED  BY <2>1, <4>1 DEF InHand
    <3>. QED  BY <3>1, <3>2
  <2>2. CASE u # t
    BY <1>1, <1>3, <1>6, <2>2 DEF TypeOK, InHand
  <2>. QED  BY <2>1, <2>2
<1>. QED  BY <1>2, <1>7, <1>8, <1>9, SameEntries

LEMMA LimitedHonest ==
  ASSUME HonestInv, NEW t \in Tasks, Limited(t)
  PROVE  HonestInv'
<1>. USE DEF HonestInv
<1>1. /\ limits[t] < MaxLimits
      /\ limits' = [limits EXCEPT ![t] = @ + 1] /\ cursor' = [cursor EXCEPT ![t] = 0]
  BY DEF Limited
<1>2. /\ list' = list /\ edits' = edits /\ entry' = entry /\ temps' = temps /\ pc' = pc
      /\ cached' = cached /\ etag' = etag /\ pages' = pages /\ freshETag' = freshETag
      /\ labels' = labels /\ restarts' = restarts /\ clearing' = clearing
      /\ steady' = steady /\ still' = still /\ saved' = saved
  BY DEF Limited, history
<1>3. limits' \in [Tasks -> 0..MaxLimits] /\ cursor' \in [Tasks -> Nat]
  BY <1>1, LabelReadsAssumption DEF TypeOK
<1>4. \A u \in Tasks : pc'[u] \in {"saving", "renaming"} => pages'[u] > 0 /\ freshETag'[u] # NoTag
  BY <1>2 DEF TypeOK
<1>5. TypeOK'
  BY <1>2, <1>3, <1>4 DEF TypeOK
<1>6. TagsKept'
  BY <1>2 DEF TagsKept
<1>7. \A u \in Tasks : InHand(u)'
  BY <1>2, SameInHand
<1>. QED  BY <1>2, <1>5, <1>6, <1>7, SameEntries

\* A goroutine ends, or goes from one step of save to the next: what it has in
\* hand stays.
LEMMA MovesOn ==
  ASSUME HonestInv, NEW t \in Tasks, NEW next \in {"renaming"} \cup Ended,
         pc' = [pc EXCEPT ![t] = next],
         next \in Ended \/ pc[t] = "saving",
         UNCHANGED <<list, edits, local, limits, restarts, clearing, steady, still>>,
         temps' \subseteq Tasks, saved' \subseteq Repos,
         entry' \in [Repos -> Entry \cup {Absent}], EntriesAreHonest'
  PROVE  HonestInv'
<1>. USE DEF HonestInv
<1>1. /\ list' = list /\ edits' = edits /\ cached' = cached /\ etag' = etag /\ cursor' = cursor
      /\ pages' = pages /\ freshETag' = freshETag /\ labels' = labels /\ limits' = limits
      /\ restarts' = restarts /\ clearing' = clearing /\ steady' = steady /\ still' = still
  BY DEF local
<1>2. TypeOK'
  <2>1. pc' \in [Tasks -> {"queued", "reading", "saving", "renaming"} \cup Ended]
    BY DEF TypeOK
  <2>2. ASSUME NEW u \in Tasks, pc'[u] \in {"saving", "renaming"}
        PROVE  pages'[u] > 0 /\ freshETag'[u] # NoTag
    <3>1. pc[u] \in {"saving", "renaming"}
      BY <2>2 DEF TypeOK, Ended
    <3>. QED  BY <1>1, <3>1 DEF TypeOK
  <2>. QED  BY <1>1, <2>1, <2>2 DEF TypeOK
<1>3. TagsKept'
  BY <1>1 DEF TagsKept
<1>4. ASSUME NEW u \in Tasks PROVE InHand(u)'
  <2>1. pc'[u] \notin Ended => pc[u] \notin Ended
    BY DEF TypeOK, Ended
  <2>. QED  BY <1>1, <2>1 DEF InHand
<1>. QED  BY <1>2, <1>3, <1>4

LEMMA ReadingEndsHonest ==
  ASSUME HonestInv, NEW t \in Tasks, Inaccessible(t) \/ Fail(t)
  PROVE  HonestInv'
<1>1. PICK next \in {"absent", "failed"} : pc' = [pc EXCEPT ![t] = next]
  BY DEF Inaccessible, Fail
<1>2. UNCHANGED <<list, edits, entry, temps, local, limits, restarts, clearing, steady, still, saved>>
  BY DEF Inaccessible, Fail, history
<1>3. EntriesAreHonest'
  BY <1>2, SameEntries DEF HonestInv
<1>4. next \in Ended
  BY DEF Ended
<1>5. temps' \subseteq Tasks /\ saved' \subseteq Repos /\ entry' \in [Repos -> Entry \cup {Absent}]
  BY <1>2 DEF HonestInv, TypeOK
<1>. QED  BY <1>1, <1>2, <1>3, <1>4, <1>5, MovesOn

LEMMA CreateTempHonest ==
  ASSUME HonestInv, NEW t \in Tasks, CreateTemp(t)
  PROVE  HonestInv'
<1>1. pc[t] = "saving" /\ pc' = [pc EXCEPT ![t] = "renaming"] /\ temps' = temps \cup {t}
  BY DEF CreateTemp
<1>2. UNCHANGED <<list, edits, entry, local, limits, restarts, clearing, steady, still, saved>>
  BY DEF CreateTemp, history
<1>3. EntriesAreHonest'
  BY <1>2, SameEntries DEF HonestInv
<1>4. temps' \subseteq Tasks /\ saved' \subseteq Repos /\ entry' \in [Repos -> Entry \cup {Absent}]
  BY <1>1, <1>2 DEF HonestInv, TypeOK
<1>. QED  BY <1>1, <1>2, <1>3, <1>4, MovesOn

\* The file a goroutine renames into place holds the page it read and its ETag,
\* or a list that is never served.
LEMMA RenameHonest ==
  ASSUME HonestInv, NEW t \in Tasks, Rename(t)
  PROVE  HonestInv'
<1>1. pc[t] = "renaming" /\ pc' = [pc EXCEPT ![t] = "done"] /\ temps' = temps \ {t}
  BY DEF Rename
<1>2. UNCHANGED <<list, edits, local, limits, restarts, clearing, steady, still>>
  BY DEF Rename
<1>3. entry' \in [Repos -> Entry \cup {Absent}] /\ saved' \subseteq Repos /\ EntriesAreHonest'
  <2>1. CASE t \in temps
    <3>. DEFINE new == [etag |-> freshETag[t], pages |-> pages[t], labels |-> labels[t]]
    <3>1. entry' = [entry EXCEPT ![t[2]] = new] /\ saved' = saved \cup {t[2]}
      BY <2>1 DEF Rename
    <3>2. /\ pages[t] \in Nat \ {0} /\ freshETag[t] \in SUBSET Seq(Labels)
          /\ labels[t] \in Seq(Labels) /\ t[2] \in Repos
      BY <1>1 DEF HonestInv, TypeOK, Tasks
    <3>3. new \in Entry
      BY <3>2 DEF Entry
    <3>4. new.pages = 1 => new.etag = {new.labels}
      <4>1. InHand(t) /\ pc[t] \notin Ended
        BY <1>1 DEF HonestInv, Ended
      <4>. QED  BY <4>1 DEF InHand
    <3>. HIDE DEF new
    <3>5. entry' \in [Repos -> Entry \cup {Absent}] /\ saved' \subseteq Repos
      BY <3>1, <3>2, <3>3 DEF HonestInv, TypeOK
    <3>6. ASSUME NEW r \in Repos, Usable(entry'[r])
          PROVE  entry'[r].etag = {entry'[r].labels}
      <4>1. CASE r = t[2]
        BY <3>1, <3>4, <3>6, <4>1 DEF HonestInv, TypeOK, Usable
      <4>2. CASE r # t[2]
        <5>1. entry'[r] = entry[r]
          BY <3>1, <4>2 DEF HonestInv, TypeOK
        <5>. QED  BY <3>6, <5>1 DEF HonestInv, EntriesAreHonest
      <4>. QED  BY <4>1, <4>2
    <3>7. EntriesAreHonest'
      BY <3>6 DEF EntriesAreHonest, Usable
    <3>. QED  BY <3>5, <3>7
  <2>2. CASE t \notin temps
    <3>1. entry' = entry /\ saved' = saved
      BY <2>2 DEF Rename
    <3>. QED  BY <3>1, SameEntries DEF HonestInv, TypeOK
  <2>. QED  BY <2>1, <2>2
<1>4. temps' \subseteq Tasks
  BY <1>1 DEF HonestInv, TypeOK
<1>5. "done" \in Ended
  BY DEF Ended
<1>. QED  BY <1>1, <1>2, <1>3, <1>4, <1>5, MovesOn

LEMMA SaveFailsHonest ==
  ASSUME HonestInv, NEW t \in Tasks, SaveFails(t)
  PROVE  HonestInv'
<1>1. pc' = [pc EXCEPT ![t] = "done"] /\ temps' = temps \ {t}
  BY DEF SaveFails
<1>2. UNCHANGED <<list, edits, entry, local, limits, restarts, clearing, steady, still, saved>>
  BY DEF SaveFails, history
<1>3. EntriesAreHonest'
  BY <1>2, SameEntries DEF HonestInv
<1>4. temps' \subseteq Tasks /\ saved' \subseteq Repos /\ entry' \in [Repos -> Entry \cup {Absent}]
  BY <1>1, <1>2 DEF HonestInv, TypeOK
<1>5. "done" \in Ended
  BY DEF Ended
<1>. QED  BY <1>1, <1>2, <1>3, <1>4, <1>5, MovesOn

LEMMA RestartHonest ==
  ASSUME HonestInv, NEW run \in Runs, Restart(run)
  PROVE  HonestInv'
<1>. USE DEF HonestInv
<1>1. restarts < MaxRestarts /\ restarts' = restarts + 1 /\ temps' \subseteq temps
  BY DEF Restart
<1>2. /\ pc' = [t \in Tasks |-> IF t[1] = run THEN "queued" ELSE pc[t]]
      /\ cached' = [t \in Tasks |-> IF t[1] = run THEN <<>> ELSE cached[t]]
      /\ etag' = [t \in Tasks |-> IF t[1] = run THEN NoTag ELSE etag[t]]
      /\ cursor' = [t \in Tasks |-> IF t[1] = run THEN 0 ELSE cursor[t]]
      /\ pages' = [t \in Tasks |-> IF t[1] = run THEN 0 ELSE pages[t]]
      /\ freshETag' = [t \in Tasks |-> IF t[1] = run THEN NoTag ELSE freshETag[t]]
      /\ labels' = [t \in Tasks |-> IF t[1] = run THEN <<>> ELSE labels[t]]
      /\ limits' = [t \in Tasks |-> IF t[1] = run THEN 0 ELSE limits[t]]
  BY DEF Restart
<1>3. /\ list' = list /\ edits' = edits /\ entry' = entry /\ clearing' = clearing
      /\ steady' = steady /\ still' = still /\ saved' = saved
  BY DEF Restart, history
<1>4. TypeOK'
  <2>1. temps' \subseteq Tasks /\ restarts' \in 0..MaxRestarts
    BY <1>1, LabelReadsAssumption DEF TypeOK
  <2>2. pc' \in [Tasks -> {"queued", "reading", "saving", "renaming"} \cup Ended]
    BY <1>2 DEF TypeOK
  <2>3. <<>> \in Seq(Labels)
    OBVIOUS
  <2>4. cached' \in [Tasks -> Seq(Labels)] /\ labels' \in [Tasks -> Seq(Labels)]
    BY <1>2, <2>3 DEF TypeOK
  <2>5. etag' \in [Tasks -> SUBSET Seq(Labels)] /\ freshETag' \in [Tasks -> SUBSET Seq(Labels)]
    BY <1>2 DEF TypeOK, NoTag
  <2>6. /\ cursor' \in [Tasks -> Nat] /\ pages' \in [Tasks -> Nat]
        /\ limits' \in [Tasks -> 0..MaxLimits]
    BY <1>2, LabelReadsAssumption DEF TypeOK
  <2>7. \A u \in Tasks : pc'[u] \in {"saving", "renaming"} => pages'[u] > 0 /\ freshETag'[u] # NoTag
    BY <1>2 DEF TypeOK
  <2>. QED  BY <1>3, <2>1, <2>2, <2>4, <2>5, <2>6, <2>7 DEF TypeOK
<1>5. TagsKept'
  BY <1>2 DEF TagsKept
<1>6. ASSUME NEW u \in Tasks PROVE InHand(u)'
  <2>1. CASE u[1] = run
    BY <1>2, <2>1 DEF InHand
  <2>2. CASE u[1] # run
    BY <1>2, <2>2 DEF InHand
  <2>. QED  BY <2>1, <2>2
<1>. QED  BY <1>3, <1>4, <1>5, <1>6, SameEntries

\* Clear touches entries and temporary files only, and an entry only to remove it.
LEMMA ClearHonest ==
  ASSUME HonestInv, Clear
  PROVE  HonestInv'
<1>. USE DEF HonestInv
<1>. DEFINE files == {EntryFile(r) : r \in Repos} \cup {TempFile(t) : t \in Tasks}
<1>1. UNCHANGED <<list, edits, pc, local, limits, restarts, steady, still>>
  BY DEF Clear, ListFiles, RemoveFile, Cleared, history
<1>2. /\ list' = list /\ edits' = edits /\ pc' = pc /\ cached' = cached /\ etag' = etag
      /\ cursor' = cursor /\ pages' = pages /\ freshETag' = freshETag /\ labels' = labels
      /\ limits' = limits /\ restarts' = restarts /\ steady' = steady /\ still' = still
  BY <1>1 DEF local
<1>3. temps' \subseteq Tasks /\ saved' \subseteq Repos
  <2>1. temps' \subseteq temps
    BY DEF Clear, ListFiles, RemoveFile, Cleared, history
  <2>2. saved' \subseteq saved
    BY DEF Clear, ListFiles, RemoveFile, Cleared, history
  <2>. QED  BY <2>1, <2>2 DEF TypeOK
<1>4. clearing' = Idle \/ clearing' \subseteq files
  <2>1. CASE ListFiles
    BY <2>1 DEF ListFiles, TypeOK
  <2>2. CASE Cleared
    BY <2>2 DEF Cleared
  <2>3. ASSUME NEW file \in clearing, RemoveFile(file) PROVE clearing' \subseteq files
    BY <2>3 DEF RemoveFile, TypeOK
  <2>. QED  BY <2>1, <2>2, <2>3 DEF Clear
<1>5. \A r \in Repos : entry'[r] = entry[r] \/ entry'[r] = Absent
  BY DEF Clear, ListFiles, RemoveFile, Cleared
<1>6. entry' \in [Repos -> Entry \cup {Absent}]
  <2>1. CASE ListFiles \/ Cleared
    BY <2>1 DEF ListFiles, Cleared, TypeOK
  <2>2. ASSUME NEW file \in clearing, RemoveFile(file)
        PROVE  entry' \in [Repos -> Entry \cup {Absent}]
    BY <2>2 DEF RemoveFile, TypeOK
  <2>. QED  BY <2>1, <2>2 DEF Clear
<1>7. TypeOK'
  <2>1. \A u \in Tasks : pc'[u] \in {"saving", "renaming"} => pages'[u] > 0 /\ freshETag'[u] # NoTag
    BY <1>2 DEF TypeOK
  <2>. QED  BY <1>2, <1>3, <1>4, <1>6, <2>1 DEF TypeOK
<1>8. TagsKept'
  BY <1>2 DEF TagsKept
<1>9. \A u \in Tasks : InHand(u)'
  BY <1>2, SameInHand
<1>10. EntriesAreHonest'
  BY <1>5 DEF EntriesAreHonest, Usable
<1>. QED  BY <1>7, <1>8, <1>9, <1>10

LEMMA EditHonest ==
  ASSUME HonestInv, NEW repo \in Repos, Edit(repo)
  PROVE  HonestInv'
<1>. USE DEF HonestInv
<1>1. edits < MaxEdits /\ edits' = edits + 1
  BY DEF Edit
<1>2. UNCHANGED <<entry, temps, pc, local, limits, restarts, clearing, saved>>
  BY DEF Edit
<1>3. /\ entry' = entry /\ temps' = temps /\ pc' = pc /\ cached' = cached /\ etag' = etag
      /\ cursor' = cursor /\ pages' = pages /\ freshETag' = freshETag /\ labels' = labels
      /\ limits' = limits /\ restarts' = restarts /\ clearing' = clearing /\ saved' = saved
  BY <1>2 DEF local
<1>4. list[repo] \in Seq(Labels)
  BY DEF TypeOK
<1>5. \/ \E l \in Labels : list' = [list EXCEPT ![repo] = Append(@, l)]
      \/ \E i \in DOMAIN list[repo] : list' = [list EXCEPT ![repo] = RemoveAt(@, i)]
      \/ \E i \in DOMAIN list[repo], l \in Labels : list' = [list EXCEPT ![repo][i] = l]
  BY DEF Edit
<1>6. list' \in [Repos -> Seq(Labels)]
  <2>1. ASSUME NEW l \in Labels, list' = [list EXCEPT ![repo] = Append(@, l)]
        PROVE  list' \in [Repos -> Seq(Labels)]
    <3>1. Append(list[repo], l) \in Seq(Labels)
      BY <1>4
    <3>. QED  BY <2>1, <3>1 DEF TypeOK
  <2>2. ASSUME NEW i \in DOMAIN list[repo], list' = [list EXCEPT ![repo] = RemoveAt(@, i)]
        PROVE  list' \in [Repos -> Seq(Labels)]
    <3>. DEFINE s == list[repo]
    <3>1. i \in Nat \ {0} /\ i <= Len(s) /\ Len(s) \in Nat
      BY <1>4
    <3>2. SubSeq(s, 1, i - 1) \in Seq(Labels)
      BY <1>4, <3>1, PartOfSeq
    <3>3. SubSeq(s, i + 1, Len(s)) \in Seq(Labels)
      BY <1>4, <3>1, PartOfSeq
    <3>4. RemoveAt(s, i) \in Seq(Labels)
      BY <3>2, <3>3, ConcatProperties DEF RemoveAt
    <3>. QED  BY <2>2, <3>4 DEF TypeOK
  <2>3. ASSUME NEW i \in DOMAIN list[repo], NEW l \in Labels,
               list' = [list EXCEPT ![repo][i] = l]
        PROVE  list' \in [Repos -> Seq(Labels)]
    <3>1. [list[repo] EXCEPT ![i] = l] \in Seq(Labels)
      BY <1>4, <2>3, ExceptSeq
    <3>2. list' = [list EXCEPT ![repo] = [list[repo] EXCEPT ![i] = l]]
      BY <2>3
    <3>. QED  BY <3>1, <3>2 DEF TypeOK
  <2>. QED  BY <1>5, <2>1, <2>2, <2>3
<1>7. TypeOK'
  <2>1. edits' \in 0..MaxEdits
    BY <1>1, LabelReadsAssumption DEF TypeOK
  <2>2. steady' \in [Tasks -> SUBSET Labels]
    <3>1. steady' = [t \in Tasks |-> IF t[2] = repo /\ pc[t] = "reading"
                                       THEN steady[t] \cap ToSet(list'[repo]) ELSE steady[t]]
      BY DEF Edit
    <3>2. ASSUME NEW t \in Tasks
          PROVE  (IF t[2] = repo /\ pc[t] = "reading"
                    THEN steady[t] \cap ToSet(list'[repo]) ELSE steady[t]) \in SUBSET Labels
      BY DEF TypeOK
    <3>. QED  BY <3>1, <3>2
  <2>3. still' \in [Tasks -> SUBSET Seq(Labels)]
    <3>1. still' = [t \in Tasks |-> IF t[2] = repo /\ pc[t] = "reading" THEN {} ELSE still[t]]
      BY DEF Edit
    <3>2. \A t \in Tasks : still[t] \in SUBSET Seq(Labels)
      BY DEF TypeOK
    <3>. QED  BY <3>1, <3>2
  <2>4. \A u \in Tasks : pc'[u] \in {"saving", "renaming"} => pages'[u] > 0 /\ freshETag'[u] # NoTag
    BY <1>3 DEF TypeOK
  <2>. QED  BY <1>3, <1>6, <2>1, <2>2, <2>3, <2>4 DEF TypeOK
<1>8. TagsKept'
  BY <1>3 DEF TagsKept
<1>9. \A u \in Tasks : InHand(u)'
  BY <1>3, SameInHand
<1>. QED  BY <1>3, <1>7, <1>8, <1>9, SameEntries

LEMMA NextHonest ==
  ASSUME HonestInv, [Next]_vars
  PROVE  HonestInv'
<1>1. ASSUME NEW t \in Tasks, Proceed(t) \/ Limited(t)
      PROVE  HonestInv'
  BY <1>1, StartHonest, NotModifiedHonest, ReadPageHonest, LimitedHonest, ReadingEndsHonest,
     CreateTempHonest, RenameHonest, SaveFailsHonest DEF Proceed
<1>2. ASSUME NEW run \in Runs, Restart(run)
      PROVE  HonestInv'
  BY <1>2, RestartHonest
<1>3. CASE Clear
  BY <1>3, ClearHonest
<1>4. ASSUME NEW repo \in Repos, Edit(repo)
      PROVE  HonestInv'
  BY <1>4, EditHonest
<1>5. CASE UNCHANGED vars
  <2>1. /\ list' = list /\ edits' = edits /\ entry' = entry /\ temps' = temps /\ pc' = pc
        /\ cached' = cached /\ etag' = etag /\ cursor' = cursor /\ pages' = pages
        /\ freshETag' = freshETag /\ labels' = labels /\ limits' = limits /\ restarts' = restarts
        /\ clearing' = clearing /\ steady' = steady /\ still' = still /\ saved' = saved
    BY <1>5 DEF vars
  <2>2. TypeOK'
    BY <2>1 DEF HonestInv, TypeOK
  <2>3. \A t \in Tasks : InHand(t)'
    BY <2>1, SameInHand DEF HonestInv
  <2>. QED  BY <2>1, <2>2, <2>3, SameEntries DEF HonestInv, TagsKept
<1>. QED  BY <1>1, <1>2, <1>3, <1>4, <1>5 DEF Next

-----------------------------------------------------------------------------
(***************************************************************************)
(* The theorems.                                                           *)
(***************************************************************************)

\* Every goroutine that reads labels has in hand what it will save: nothing, one
\* page with its ETag, or a list that load does not offer.
THEOREM HonestReads == Spec => []HonestInv
<1>1. Init => HonestInv
  BY InitHonest
<1>2. HonestInv /\ [Next]_vars => HonestInv'
  BY NextHonest
<1>. QED  BY <1>1, <1>2, PTL DEF Spec

\* Goroutines, cache files and their contents stay of their types, and one that
\* saves has read a page and has its ETag.
THEOREM TypeCorrect == Spec => []TypeOK
<1>1. HonestInv => TypeOK
  BY DEF HonestInv
<1>. QED  BY <1>1, HonestReads, PTL

\* An entry that ListLabels may serve on a 304 is the list that was on the page
\* when GitHub gave it that ETag, whoever else was saving, dying or clearing.
THEOREM HonestEntries == Spec => []EntriesAreHonest
<1>1. HonestInv => EntriesAreHonest
  BY DEF HonestInv
<1>. QED  BY <1>1, HonestReads, PTL
-----------------------------------------------------------------------------
(***************************************************************************)
(* What a list that has been read is worth.  A goroutine reads on while    *)
(* people edit the repository, rate limits send it back to the first page, *)
(* and the cache is as old as it may be.  The invariant relates what it    *)
(* has in hand to the list as it is now: unless somebody has edited the    *)
(* list meanwhile, it ends with the pages behind the cursor, and is just   *)
(* these when it was never refused; and a list that is served, or was read *)
(* in one page, is complete in any case.                                   *)
(***************************************************************************)

\* Nothing has been read.
Fresh(t) == etag[t] = NoTag /\ pages[t] = 0 /\ cursor[t] = 0 /\ labels[t] = <<>>

\* What the read has behind it: the pages before the cursor.
Past(t) ==
  IF cursor[t] = 0 THEN <<>> ELSE SubSeq(list[t[2]], 1, (cursor[t] - 1) * PageSize)

EndsWith(s, l) == \E before \in Seq(Labels) : l = before \o s

Reading(t) ==
  /\ steady[t] \subseteq ToSet(list[t[2]])
  /\ etag[t] # NoTag => etag[t] = {cached[t]} /\ pages[t] = 0
  /\ pages[t] = 0 => cursor[t] = 0 /\ labels[t] = <<>>
  /\ still[t] # {} =>
       /\ still[t] = {list[t[2]]} /\ steady[t] = ToSet(list[t[2]])
       /\ ToSet(labels[t]) \subseteq ToSet(list[t[2]])
       /\ cursor[t] # 0 => (cursor[t] - 1) * PageSize <= Len(list[t[2]])
       /\ EndsWith(Past(t), labels[t])
       /\ limits[t] = 0 => labels[t] = Past(t)

\* From the cache, and as long as a page.
FullList(t) == pages[t] = 0 /\ Len(labels[t]) = PageSize

HasList(t) ==
  ~FullList(t) =>
    /\ \A s \in still[t] :
         /\ EndsWith(s, labels[t]) /\ ToSet(labels[t]) = ToSet(s)
         /\ limits[t] = 0 => labels[t] = s
    /\ pages[t] <= 1 => steady[t] \subseteq ToSet(labels[t])

ReadsWell(t) ==
  /\ pc[t] = "queued" => Fresh(t)
  /\ pc[t] = "reading" => Reading(t)
  /\ pc[t] \in {"saving", "renaming", "done"} => HasList(t)

ReadsInv == \A t \in Tasks : ReadsWell(t)

\* The elements of a part of a sequence, and of two sequences in a row.
LEMMA PartElements ==
  ASSUME NEW S, NEW s \in Seq(S), NEW m \in Nat \ {0}, NEW n \in Nat, n <= Len(s)
  PROVE  ToSet(SubSeq(s, m, n)) = {s[i] : i \in m..n}
<1>1. \A i \in m..n : s[i] \in S
  OBVIOUS
<1>2. /\ SubSeq(s, m, n) \in Seq(S)
      /\ Len(SubSeq(s, m, n)) = IF m <= n THEN n - m + 1 ELSE 0
      /\ \A i \in 1..(n - m + 1) : SubSeq(s, m, n)[i] = s[m + i - 1]
  BY <1>1, SubSeqProperties
<1>. DEFINE u == SubSeq(s, m, n)
<1>. HIDE DEF u
<1>3. \A x \in ToSet(u) : x \in {s[i] : i \in m..n}
  <2>1. ASSUME NEW i \in DOMAIN u PROVE u[i] \in {s[j] : j \in m..n}
    <3>1. i \in 1..(n - m + 1)
      BY <1>2, <2>1 DEF u
    <3>2. u[i] = s[m + i - 1] /\ m + i - 1 \in m..n
      BY <1>2, <3>1 DEF u
    <3>. QED  BY <3>2
  <2>. QED  BY <2>1 DEF ToSet
<1>4. ASSUME NEW i \in m..n PROVE s[i] \in ToSet(u)
  <2>1. i - m + 1 \in 1..(n - m + 1) /\ m + (i - m + 1) - 1 = i
    OBVIOUS
  <2>2. i - m + 1 \in DOMAIN u
    BY <1>2, <2>1 DEF u
  <2>3. u[i - m + 1] = s[i]
    BY <1>2, <2>1 DEF u
  <2>. QED  BY <2>2, <2>3 DEF ToSet
<1>. QED  BY <1>3, <1>4 DEF u

LEMMA ConcatElements ==
  ASSUME NEW S, NEW s \in Seq(S), NEW t \in Seq(S)
  PROVE  ToSet(s \o t) = ToSet(s) \cup ToSet(t)
<1>1. /\ s \o t \in Seq(S) /\ Len(s \o t) = Len(s) + Len(t)
      /\ \A i \in 1..(Len(s) + Len(t)) :
           (s \o t)[i] = IF i <= Len(s) THEN s[i] ELSE t[i - Len(s)]
  BY ConcatProperties
<1>2. /\ DOMAIN (s \o t) = 1..(Len(s) + Len(t))
      /\ DOMAIN s = 1..Len(s) /\ DOMAIN t = 1..Len(t) /\ Len(s) \in Nat /\ Len(t) \in Nat
  BY <1>1
<1>. DEFINE u == s \o t
<1>. HIDE DEF u
<1>3. ASSUME NEW i \in DOMAIN u PROVE u[i] \in ToSet(s) \cup ToSet(t)
  <2>1. CASE i <= Len(s)
    BY <1>1, <1>2, <1>3, <2>1 DEF ToSet, u
  <2>2. CASE i > Len(s)
    <3>1. i - Len(s) \in DOMAIN t /\ u[i] = t[i - Len(s)]
      BY <1>1, <1>2, <1>3, <2>2 DEF u
    <3>. QED  BY <3>1 DEF ToSet
  <2>. QED  BY <1>2, <1>3, <2>1, <2>2 DEF u
<1>4. ASSUME NEW i \in DOMAIN s PROVE s[i] \in ToSet(u)
  <2>1. i \in DOMAIN u /\ u[i] = s[i]
    BY <1>1, <1>2 DEF u
  <2>. QED  BY <2>1 DEF ToSet
<1>5. ASSUME NEW i \in DOMAIN t PROVE t[i] \in ToSet(u)
  <2>1. Len(s) + i \in DOMAIN u /\ u[Len(s) + i] = t[i]
    BY <1>1, <1>2 DEF u
  <2>. QED  BY <2>1 DEF ToSet
<1>6. ToSet(u) \subseteq ToSet(s) \cup ToSet(t)
  BY <1>3 DEF ToSet
<1>7. ToSet(s) \cup ToSet(t) \subseteq ToSet(u)
  BY <1>4, <1>5 DEF ToSet
<1>. QED  BY <1>6, <1>7 DEF u

\* A page holds the labels of the list from where the pages before it end; if no
\* page follows, to the end of the list.
LEMMA PageElements ==
  ASSUME TypeOK, NEW t \in Tasks, NEW p, p = PageNumber(t), NEW all, all = list[t[2]]
  PROVE  /\ p \in Nat \ {0} /\ all \in Seq(Labels) /\ (p - 1) * PageSize \in Nat
         /\ p * PageSize = (p - 1) * PageSize + PageSize /\ PageSize \in Nat \ {0}
         /\ ToSet(Page(t)) \subseteq ToSet(all)
         /\ \A i \in DOMAIN all :
              (p - 1) * PageSize < i /\ i <= p * PageSize => all[i] \in ToSet(Page(t))
         /\ NextPage(t) = 0 => Len(all) <= p * PageSize
         /\ NextPage(t) # 0 => NextPage(t) = p + 1
<1>1. all \in Seq(Labels) /\ p \in Nat \ {0}
  BY DEF TypeOK, Tasks, PageNumber
<1>. DEFINE before == (p - 1) * PageSize
            n == IF before + PageSize < Len(all) THEN before + PageSize ELSE Len(all)
<1>2. PageSize \in Nat \ {0}
  BY LabelReadsAssumption
<1>3. before \in Nat /\ p * PageSize = before + PageSize
  <2>1. ASSUME NEW i \in Nat PROVE i * PageSize \in Nat /\ (i + 1) * PageSize = i * PageSize + PageSize
    BY <1>2
  <2>2. p - 1 \in Nat /\ (p - 1) + 1 = p
    BY <1>1
  <2>. QED  BY <2>1, <2>2
<1>4. Page(t) = SubSeq(all, before + 1, n)
  BY <1>3 DEF Page
<1>5. NextPage(t) = IF before + PageSize < Len(all) THEN p + 1 ELSE 0
  BY <1>3 DEF NextPage
<1>6. Len(all) \in Nat /\ DOMAIN all = 1..Len(all)
  BY <1>1
<1>. HIDE DEF before
<1>7. n \in Nat /\ n <= Len(all) /\ before + 1 \in Nat \ {0}
  BY <1>2, <1>3, <1>6
<1>8. ToSet(Page(t)) = {all[i] : i \in (before + 1)..n}
  <2>1. ASSUME NEW m, m = before + 1, NEW k, k = n
        PROVE  ToSet(SubSeq(all, m, k)) = {all[i] : i \in m..k}
    <3>1. m \in Nat \ {0} /\ k \in Nat /\ k <= Len(all)
      BY <1>7, <2>1
    <3>. QED  BY ONLY <1>1, <3>1, PartElements
  <2>. HIDE DEF n
  <2>. QED  BY <1>4, <2>1
<1>9. ToSet(Page(t)) \subseteq ToSet(all)
  <2>1. \A i \in (before + 1)..n : i \in DOMAIN all
    BY <1>3, <1>6, <1>7
  <2>. QED  BY <1>8, <2>1 DEF ToSet
<1>10. ASSUME NEW i \in DOMAIN all, before < i, i <= p * PageSize
       PROVE  all[i] \in ToSet(Page(t))
  <2>1. i \in (before + 1)..n
    BY <1>2, <1>3, <1>6, <1>10
  <2>. QED  BY <1>8, <2>1
<1>11. NextPage(t) = 0 => Len(all) <= p * PageSize
  BY <1>1, <1>2, <1>3, <1>5, <1>6
<1>12. NextPage(t) # 0 => NextPage(t) = p + 1
  BY <1>5
<1>. QED  BY <1>1, <1>2, <1>3, <1>9, <1>10, <1>11, <1>12 DEF before

\* The pages before a page and the page are the list up to where the next one
\* begins; if none follows, the list.
LEMMA PageJoins ==
  ASSUME TypeOK, NEW t \in Tasks, NEW p, p = PageNumber(t), NEW all, all = list[t[2]],
         NEW past, past = SubSeq(all, 1, (p - 1) * PageSize), (p - 1) * PageSize <= Len(all)
  PROVE  /\ past \in Seq(Labels)
         /\ NextPage(t) = 0 => past \o Page(t) = all
         /\ NextPage(t) # 0 => /\ past \o Page(t) = SubSeq(all, 1, p * PageSize)
                               /\ p * PageSize <= Len(all)
<1>. DEFINE b == (p - 1) * PageSize
            n == IF b + PageSize < Len(all) THEN b + PageSize ELSE Len(all)
<1>1. /\ p \in Nat \ {0} /\ all \in Seq(Labels) /\ b \in Nat
      /\ p * PageSize = b + PageSize /\ PageSize \in Nat \ {0}
  BY PageElements
<1>2. Len(all) \in Nat /\ b <= Len(all)
  BY <1>1
<1>3. Page(t) = SubSeq(all, b + 1, n)
  BY <1>1 DEF Page
<1>4. NextPage(t) = IF b + PageSize < Len(all) THEN p + 1 ELSE 0
  BY <1>1 DEF NextPage
<1>5. past = SubSeq(all, 1, b)
  OBVIOUS
<1>. HIDE DEF b
<1>6. n \in b..Len(all) /\ b \in 0..Len(all)
  BY <1>1, <1>2
<1>7. past \in Seq(Labels)
  <2>1. \A i \in 1..b : all[i] \in Labels
    BY <1>1, <1>2
  <2>. QED  BY <1>1, <1>5, <2>1, SubSeqProperties
<1>. HIDE DEF n
<1>8. past \o Page(t) = SubSeq(all, 1, n)
  <2>1. 1 \in 1..(Len(all) + 1) /\ b \in (1 - 1)..Len(all) /\ n \in b..Len(all)
    BY <1>2, <1>6
  <2>2. SubSeq(all, 1, b) \o SubSeq(all, b + 1, n) = SubSeq(all, 1, n)
    BY <1>1, <2>1, ConcatAdjacentSubSeq
  <2>. QED  BY <1>3, <1>5, <2>2
<1>9. CASE b + PageSize < Len(all)
  <2>1. n = p * PageSize /\ p * PageSize <= Len(all)
    BY <1>1, <1>9 DEF n
  <2>2. NextPage(t) # 0
    BY <1>1, <1>4, <1>9
  <2>. QED  BY <1>7, <1>8, <2>1, <2>2
<1>10. CASE ~(b + PageSize < Len(all))
  <2>1. n = Len(all)
    BY <1>10 DEF n
  <2>2. NextPage(t) = 0
    BY <1>4, <1>10
  <2>3. SubSeq(all, 1, Len(all)) = all
    BY <1>1, SubSeqFull
  <2>. QED  BY <1>7, <1>8, <2>1, <2>2, <2>3
<1>. QED  BY <1>9, <1>10

\* The first page of a list is all of it, unless it fills the page.
LEMMA WholePage ==
  ASSUME NEW s \in Seq(Labels), Len(FirstPage(s)) # PageSize
  PROVE  FirstPage(s) = s
<1>1. Len(s) \in Nat /\ PageSize \in Nat \ {0}
  BY LabelReadsAssumption
<1>2. CASE Len(s) < PageSize
  BY <1>2, SubSeqFull DEF FirstPage
<1>3. CASE ~(Len(s) < PageSize)
  <2>1. FirstPage(s) = SubSeq(s, 1, PageSize)
    BY <1>3 DEF FirstPage
  <2>2. \A i \in 1..PageSize : s[i] \in Labels
    BY <1>1, <1>3
  <2>3. Len(SubSeq(s, 1, PageSize)) = PageSize
    BY <1>1, <2>2, SubSeqProperties
  <2>. QED  BY <2>1, <2>3
<1>. QED  BY <1>2, <1>3
\* A list that ends with s ends with s and a page when the page is appended.
LEMMA EndsGrow ==
  ASSUME NEW s \in Seq(Labels), NEW l, EndsWith(s, l), NEW p \in Seq(Labels)
  PROVE  EndsWith(s \o p, l \o p)
<1>1. PICK before \in Seq(Labels) : l = before \o s
  BY DEF EndsWith
<1>2. (before \o s) \o p = before \o (s \o p)
  BY ConcatAssociative
<1>. QED  BY <1>1, <1>2 DEF EndsWith

LEMMA EverythingEndsEmpty ==
  ASSUME NEW l \in Seq(Labels)
  PROVE  EndsWith(<<>>, l)
<1>1. l \o <<>> = l
  BY ConcatEmptySeq
<1>. QED  BY <1>1 DEF EndsWith

LEMMA EndElements ==
  ASSUME NEW s \in Seq(Labels), NEW l, EndsWith(s, l)
  PROVE  ToSet(s) \subseteq ToSet(l)
<1>1. PICK before \in Seq(Labels) : l = before \o s
  BY DEF EndsWith
<1>2. ToSet(before \o s) = ToSet(before) \cup ToSet(s)
  BY ConcatElements
<1>. QED  BY <1>1, <1>2

LEMMA EndIsSuffix ==
  ASSUME NEW s \in Seq(Labels), NEW l, EndsWith(s, l)
  PROVE  IsSuffix(s, l)
<1>1. PICK before \in Seq(Labels) : l = before \o s
  BY DEF EndsWith
<1>2. /\ l \in Seq(Labels) /\ Len(l) = Len(before) + Len(s)
      /\ \A i \in 1..(Len(before) + Len(s)) :
           l[i] = IF i <= Len(before) THEN before[i] ELSE s[i - Len(before)]
  BY <1>1, ConcatProperties
<1>3. Len(before) \in Nat /\ Len(s) \in Nat
  OBVIOUS
<1>. DEFINE backS == Reverse(s)
            backL == Reverse(l)
<1>4. /\ backS \in Seq(Labels) /\ Len(backS) = Len(s)
      /\ \A i \in 1..Len(s) : backS[i] = s[Len(s) - i + 1]
  <2>1. \A i \in 1..Len(s) : s[Len(s) - i + 1] \in Labels
    OBVIOUS
  <2>2. backS = [i \in 1..Len(s) |-> s[Len(s) - i + 1]]
    BY DEF Reverse
  <2>. QED  BY <1>3, <2>1, <2>2, IsASeq
<1>5. /\ backL \in Seq(Labels) /\ Len(backL) = Len(l)
      /\ \A i \in 1..Len(l) : backL[i] = l[Len(l) - i + 1]
  <2>1. \A i \in 1..Len(l) : l[Len(l) - i + 1] \in Labels
    BY <1>2
  <2>2. backL = [i \in 1..Len(l) |-> l[Len(l) - i + 1]]
    BY DEF Reverse
  <2>. QED  BY <1>2, <1>3, <2>1, <2>2, IsASeq
<1>. HIDE DEF backS, backL
<1>. DEFINE front == SubSeq(backL, 1, Len(s))
<1>6. /\ front \in Seq(Labels) /\ Len(front) = Len(s)
      /\ \A i \in 1..Len(s) : front[i] = backL[i]
  <2>1. \A i \in 1..Len(s) : backL[i] \in Labels
    BY <1>2, <1>3, <1>5
  <2>2. /\ front \in Seq(Labels)
        /\ Len(front) = IF 1 <= Len(s) THEN Len(s) - 1 + 1 ELSE 0
        /\ \A i \in 1..(Len(s) - 1 + 1) : front[i] = backL[1 + i - 1]
    BY <1>3, <2>1, SubSeqProperties
  <2>. HIDE DEF front
  <2>. QED  BY <1>3, <2>2
<1>. HIDE DEF front
<1>7. ASSUME NEW i \in 1..Len(s) PROVE backS[i] = front[i]
  <2>1. backL[i] = l[Len(l) - i + 1]
    BY <1>2, <1>3, <1>5
  <2>2. l[Len(l) - i + 1] = s[Len(s) - i + 1]
    BY <1>2, <1>3
  <2>. QED  BY <1>4, <1>6, <2>1, <2>2
<1>8. backS = front
  BY <1>4, <1>6, <1>7, SeqEqual
<1>9. SubSeq(backS, 1, Len(backS)) = backS
  BY <1>4, SubSeqFull
<1>10. Len(backS) <= Len(backL)
  BY <1>2, <1>3, <1>4, <1>5
<1>11. IsPrefix(backS, backL)
  BY <1>4, <1>8, <1>9, <1>10 DEF IsPrefix, front
<1>. QED  BY <1>11 DEF IsSuffix, backS, backL

\* A goroutine whose own state, history and list stay reads as well as before.
LEMMA SameReads ==
  ASSUME NEW u \in Tasks, ReadsWell(u), list'[u[2]] = list[u[2]], pc'[u] = pc[u],
         cached'[u] = cached[u], etag'[u] = etag[u], cursor'[u] = cursor[u],
         pages'[u] = pages[u], labels'[u] = labels[u], limits'[u] = limits[u],
         steady'[u] = steady[u], still'[u] = still[u]
  PROVE  ReadsWell(u)'
BY DEF ReadsWell, Fresh, Reading, Past, HasList, FullList

LEMMA StartReads ==
  ASSUME HonestInv, ReadsInv, NEW t \in Tasks, Start(t)
  PROVE  ReadsInv'
<1>1. TypeOK /\ EntriesAreHonest /\ t[2] \in Repos
  BY DEF HonestInv, Tasks
<1>2. /\ pc[t] = "queued" /\ pc' = [pc EXCEPT ![t] = "reading"]
      /\ steady' = [steady EXCEPT ![t] = ToSet(list[t[2]])]
      /\ still' = [still EXCEPT ![t] = {list[t[2]]}] /\ limits' = limits
      /\ list' = list /\ cursor' = cursor /\ pages' = pages /\ labels' = labels
  BY DEF Start
<1>3. /\ \A u \in Tasks : u # t => etag'[u] = etag[u] /\ cached'[u] = cached[u]
      /\ etag'[t] # NoTag => etag'[t] = {cached'[t]}
  <2>1. CASE t[1] \in Caching /\ Usable(entry[t[2]])
    <3>1. /\ etag' = [etag EXCEPT ![t] = entry[t[2]].etag]
          /\ cached' = [cached EXCEPT ![t] = entry[t[2]].labels]
      BY <2>1 DEF Start
    <3>2. entry[t[2]].etag = {entry[t[2]].labels}
      BY <1>1, <2>1 DEF EntriesAreHonest
    <3>. QED  BY <1>1, <3>1, <3>2 DEF TypeOK
  <2>2. CASE ~(t[1] \in Caching /\ Usable(entry[t[2]]))
    <3>1. etag' = etag /\ cached' = cached
      BY <2>2 DEF Start
    <3>. QED  BY <1>2, <3>1 DEF ReadsInv, ReadsWell, Fresh
  <2>. QED  BY <2>1, <2>2
<1>4. Fresh(t)
  BY <1>2 DEF ReadsInv, ReadsWell
<1>5. ReadsWell(t)'
  <2>1. /\ pc'[t] = "reading" /\ steady'[t] = ToSet(list[t[2]])
        /\ still'[t] = {list[t[2]]}
        /\ cursor'[t] = 0 /\ pages'[t] = 0 /\ labels'[t] = <<>>
    BY <1>1, <1>2, <1>4 DEF TypeOK, Fresh
  <2>2. ToSet(labels'[t]) = {}
    BY <2>1 DEF ToSet
  <2>3. Past(t)' = <<>>
    BY <2>1 DEF Past
  <2>4. EndsWith(<<>>, <<>>)
    <3>1. <<>> \in Seq(Labels)
      OBVIOUS
    <3>. QED  BY ONLY <3>1, EverythingEndsEmpty
  <2>. QED  BY <1>2, <1>3, <2>1, <2>2, <2>3, <2>4 DEF ReadsWell, Reading
<1>6. ASSUME NEW u \in Tasks, u # t PROVE ReadsWell(u)'
  <2>1. ReadsWell(u)
    BY DEF ReadsInv
  <2>2. pc'[u] = pc[u] /\ steady'[u] = steady[u] /\ still'[u] = still[u]
    BY <1>1, <1>2, <1>6 DEF TypeOK
  <2>. QED  BY <1>2, <1>3, <1>6, <2>1, <2>2, SameReads
<1>. QED  BY <1>5, <1>6 DEF ReadsInv

\* A 304 answers for a list that is a page long, or is as the cache has it.
LEMMA NotModifiedReads ==
  ASSUME HonestInv, ReadsInv, NEW t \in Tasks, NotModified(t)
  PROVE  ReadsInv'
<1>1. TypeOK
  BY DEF HonestInv
<1>2. /\ pc[t] = "reading" /\ Matches(t)
      /\ pc' = [pc EXCEPT ![t] = "done"] /\ labels' = [labels EXCEPT ![t] = cached[t]]
      /\ list' = list /\ cached' = cached /\ etag' = etag /\ cursor' = cursor
      /\ pages' = pages /\ limits' = limits /\ steady' = steady /\ still' = still
  BY DEF NotModified, history
<1>3. ReadsWell(t)'
  <2>. DEFINE all == list[t[2]]
  <2>1. all \in Seq(Labels)
    BY <1>1 DEF TypeOK, Tasks
  <2>2. Reading(t)
    BY <1>2 DEF ReadsInv, ReadsWell
  <2>3. etag[t] = {FirstPage(all)}
    BY <1>2 DEF Matches
  <2>4. cached[t] = FirstPage(all) /\ pages[t] = 0
    BY <2>2, <2>3 DEF Reading, NoTag
  <2>5. pc'[t] = "done" /\ labels'[t] = FirstPage(all) /\ pages'[t] = 0
    BY <1>1, <1>2, <2>4 DEF TypeOK
  <2>6. ~FullList(t)' => labels'[t] = all
    BY <2>1, <2>5, WholePage DEF FullList
  <2>7. EndsWith(all, all)
    <3>1. <<>> \o all = all /\ <<>> \in Seq(Labels)
      BY <2>1, ConcatEmptySeq
    <3>. HIDE DEF all
    <3>. QED  BY <3>1 DEF EndsWith
  <2>8. still'[t] \subseteq {all} /\ steady'[t] \subseteq ToSet(all)
    BY <1>2, <2>2 DEF Reading
  <2>9. HasList(t)'
    BY <2>6, <2>7, <2>8 DEF HasList
  <2>. QED  BY <2>5, <2>9 DEF ReadsWell
<1>4. ASSUME NEW u \in Tasks, u # t PROVE ReadsWell(u)'
  <2>1. ReadsWell(u)
    BY DEF ReadsInv
  <2>2. pc'[u] = pc[u] /\ labels'[u] = labels[u]
    BY <1>1, <1>2, <1>4 DEF TypeOK
  <2>. QED  BY <1>2, <2>1, <2>2, SameReads
<1>. QED  BY <1>3, <1>4 DEF ReadsInv

LEMMA ReadPageReads ==
  ASSUME HonestInv, ReadsInv, NEW t \in Tasks, ReadPage(t)
  PROVE  ReadsInv'
<1>1. TypeOK
  BY DEF HonestInv
<1>2. /\ pc[t] = "reading"
      /\ labels' = [labels EXCEPT ![t] = @ \o Page(t)]
      /\ cursor' = [cursor EXCEPT ![t] = NextPage(t)]
      /\ pages' = [pages EXCEPT ![t] = @ + 1]
      /\ list' = list /\ cached' = cached /\ limits' = limits /\ steady' = steady /\ still' = still
  BY DEF ReadPage, Counted, history
<1>3. PICK next \in {"reading", "saving", "done"} :
        /\ pc' = [pc EXCEPT ![t] = next]
        /\ next = "reading" <=> NextPage(t) # 0
  BY DEF ReadPage
<1>4. /\ \A u \in Tasks : u # t => etag'[u] = etag[u]
      /\ etag'[t] = NoTag
  <2>1. CASE pages[t] = 0
    <3>1. etag' = [etag EXCEPT ![t] = NoTag]
      BY <2>1 DEF ReadPage
    <3>. QED  BY <1>1, <3>1 DEF TypeOK
  <2>2. CASE pages[t] # 0
    <3>1. etag' = etag
      BY <2>2 DEF ReadPage
    <3>. QED  BY <1>2, <2>2, <3>1 DEF ReadsInv, ReadsWell, Reading
  <2>. QED  BY <2>1, <2>2
<1>5. Reading(t)
  BY <1>2 DEF ReadsInv, ReadsWell
<1>6. /\ pages[t] \in Nat /\ pages'[t] = pages[t] + 1 /\ cursor'[t] = NextPage(t)
      /\ pc'[t] = next /\ list'[t[2]] = list[t[2]] /\ steady'[t] = steady[t] /\ still'[t] = still[t]
      /\ limits'[t] = limits[t] /\ labels'[t] = labels[t] \o Page(t)
      /\ labels[t] \in Seq(Labels) /\ Page(t) \in Seq(Labels)
  BY <1>1, <1>2, <1>3, PageIsList DEF TypeOK
<1>7. ToSet(labels'[t]) = ToSet(labels[t]) \cup ToSet(Page(t))
  BY <1>6, ConcatElements
<1>8. ReadsWell(t)'
  <2>. DEFINE all == list[t[2]]
  <2>1. ASSUME NEW p, p = PageNumber(t)
        PROVE  /\ ToSet(Page(t)) \subseteq ToSet(all)
               /\ NextPage(t) # 0 => NextPage(t) = p + 1 /\ p + 1 # 0 /\ (p + 1) - 1 = p
               /\ pages[t] = 0 /\ NextPage(t) = 0 => \A i \in DOMAIN all : all[i] \in ToSet(Page(t))
               /\ Past(t) = SubSeq(all, 1, (p - 1) * PageSize)
               /\ still[t] # {} => (p - 1) * PageSize <= Len(all)
    <3>1. /\ p \in Nat \ {0} /\ all \in Seq(Labels) /\ (p - 1) * PageSize \in Nat
          /\ p * PageSize = (p - 1) * PageSize + PageSize /\ PageSize \in Nat \ {0}
          /\ ToSet(Page(t)) \subseteq ToSet(all)
          /\ \A i \in DOMAIN all :
               (p - 1) * PageSize < i /\ i <= p * PageSize => all[i] \in ToSet(Page(t))
          /\ NextPage(t) = 0 => Len(all) <= p * PageSize
          /\ NextPage(t) # 0 => NextPage(t) = p + 1
      BY <1>1, <2>1, PageElements
    <3>2. cursor[t] \in Nat
      BY <1>1 DEF TypeOK
    <3>3. DOMAIN all = 1..Len(all) /\ Len(all) \in Nat
      BY <3>1
    <3>4. cursor[t] = 0 => p = 1 /\ (p - 1) * PageSize = 0
      BY <2>1, <3>1 DEF PageNumber
    <3>5. cursor[t] # 0 => p = cursor[t]
      BY <2>1 DEF PageNumber
    <3>6. ASSUME pages[t] = 0, NextPage(t) = 0, NEW i \in DOMAIN all
          PROVE  all[i] \in ToSet(Page(t))
      <4>1. (p - 1) * PageSize = 0
        BY <1>5, <3>4, <3>6 DEF Reading
      <4>2. i \in Nat \ {0} /\ i <= Len(all)
        BY <3>3, <3>6
      <4>3. (p - 1) * PageSize < i
        BY <4>1, <4>2
      <4>4. Len(all) <= p * PageSize
        BY <3>1, <3>6
      <4>5. p * PageSize \in Nat
        BY <3>1
      <4>6. i <= p * PageSize
        <5>1. ASSUME NEW k \in Nat, Len(all) <= k PROVE i <= k
          BY <3>3, <4>2, <5>1
        <5>. QED  BY <4>4, <4>5, <5>1
      <4>7. (p - 1) * PageSize < i /\ i <= p * PageSize => all[i] \in ToSet(Page(t))
        BY <3>1, <3>6
      <4>. QED  BY <4>3, <4>6, <4>7
    <3>7. Past(t) = SubSeq(all, 1, (p - 1) * PageSize)
      <4>1. CASE cursor[t] = 0
        <5>1. SubSeq(all, 1, 0) = <<>>
          BY SubSeqEmpty
        <5>. QED  BY <3>4, <4>1, <5>1 DEF Past
      <4>2. CASE cursor[t] # 0
        BY <3>5, <4>2 DEF Past
      <4>. QED  BY <4>1, <4>2
    <3>8. still[t] # {} => (p - 1) * PageSize <= Len(all)
      BY <1>5, <3>3, <3>4, <3>5 DEF Reading
    <3>. QED  BY <3>1, <3>6, <3>7, <3>8
  <2>2. ASSUME still[t] # {}
        PROVE  /\ Past(t) \in Seq(Labels)
               /\ NextPage(t) = 0 => Past(t) \o Page(t) = all
               /\ NextPage(t) # 0 =>
                    /\ Past(t) \o Page(t) = SubSeq(all, 1, (NextPage(t) - 1) * PageSize)
                    /\ (NextPage(t) - 1) * PageSize <= Len(all)
    <3>1. ASSUME NEW p, p = PageNumber(t), NEW past, past = Past(t)
          PROVE  /\ past \in Seq(Labels)
                 /\ NextPage(t) = 0 => past \o Page(t) = all
                 /\ NextPage(t) # 0 => /\ past \o Page(t) = SubSeq(all, 1, p * PageSize)
                                       /\ p * PageSize <= Len(all) /\ NextPage(t) - 1 = p
      <4>1. /\ past = SubSeq(all, 1, (p - 1) * PageSize) /\ (p - 1) * PageSize <= Len(all)
            /\ NextPage(t) # 0 => NextPage(t) - 1 = p
        BY <2>1, <2>2, <3>1
      <4>2. ASSUME NEW l, l = list[t[2]]
            PROVE  /\ past \in Seq(Labels)
                   /\ NextPage(t) = 0 => past \o Page(t) = l
                   /\ NextPage(t) # 0 => /\ past \o Page(t) = SubSeq(l, 1, p * PageSize)
                                         /\ p * PageSize <= Len(l)
        <5>1. past = SubSeq(l, 1, (p - 1) * PageSize) /\ (p - 1) * PageSize <= Len(l)
          BY <4>1, <4>2
        <5>2. p = PageNumber(t)
          BY <3>1
        <5>. QED  BY ONLY <1>1, <4>2, <5>1, <5>2, PageJoins
      <4>. QED  BY <4>1, <4>2
    <3>. QED  BY <3>1
  <2>3. still[t] # {} =>
          /\ still[t] = {all} /\ steady[t] = ToSet(all) /\ ToSet(labels'[t]) \subseteq ToSet(all)
          /\ EndsWith(Past(t) \o Page(t), labels'[t])
          /\ limits'[t] = 0 => labels'[t] = Past(t) \o Page(t)
    <3>1. ASSUME still[t] # {} PROVE EndsWith(Past(t) \o Page(t), labels'[t])
      <4>1. EndsWith(Past(t), labels[t]) /\ Past(t) \in Seq(Labels)
        BY <1>5, <2>2, <3>1 DEF Reading
      <4>. QED  BY <1>6, <4>1, EndsGrow
    <3>2. ToSet(Page(t)) \subseteq ToSet(all)
      BY <2>1
    <3>. QED  BY <1>5, <1>6, <1>7, <3>1, <3>2 DEF Reading
  <2>4. CASE NextPage(t) # 0
    <3>1. pages'[t] # 0 /\ next = "reading"
      BY <1>3, <1>6, <2>4
    <3>2. still[t] # {} => Past(t)' = Past(t) \o Page(t)
      BY <1>6, <2>2, <2>4 DEF Past
    <3>3. Reading(t)'
      BY <1>4, <1>5, <1>6, <2>2, <2>3, <2>4, <3>1, <3>2 DEF Reading
    <3>. QED  BY <1>6, <3>1, <3>3 DEF ReadsWell
  <2>5. CASE NextPage(t) = 0
    <3>1. next \in {"saving", "done"}
      BY <1>3, <2>5
    <3>2. ASSUME NEW s \in still'[t]
          PROVE  /\ EndsWith(s, labels'[t]) /\ ToSet(labels'[t]) = ToSet(s)
                 /\ limits'[t] = 0 => labels'[t] = s
      <4>1. still[t] # {} /\ s = all
        BY <1>6, <2>3, <3>2
      <4>2. all \in Seq(Labels)
        BY <1>1 DEF TypeOK, Tasks
      <4>3. EndsWith(all, labels'[t]) /\ limits'[t] = 0 => labels'[t] = all
        BY <2>2, <2>3, <2>5, <4>1
      <4>4. EndsWith(all, labels'[t])
        BY <2>2, <2>3, <2>5, <4>1
      <4>5. ToSet(all) \subseteq ToSet(labels'[t])
        BY <4>2, <4>4, EndElements
      <4>. QED  BY <2>3, <4>1, <4>3, <4>4, <4>5
    <3>3. pages'[t] <= 1 => steady[t] \subseteq ToSet(labels'[t])
      <4>1. pages'[t] <= 1 => pages[t] = 0
        BY <1>6
      <4>2. pages[t] = 0 => \A i \in DOMAIN all : all[i] \in ToSet(Page(t))
        BY <2>1, <2>5
      <4>3. pages[t] = 0 => ToSet(all) \subseteq ToSet(Page(t))
        BY <4>2 DEF ToSet
      <4>. QED  BY <1>5, <1>7, <4>1, <4>3 DEF Reading
    <3>4. HasList(t)'
      BY <1>6, <3>2, <3>3 DEF HasList
    <3>. QED  BY <1>6, <3>1, <3>4 DEF ReadsWell
  <2>. QED  BY <2>4, <2>5
<1>9. ASSUME NEW u \in Tasks, u # t PROVE ReadsWell(u)'
  <2>1. ReadsWell(u)
    BY DEF ReadsInv
  <2>2. pc'[u] = pc[u] /\ labels'[u] = labels[u] /\ cursor'[u] = cursor[u] /\ pages'[u] = pages[u]
    BY <1>1, <1>2, <1>3, <1>9 DEF TypeOK
  <2>. QED  BY <1>2, <1>4, <1>9, <2>1, <2>2, SameReads
<1>. QED  BY <1>8, <1>9 DEF ReadsInv
LEMMA LimitedReads ==
  ASSUME HonestInv, ReadsInv, NEW t \in Tasks, Limited(t)
  PROVE  ReadsInv'
<1>1. TypeOK
  BY DEF HonestInv
<1>2. /\ pc[t] = "reading" /\ cursor' = [cursor EXCEPT ![t] = 0]
      /\ limits' = [limits EXCEPT ![t] = @ + 1]
      /\ list' = list /\ pc' = pc /\ cached' = cached /\ etag' = etag /\ pages' = pages
      /\ labels' = labels /\ steady' = steady /\ still' = still
  BY DEF Limited, history
<1>3. ReadsWell(t)'
  <2>1. Reading(t) /\ cursor'[t] = 0 /\ limits'[t] # 0 /\ labels[t] \in Seq(Labels)
    BY <1>1, <1>2 DEF ReadsInv, ReadsWell, TypeOK
  <2>2. Past(t)' = <<>> /\ EndsWith(<<>>, labels[t])
    BY <2>1, EverythingEndsEmpty DEF Past
  <2>. QED  BY <1>2, <2>1, <2>2 DEF ReadsWell, Reading
<1>4. ASSUME NEW u \in Tasks, u # t PROVE ReadsWell(u)'
  <2>1. ReadsWell(u)
    BY DEF ReadsInv
  <2>2. cursor'[u] = cursor[u] /\ limits'[u] = limits[u]
    BY <1>1, <1>2, <1>4 DEF TypeOK
  <2>. QED  BY <1>2, <2>1, <2>2, SameReads
<1>. QED  BY <1>3, <1>4 DEF ReadsInv

\* A read ends without a list, or the list it has goes to the cache.
LEMMA ReadEnds ==
  ASSUME HonestInv, ReadsInv, NEW t \in Tasks,
         Inaccessible(t) \/ Fail(t) \/ CreateTemp(t) \/ Rename(t) \/ SaveFails(t)
  PROVE  ReadsInv'
<1>1. TypeOK
  BY DEF HonestInv
<1>2. UNCHANGED <<list, local, limits, steady, still>>
  BY DEF Inaccessible, Fail, CreateTemp, Rename, SaveFails, history
<1>3. /\ list' = list /\ cached' = cached /\ etag' = etag /\ cursor' = cursor
      /\ pages' = pages /\ labels' = labels /\ limits' = limits
      /\ steady' = steady /\ still' = still
  BY <1>2 DEF local
<1>4. PICK next \in {"absent", "failed", "renaming", "done"} :
        /\ pc' = [pc EXCEPT ![t] = next]
        /\ next \in {"renaming", "done"} => pc[t] \in {"saving", "renaming"}
  BY DEF Inaccessible, Fail, CreateTemp, Rename, SaveFails
<1>5. ReadsWell(t)'
  <2>1. pc'[t] = next
    BY <1>1, <1>4 DEF TypeOK
  <2>2. HasList(t) => HasList(t)'
    BY <1>3 DEF HasList, FullList
  <2>3. next \in {"renaming", "done"} => HasList(t)
    BY <1>4 DEF ReadsInv, ReadsWell
  <2>. QED  BY <1>4, <2>1, <2>2, <2>3 DEF ReadsWell
<1>6. ASSUME NEW u \in Tasks, u # t PROVE ReadsWell(u)'
  <2>1. ReadsWell(u)
    BY DEF ReadsInv
  <2>2. pc'[u] = pc[u]
    BY <1>1, <1>4, <1>6 DEF TypeOK
  <2>. QED  BY <1>3, <2>1, <2>2, SameReads
<1>. QED  BY <1>5, <1>6 DEF ReadsInv

LEMMA RestartReads ==
  ASSUME HonestInv, ReadsInv, NEW run \in Runs, Restart(run)
  PROVE  ReadsInv'
<1>1. /\ pc' = [t \in Tasks |-> IF t[1] = run THEN "queued" ELSE pc[t]]
      /\ cached' = [t \in Tasks |-> IF t[1] = run THEN <<>> ELSE cached[t]]
      /\ etag' = [t \in Tasks |-> IF t[1] = run THEN NoTag ELSE etag[t]]
      /\ cursor' = [t \in Tasks |-> IF t[1] = run THEN 0 ELSE cursor[t]]
      /\ pages' = [t \in Tasks |-> IF t[1] = run THEN 0 ELSE pages[t]]
      /\ labels' = [t \in Tasks |-> IF t[1] = run THEN <<>> ELSE labels[t]]
      /\ limits' = [t \in Tasks |-> IF t[1] = run THEN 0 ELSE limits[t]]
      /\ list' = list /\ steady' = steady /\ still' = still
  BY DEF Restart, history
<1>2. ASSUME NEW u \in Tasks PROVE ReadsWell(u)'
  <2>1. CASE u[1] = run
    BY <1>1, <2>1 DEF ReadsWell, Fresh
  <2>2. CASE u[1] # run
    <3>1. ReadsWell(u)
      BY DEF ReadsInv
    <3>. QED  BY <1>1, <2>2, <3>1, SameReads
  <2>. QED  BY <2>1, <2>2
<1>. QED  BY <1>2 DEF ReadsInv

\* A goroutine that has read its list knows nothing of later edits, and its
\* history takes no notice of them.
LEMMA EditReads ==
  ASSUME HonestInv, ReadsInv, NEW repo \in Repos, Edit(repo)
  PROVE  ReadsInv'
<1>1. TypeOK
  BY DEF HonestInv
<1>2. UNCHANGED <<pc, local, limits>>
  BY DEF Edit
<1>3. /\ pc' = pc /\ cached' = cached /\ etag' = etag /\ cursor' = cursor
      /\ pages' = pages /\ labels' = labels /\ limits' = limits
  BY <1>2 DEF local
<1>4. /\ steady' = [t \in Tasks |-> IF t[2] = repo /\ pc[t] = "reading"
                                      THEN steady[t] \cap ToSet(list'[repo]) ELSE steady[t]]
      /\ still' = [t \in Tasks |-> IF t[2] = repo /\ pc[t] = "reading" THEN {} ELSE still[t]]
  BY DEF Edit
<1>5. \A r \in Repos : r # repo => list'[r] = list[r]
  BY <1>1 DEF Edit, TypeOK
<1>6. ASSUME NEW u \in Tasks PROVE ReadsWell(u)'
  <2>1. ReadsWell(u) /\ u[2] \in Repos
    BY DEF ReadsInv, Tasks
  <2>2. CASE u[2] = repo /\ pc[u] = "reading"
    <3>1. steady'[u] = steady[u] \cap ToSet(list'[repo]) /\ still'[u] = {}
      BY <1>4, <2>2
    <3>. QED  BY <1>3, <2>1, <2>2, <3>1 DEF ReadsWell, Reading
  <2>3. CASE ~(u[2] = repo /\ pc[u] = "reading")
    <3>1. steady'[u] = steady[u] /\ still'[u] = still[u]
      BY <1>1, <1>4, <2>3 DEF TypeOK
    <3>2. CASE u[2] # repo
      BY <1>3, <1>5, <2>1, <3>1, <3>2, SameReads
    <3>3. CASE pc[u] # "reading"
      BY <1>3, <2>1, <3>1, <3>3 DEF ReadsWell, Fresh, HasList, FullList
    <3>. QED  BY <2>3, <3>2, <3>3
  <2>. QED  BY <2>2, <2>3
<1>. QED  BY <1>6 DEF ReadsInv

LEMMA NextReads ==
  ASSUME HonestInv, ReadsInv, [Next]_vars
  PROVE  ReadsInv'
<1>1. ASSUME NEW t \in Tasks, Proceed(t) \/ Limited(t)
      PROVE  ReadsInv'
  BY <1>1, StartReads, NotModifiedReads, ReadPageReads, LimitedReads, ReadEnds DEF Proceed
<1>2. CASE Clear \/ UNCHANGED vars
  <2>1. UNCHANGED <<list, pc, local, limits, steady, still>>
    BY <1>2 DEF Clear, ListFiles, RemoveFile, Cleared, history, local, vars
  <2>2. /\ list' = list /\ pc' = pc /\ cached' = cached /\ etag' = etag /\ cursor' = cursor
        /\ pages' = pages /\ labels' = labels /\ limits' = limits
        /\ steady' = steady /\ still' = still
    BY <2>1 DEF local
  <2>. QED  BY <2>2, SameReads DEF ReadsInv
<1>. QED  BY <1>1, <1>2, RestartReads, EditReads DEF Next

\* What goroutines have in hand is right for the list as it is now, or for the
\* list as it was when they had read it.
THEOREM ReadsGoWell == Spec => []ReadsInv
<1>1. Init => ReadsInv
  BY DEF Init, ReadsInv, ReadsWell, Fresh
<1>2. HonestInv /\ ReadsInv /\ [Next]_vars => ReadsInv'
  BY NextReads
<1>. QED  BY <1>1, <1>2, HonestReads, PTL DEF Spec

(***************************************************************************)
(* QuietReadsAreRight: the list ListLabels returns for a repository nobody *)
(* edits meanwhile ends with the labels of the repository in order, holds  *)
(* no others, and is exactly that list when no page was refused, from      *)
(* however many pages, from the cache or not; but for a cached list that   *)
(* fills its page.  It may begin with pages that a rate limit sent the     *)
(* read back over: nothing more can be proved (ListsEachLabelOnce).        *)
(***************************************************************************)
THEOREM QuietReads == Spec => []QuietReadsAreRight
<1>1. TypeOK /\ ReadsInv => QuietReadsAreRight
  <2> SUFFICES ASSUME TypeOK, ReadsInv, NEW t \in Tasks, pc[t] = "done", ~FullPage(t),
                      NEW s \in still[t]
               PROVE  /\ IsSuffix(s, labels[t]) /\ ToSet(labels[t]) = ToSet(s)
                      /\ limits[t] = 0 => labels[t] = s
    BY DEF QuietReadsAreRight
  <2>1. HasList(t) /\ ~FullList(t)
    BY DEF ReadsInv, ReadsWell, FullList, FullPage, FromCache
  <2>2. s \in Seq(Labels)
    BY DEF TypeOK
  <2>. QED  BY <2>1, <2>2, EndIsSuffix DEF HasList
<1>. QED  BY <1>1, TypeCorrect, ReadsGoWell, PTL

(***************************************************************************)
(* SinglePageMissesNothing: whatever people do meanwhile, a label that was *)
(* there throughout is in every list that ListLabels takes from the cache  *)
(* or reads in one page; but for a cached list that fills its page.        *)
(***************************************************************************)
THEOREM SinglePagesMissNothing == Spec => []SinglePageMissesNothing
<1>1. ReadsInv => SinglePageMissesNothing
  BY DEF ReadsInv, ReadsWell, HasList, FullList, SinglePageMissesNothing, FullPage, FromCache
<1>. QED  BY <1>1, ReadsGoWell, PTL

-----------------------------------------------------------------------------
(***************************************************************************)
(* What Clear leaves.  Until it returns, an entry that is there is still   *)
(* on its list, or was saved after the list was made.                      *)
(***************************************************************************)
ClearInv ==
  clearing # Idle =>
    \A repo \in Repos : entry[repo] # Absent => repo \in saved \/ EntryFile(repo) \in clearing

LEMMA ClearInvKept == TypeOK /\ ClearInv /\ [Next]_vars => ClearInv'
<1> SUFFICES ASSUME TypeOK, ClearInv, [Next]_vars PROVE ClearInv'
  OBVIOUS
<1>1. CASE UNCHANGED <<entry, clearing, saved>>
  BY <1>1 DEF ClearInv
<1>2. ASSUME NEW t \in Tasks, Rename(t) PROVE ClearInv'
  <2>1. t[2] \in Repos
    BY DEF Tasks
  <2>2. CASE t \in temps
    <3>1. entry' = [entry EXCEPT ![t[2]] = entry'[t[2]]] /\ saved' = saved \cup {t[2]}
      BY <1>2, <2>1, <2>2 DEF Rename, TypeOK
    <3>2. \A repo \in Repos : repo # t[2] => entry'[repo] = entry[repo]
      BY <3>1 DEF TypeOK
    <3> QED
      BY <1>2, <3>1, <3>2 DEF Rename, ClearInv
  <2> QED
    BY <1>1, <1>2, <2>2 DEF Rename
<1>3. CASE ListFiles
  BY <1>3 DEF ListFiles, ClearInv
<1>4. CASE Cleared
  BY <1>4 DEF Cleared, ClearInv
<1>5. ASSUME NEW file \in clearing, RemoveFile(file) PROVE ClearInv'
  <2> SUFFICES ASSUME NEW repo \in Repos, entry'[repo] # Absent
               PROVE  repo \in saved' \/ EntryFile(repo) \in clearing'
    BY DEF ClearInv
  <2>1. file # EntryFile(repo) /\ entry[repo] # Absent
    BY <1>5 DEF RemoveFile
  <2>2. repo \in saved \/ EntryFile(repo) \in clearing
    BY <1>5, <2>1 DEF RemoveFile, ClearInv
  <2>3. saved' = saved /\ clearing' = clearing \ {file}
    BY <1>5 DEF RemoveFile, history
  <2> QED
    BY <2>1, <2>2, <2>3
<1> QED
  BY <1>1, <1>2, <1>3, <1>4, <1>5
  DEF Next, Proceed, Clear, Start, NotModified, ReadPage, Limited, Inaccessible, Fail, CreateTemp,
      SaveFails, Restart, Edit, vars, history

\* Clear leaves no entry but those saved after it listed the directory, however
\* many runs save meanwhile, find their files gone, or are killed.
THEOREM ClearingEmpties == Spec => ClearEmpties
<1>1. Init => ClearInv
  BY DEF Init, ClearInv
<1>2. ClearInv /\ [Next]_vars =>
        [clearing = {} /\ clearing' = Idle =>
           \A repo \in Repos : entry[repo] # Absent => repo \in saved]_vars
  BY DEF ClearInv, Idle
<1> QED
  BY <1>1, <1>2, TypeCorrect, ClearInvKept, PTL DEF Spec, ClearEmpties
=============================================================================
