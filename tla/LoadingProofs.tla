--------------------------- MODULE LoadingProofs ---------------------------
(***************************************************************************)
(* What Validate accepts is what the planner assumes, what it refuses is   *)
(* refused for the first thing wrong, a group that is flattened stands for *)
(* the leaf groups it reaches, what init and export wrote is loaded as it  *)
(* was written, and an export plans nothing: for every file, any number of *)
(* groups, labels and renames, and every exported repository.              *)
(*                                                                         *)
(* PassInv is what the loops have checked behind them (LabelsPassed,       *)
(* RenamesPassed), WalkInv what the walk over the groups has in hand and   *)
(* LoadInv the types and where the walk fits in.  ReportInv adds that      *)
(* nothing wrong has been passed over, and WrittenInv that the last file   *)
(* that was written stays in sight.                                        *)
(***************************************************************************)
EXTENDS LoadedPlans, SequenceTheorems, FiniteSetTheorems, TLAPS

-----------------------------------------------------------------------------
(***************************************************************************)
(* The inductive invariant.                                                *)
(***************************************************************************)

ListsOK == labels \in Seq(RawLabel) /\ renames \in Seq(RawRename) /\ at \in Nat

ListsIn(f) ==
  f.labels \in Seq(RawLabel) /\ f.renames \in Seq(RawRename) /\ f.defaults \in GroupList

FileOK == ListsIn(file) /\ (\A p \in DOMAIN disk : ListsIn(disk[p])) /\ held \in Views

Trimmed ==
  \A i \in DOMAIN labels : Trim[labels[i].name] = labels[i].name

NothingMet ==
  /\ stage \in {"shell", "read", "parsed", "groups"} => names = {} /\ colors = {}
  /\ stage \in {"shell", "read", "parsed", "groups", "labels", "defaults"} =>
       froms = {} /\ tos = {}

\* The labels up to n have passed every rule, and have been remembered.
LabelsPassed(n) ==
  /\ names = {Lower[labels[i].name] : i \in 1..n}
  /\ colors = {labels[i].color : i \in 1..n}
  /\ \A i \in 1..n : /\ labels[i].name \notin UnfitNames /\ labels[i].color \in Colors
                     /\ ToSet(labels[i].groups) \subseteq Defined
  /\ \A i, j \in 1..n : i < j => /\ Lower[labels[i].name] # Lower[labels[j].name]
                                 /\ labels[i].color # labels[j].color

\* The same for the renames.
RenamesPassed(n) ==
  /\ froms = {Lower[renames[i].from] : i \in 1..n}
  /\ tos = {Lower[renames[i].to] : i \in 1..n}
  /\ \A i \in 1..n : /\ Lower[renames[i].from] \notin ConfiguredKeys
                     /\ Lower[renames[i].to] \in ConfiguredKeys
  /\ \A i, j \in 1..n : i < j => /\ Lower[renames[i].from] # Lower[renames[j].from]
                                 /\ Lower[renames[i].to] # Lower[renames[j].to]

LabelLoop ==
  /\ stage = "labels" => at >= 1 /\ at <= Len(labels) + 1 /\ LabelsPassed(at - 1)
  /\ stage \in {"defaults", "renames", "chains", "accepted"} => LabelsPassed(Len(labels))

RenameLoop ==
  /\ stage = "renames" => at >= 1 /\ at <= Len(renames) + 1 /\ RenamesPassed(at - 1)
  /\ stage \in {"chains", "accepted"} => RenamesPassed(Len(renames))

PassInv == ListsOK /\ FileOK /\ Trimmed /\ NothingMet /\ LabelLoop /\ RenameLoop

-----------------------------------------------------------------------------
(***************************************************************************)
(* Lemmas.                                                                 *)
(***************************************************************************)

LEMMA ListElement ==
  ASSUME NEW S, NEW s \in Seq(S), NEW i \in DOMAIN s
  PROVE  s[i] \in S /\ i \in 1..Len(s)
OBVIOUS

\* A function over the places of a sequence is a sequence.
LEMMA Mapped ==
  ASSUME NEW S, NEW T, NEW s \in Seq(S), NEW f, f = [i \in DOMAIN s |-> f[i]],
         \A i \in DOMAIN s : f[i] \in T
  PROVE  f \in Seq(T) /\ DOMAIN f = DOMAIN s
<1>1. Len(s) \in Nat /\ DOMAIN s = 1..Len(s)
  OBVIOUS
<1>2. f \in [1..Len(s) -> T]
  BY <1>1
<1>. QED  BY <1>1, <1>2

LEMMA LabelRulesKept ==
  ASSUME NEW l, BrokenByLabel(l) = {}
  PROVE  /\ l.name \notin UnfitNames /\ l.color \in Colors
         /\ Lower[l.name] \notin names /\ l.color \notin colors
         /\ ToSet(l.groups) \subseteq Defined
BY DEF BrokenByLabel, Rules

LEMMA RenameRulesKept ==
  ASSUME NEW n, BrokenByRename(n) = {}
  PROVE  /\ Lower[n.to] \in ConfiguredKeys /\ Lower[n.from] \notin ConfiguredKeys
         /\ Lower[n.from] \notin froms /\ Lower[n.to] \notin tos
BY DEF BrokenByRename, Rules

\* The walk over the groups changes neither the configuration nor what Loading
\* keeps besides.
LEMMA ResolveKeepsConfig == ResolveStep => config' = config
BY DEF ResolveStep, CheckSource, StartFlattening, IncludeUnknown, IncludeEnter,
       IncludeAdd, IncludeAdvance, Return, ResolveEnter, ResolveAdvance, Finish, Enter

LEMMA LabelsPassedKept ==
  ASSUME NEW n \in Nat, LabelsPassed(n), UNCHANGED <<labels, names, colors, config>>
  PROVE  LabelsPassed(n)'
BY DEF LabelsPassed, Defined

LEMMA RenamesPassedKept ==
  ASSUME NEW n \in Nat, RenamesPassed(n), UNCHANGED <<labels, renames, froms, tos>>
  PROVE  RenamesPassed(n)'
BY DEF RenamesPassed, ConfiguredKeys

\* A step that refuses the file.
LEMMA RejectKeepsPassInv ==
  ASSUME PassInv, stage' = "rejected", at' = at, UNCHANGED <<labels, renames, file, disk, held>>
  PROVE  PassInv'
BY DEF PassInv, ListsOK, FileOK, ListsIn, Trimmed, NothingMet, LabelLoop, RenameLoop

LEMMA LengthOfList ==
  ASSUME NEW S, NEW s \in Seq(S)
  PROVE  Len(s) \in Nat /\ DOMAIN s = 1..Len(s)
OBVIOUS

\* Passing the label at hand.
LEMMA PassLabel ==
  ASSUME labels \in Seq(RawLabel), NEW n \in DOMAIN labels, LabelsPassed(n - 1),
         BrokenByLabel(labels[n]) = {},
         names' = names \cup {Lower[labels[n].name]},
         colors' = colors \cup {labels[n].color},
         UNCHANGED <<labels, config>>
  PROVE  LabelsPassed(n)'
<1>. DEFINE l == labels[n]
<1>1. n \in Nat /\ n >= 1 /\ 1..n = 1..(n - 1) \cup {n}
  BY LengthOfList
<1>2. /\ l.name \notin UnfitNames /\ l.color \in Colors
      /\ Lower[l.name] \notin names /\ l.color \notin colors
      /\ ToSet(l.groups) \subseteq Defined
  BY LabelRulesKept
<1>3. /\ names' = {Lower[labels[i].name] : i \in 1..n}
      /\ colors' = {labels[i].color : i \in 1..n}
  BY <1>1 DEF LabelsPassed
<1>4. \A i \in 1..n : /\ labels[i].name \notin UnfitNames /\ labels[i].color \in Colors
                      /\ ToSet(labels[i].groups) \subseteq Defined
  BY <1>1, <1>2 DEF LabelsPassed
<1>5. ASSUME NEW i \in 1..n, NEW j \in 1..n, i < j
      PROVE  Lower[labels[i].name] # Lower[labels[j].name] /\ labels[i].color # labels[j].color
  <2>1. i \in 1..(n - 1)
    BY <1>1, <1>5
  <2>2. CASE j = n
    BY <1>2, <2>1, <2>2 DEF LabelsPassed
  <2>3. CASE j \in 1..(n - 1)
    BY <1>5, <2>1, <2>3 DEF LabelsPassed
  <2>. QED  BY <1>1, <2>2, <2>3
<1>. QED  BY <1>3, <1>4, <1>5 DEF LabelsPassed, Defined

\* Passing the rename at hand.
LEMMA PassRename ==
  ASSUME renames \in Seq(RawRename), NEW n \in DOMAIN renames, RenamesPassed(n - 1),
         BrokenByRename(renames[n]) = {},
         froms' = froms \cup {Lower[renames[n].from]},
         tos' = tos \cup {Lower[renames[n].to]},
         UNCHANGED <<labels, renames>>
  PROVE  RenamesPassed(n)'
<1>. DEFINE m == renames[n]
<1>1. n \in Nat /\ n >= 1 /\ 1..n = 1..(n - 1) \cup {n}
  BY LengthOfList
<1>2. /\ Lower[m.to] \in ConfiguredKeys /\ Lower[m.from] \notin ConfiguredKeys
      /\ Lower[m.from] \notin froms /\ Lower[m.to] \notin tos
  BY RenameRulesKept
<1>3. /\ froms' = {Lower[renames[i].from] : i \in 1..n}
      /\ tos' = {Lower[renames[i].to] : i \in 1..n}
  BY <1>1 DEF RenamesPassed
<1>4. \A i \in 1..n : /\ Lower[renames[i].from] \notin ConfiguredKeys
                      /\ Lower[renames[i].to] \in ConfiguredKeys
  BY <1>1, <1>2 DEF RenamesPassed
<1>5. ASSUME NEW i \in 1..n, NEW j \in 1..n, i < j
      PROVE  /\ Lower[renames[i].from] # Lower[renames[j].from]
             /\ Lower[renames[i].to] # Lower[renames[j].to]
  <2>1. i \in 1..(n - 1)
    BY <1>1, <1>5
  <2>2. CASE j = n
    BY <1>2, <2>1, <2>2 DEF RenamesPassed
  <2>3. CASE j \in 1..(n - 1)
    BY <1>5, <2>1, <2>3 DEF RenamesPassed
  <2>. QED  BY <1>1, <2>2, <2>3
<1>. QED  BY <1>3, <1>4, <1>5 DEF RenamesPassed, ConfiguredKeys

\* What Export writes is a file like any other.
LEMMA ExportedLists ==
  ASSUME NEW v \in Views, NEW order \in Orders(v)
  PROVE  ListsIn(Exported(v, order))
<1>1. Cardinality(Present(v)) \in Nat
  <2>1. IsFiniteSet(Keys)
    <3>1. Keys \subseteq Names
      BY NamesAssumption DEF Keys
    <3>. QED  BY <3>1, LoadingAssumption, FS_Subset
  <2>. QED  BY <2>1, FS_Subset, FS_CardinalityType DEF Present
<1>2. order \in [1..Cardinality(Present(v)) -> Present(v)]
  BY DEF Orders
<1>3. ASSUME NEW k \in Present(v)
      PROVE  ExportedLabel(v[k]) \in RawLabel
  <2>1. v[k] \in Label
    BY <1>3 DEF Present, Views
  <2>2. <<>> \in GroupList
    BY DEF GroupList
  <2>. QED  BY <2>1, <2>2, LoadingAssumption DEF ExportedLabel, RawLabel, Label
<1>4. [i \in DOMAIN order |-> ExportedLabel(v[order[i]])]
         \in [1..Cardinality(Present(v)) -> RawLabel]
  BY <1>2, <1>3
<1>5. <<ExportGroup>> \in GroupList
  BY LoadingAssumption DEF GroupList
<1>6. <<>> \in Seq(RawRename)
  OBVIOUS
<1>. QED  BY <1>1, <1>4, <1>5, <1>6 DEF Exported, ListsIn

LEMMA NormalizedLabel ==
  ASSUME FileOK, NEW l \in RawLabel
  PROVE  Normalized(l) \in RawLabel /\ Trim[Normalized(l).name] = Normalized(l).name
<1>1. /\ l.name \in Names /\ l.color \in Spellings /\ l.desc \in Descs /\ l.groups \in GroupList
  BY DEF RawLabel
<1>2. Trim[l.name] \in Names /\ Trim[Trim[l.name]] = Trim[l.name] /\ Bare[l.color] \in Spellings
  BY <1>1, LoadingAssumption
<1>3. (IF l.groups = <<>> THEN file.defaults ELSE l.groups) \in GroupList
  BY <1>1 DEF FileOK, ListsIn
<1>. QED  BY <1>1, <1>2, <1>3 DEF Normalized, RawLabel

-----------------------------------------------------------------------------
(***************************************************************************)
(* The invariant holds at first, and every step keeps it.                  *)
(***************************************************************************)

LEMMA InitPassInv == Init => PassInv
<1>. SUFFICES ASSUME Init PROVE PassInv
  OBVIOUS
<1>1. FileOK
  <2>1. PICK i \in DOMAIN Settings : \E x \in Settings[i] : disk = x.disk /\ held = x.held
    BY DEF Init
  <2>2. PICK x \in Settings[i] : disk = x.disk /\ held = x.held
    BY <2>1
  <2>3. (\A p \in DOMAIN disk : IsFile(disk[p])) /\ held \in Views
    BY <2>2, SettingsAssumption DEF IsHeld
  <2>4. ListsIn(file)
    BY DEF Init, EmptyFile, ListsIn, GroupList
  <2>. QED  BY <2>3, <2>4 DEF FileOK, IsFile, ListsIn
<1>2. ListsOK /\ Trimmed
  BY DEF Init, ListsOK, Trimmed
<1>3. NothingMet /\ LabelLoop /\ RenameLoop
  BY DEF Init, NothingMet, LabelLoop, RenameLoop
<1>. QED  BY <1>1, <1>2, <1>3 DEF PassInv

\* A file that is written is there with the others.
LEMMA WriteKeeps ==
  ASSUME PassInv, NEW by, NEW p, NEW document, ListsIn(document), Write(by, p, document)
  PROVE  PassInv'
<1>1. /\ UNCHANGED <<held, file, stage, labels, renames, at, names, colors, froms, tos>>
      /\ stage = "shell"
  BY DEF Write, parsed, met
<1>2. FileOK'
  <2>1. disk' = [q \in DOMAIN disk \cup {p} |-> IF q = p THEN document ELSE disk[q]]
    BY DEF Write, WriteFile
  <2>2. ASSUME NEW q \in DOMAIN disk' PROVE ListsIn(disk'[q])
    BY <2>1, <2>2 DEF PassInv, FileOK
  <2>3. \A q \in DOMAIN disk' : ListsIn(disk'[q])
    BY <2>2
  <2>. QED  BY <1>1, <2>3 DEF PassInv, FileOK, ListsIn
<1>. QED  BY <1>1, <1>2 DEF PassInv, ListsOK, Trimmed, NothingMet, LabelLoop, RenameLoop

LEMMA RunInitKeeps ==
  ASSUME PassInv, NEW force, RunInit(force)
  PROVE  PassInv'
<1>1. ListsIn(Scaffold)
  BY LoadingAssumption DEF IsFile, ListsIn
<1>. QED  BY <1>1, WriteKeeps DEF RunInit

LEMMA RunExportKeeps ==
  ASSUME PassInv, NEW out, RunExport(out)
  PROVE  PassInv'
<1>1. PICK order \in Orders(held) : Write("export", Destination(out), Exported(held, order))
  BY DEF RunExport
<1>2. ListsIn(Exported(held, order))
  BY ExportedLists DEF PassInv, FileOK
<1>. QED  BY <1>1, <1>2, WriteKeeps

LEMMA LoadKeeps == PassInv /\ Load => PassInv'
<1>. SUFFICES ASSUME PassInv, Load PROVE PassInv'
  OBVIOUS
<1>1. UNCHANGED <<held, disk, labels, renames, names, colors, froms, tos>> /\ stage = "shell"
  BY DEF Load, parsed, met
<1>2. CASE stage' = "rejected"
  <2>1. UNCHANGED <<file, at>>
    BY <1>2 DEF Load, Reject, Turn
  <2>. QED  BY <1>1, <1>2, <2>1, RejectKeepsPassInv
<1>3. CASE stage' = "read"
  <2>1. PICK p \in Find : Find = {p} /\ file' = disk[p] /\ at' = 0
    BY <1>3 DEF Load, Reject, Turn
  <2>2. p \in DOMAIN disk
    BY <2>1 DEF Find, FindInDir
  <2>3. ListsIn(disk[p])
    BY <2>2 DEF PassInv, FileOK
  <2>4. FileOK'
    BY <1>1, <2>1, <2>3 DEF PassInv, FileOK, ListsIn
  <2>. QED  BY <1>1, <1>3, <2>1, <2>4 DEF PassInv, ListsOK, Trimmed, NothingMet, LabelLoop, RenameLoop
<1>. QED  BY <1>2, <1>3 DEF Load, Reject, Turn

LEMMA ParseKeeps == PassInv /\ Parse => PassInv'
<1>. SUFFICES ASSUME PassInv, Parse PROVE PassInv'
  OBVIOUS
<1>1. /\ UNCHANGED <<held, disk, file, names, colors, froms, tos>>
      /\ stage = "read" /\ stage' = "parsed" /\ at' = 0
  BY DEF Parse, Turn, content, met
<1>2. /\ labels' \in Seq(RawLabel)
      /\ \A i \in DOMAIN labels' : Trim[labels'[i].name] = labels'[i].name
  <2>1. labels' = [i \in DOMAIN file.labels |-> Normalized(file.labels[i])]
    BY DEF Parse
  <2>2. ASSUME NEW i \in DOMAIN file.labels
        PROVE  /\ Normalized(file.labels[i]) \in RawLabel
               /\ Trim[Normalized(file.labels[i]).name] = Normalized(file.labels[i]).name
    <3>1. file.labels[i] \in RawLabel
      BY ListElement DEF PassInv, FileOK, ListsIn
    <3>. QED  BY <3>1, NormalizedLabel DEF PassInv
  <2>3. DOMAIN file.labels = 1..Len(file.labels) /\ Len(file.labels) \in Nat
    BY LengthOfList DEF PassInv, FileOK, ListsIn
  <2>4. labels' \in [1..Len(file.labels) -> RawLabel]
    BY <2>1, <2>2, <2>3
  <2>. QED  BY <2>1, <2>2, <2>3, <2>4
<1>3. renames' \in Seq(RawRename)
  <2>1. renames' = [i \in DOMAIN file.renames |->
                      [from |-> Trim[file.renames[i].from], to |-> Trim[file.renames[i].to]]]
    BY DEF Parse
  <2>2. ASSUME NEW i \in DOMAIN file.renames
        PROVE  [from |-> Trim[file.renames[i].from], to |-> Trim[file.renames[i].to]] \in RawRename
    <3>1. file.renames[i] \in RawRename
      BY ListElement DEF PassInv, FileOK, ListsIn
    <3>. QED  BY <3>1, LoadingAssumption DEF RawRename
  <2>3. DOMAIN file.renames = 1..Len(file.renames) /\ Len(file.renames) \in Nat
    BY LengthOfList DEF PassInv, FileOK, ListsIn
  <2>4. renames' \in [1..Len(file.renames) -> RawRename]
    BY <2>1, <2>2, <2>3
  <2>. QED  BY <2>3, <2>4
<1>. QED  BY <1>1, <1>2, <1>3 DEF PassInv, ListsOK, FileOK, ListsIn, Trimmed, NothingMet, LabelLoop, RenameLoop

LEMMA RejectionKeeps ==
  ASSUME NEW rule, PassInv, Reject(rule), UNCHANGED <<content, parsed>>
  PROVE  PassInv'
BY RejectKeepsPassInv DEF Reject, content, parsed

LEMMA HeaderKeeps == PassInv /\ CheckHeader => PassInv'
<1>. SUFFICES ASSUME PassInv, CheckHeader PROVE PassInv'
  OBVIOUS
<1>1. CASE Reject("unsupported_version") \/ Reject("empty_config")
  BY <1>1, RejectionKeeps DEF CheckHeader
<1>2. CASE Turn("groups", 0)
  BY <1>2 DEF CheckHeader, Turn, PassInv, ListsOK, FileOK, ListsIn, Trimmed, NothingMet,
      LabelLoop, RenameLoop, content, parsed, met
<1>. QED  BY <1>1, <1>2 DEF CheckHeader

LEMMA GroupsKeep == PassInv /\ (CheckGroups \/ EndGroups) => PassInv'
<1>. SUFFICES ASSUME PassInv, CheckGroups \/ EndGroups PROVE PassInv'
  OBVIOUS
<1>1. CASE CheckGroups
  BY <1>1 DEF CheckGroups, PassInv, ListsOK, FileOK, ListsIn, Trimmed, NothingMet,
      LabelLoop, RenameLoop, content, parsed, met
<1>2. CASE EndGroups /\ stage' = "rejected"
  BY <1>2, RejectionKeeps DEF EndGroups, Turn, Reject
<1>3. CASE EndGroups /\ stage' = "labels"
  <2>1. /\ UNCHANGED <<held, disk, file, labels, renames, names, colors, froms, tos>>
        /\ stage = "groups" /\ at' = 1
    BY <1>3 DEF EndGroups, Turn, Reject, content, parsed, met
  <2>2. LabelsPassed(0)'
    BY <2>1 DEF PassInv, NothingMet, LabelsPassed
  <2>3. Len(labels) \in Nat
    BY LengthOfList DEF PassInv, ListsOK
  <2>. QED  BY <1>3, <2>1, <2>2, <2>3 DEF PassInv, ListsOK, FileOK, ListsIn, Trimmed, NothingMet,
                 LabelLoop, RenameLoop
<1>. QED  BY <1>1, <1>2, <1>3 DEF EndGroups, Turn, Reject

LEMMA LabelKeeps == PassInv /\ CheckLabel => PassInv'
<1>. SUFFICES ASSUME PassInv, CheckLabel PROVE PassInv'
  OBVIOUS
<1>1. CASE RejectFirst(LabelRules, BrokenByLabel(labels[at]))
  BY <1>1, RejectionKeeps DEF CheckLabel, RejectFirst
<1>2. CASE BrokenByLabel(labels[at]) = {} /\ Turn("labels", at + 1)
           /\ names' = names \cup {Lower[labels[at].name]}
           /\ colors' = colors \cup {labels[at].color}
  <2>1. /\ UNCHANGED <<held, disk, file, labels, renames, froms, tos, config>>
        /\ stage = "labels" /\ stage' = "labels" /\ at' = at + 1 /\ at \in DOMAIN labels
    BY <1>2 DEF CheckLabel, Turn, content, parsed, resolveVars
  <2>2. at \in 1..Len(labels) /\ Len(labels) \in Nat
    BY <2>1, LengthOfList DEF PassInv, ListsOK
  <2>3. LabelsPassed(at - 1)
    BY <2>1 DEF PassInv, LabelLoop
  <2>4. ASSUME NEW n \in DOMAIN labels, n = at
        PROVE  LabelsPassed(n)'
    BY <1>2, <2>1, <2>3, <2>4, PassLabel DEF PassInv, ListsOK
  <2>5. LabelsPassed(at - 1)'
    <3>1. at' - 1 = at
      BY <2>1, <2>2
    <3>. QED  BY <2>1, <2>4, <3>1
  <2>. QED  BY <2>1, <2>2, <2>5 DEF PassInv, ListsOK, FileOK, ListsIn, Trimmed, NothingMet,
                 LabelLoop, RenameLoop
<1>. QED  BY <1>1, <1>2 DEF CheckLabel

LEMMA EndLabelsKeeps == PassInv /\ EndLabels => PassInv'
<1>. SUFFICES ASSUME PassInv, EndLabels PROVE PassInv'
  OBVIOUS
<1>1. /\ UNCHANGED <<held, disk, file, labels, renames, names, colors, froms, tos, config>>
      /\ stage = "labels" /\ stage' = "defaults" /\ at' = 0 /\ at \notin DOMAIN labels
  BY DEF EndLabels, Turn, content, parsed, met, resolveVars
<1>2. Len(labels) \in Nat /\ DOMAIN labels = 1..Len(labels)
  BY LengthOfList DEF PassInv, ListsOK
<1>3. LabelsPassed(Len(labels))
  <2>1. at - 1 = Len(labels)
    BY <1>1, <1>2 DEF PassInv, ListsOK, LabelLoop
  <2>. QED  BY <1>1, <2>1 DEF PassInv, LabelLoop
<1>4. LabelsPassed(Len(labels))'
  BY <1>1, <1>3 DEF LabelsPassed, Defined
<1>. QED  BY <1>1, <1>4 DEF PassInv, ListsOK, FileOK, ListsIn, Trimmed, NothingMet, LabelLoop, RenameLoop

\* Past the loop over the labels, what they have passed stays.
LEMMA PastLabels ==
  ASSUME PassInv, stage \in {"defaults", "renames", "chains"},
         UNCHANGED <<labels, names, colors, config>>
  PROVE  LabelsPassed(Len(labels))'
<1>1. LabelsPassed(Len(labels))
  BY DEF PassInv, LabelLoop
<1>. QED  BY <1>1 DEF LabelsPassed, Defined

LEMMA DefaultsKeep == PassInv /\ CheckDefaults => PassInv'
<1>. SUFFICES ASSUME PassInv, CheckDefaults PROVE PassInv'
  OBVIOUS
<1>1. CASE Reject("unknown_default")
  BY <1>1, RejectionKeeps DEF CheckDefaults
<1>2. CASE Turn("renames", 1)
  <2>1. /\ UNCHANGED <<held, disk, file, labels, renames, names, colors, froms, tos, config>>
        /\ stage = "defaults" /\ stage' = "renames" /\ at' = 1
    BY <1>2 DEF CheckDefaults, Turn, content, parsed, met, resolveVars
  <2>2. LabelsPassed(Len(labels))'
    BY <2>1, PastLabels
  <2>3. RenamesPassed(0)'
    BY <2>1 DEF PassInv, NothingMet, RenamesPassed
  <2>4. Len(renames) \in Nat
    BY LengthOfList DEF PassInv, ListsOK
  <2>. QED  BY <2>1, <2>2, <2>3, <2>4 DEF PassInv, ListsOK, FileOK, ListsIn, Trimmed, NothingMet,
                 LabelLoop, RenameLoop
<1>. QED  BY <1>1, <1>2 DEF CheckDefaults

LEMMA RenameKeeps == PassInv /\ CheckRename => PassInv'
<1>. SUFFICES ASSUME PassInv, CheckRename PROVE PassInv'
  OBVIOUS
<1>1. CASE RejectFirst(RenameRules, BrokenByRename(renames[at]))
  BY <1>1, RejectionKeeps DEF CheckRename, RejectFirst
<1>2. CASE BrokenByRename(renames[at]) = {} /\ Turn("renames", at + 1)
           /\ froms' = froms \cup {Lower[renames[at].from]}
           /\ tos' = tos \cup {Lower[renames[at].to]}
  <2>1. /\ UNCHANGED <<held, disk, file, labels, renames, names, colors, config>>
        /\ stage = "renames" /\ stage' = "renames" /\ at' = at + 1 /\ at \in DOMAIN renames
    BY <1>2 DEF CheckRename, Turn, content, parsed, resolveVars
  <2>2. at \in 1..Len(renames) /\ Len(renames) \in Nat
    BY <2>1, LengthOfList DEF PassInv, ListsOK
  <2>3. RenamesPassed(at - 1)
    BY <2>1 DEF PassInv, RenameLoop
  <2>4. ASSUME NEW n \in DOMAIN renames, n = at
        PROVE  RenamesPassed(n)'
    BY <1>2, <2>1, <2>3, <2>4, PassRename DEF PassInv, ListsOK
  <2>5. RenamesPassed(at - 1)'
    <3>1. at' - 1 = at
      BY <2>1, <2>2
    <3>. QED  BY <2>1, <2>4, <3>1
  <2>6. LabelsPassed(Len(labels))'
    BY <2>1, PastLabels
  <2>. QED  BY <2>1, <2>2, <2>5, <2>6 DEF PassInv, ListsOK, FileOK, ListsIn, Trimmed, NothingMet,
                 LabelLoop, RenameLoop
<1>. QED  BY <1>1, <1>2 DEF CheckRename

LEMMA EndRenamesKeeps == PassInv /\ EndRenames => PassInv'
<1>. SUFFICES ASSUME PassInv, EndRenames PROVE PassInv'
  OBVIOUS
<1>1. /\ UNCHANGED <<held, disk, file, labels, renames, names, colors, froms, tos, config>>
      /\ stage = "renames" /\ stage' = "chains" /\ at' = 0 /\ at \notin DOMAIN renames
  BY DEF EndRenames, Turn, content, parsed, met, resolveVars
<1>2. Len(renames) \in Nat /\ DOMAIN renames = 1..Len(renames)
  BY LengthOfList DEF PassInv, ListsOK
<1>3. RenamesPassed(Len(renames))
  <2>1. at - 1 = Len(renames)
    BY <1>1, <1>2 DEF PassInv, ListsOK, RenameLoop
  <2>. QED  BY <1>1, <2>1 DEF PassInv, RenameLoop
<1>4. RenamesPassed(Len(renames))'
  BY <1>1, <1>3 DEF RenamesPassed, ConfiguredKeys
<1>5. LabelsPassed(Len(labels))'
  BY <1>1, PastLabels
<1>. QED  BY <1>1, <1>4, <1>5 DEF PassInv, ListsOK, FileOK, ListsIn, Trimmed, NothingMet,
               LabelLoop, RenameLoop

LEMMA ChainsKeep == PassInv /\ CheckChains => PassInv'
<1>. SUFFICES ASSUME PassInv, CheckChains PROVE PassInv'
  OBVIOUS
<1>1. CASE Reject("chained")
  BY <1>1, RejectionKeeps DEF CheckChains
<1>2. CASE Turn("accepted", 0)
  <2>1. /\ UNCHANGED <<held, disk, file, labels, renames, names, colors, froms, tos, config>>
        /\ stage = "chains" /\ stage' = "accepted" /\ at' = 0
    BY <1>2 DEF CheckChains, Turn, content, parsed, met, resolveVars
  <2>2. LabelsPassed(Len(labels))'
    BY <2>1, PastLabels
  <2>3. RenamesPassed(Len(renames))'
    BY <2>1 DEF PassInv, RenameLoop, RenamesPassed, ConfiguredKeys
  <2>. QED  BY <2>1, <2>2, <2>3 DEF PassInv, ListsOK, FileOK, ListsIn, Trimmed, NothingMet,
                 LabelLoop, RenameLoop
<1>. QED  BY <1>1, <1>2 DEF CheckChains

LEMMA StutterKeeps == PassInv /\ UNCHANGED vars => PassInv'
<1>. SUFFICES ASSUME PassInv, UNCHANGED vars PROVE PassInv'
  OBVIOUS
<1>1. UNCHANGED <<held, disk, file, stage, labels, renames, at, names, colors, froms, tos, config>>
  BY DEF vars, content, parsed, met, resolveVars
<1>2. /\ LabelsPassed(at - 1) => LabelsPassed(at - 1)'
      /\ LabelsPassed(Len(labels)) => LabelsPassed(Len(labels))'
  BY <1>1 DEF LabelsPassed, Defined
<1>3. /\ RenamesPassed(at - 1) => RenamesPassed(at - 1)'
      /\ RenamesPassed(Len(renames)) => RenamesPassed(Len(renames))'
  BY <1>1 DEF RenamesPassed, ConfiguredKeys
<1>. QED  BY <1>1, <1>2, <1>3 DEF PassInv, ListsOK, FileOK, ListsIn, Trimmed, NothingMet,
               LabelLoop, RenameLoop

\* The loops of Validate have checked what is behind them, for any file.
THEOREM LoopsCheck == Spec => []PassInv
<1>1. PassInv /\ [Next]_vars => PassInv'
  <2>. SUFFICES ASSUME PassInv, [Next]_vars PROVE PassInv'
    OBVIOUS
  <2>1. CASE LoadStep
    BY <2>1, LoadKeeps, ParseKeeps, HeaderKeeps, GroupsKeep, LabelKeeps, EndLabelsKeeps,
       DefaultsKeep, RenameKeeps, EndRenamesKeeps, ChainsKeep DEF LoadStep
  <2>2. ASSUME NEW force \in BOOLEAN, RunInit(force) PROVE PassInv'
    BY <2>2, RunInitKeeps
  <2>3. ASSUME NEW out \in Answers \ {<<>>}, RunExport(out) PROVE PassInv'
    BY <2>3, RunExportKeeps
  <2>. QED  BY <2>1, <2>2, <2>3, StutterKeeps DEF Next
<1>. QED  BY InitPassInv, <1>1, PTL DEF Spec

LEMMA PassedIsWellFormed == PassInv => AcceptedIsWellFormed
<1>. SUFFICES ASSUME PassInv, stage = "accepted" PROVE AcceptedIsWellFormed
  BY DEF AcceptedIsWellFormed
<1>1. /\ Len(labels) \in Nat /\ DOMAIN labels = 1..Len(labels)
      /\ Len(renames) \in Nat /\ DOMAIN renames = 1..Len(renames)
  BY LengthOfList DEF PassInv, ListsOK
<1>2. LabelsPassed(Len(labels)) /\ RenamesPassed(Len(renames))
  BY DEF PassInv, LabelLoop, RenameLoop
<1>3. ASSUME NEW i \in DOMAIN labels, NEW j \in DOMAIN labels, j # i
      PROVE  Lower[labels[j].name] # Lower[labels[i].name] /\ labels[j].color # labels[i].color
  <2>1. i \in 1..Len(labels) /\ j \in 1..Len(labels) /\ (i < j \/ j < i)
    BY <1>1, <1>3
  <2>. QED  BY <1>2, <2>1 DEF LabelsPassed
<1>4. ASSUME NEW i \in DOMAIN labels
      PROVE  /\ Trim[labels[i].name] = labels[i].name /\ labels[i].name \notin UnfitNames
             /\ labels[i].color \in Colors /\ ToSet(labels[i].groups) \subseteq Defined
  BY <1>1, <1>2 DEF PassInv, Trimmed, LabelsPassed
<1>5. ASSUME NEW i \in DOMAIN renames
      PROVE  Lower[renames[i].from] \notin ConfiguredKeys /\ Lower[renames[i].to] \in ConfiguredKeys
  BY <1>1, <1>2 DEF RenamesPassed
<1>6. ASSUME NEW i \in DOMAIN renames, NEW j \in DOMAIN renames
      PROVE  /\ Lower[renames[i].from] = Lower[renames[j].from] => i = j
             /\ Lower[renames[i].to] = Lower[renames[j].to] => i = j
             /\ Lower[renames[i].from] # Lower[renames[j].to]
  <2>1. i \in 1..Len(renames) /\ j \in 1..Len(renames) /\ (i < j \/ j < i \/ i = j)
    BY <1>1
  <2>2. i < j => Lower[renames[i].from] # Lower[renames[j].from]
                 /\ Lower[renames[i].to] # Lower[renames[j].to]
    BY <1>2, <2>1 DEF RenamesPassed
  <2>3. j < i => Lower[renames[j].from] # Lower[renames[i].from]
                 /\ Lower[renames[j].to] # Lower[renames[i].to]
    BY <1>2, <2>1 DEF RenamesPassed
  <2>. QED  BY <1>5, <2>1, <2>2, <2>3
<1>7. SimpleRenames(renames, ConfiguredKeys)
  BY <1>5, <1>6 DEF SimpleRenames, PassInv, ListsOK, RawRename
<1>. QED  BY <1>3, <1>4, <1>5, <1>7 DEF AcceptedIsWellFormed

\* Every configuration that Validate accepts, read from a file or from an
\* export, is what the planner assumes.
THEOREM AcceptedConfigurations == Spec => []AcceptedIsWellFormed
BY LoopsCheck, PassedIsWellFormed, PTL
-----------------------------------------------------------------------------
(***************************************************************************)
(* The walk over the groups.  What is done is closed under includes, so a  *)
(* group that is not done yet cannot be reached from it, and the call that *)
(* is done next adds no cycle.  Every call under way has in hand what the  *)
(* includes before the one it is at resolve to, and every call reaches the *)
(* ones it has made.                                                       *)
(***************************************************************************)

LeavesOf(g) == {h \in ReachableFrom(g) : ~Composed(h)}

\* The selectors of the first n includes of g.
Gathered(g, n) == UNION {LeavesOf(config[g].includes[k]) : k \in 1..n}

Begun(f) ==
  IF f.merged = 0 THEN {} ELSE {done[config[f.name].includes[f.next]][i] : i \in 1..f.merged}

CallOK(f) ==
  /\ f.name \in Defined \ DOMAIN done /\ Composed(f.name)
  /\ f.next <= Len(config[f.name].includes) + 1
  /\ \A k \in 1..(f.next - 1) : config[f.name].includes[k] \in DOMAIN done
  /\ f.merged > 0 =>
       /\ f.next <= Len(config[f.name].includes)
       /\ config[f.name].includes[f.next] \in DOMAIN done
       /\ f.merged <= Len(done[config[f.name].includes[f.next]])
  /\ ToSet(f.out) = Gathered(f.name, f.next - 1) \cup Begun(f)
  /\ IsInjective(f.out)

CallsOK ==
  /\ \A i \in DOMAIN stack : CallOK(stack[i])
  /\ \A i, j \in DOMAIN stack : i < j => /\ stack[i].name # stack[j].name
                                         /\ stack[j].name \in ReachableFrom(stack[i].name)

DoneOK(g) ==
  /\ ToSet(config[g].includes) \subseteq DOMAIN done
  /\ ~OnCycle(g)
  /\ ToSet(done[g]) = LeavesOf(g)
  /\ IsInjective(done[g])

CheckedOK ==
  /\ \A g \in checked : ~Ambiguous(config[g].sources) /\ ~Unparsable(g)
  /\ leaves = {g \in checked : ~Composed(g)}
  /\ outcome \notin {"checking", "ambiguous", "invalid_ref"} => checked = Defined
  /\ outcome = "checking" => stack = <<>> /\ done = <<>> /\ resolved = {}

FaultOK ==
  outcome \notin {"checking", "flattening", "resolved"} => outcome \in GroupFaults

ResolvedOK ==
  /\ resolved \subseteq DOMAIN done
  /\ outcome = "resolved" => resolved = Defined

WalkInv ==
  /\ ResolveTypeOK /\ CheckedOK /\ FaultOK /\ ResolvedOK /\ CallsOK
  /\ \A g \in DOMAIN done : DoneOK(g)
\* Every group reaches itself and what it includes, and no more than any closed
\* set it is in.
LEMMA Reaches ==
  ASSUME NEW g \in Defined
  PROVE  /\ g \in ReachableFrom(g) /\ ReachableFrom(g) \subseteq Defined
         /\ Closed(ReachableFrom(g))
         /\ \A S \in SUBSET Defined : g \in S /\ Closed(S) => ReachableFrom(g) \subseteq S
<1>1. ASSUME NEW k \in ReachableFrom(g), NEW h \in IncludesOf(k) PROVE h \in ReachableFrom(g)
  <2>1. h \in Defined
    BY DEF IncludesOf
  <2>2. ASSUME NEW S \in SUBSET Defined, g \in S, Closed(S) PROVE h \in S
    BY <2>2 DEF ReachableFrom, Closed
  <2> QED
    BY <2>1, <2>2 DEF ReachableFrom
<1>2. Closed(ReachableFrom(g))
  BY <1>1 DEF Closed
<1> QED
  BY <1>2 DEF ReachableFrom

LEMMA ReachesByIncludes ==
  ASSUME NEW g \in Defined
  PROVE  ReachableFrom(g) = {g} \cup UNION {ReachableFrom(h) : h \in IncludesOf(g)}
<1> DEFINE R == {g} \cup UNION {ReachableFrom(h) : h \in IncludesOf(g)}
<1>1. IncludesOf(g) \subseteq Defined /\ IncludesOf(g) \subseteq ReachableFrom(g)
  BY Reaches DEF IncludesOf, Closed
<1>2. ASSUME NEW k \in R PROVE k \in Defined /\ IncludesOf(k) \subseteq R
  <2>1. CASE k = g
    BY <1>1, <2>1, Reaches
  <2>2. CASE k # g
    <3>1. PICK h \in IncludesOf(g) : k \in ReachableFrom(h)
      BY <1>2, <2>2
    <3>2. k \in Defined /\ IncludesOf(k) \subseteq ReachableFrom(h)
      BY <1>1, <3>1, Reaches DEF Closed
    <3> QED
      BY <3>2
  <2> QED
    BY <2>1, <2>2
<1>3. ReachableFrom(g) \subseteq R
  <2>1. R \in SUBSET Defined /\ g \in R /\ Closed(R)
    BY <1>2 DEF Closed
  <2> HIDE DEF R
  <2> QED
    BY <2>1, Reaches
<1>4. ASSUME NEW h \in IncludesOf(g) PROVE ReachableFrom(h) \subseteq ReachableFrom(g)
  BY <1>1, Reaches
<1> QED
  BY <1>3, <1>4, Reaches

\* What a group resolves to, one include deep.
LEMMA LeavesOfLeaf ==
  ASSUME NEW g \in Defined, ~Composed(g)
  PROVE  LeavesOf(g) = {g} /\ ~OnCycle(g)
<1>1. IncludesOf(g) = {}
  BY DEF IncludesOf
<1> QED
  BY <1>1, ReachesByIncludes DEF LeavesOf, OnCycle

LEMMA LeavesOfComposed ==
  ASSUME NEW g \in Defined, Composed(g), config[g].includes \in Seq(GroupNames),
         ToSet(config[g].includes) \subseteq Defined
  PROVE  LeavesOf(g) = Gathered(g, Len(config[g].includes))
<1>1. IncludesOf(g) = ToSet(config[g].includes)
  BY DEF IncludesOf
<1>2. ToSet(config[g].includes) = {config[g].includes[k] : k \in 1..Len(config[g].includes)}
  BY LengthOfList DEF ToSet
<1>3. LeavesOf(g) = UNION {LeavesOf(h) : h \in IncludesOf(g)}
  BY ReachesByIncludes DEF LeavesOf
<1> QED
  BY <1>1, <1>2, <1>3 DEF Gathered

LEMMA GatheredNext ==
  ASSUME NEW g, NEW n \in Nat \ {0}
  PROVE  Gathered(g, n) = Gathered(g, n - 1) \cup LeavesOf(config[g].includes[n])
<1>1. 1..n = 1..(n - 1) \cup {n}
  OBVIOUS
<1> QED
  BY <1>1 DEF Gathered

\* What groups mean does not change while they are walked.
LEMMA MeaningKept ==
  ASSUME UNCHANGED config
  PROVE  /\ Defined' = Defined /\ GroupFaults' = GroupFaults
         /\ \A g : /\ Composed(g)' = Composed(g) /\ OnCycle(g)' = OnCycle(g)
                   /\ ReachableFrom(g)' = ReachableFrom(g) /\ LeavesOf(g)' = LeavesOf(g)
                   /\ Unparsable(g)' = Unparsable(g)
         /\ \A g, n : Gathered(g, n)' = Gathered(g, n)
<1>1. /\ Defined' = Defined
      /\ \A g : Composed(g)' = Composed(g) /\ IncludesOf(g)' = IncludesOf(g) /\ Unparsable(g)' = Unparsable(g)
  BY DEF Defined, Composed, IncludesOf, Unparsable
<1>2. \A g : ReachableFrom(g)' = ReachableFrom(g)
  BY <1>1 DEF ReachableFrom, Closed
<1>3. \A g : OnCycle(g)' = OnCycle(g) /\ LeavesOf(g)' = LeavesOf(g)
  BY <1>1, <1>2 DEF OnCycle, LeavesOf
<1>4. \A g, n : Gathered(g, n)' = Gathered(g, n)
  BY <1>3 DEF Gathered
<1>5. GroupFaults' = GroupFaults
  BY <1>1, <1>3 DEF GroupFaults
<1> QED
  BY <1>1, <1>2, <1>3, <1>4, <1>5

\* The walk is in the middle of the groups.
Walking == outcome = "flattening" /\ checked = Defined

LEMMA GroupParts ==
  ASSUME ResolveTypeOK, NEW g \in Defined
  PROVE  /\ g \in GroupNames /\ config[g].includes \in Seq(GroupNames)
         /\ config[g].sources \in SUBSET {"org", "user", "repos", "include_groups"}
         /\ "include_groups" \in config[g].sources <=> config[g].includes # <<>>
BY DEF ResolveTypeOK, IsGroupsSection, Defined, Group

\* A group with one source that is not composed includes nothing.
LEMMA LeafIncludesNothing ==
  ASSUME ResolveTypeOK, NEW g \in Defined, ~Composed(g), ~Ambiguous(config[g].sources)
  PROVE  config[g].includes = <<>>
<1>1. ASSUME "include_groups" \in config[g].sources PROVE FALSE
  <2>1. Cardinality(config[g].sources) = 1
    BY DEF Ambiguous
  <2>2. IsFiniteSet(config[g].sources)
    <3>1. IsFiniteSet({"org", "user", "repos", "include_groups"})
      <4>1. IsFiniteSet({"org"}) /\ IsFiniteSet({"user"}) /\ IsFiniteSet({"repos"})
            /\ IsFiniteSet({"include_groups"})
        BY FS_Singleton
      <4>2. IsFiniteSet({"org"} \cup {"user"}) /\ IsFiniteSet({"repos"} \cup {"include_groups"})
        BY <4>1, FS_Union
      <4>3. IsFiniteSet(({"org"} \cup {"user"}) \cup ({"repos"} \cup {"include_groups"}))
        BY <4>2, FS_Union
      <4>4. {"org", "user", "repos", "include_groups"}
              = ({"org"} \cup {"user"}) \cup ({"repos"} \cup {"include_groups"})
        OBVIOUS
      <4> QED
        BY <4>3, <4>4
    <3> QED
      BY <3>1, GroupParts, FS_Subset
  <2>3. PICK x : config[g].sources = {x}
    BY <2>1, <2>2, FS_Singleton
  <2> QED
    BY <1>1, <2>3 DEF Composed
<1> QED
  BY <1>1, GroupParts
\* The parts of a call that is under way.
LEMMA CallParts ==
  ASSUME ResolveTypeOK, NEW i \in DOMAIN stack
  PROVE  stack[i] \in Frame /\ i \in 1..Len(stack) /\ Len(stack) \in Nat
BY ListElement, LengthOfList DEF ResolveTypeOK

\* A group that is not done is reached by none that is.
LEMMA DoneIsClosed ==
  ASSUME \A h \in DOMAIN done : DoneOK(h), DOMAIN done \subseteq Defined,
         NEW g \in Defined, g \notin DOMAIN done, ToSet(config[g].includes) \subseteq DOMAIN done
  PROVE  ~OnCycle(g)
<1>1. Closed(DOMAIN done)
  BY DEF Closed, DoneOK, IncludesOf
<1>2. ASSUME NEW h \in IncludesOf(g) PROVE g \notin ReachableFrom(h)
  <2>1. h \in DOMAIN done
    BY DEF IncludesOf
  <2>2. ReachableFrom(h) \subseteq DOMAIN done
    BY <1>1, <2>1, Reaches
  <2> QED
    BY <2>2
<1> QED
  BY <1>2 DEF OnCycle

\* What is remembered stays, and the calls under way see what they saw.
LEMMA Remembers ==
  ASSUME ResolveTypeOK, \A h \in DOMAIN done : DoneOK(h), UNCHANGED config,
         NEW g \in Defined, g \notin DOMAIN done, NEW s \in Seq(Defined), Remember(g, s),
         ToSet(config[g].includes) \subseteq DOMAIN done,
         ToSet(s) = LeavesOf(g), IsInjective(s)
  PROVE  /\ DOMAIN done' = DOMAIN done \cup {g}
         /\ done' \in [DOMAIN done' -> Seq(Defined)]
         /\ \A h \in DOMAIN done' : DoneOK(h)'
         /\ \A f \in Frame : f.name # g /\ CallOK(f) => CallOK(f)'
<1>1. /\ DOMAIN done' = DOMAIN done \cup {g} /\ done'[g] = s
      /\ \A h \in DOMAIN done : done'[h] = done[h]
  BY DEF Remember
<1>2. done' \in [DOMAIN done' -> Seq(Defined)]
  <2>1. \A h \in DOMAIN done : done[h] \in Seq(Defined)
    BY DEF ResolveTypeOK
  <2> QED
    BY <1>1, <2>1 DEF Remember
<1>3. ~OnCycle(g)
  BY DoneIsClosed DEF ResolveTypeOK
<1>4. \A h \in DOMAIN done' : DoneOK(h)'
  <2> SUFFICES ASSUME NEW h \in DOMAIN done' PROVE DoneOK(h)'
    OBVIOUS
  <2>1. OnCycle(h)' = OnCycle(h) /\ LeavesOf(h)' = LeavesOf(h)
    BY MeaningKept
  <2>2. CASE h = g
    BY <1>1, <1>3, <2>1, <2>2 DEF DoneOK
  <2>3. CASE h # g
    BY <1>1, <2>1, <2>3 DEF DoneOK
  <2> QED
    BY <2>2, <2>3
<1>5. ASSUME NEW f \in Frame, f.name # g, CallOK(f) PROVE CallOK(f)'
  <2>1. f.merged \in Nat /\ f.next \in Nat \ {0}
    BY DEF Frame
  <2>2. Begun(f)' = Begun(f)
    <3>1. CASE f.merged = 0
      BY <3>1 DEF Begun
    <3>2. CASE f.merged > 0
      <4>1. config[f.name].includes[f.next] \in DOMAIN done
        BY <1>5, <3>2 DEF CallOK
      <4>2. done'[config[f.name].includes[f.next]] = done[config[f.name].includes[f.next]]
        BY <1>1, <4>1
      <4> QED
        BY <4>2 DEF Begun
    <3> QED
      BY <2>1, <3>1, <3>2
  <2>3. /\ Defined' = Defined /\ Composed(f.name)' = Composed(f.name)
        /\ Gathered(f.name, f.next - 1)' = Gathered(f.name, f.next - 1)
    BY MeaningKept
  <2>4. f.name \in Defined' \ DOMAIN done' /\ Composed(f.name)'
    BY <1>1, <1>5, <2>3 DEF CallOK
  <2>5. f.merged > 0 =>
          /\ f.next <= Len(config[f.name].includes)
          /\ config[f.name].includes[f.next] \in DOMAIN done'
          /\ f.merged <= Len(done'[config[f.name].includes[f.next]])
    BY <1>1, <1>5 DEF CallOK
  <2> QED
    BY <1>1, <1>5, <2>2, <2>3, <2>4, <2>5 DEF CallOK
<1> QED
  BY <1>1, <1>2, <1>4, <1>5

\* The calls under way, when nothing is remembered.
LEMMA CallKept ==
  ASSUME UNCHANGED <<config, done>>, NEW f, CallOK(f)
  PROVE  CallOK(f)'
<1>1. /\ Defined' = Defined /\ Composed(f.name)' = Composed(f.name)
      /\ Gathered(f.name, f.next - 1)' = Gathered(f.name, f.next - 1)
  BY MeaningKept
<1>2. Begun(f)' = Begun(f)
  BY DEF Begun
<1> QED
  BY <1>1, <1>2 DEF CallOK

LEMMA DoneKept ==
  ASSUME UNCHANGED <<config, done>>, \A g \in DOMAIN done : DoneOK(g)
  PROVE  \A g \in DOMAIN done' : DoneOK(g)'
BY MeaningKept DEF DoneOK

\* The types that depend on the configuration.
LEMMA ConfigTypesKept ==
  ASSUME ResolveTypeOK, UNCHANGED config
  PROVE  IsGroupsSection(config)' /\ Frame' = Frame /\ Defined' = Defined
BY MeaningKept DEF ResolveTypeOK, IsGroupsSection, Frame, Group

LEMMA NewCalls ==
  ASSUME UNCHANGED <<config, done>>, \A i \in DOMAIN stack' : CallOK(stack'[i])
  PROVE  (\A i \in DOMAIN stack : CallOK(stack[i]))'
<1>1. \A f : CallOK(f) => CallOK(f)'
  BY CallKept
<1> SUFFICES ASSUME NEW i \in DOMAIN stack' PROVE CallOK(stack[i])'
  OBVIOUS
<1>2. PICK f : f = stack'[i]
  OBVIOUS
<1>3. CallOK(f)'
  BY <1>1, <1>2
<1> QED
  BY <1>2, <1>3, SMTT(60) DEF CallOK, Begun

LEMMA CheckSourceWalks ==
  ASSUME WalkInv, NEW g \in Defined, CheckSource(g)
  PROVE  WalkInv'
<1>1. /\ UNCHANGED <<config, resolved, stack, done>> /\ outcome = "checking"
      /\ outcome' \in {"checking", "ambiguous", "invalid_ref"}
      /\ checked' \subseteq checked \cup {g} /\ leaves' \subseteq leaves \cup {g}
  BY DEF CheckSource
<1>2. stack = <<>> /\ done = <<>> /\ resolved = {} /\ DOMAIN done = {}
  BY <1>1 DEF WalkInv, CheckedOK
<1>3. ResolveTypeOK'
  BY <1>1, ConfigTypesKept DEF WalkInv, ResolveTypeOK
<1>4. CheckedOK'
  <2>1. \A h : Composed(h)' = Composed(h) /\ Unparsable(h)' = Unparsable(h)
    BY <1>1, MeaningKept
  <2>2. CASE UNCHANGED <<checked, leaves>>
    BY <1>1, <1>2, <2>1, <2>2 DEF WalkInv, CheckedOK, Ambiguous
  <2>3. CASE /\ ~Ambiguous(config[g].sources) /\ ~Unparsable(g)
             /\ leaves' = IF Composed(g) THEN leaves ELSE leaves \cup {g}
             /\ checked' = checked \cup {g} /\ UNCHANGED outcome
    BY <1>1, <1>2, <2>1, <2>3 DEF WalkInv, CheckedOK, Ambiguous
  <2> QED
    BY <2>2, <2>3 DEF CheckSource
<1>5. FaultOK'
  <2>1. GroupFaults' = GroupFaults
    BY <1>1, MeaningKept
  <2>2. CASE outcome' = "checking"
    BY <2>2 DEF FaultOK
  <2>3. CASE outcome' = "ambiguous" /\ Ambiguous(config[g].sources)
    BY <2>1, <2>3 DEF FaultOK, GroupFaults, Ambiguous
  <2>4. CASE outcome' = "invalid_ref" /\ Unparsable(g)
    BY <2>1, <2>4 DEF FaultOK, GroupFaults, Unparsable
  <2> QED
    BY <1>1, <2>2, <2>3, <2>4 DEF CheckSource
<1> QED
  BY <1>1, <1>2, <1>3, <1>4, <1>5 DEF WalkInv, ResolvedOK, CallsOK

LEMMA StartFlatteningWalks == ASSUME WalkInv, StartFlattening PROVE WalkInv'
<1>1. /\ UNCHANGED <<config, checked, leaves, resolved, stack, done>> /\ outcome = "checking"
      /\ outcome' = "flattening" /\ checked = Defined
  BY DEF StartFlattening
<1>2. stack = <<>> /\ done = <<>> /\ resolved = {} /\ DOMAIN done = {}
  BY <1>1 DEF WalkInv, CheckedOK
<1>3. ResolveTypeOK'
  BY <1>1, ConfigTypesKept DEF WalkInv, ResolveTypeOK
<1>4. CheckedOK'
  BY <1>1, MeaningKept DEF WalkInv, CheckedOK, Ambiguous
<1> QED
  BY <1>1, <1>2, <1>3, <1>4 DEF WalkInv, ResolvedOK, CallsOK, FaultOK

\* While the groups are flattened, what was checked stays.
LEMMA CheckedKept ==
  ASSUME WalkInv, Walking, UNCHANGED <<config, checked, leaves>>, outcome' # "checking"
  PROVE  CheckedOK'
BY MeaningKept DEF WalkInv, CheckedOK, Walking, Ambiguous

LEMMA AtIncludeParts ==
  ASSUME WalkInv, AtInclude
  PROVE  /\ Len(stack) \in DOMAIN stack /\ Top \in Frame /\ CallOK(Top)
         /\ Top.name \in Defined /\ Top.next \in DOMAIN Includes
         /\ Include \in ToSet(Includes) /\ Walking /\ Len(stack) \in Nat \ {0}
<1>1. stack \in Seq(Frame) /\ stack # <<>>
  BY DEF WalkInv, ResolveTypeOK, AtInclude
<1>2. Len(stack) \in Nat \ {0} /\ Len(stack) \in DOMAIN stack
  BY <1>1
<1>3. Top \in Frame /\ CallOK(Top)
  BY <1>1, <1>2 DEF Top, WalkInv, CallsOK
<1>4. Top.name \in Defined /\ Top.next \in Nat \ {0}
  BY <1>3 DEF Frame
<1>5. Includes \in Seq(GroupNames)
  BY <1>4, GroupParts DEF Includes, WalkInv
<1>6. Top.next \in DOMAIN Includes
  BY <1>4, <1>5 DEF AtInclude
<1>7. Walking
  BY DEF Walking, WalkInv, CheckedOK, AtInclude
<1> QED
  BY <1>2, <1>3, <1>4, <1>6, <1>7 DEF Include, ToSet

LEMMA IncludeUnknownWalks == ASSUME WalkInv, IncludeUnknown PROVE WalkInv'
<1>1. /\ UNCHANGED <<config, checked, leaves, resolved, stack, done>> /\ AtInclude
      /\ outcome' = "unknown" /\ Include \notin Defined
  BY DEF IncludeUnknown
<1>2. ResolveTypeOK'
  BY <1>1, ConfigTypesKept DEF WalkInv, ResolveTypeOK
<1>3. "unknown" \in GroupFaults
  <2>1. ~(ToSet(config[Top.name].includes) \subseteq Defined) /\ Top.name \in Defined
    BY <1>1, AtIncludeParts DEF Includes
  <2> QED
    BY <2>1 DEF GroupFaults
<1>4. FaultOK'
  BY <1>1, <1>3, MeaningKept DEF FaultOK
<1>5. CheckedOK'
  BY <1>1, AtIncludeParts, CheckedKept
<1>6. CallsOK'
  BY <1>1, CallKept, MeaningKept DEF CallsOK, WalkInv
<1>7. ResolvedOK' /\ \A g \in DOMAIN done' : DoneOK(g)'
  BY <1>1, DoneKept DEF WalkInv, ResolvedOK
<1> QED
  BY <1>2, <1>4, <1>5, <1>6, <1>7 DEF WalkInv

\* A group is met in the middle of being resolved.
LEMMA CycleFound ==
  ASSUME WalkInv, AtInclude, Include \in Defined, Open(Include)
  PROVE  "cyclic" \in GroupFaults
<1>1. PICK i \in DOMAIN stack : stack[i].name = Include
  BY DEF Open
<1>2. /\ Len(stack) \in DOMAIN stack /\ Top.name \in Defined /\ Composed(Top.name)
      /\ Include \in ToSet(Includes)
  BY AtIncludeParts DEF CallOK
<1>3. Include \in IncludesOf(Top.name)
  BY <1>2 DEF IncludesOf, Includes
<1>4. Top.name \in ReachableFrom(Include)
  <2>1. i \in 1..Len(stack) /\ Len(stack) \in Nat
    BY CallParts DEF WalkInv
  <2>2. CASE i < Len(stack)
    BY <1>1, <1>2, <2>2 DEF WalkInv, CallsOK, Top
  <2>3. CASE i = Len(stack)
    BY <1>1, <1>2, <2>3, Reaches DEF Top
  <2> QED
    BY <2>1, <2>2, <2>3
<1>5. OnCycle(Top.name)
  BY <1>3, <1>4 DEF OnCycle
<1> QED
  BY <1>2, <1>5 DEF GroupFaults
\* flatten, for a leaf.
LEMMA LeafWalks ==
  ASSUME WalkInv, Walking, NEW g \in Defined, g \notin DOMAIN done, ~Open(g), g \in leaves,
         Remember(g, <<g>>), UNCHANGED <<config, checked, leaves, resolved, stack, outcome>>
  PROVE  WalkInv'
<1>1. ~Composed(g) /\ ~Ambiguous(config[g].sources)
  BY DEF WalkInv, CheckedOK
<1>2. config[g].includes = <<>>
  BY <1>1, LeafIncludesNothing DEF WalkInv
<1>3. ToSet(config[g].includes) \subseteq DOMAIN done
  BY <1>2 DEF ToSet
<1>4. <<g>> \in Seq(Defined) /\ ToSet(<<g>>) = {g} /\ IsInjective(<<g>>)
  BY DEF ToSet, IsInjective
<1>5. /\ DOMAIN done' = DOMAIN done \cup {g}
      /\ done' \in [DOMAIN done' -> Seq(Defined)]
      /\ \A h \in DOMAIN done' : DoneOK(h)'
      /\ \A f \in Frame : f.name # g /\ CallOK(f) => CallOK(f)'
  BY <1>1, <1>3, <1>4, LeavesOfLeaf, Remembers DEF WalkInv
<1>6. ResolveTypeOK'
  BY <1>5, ConfigTypesKept DEF WalkInv, ResolveTypeOK
<1>7. CheckedOK' /\ FaultOK' /\ ResolvedOK'
  BY <1>5, CheckedKept, MeaningKept DEF Walking, WalkInv, FaultOK, ResolvedOK
<1>8. CallsOK'
  <2>1. \A i \in DOMAIN stack : stack[i] \in Frame /\ stack[i].name # g
    BY CallParts DEF Open, WalkInv
  <2> QED
    BY <1>5, <2>1, MeaningKept DEF WalkInv, CallsOK
<1> QED
  BY <1>5, <1>6, <1>7, <1>8 DEF WalkInv

\* flatten, for a group that includes others: the call is one of Resolve's, or of
\* the call that is under way.
LEMMA CallWalks ==
  ASSUME WalkInv, Walking, NEW g \in Defined, g \notin DOMAIN done, ~Open(g), g \notin leaves,
         stack = <<>> \/ (AtInclude /\ Include = g),
         stack' = Append(stack, Opened(g)),
         UNCHANGED <<config, checked, leaves, resolved, done, outcome>>
  PROVE  WalkInv'
<1>1. Composed(g) /\ config[g].includes \in Seq(GroupNames)
  BY GroupParts DEF WalkInv, CheckedOK, Walking
<1>2. Opened(g) \in Frame /\ CallOK(Opened(g))
  <2>1. Gathered(g, 0) = {} /\ Begun(Opened(g)) = {} /\ ToSet(<<>>) = {} /\ IsInjective(<<>>)
    BY DEF Gathered, Begun, Opened, ToSet, IsInjective
  <2>2. Len(config[g].includes) \in Nat
    BY <1>1
  <2> QED
    BY <1>1, <2>1, <2>2 DEF Opened, Frame, CallOK
<1>3. /\ stack \in Seq(Frame) /\ Len(stack) \in Nat /\ DOMAIN stack = 1..Len(stack)
      /\ DOMAIN stack' = 1..(Len(stack) + 1) /\ stack' \in Seq(Frame)
      /\ stack'[Len(stack) + 1] = Opened(g)
      /\ \A i \in DOMAIN stack : stack'[i] = stack[i]
  BY <1>2, LengthOfList DEF WalkInv, ResolveTypeOK
<1>4. ResolveTypeOK'
  BY <1>3, ConfigTypesKept DEF WalkInv, ResolveTypeOK
<1>5. CheckedOK' /\ FaultOK' /\ ResolvedOK' /\ \A h \in DOMAIN done' : DoneOK(h)'
  BY CheckedKept, MeaningKept, DoneKept DEF Walking, WalkInv, FaultOK, ResolvedOK
<1>6. CallsOK'
  <2>1. (\A i \in DOMAIN stack : CallOK(stack[i]))'
    <3>1. \A i \in DOMAIN stack' : CallOK(stack'[i])
      BY <1>2, <1>3 DEF WalkInv, CallsOK
    <3> QED
      BY <3>1, NewCalls
  <2>2. ASSUME NEW i \in DOMAIN stack', NEW j \in DOMAIN stack', i < j
        PROVE  /\ stack'[i].name # stack'[j].name
               /\ stack'[j].name \in ReachableFrom(stack'[i].name)
    <3>1. i \in DOMAIN stack /\ stack'[i] = stack[i]
      BY <1>3, <2>2
    <3>2. CASE j \in DOMAIN stack
      BY <1>3, <2>2, <3>1, <3>2 DEF WalkInv, CallsOK
    <3>3. CASE j = Len(stack) + 1
      <4>1. stack'[j].name = g /\ stack[i].name # g
        BY <1>3, <3>1, <3>3 DEF Opened, Open
      <4>2. AtInclude /\ Include = g
        BY <1>3, <3>1
      <4>3. /\ Composed(Top.name) /\ g \in ToSet(Includes) /\ Top.name \in Defined
            /\ Len(stack) \in DOMAIN stack
        BY <4>2, AtIncludeParts DEF CallOK
      <4>4. g \in IncludesOf(Top.name)
        BY <4>3 DEF IncludesOf, Includes
      <4>5. stack[i].name \in Defined /\ Top.name \in ReachableFrom(stack[i].name)
        <5>1. stack[i] \in Frame
          BY <3>1, CallParts DEF WalkInv
        <5>2. CASE i = Len(stack)
          BY <4>3, <5>2, Reaches DEF Top
        <5>3. CASE i < Len(stack)
          BY <3>1, <4>3, <5>1, <5>3 DEF WalkInv, CallsOK, Top, Frame
        <5> QED
          BY <1>3, <3>1, <5>2, <5>3
      <4>6. g \in ReachableFrom(stack[i].name)
        BY <4>4, <4>5, Reaches DEF Closed
      <4> QED
        BY <3>1, <4>1, <4>6
    <3> QED
      BY <1>3, <3>2, <3>3
  <2> QED
    BY <2>1, <2>2, MeaningKept DEF CallsOK
<1> QED
  BY <1>4, <1>5, <1>6 DEF WalkInv

LEMMA EnterWalks ==
  ASSUME WalkInv, Walking, NEW g \in Defined, stack = <<>> \/ (AtInclude /\ Include = g), Enter(g)
  PROVE  WalkInv'
<1>1. CASE Open(g) /\ outcome' = "cyclic" /\ UNCHANGED <<stack, done>>
  <2>1. stack # <<>>
    BY <1>1 DEF Open
  <2>2. "cyclic" \in GroupFaults
    BY <1>1, <2>1, CycleFound
  <2>3. UNCHANGED <<config, checked, leaves, resolved, stack, done>>
    BY <1>1 DEF Enter
  <2>4. ResolveTypeOK'
    BY <1>1, <2>3, ConfigTypesKept DEF WalkInv, ResolveTypeOK
  <2>5. CheckedOK' /\ FaultOK' /\ ResolvedOK' /\ \A h \in DOMAIN done' : DoneOK(h)'
    BY <1>1, <2>2, <2>3, CheckedKept, MeaningKept, DoneKept DEF WalkInv, FaultOK, ResolvedOK
  <2>6. CallsOK'
    BY <2>3, CallKept, MeaningKept DEF CallsOK, WalkInv
  <2> QED
    BY <2>4, <2>5, <2>6 DEF WalkInv
<1>2. CASE ~Open(g) /\ g \in leaves /\ Remember(g, <<g>>) /\ UNCHANGED <<stack, outcome>>
  BY <1>2, LeafWalks DEF Enter
<1>3. CASE ~Open(g) /\ g \notin leaves /\ stack' = Append(stack, Opened(g)) /\ UNCHANGED <<done, outcome>>
  BY <1>3, CallWalks DEF Enter
<1> QED
  BY <1>1, <1>2, <1>3 DEF Enter

\* A step of the call that is under way, which leaves its group as it is.
LEMMA TopWalks ==
  ASSUME WalkInv, AtInclude, NEW f \in Frame, f.name = Top.name, CallOK(f),
         stack' = [stack EXCEPT ![Len(stack)] = f],
         UNCHANGED <<config, checked, leaves, resolved, done, outcome>>
  PROVE  WalkInv'
<1>1. /\ Len(stack) \in DOMAIN stack /\ Walking /\ stack \in Seq(Frame) /\ Len(stack) \in Nat
  BY AtIncludeParts DEF WalkInv, ResolveTypeOK
<1>2. /\ stack' \in Seq(Frame) /\ DOMAIN stack' = DOMAIN stack
      /\ stack'[Len(stack)] = f /\ \A i \in DOMAIN stack : i # Len(stack) => stack'[i] = stack[i]
  BY <1>1
<1>3. ResolveTypeOK'
  BY <1>2, ConfigTypesKept DEF WalkInv, ResolveTypeOK
<1>4. CheckedOK' /\ FaultOK' /\ ResolvedOK' /\ \A h \in DOMAIN done' : DoneOK(h)'
  BY <1>1, CheckedKept, MeaningKept, DoneKept DEF Walking, WalkInv, FaultOK, ResolvedOK
<1>5. CallsOK'
  <2>1. \A i \in DOMAIN stack : CallOK(stack'[i]) /\ stack'[i].name = stack[i].name
    BY <1>1, <1>2 DEF WalkInv, CallsOK, Top
  <2>2. (\A i \in DOMAIN stack : CallOK(stack[i]))'
    <3>1. \A i \in DOMAIN stack' : CallOK(stack'[i])
      BY <1>2, <2>1
    <3> QED
      BY <3>1, NewCalls
  <2> QED
    BY <1>2, <2>1, <2>2, MeaningKept DEF WalkInv, CallsOK
<1> QED
  BY <1>3, <1>4, <1>5 DEF WalkInv
LEMMA SelectorAdded ==
  ASSUME NEW S, NEW out \in Seq(S), NEW g \in S, IsInjective(out)
  PROVE  /\ Added(out, g) \in Seq(S) /\ ToSet(Added(out, g)) = ToSet(out) \cup {g}
         /\ IsInjective(Added(out, g))
<1>1. CASE g \in ToSet(out)
  BY <1>1 DEF Added
<1>2. CASE g \notin ToSet(out)
  <2>1. Added(out, g) = Append(out, g)
    BY <1>2 DEF Added
  <2>2. /\ Append(out, g) \in Seq(S) /\ Len(out) \in Nat /\ DOMAIN out = 1..Len(out)
        /\ DOMAIN Append(out, g) = 1..(Len(out) + 1)
        /\ Append(out, g)[Len(out) + 1] = g
        /\ \A i \in 1..Len(out) : Append(out, g)[i] = out[i]
    OBVIOUS
  <2>3. ToSet(Append(out, g)) = ToSet(out) \cup {g}
    BY <2>2 DEF ToSet
  <2>4. \A i \in 1..Len(out) : out[i] # g
    BY <1>2, <2>2 DEF ToSet
  <2>5. IsInjective(Append(out, g))
    BY <2>2, <2>4 DEF IsInjective
  <2> QED
    BY <2>1, <2>2, <2>3, <2>5
<1> QED
  BY <1>1, <1>2

LEMMA IncludeAddWalks == ASSUME WalkInv, IncludeAdd PROVE WalkInv'
<1> DEFINE s == done[Include]
           m == Top.merged
<1>1. /\ AtInclude /\ Include \in DOMAIN done /\ m < Len(s)
      /\ stack' = [stack EXCEPT ![Len(stack)] =
                     [Top EXCEPT !.merged = m + 1, !.out = Added(Top.out, s[m + 1])]]
      /\ UNCHANGED <<config, checked, leaves, resolved, done, outcome>>
  BY DEF IncludeAdd
<1>2. Top \in Frame /\ CallOK(Top) /\ Len(stack) \in DOMAIN stack
  BY <1>1, AtIncludeParts
<1>3. s \in Seq(Defined)
  BY <1>1 DEF WalkInv, ResolveTypeOK
<1>4. /\ m \in Nat /\ Top.next \in Nat \ {0} /\ Top.out \in Seq(Defined) /\ Top.name \in Defined
      /\ m + 1 \in DOMAIN s /\ s[m + 1] \in Defined
  BY <1>1, <1>2, <1>3 DEF Frame
<1>5. PICK out : out = Added(Top.out, s[m + 1])
  OBVIOUS
<1>6. out \in Seq(Defined) /\ ToSet(out) = ToSet(Top.out) \cup {s[m + 1]} /\ IsInjective(out)
  <2>1. IsInjective(Top.out)
    BY <1>2 DEF CallOK
  <2>2. PICK x \in Defined : x = s[m + 1]
    BY <1>4
  <2>3. PICK had \in Seq(Defined) : had = Top.out /\ IsInjective(had)
    BY <1>4, <2>1
  <2>4. /\ Added(had, x) \in Seq(Defined) /\ ToSet(Added(had, x)) = ToSet(had) \cup {x}
        /\ IsInjective(Added(had, x))
    BY <2>3, SelectorAdded
  <2> QED
    BY <1>5, <2>2, <2>3, <2>4
<1>7. PICK f \in Frame : /\ f = [Top EXCEPT !.merged = m + 1, !.out = out]
                       /\ f.name = Top.name /\ f.next = Top.next /\ f.merged = m + 1 /\ f.out = out
  <2>1. PICK f : f = [Top EXCEPT !.merged = m + 1, !.out = out]
    OBVIOUS
  <2>2. PICK t \in Frame : t = Top
    BY <1>2
  <2>3. PICK k \in Nat : k = m + 1
    BY <1>4
  <2>4. f = [t EXCEPT !.merged = k, !.out = out]
    BY <2>1, <2>2, <2>3
  <2>5. f \in Frame /\ f.name = t.name /\ f.next = t.next /\ f.merged = k /\ f.out = out
    BY <1>6, <2>4 DEF Frame
  <2> QED
    BY <2>1, <2>2, <2>3, <2>5
<1>8. config[Top.name].includes[Top.next] = Include
  BY DEF Include, Includes
<1>9. Begun(f) = Begun(Top) \cup {s[m + 1]}
  <2>1. Begun(f) = {s[i] : i \in 1..(m + 1)}
    BY <1>4, <1>7, <1>8 DEF Begun
  <2>2. Begun(Top) = {s[i] : i \in 1..m}
    <3>1. CASE m = 0
      BY <3>1 DEF Begun
    <3>2. CASE m # 0
      BY <1>8, <3>2 DEF Begun
    <3> QED
      BY <3>1, <3>2
  <2>3. 1..(m + 1) = 1..m \cup {m + 1}
    BY <1>4
  <2> QED
    BY <2>1, <2>2, <2>3
<1>10. CallOK(f)
  <2>1. /\ f.next <= Len(config[f.name].includes)
        /\ config[f.name].includes[f.next] \in DOMAIN done
        /\ f.merged <= Len(done[config[f.name].includes[f.next]])
    <3>1. Top.next <= Len(config[Top.name].includes)
      BY <1>1 DEF AtInclude, Includes
    <3>2. m + 1 <= Len(s)
      BY <1>3, <1>4
    <3> QED
      BY <1>1, <1>7, <1>8, <3>1, <3>2
  <2>2. ToSet(f.out) = Gathered(f.name, f.next - 1) \cup Begun(f)
    BY <1>2, <1>6, <1>7, <1>9 DEF CallOK
  <2> QED
    BY <1>2, <1>6, <1>7, <2>1, <2>2 DEF CallOK
<1>11. stack' = [stack EXCEPT ![Len(stack)] = f]
  BY <1>1, <1>5, <1>7
<1> QED
  BY <1>1, <1>7, <1>10, <1>11, TopWalks

LEMMA IncludeAdvanceWalks == ASSUME WalkInv, IncludeAdvance PROVE WalkInv'
<1> DEFINE s == done[Include]
           m == Top.merged
<1>1. /\ AtInclude /\ Include \in DOMAIN done /\ m = Len(s)
      /\ stack' = [stack EXCEPT ![Len(stack)] = [Top EXCEPT !.next = Top.next + 1, !.merged = 0]]
      /\ UNCHANGED <<config, checked, leaves, resolved, done, outcome>>
  BY DEF IncludeAdvance
<1>2. Top \in Frame /\ CallOK(Top) /\ Len(stack) \in DOMAIN stack
  BY <1>1, AtIncludeParts
<1>3. s \in Seq(Defined) /\ ToSet(s) = LeavesOf(Include)
  BY <1>1 DEF WalkInv, ResolveTypeOK, DoneOK
<1>4. m \in Nat /\ Top.next \in Nat \ {0} /\ Top.out \in Seq(Defined) /\ Top.name \in Defined
  BY <1>2 DEF Frame
<1>5. PICK f : f = [Top EXCEPT !.next = Top.next + 1, !.merged = 0]
  OBVIOUS
<1>6. /\ f \in Frame /\ f.name = Top.name /\ f.next = Top.next + 1 /\ f.merged = 0
      /\ f.out = Top.out
  <2>1. PICK t \in Frame : t = Top
    BY <1>2
  <2>2. PICK k \in Nat \ {0} : k = Top.next + 1
    BY <1>4
  <2>3. f = [t EXCEPT !.next = k, !.merged = 0]
    BY <1>5, <2>1, <2>2
  <2>4. f \in Frame /\ f.name = t.name /\ f.next = k /\ f.merged = 0 /\ f.out = t.out
    BY <2>3 DEF Frame
  <2> QED
    BY <2>1, <2>2, <2>4
<1>7. config[Top.name].includes[Top.next] = Include
  BY DEF Include, Includes
<1>8. Begun(Top) = LeavesOf(Include) /\ Begun(f) = {}
  <2>1. ToSet(s) = {s[i] : i \in 1..m}
    BY <1>1, <1>3, LengthOfList DEF ToSet
  <2>2. Begun(Top) = {s[i] : i \in 1..m}
    <3>1. CASE m = 0
      BY <3>1 DEF Begun
    <3>2. CASE m # 0
      BY <1>7, <3>2 DEF Begun
    <3> QED
      BY <3>1, <3>2
  <2> QED
    BY <1>3, <1>6, <2>1, <2>2 DEF Begun
<1>9. Gathered(f.name, f.next - 1) = Gathered(Top.name, Top.next - 1) \cup LeavesOf(Include)
  <2>1. f.next - 1 = Top.next
    BY <1>4, <1>6
  <2> QED
    BY <1>4, <1>6, <1>7, <2>1, GatheredNext
<1>10. CallOK(f)
  <2>1. f.next <= Len(config[f.name].includes) + 1
    <3>1. config[Top.name].includes \in Seq(GroupNames)
      BY <1>4, GroupParts DEF WalkInv
    <3>2. Top.next <= Len(config[Top.name].includes)
      BY <1>1 DEF AtInclude, Includes
    <3> QED
      BY <1>4, <1>6, <3>1, <3>2
  <2>2. \A k \in 1..(f.next - 1) : config[f.name].includes[k] \in DOMAIN done
    <3>1. 1..(f.next - 1) = 1..(Top.next - 1) \cup {Top.next}
      BY <1>4, <1>6
    <3> QED
      BY <1>1, <1>2, <1>6, <1>7, <3>1 DEF CallOK
  <2>3. ToSet(f.out) = Gathered(f.name, f.next - 1) \cup Begun(f)
    BY <1>2, <1>6, <1>8, <1>9 DEF CallOK
  <2>4. f.name \in Defined \ DOMAIN done /\ Composed(f.name) /\ IsInjective(f.out)
    BY <1>2, <1>6 DEF CallOK
  <2> QED
    BY <1>6, <2>1, <2>2, <2>3, <2>4 DEF CallOK
<1>11. stack' = [stack EXCEPT ![Len(stack)] = f]
  BY <1>1, <1>5
<1> QED
  BY <1>1, <1>6, <1>10, <1>11, TopWalks

LEMMA ReturnWalks == ASSUME WalkInv, Return PROVE WalkInv'
<1> DEFINE g == Top.name
           n == Len(stack)
<1>1. /\ outcome = "flattening" /\ stack # <<>> /\ Top.next > Len(Includes)
      /\ Remember(g, Top.out) /\ stack' = Front(stack)
      /\ UNCHANGED <<config, checked, leaves, resolved, outcome>>
  BY DEF Return
<1>2. Walking /\ stack \in Seq(Frame)
  BY <1>1 DEF Walking, WalkInv, CheckedOK, ResolveTypeOK
<1>3. n \in Nat \ {0} /\ DOMAIN stack = 1..n
  BY <1>1, <1>2
<1>4. Top \in Frame /\ CallOK(Top)
  BY <1>2, <1>3 DEF Top, WalkInv, CallsOK
<1>5. Top.merged \in Nat /\ Top.next \in Nat \ {0} /\ Top.out \in Seq(Defined) /\ g \in Defined
  BY <1>4 DEF Frame
<1>6. Includes \in Seq(GroupNames) /\ Includes = config[g].includes
  BY <1>5, GroupParts DEF WalkInv, Includes
<1>7. Len(Includes) \in Nat /\ DOMAIN Includes = 1..Len(Includes)
  BY <1>6
<1>8. Top.next - 1 = Len(Includes) /\ Top.merged = 0
  <2>1. Top.next <= Len(Includes) + 1 /\ (Top.merged > 0 => Top.next <= Len(Includes))
    BY <1>4, <1>6 DEF CallOK
  <2> QED
    BY <1>1, <1>5, <1>7, <2>1
<1>9. ToSet(Includes) \subseteq DOMAIN done
  BY <1>4, <1>6, <1>7, <1>8 DEF CallOK, ToSet
<1>10. ToSet(Top.out) = LeavesOf(g)
  <2>1. Begun(Top) = {}
    BY <1>8 DEF Begun
  <2>2. DOMAIN done \subseteq Defined /\ Composed(g)
    BY <1>4 DEF WalkInv, ResolveTypeOK, CallOK
  <2>3. LeavesOf(g) = Gathered(g, Len(Includes))
    BY <1>5, <1>6, <1>9, <2>2, LeavesOfComposed
  <2> QED
    BY <1>4, <1>8, <2>1, <2>3 DEF CallOK
<1>11. g \notin DOMAIN done /\ IsInjective(Top.out)
  BY <1>4 DEF CallOK
<1>12. /\ DOMAIN done' = DOMAIN done \cup {g}
       /\ done' \in [DOMAIN done' -> Seq(Defined)]
       /\ \A h \in DOMAIN done' : DoneOK(h)'
       /\ \A f \in Frame : f.name # g /\ CallOK(f) => CallOK(f)'
  BY <1>1, <1>5, <1>6, <1>9, <1>10, <1>11, Remembers DEF WalkInv
<1>13. /\ stack' \in Seq(Frame) /\ DOMAIN stack' = 1..(n - 1)
       /\ \A i \in 1..(n - 1) : stack'[i] = stack[i] /\ i \in DOMAIN stack
  BY <1>1, <1>2, <1>3 DEF Front
<1>14. ResolveTypeOK'
  BY <1>1, <1>5, <1>12, <1>13, ConfigTypesKept DEF WalkInv, ResolveTypeOK
<1>15. CheckedOK' /\ FaultOK' /\ ResolvedOK'
  BY <1>1, <1>2, <1>12, CheckedKept, MeaningKept DEF WalkInv, FaultOK, ResolvedOK
<1>16. CallsOK'
  <2>1. ASSUME NEW i \in DOMAIN stack' PROVE CallOK(stack[i])'
    <3>1. PICK f : f = stack[i] /\ f = stack'[i] /\ i \in 1..(n - 1) /\ i \in DOMAIN stack
      BY <1>13, <2>1
    <3>2. f \in Frame /\ CallOK(f)
      BY <1>2, <3>1, ListElement DEF WalkInv, CallsOK
    <3>3. f.name # g
      <4>1. i < n /\ n \in DOMAIN stack /\ stack[n].name = g
        BY <1>3, <3>1 DEF Top
      <4> QED
        BY <3>1, <4>1 DEF WalkInv, CallsOK
    <3>4. CallOK(f)'
      BY <1>12, <3>2, <3>3
    <3> QED
      BY <3>1, <3>4 DEF CallOK, Begun
  <2> QED
    BY <1>1, <1>13, <2>1, MeaningKept DEF WalkInv, CallsOK
<1> QED
  BY <1>12, <1>14, <1>15, <1>16 DEF WalkInv

LEMMA ResolveAdvanceWalks ==
  ASSUME WalkInv, NEW g \in Defined, ResolveAdvance(g)
  PROVE  WalkInv'
<1>1. /\ UNCHANGED <<config, checked, leaves, stack, done, outcome>> /\ outcome = "flattening"
      /\ resolved' = resolved \cup {g} /\ g \in DOMAIN done
  BY DEF ResolveAdvance
<1>2. Walking
  BY <1>1 DEF Walking, WalkInv, CheckedOK
<1>3. ResolveTypeOK'
  BY <1>1, ConfigTypesKept DEF WalkInv, ResolveTypeOK
<1>4. CheckedOK' /\ FaultOK' /\ ResolvedOK' /\ \A h \in DOMAIN done' : DoneOK(h)'
  BY <1>1, <1>2, CheckedKept, MeaningKept, DoneKept DEF WalkInv, FaultOK, ResolvedOK
<1>5. CallsOK'
  BY <1>1, CallKept, MeaningKept DEF CallsOK, WalkInv
<1> QED
  BY <1>3, <1>4, <1>5 DEF WalkInv

LEMMA FinishWalks == ASSUME WalkInv, Finish PROVE WalkInv'
<1>1. /\ UNCHANGED <<config, checked, leaves, resolved, stack, done>> /\ outcome = "flattening"
      /\ outcome' = "resolved" /\ resolved = Defined
  BY DEF Finish
<1>2. Walking
  BY <1>1 DEF Walking, WalkInv, CheckedOK
<1>3. ResolveTypeOK'
  BY <1>1, ConfigTypesKept DEF WalkInv, ResolveTypeOK
<1>4. CheckedOK' /\ FaultOK' /\ ResolvedOK' /\ \A h \in DOMAIN done' : DoneOK(h)'
  BY <1>1, <1>2, CheckedKept, MeaningKept, DoneKept DEF WalkInv, FaultOK, ResolvedOK
<1>5. CallsOK'
  BY <1>1, CallKept, MeaningKept DEF CallsOK, WalkInv
<1> QED
  BY <1>3, <1>4, <1>5 DEF WalkInv

LEMMA StepWalks == WalkInv /\ ResolveStep => WalkInv'
<1> SUFFICES ASSUME WalkInv, ResolveStep PROVE WalkInv'
  OBVIOUS
<1>1. ASSUME IncludeEnter PROVE WalkInv'
  BY <1>1, EnterWalks, AtIncludeParts DEF IncludeEnter
<1>2. ASSUME NEW g \in Defined, ResolveEnter(g) PROVE WalkInv'
  <2>1. Walking
    BY <1>2 DEF ResolveEnter, Walking, WalkInv, CheckedOK
  <2> QED
    BY <1>2, <2>1, EnterWalks DEF ResolveEnter
<1> QED
  BY <1>1, <1>2, CheckSourceWalks, StartFlatteningWalks, IncludeUnknownWalks, IncludeAddWalks,
     IncludeAdvanceWalks, ReturnWalks, ResolveAdvanceWalks, FinishWalks DEF ResolveStep
-----------------------------------------------------------------------------
(***************************************************************************)
(* Loading as a whole: its types, and the walk over the groups as the part *)
(* of it that runs between the header and the labels.                      *)
(***************************************************************************)

\* Resolve has not begun.
Early == stage \in {"shell", "read", "parsed"} => ResolveInit /\ config = <<>>

\* The stages after the groups, and what they rest on.
Resolves ==
  stage \in {"labels", "defaults", "renames", "chains", "accepted"} => outcome = "resolved"

LastTurn == (IF Len(labels) > Len(renames) THEN Len(labels) ELSE Len(renames)) + 1

LoadInv == LoadTypeOK /\ WalkInv /\ Early /\ Resolves

LEMMA LastTurnBounds ==
  ASSUME ListsOK
  PROVE  /\ LastTurn \in Nat \ {0} /\ Len(labels) + 1 <= LastTurn /\ Len(renames) + 1 <= LastTurn
BY LengthOfList DEF ListsOK, LastTurn

LEMMA StartsWalk ==
  ASSUME ResolveInit, IsGroupsSection(config)
  PROVE  WalkInv
<1>1. /\ checked = {} /\ resolved = {} /\ leaves = {} /\ stack = <<>> /\ done = <<>>
      /\ outcome = "checking"
  BY DEF ResolveInit
<1>2. DOMAIN done = {} /\ DOMAIN stack = {} /\ stack \in Seq(Frame) /\ done \in [DOMAIN done -> Seq(Defined)]
  BY <1>1
<1>3. ResolveTypeOK
  BY <1>1, <1>2 DEF ResolveTypeOK
<1> QED
  BY <1>1, <1>2, <1>3 DEF WalkInv, CheckedOK, FaultOK, ResolvedOK, CallsOK

LEMMA WalkKept == ASSUME WalkInv, UNCHANGED resolveVars PROVE WalkInv'
<1>1. UNCHANGED <<config, checked, leaves, resolved, stack, done, outcome>>
  BY DEF resolveVars
<1>2. ResolveTypeOK'
  BY <1>1, ConfigTypesKept DEF WalkInv, ResolveTypeOK
<1>3. CheckedOK' /\ FaultOK' /\ ResolvedOK' /\ \A h \in DOMAIN done' : DoneOK(h)'
  BY <1>1, MeaningKept, DoneKept DEF WalkInv, CheckedOK, FaultOK, ResolvedOK, Ambiguous
<1>4. CallsOK'
  BY <1>1, CallKept, MeaningKept DEF CallsOK, WalkInv
<1> QED
  BY <1>2, <1>3, <1>4 DEF WalkInv

LEMMA InitLoads == Init => LoadInv
<1> SUFFICES ASSUME Init PROVE LoadInv
  OBVIOUS
<1>1. config = <<>> /\ ResolveInit /\ stage = "shell"
  BY DEF Init
<1>2. IsGroupsSection(config)
  BY <1>1 DEF IsGroupsSection
<1>3. PICK i \in DOMAIN Settings :
        \E s \in Settings[i] : disk = s.disk /\ explicit = s.explicit /\ held = s.held
  BY DEF Init
<1>4. PICK s \in Settings[i] : disk = s.disk /\ explicit = s.explicit /\ held = s.held
  BY <1>3
<1>5. /\ DOMAIN disk \subseteq Paths /\ \A p \in DOMAIN disk : IsFile(disk[p])
      /\ explicit \in Answers /\ held \in Views
  BY <1>4, SettingsAssumption DEF IsHeld
<1>6. IsFile(file)
  BY DEF Init, EmptyFile, IsFile, IsGroupsSection, GroupList
<1>7. /\ path = NoPath /\ writes = <<>> /\ labels = <<>> /\ renames = <<>> /\ at = 0
      /\ names = {} /\ colors = {} /\ froms = {} /\ tos = {} /\ error = NoError
  BY DEF Init
<1>8. LoadTypeOK
  <2>1. labels \in Seq(RawLabel) /\ renames \in Seq(RawRename) /\ Len(labels) = 0 /\ Len(renames) = 0
    BY <1>7
  <2>2. writes \in Seq([by : {"init", "export"}, to : Paths]) /\ Len(writes) = 0 /\ MaxWrites \in Nat
    BY <1>7, LoadingAssumption
  <2>3. error \in [rule : Rules \cup {"none"}, at : Nat]
    BY <1>7 DEF NoError
  <2> QED
    BY <1>1, <1>5, <1>6, <1>7, <2>1, <2>2, <2>3 DEF LoadTypeOK, Stages
<1> QED
  BY <1>1, <1>2, <1>8, StartsWalk DEF LoadInv, Early, Resolves

\* What a turn or a rejection does to the types.
LEMMA MovesTyped ==
  ASSUME LoadTypeOK, PassInv,
         UNCHANGED <<held, disk, explicit, writes, path, file, labels, renames>>,
         names' \subseteq Keys, froms' \subseteq Keys, tos' \subseteq Keys, colors' \subseteq Colors,
         \/ \E rule \in Rules : Reject(rule)
         \/ \E next \in Stages, first \in 0..LastTurn : Turn(next, first)
         \/ UNCHANGED <<stage, at, error>>
  PROVE  LoadTypeOK'
<1>1. at \in 0..LastTurn /\ LastTurn \in Nat
  BY LastTurnBounds DEF LoadTypeOK, LastTurn, PassInv
<1>2. stage' \in Stages /\ at' \in 0..LastTurn /\ error' \in [rule : Rules \cup {"none"}, at : Nat]
  <2>1. ASSUME NEW rule \in Rules, Reject(rule)
        PROVE  stage' \in Stages /\ at' = at /\ error' \in [rule : Rules \cup {"none"}, at : Nat]
    BY <1>1, <2>1 DEF Reject, Stages
  <2>2. ASSUME NEW next \in Stages, NEW first \in 0..LastTurn, Turn(next, first)
        PROVE  stage' \in Stages /\ at' \in 0..LastTurn /\ error' = error
    BY <2>2 DEF Turn
  <2> QED
    BY <1>1, <2>1, <2>2 DEF LoadTypeOK
<1> QED
  BY <1>2 DEF LoadTypeOK, LastTurn

LEMMA DestinationTyped == ASSUME NEW choice \in Answers PROVE Destination(choice) \in Paths
BY DEF Destination, Answers, Paths, Dirs

LEMMA WriteTyped ==
  ASSUME LoadTypeOK, NEW by \in {"init", "export"}, NEW p \in Paths, NEW document, IsFile(document),
         Write(by, p, document)
  PROVE  LoadTypeOK'
<1>1. /\ UNCHANGED <<held, explicit, path, file, labels, renames, names, colors, froms, tos, stage,
                     at, error>>
      /\ Len(writes) < MaxWrites /\ writes' = Append(writes, [by |-> by, to |-> p])
      /\ disk' = [q \in DOMAIN disk \cup {p} |-> IF q = p THEN document ELSE disk[q]]
  BY DEF Write, WriteFile, parsed, met
<1>2. DOMAIN disk' \subseteq Paths /\ \A q \in DOMAIN disk' : IsFile(disk'[q])
  <2>1. DOMAIN disk' = DOMAIN disk \cup {p}
    BY <1>1
  <2>2. ASSUME NEW q \in DOMAIN disk' PROVE IsFile(disk'[q])
    <3>1. CASE q = p
      BY <1>1, <2>1, <3>1
    <3>2. CASE q # p
      <4>1. disk'[q] = disk[q] /\ q \in DOMAIN disk
        BY <1>1, <2>1, <3>2
      <4> QED
        BY <4>1 DEF LoadTypeOK
    <3> QED
      BY <3>1, <3>2
  <2> QED
    BY <2>1, <2>2 DEF LoadTypeOK
<1>3. Len(writes') <= MaxWrites /\ writes' \in Seq([by : {"init", "export"}, to : Paths])
  <2>1. writes \in Seq([by : {"init", "export"}, to : Paths]) /\ MaxWrites \in Nat
    BY LoadingAssumption DEF LoadTypeOK
  <2>2. [by |-> by, to |-> p] \in [by : {"init", "export"}, to : Paths]
    OBVIOUS
  <2>3. Len(writes) \in Nat /\ Len(writes') = Len(writes) + 1
    BY <1>1, <2>1
  <2> QED
    BY <1>1, <2>1, <2>2, <2>3
<1> QED
  BY <1>1, <1>2, <1>3 DEF LoadTypeOK

LEMMA ExportedTyped ==
  ASSUME NEW v \in Views, NEW order \in Orders(v)
  PROVE  IsFile(Exported(v, order))
<1>1. ListsIn(Exported(v, order))
  BY ExportedLists
<1>2. IsGroupsSection(ExportedGroups)
  <2>1. <<>> \in Seq(GroupNames) /\ ExportGroup \in GroupNames
    BY LoadingAssumption
  <2>2. DOMAIN ExportedGroups = {ExportGroup}
    BY DEF ExportedGroups
  <2>3. ExportedGroups[ExportGroup] = [sources |-> {"repos"}, includes |-> <<>>, valid |-> TRUE]
    BY DEF ExportedGroups
  <2>4. [sources |-> {"repos"}, includes |-> <<>>, valid |-> TRUE] \in Group
    BY <2>1 DEF Group
  <2>5. ASSUME NEW g \in DOMAIN ExportedGroups
        PROVE  /\ ExportedGroups[g] \in Group
               /\ "include_groups" \notin ExportedGroups[g].sources
               /\ ExportedGroups[g].includes = <<>>
    <3>1. ExportedGroups[g] = [sources |-> {"repos"}, includes |-> <<>>, valid |-> TRUE]
      BY <2>2, <2>3
    <3> QED
      BY <2>4, <3>1
  <2> QED
    BY <2>1, <2>2, <2>5 DEF IsGroupsSection
<1>3. Exported(v, order).notes \subseteq DOMAIN Exported(v, order).labels
  BY DEF Exported, Duplicates
<1>4. Exported(v, order).version = 1 /\ Exported(v, order).groups = ExportedGroups
  BY DEF Exported
<1> QED
  BY <1>1, <1>2, <1>3, <1>4 DEF IsFile, ListsIn
-----------------------------------------------------------------------------
(***************************************************************************)
(* Every step of Load keeps the types, and the walk's invariant.           *)
(***************************************************************************)

LEMMA LoadTyped == LoadTypeOK /\ PassInv /\ Load => LoadTypeOK'
<1> SUFFICES ASSUME LoadTypeOK, PassInv, Load PROVE LoadTypeOK'
  OBVIOUS
<1>1. UNCHANGED <<held, disk, explicit, writes, labels, renames, names, colors, froms, tos>>
  BY DEF Load, parsed, met
<1>2. LastTurn \in Nat /\ 0 \in 0..LastTurn
  BY LastTurnBounds DEF PassInv
<1>3. CASE (Reject("config_not_found") \/ Reject("ambiguous_config_file")) /\ UNCHANGED <<path, file>>
  <2>1. names' \subseteq Keys /\ froms' \subseteq Keys /\ tos' \subseteq Keys /\ colors' \subseteq Colors
    BY <1>1 DEF LoadTypeOK
  <2>2. \E rule \in Rules : Reject(rule)
    BY <1>3 DEF Rules
  <2> QED
    BY <1>1, <1>3, <2>1, <2>2, MovesTyped
<1>4. CASE \E p \in Find : Find = {p} /\ path' = p /\ file' = disk[p] /\ Turn("read", 0)
  <2>1. PICK p \in Find : path' = p /\ file' = disk[p] /\ Turn("read", 0)
    BY <1>4
  <2>2. p \in DOMAIN disk
    BY <2>1 DEF Find, FindInDir
  <2>3. p \in Paths /\ IsFile(disk[p])
    BY <2>2 DEF LoadTypeOK
  <2>4. stage' \in Stages /\ at' = 0 /\ error' = error
    BY <2>1 DEF Turn, Stages
  <2> QED
    BY <1>1, <1>2, <2>1, <2>3, <2>4 DEF LoadTypeOK, LastTurn
<1> QED
  BY <1>3, <1>4 DEF Load

LEMMA ParseTyped == LoadTypeOK /\ PassInv' /\ Parse => LoadTypeOK'
<1> SUFFICES ASSUME LoadTypeOK, PassInv', Parse PROVE LoadTypeOK'
  OBVIOUS
<1>1. /\ UNCHANGED <<held, disk, explicit, writes, path, file, names, colors, froms, tos>>
      /\ stage' \in Stages /\ at' = 0 /\ error' = error
  BY DEF Parse, Turn, content, met, Stages
<1>2. labels' \in Seq(RawLabel) /\ renames' \in Seq(RawRename)
  BY DEF PassInv, ListsOK
<1>3. Len(labels') \in Nat /\ Len(renames') \in Nat
  BY <1>2
<1>4. 0 \in 0..((IF Len(labels') > Len(renames') THEN Len(labels') ELSE Len(renames')) + 1)
  BY <1>3
<1> QED
  BY <1>1, <1>2, <1>4 DEF LoadTypeOK

LEMMA HeaderTyped == LoadTypeOK /\ PassInv /\ CheckHeader => LoadTypeOK'
<1> SUFFICES ASSUME LoadTypeOK, PassInv, CheckHeader PROVE LoadTypeOK'
  OBVIOUS
<1>1. UNCHANGED <<held, disk, explicit, writes, path, file, labels, renames, names, colors, froms, tos>>
  BY DEF CheckHeader, content, parsed, met
<1>2. LastTurn \in Nat /\ 0 \in 0..LastTurn
  BY LastTurnBounds DEF PassInv
<1>3. names' \subseteq Keys /\ froms' \subseteq Keys /\ tos' \subseteq Keys /\ colors' \subseteq Colors
  BY <1>1 DEF LoadTypeOK
<1>4. \/ \E rule \in Rules : Reject(rule)
      \/ \E next \in Stages, first \in 0..LastTurn : Turn(next, first)
  BY <1>2 DEF CheckHeader, Rules, Stages
<1> QED
  BY <1>1, <1>3, <1>4, MovesTyped

LEMMA GroupsTyped == LoadTypeOK /\ PassInv /\ WalkInv /\ (CheckGroups \/ EndGroups) => LoadTypeOK'
<1> SUFFICES ASSUME LoadTypeOK, PassInv, WalkInv, CheckGroups \/ EndGroups PROVE LoadTypeOK'
  OBVIOUS
<1>1. UNCHANGED <<held, disk, explicit, writes, path, file, labels, renames, names, colors, froms, tos>>
  BY DEF CheckGroups, EndGroups, content, parsed, met
<1>2. LastTurn \in Nat /\ 1 \in 0..LastTurn
  BY LastTurnBounds DEF PassInv
<1>3. names' \subseteq Keys /\ froms' \subseteq Keys /\ tos' \subseteq Keys /\ colors' \subseteq Colors
  BY <1>1 DEF LoadTypeOK
<1>4. \/ \E rule \in Rules : Reject(rule)
      \/ \E next \in Stages, first \in 0..LastTurn : Turn(next, first)
      \/ UNCHANGED <<stage, at, error>>
  <2>1. CASE CheckGroups
    BY <2>1 DEF CheckGroups
  <2>2. CASE EndGroups /\ Turn("labels", 1)
    BY <1>2, <2>2 DEF Stages
  <2>3. CASE outcome \notin {"checking", "flattening", "resolved"} /\ Reject(outcome)
    BY <2>3 DEF WalkInv, ResolveTypeOK, Rules
  <2> QED
    BY <2>1, <2>2, <2>3 DEF EndGroups
<1> QED
  BY <1>1, <1>3, <1>4, MovesTyped

LEMMA LabelTyped == LoadTypeOK /\ PassInv /\ (CheckLabel \/ EndLabels) => LoadTypeOK'
<1> SUFFICES ASSUME LoadTypeOK, PassInv, CheckLabel \/ EndLabels PROVE LoadTypeOK'
  OBVIOUS
<1>1. UNCHANGED <<held, disk, explicit, writes, path, file, labels, renames, froms, tos>>
  BY DEF CheckLabel, EndLabels, content, parsed, met
<1>2. LastTurn \in Nat /\ 0 \in 0..LastTurn /\ Len(labels) + 1 <= LastTurn
  BY LastTurnBounds DEF PassInv
<1>3. froms' \subseteq Keys /\ tos' \subseteq Keys
  BY <1>1 DEF LoadTypeOK
<1>4. names \subseteq Keys /\ colors \subseteq Colors
  BY DEF LoadTypeOK
<1>5. CASE CheckLabel /\ RejectFirst(LabelRules, BrokenByLabel(labels[at])) /\ UNCHANGED <<names, colors>>
  <2>1. \E rule \in Rules : Reject(rule)
    BY <1>5 DEF RejectFirst, BrokenByLabel
  <2> QED
    BY <1>1, <1>3, <1>4, <1>5, <2>1, MovesTyped
<1>6. CASE /\ CheckLabel /\ BrokenByLabel(labels[at]) = {} /\ Turn("labels", at + 1)
           /\ names' = names \cup {Lower[labels[at].name]} /\ colors' = colors \cup {labels[at].color}
  <2>1. at \in DOMAIN labels
    BY <1>6 DEF CheckLabel
  <2>2. labels[at] \in RawLabel /\ at \in 1..Len(labels) /\ Len(labels) \in Nat
    BY <2>1, LengthOfList, ListElement DEF PassInv, ListsOK
  <2>3. Lower[labels[at].name] \in Keys
    BY <2>2 DEF RawLabel, Keys
  <2>4. labels[at].color \in Colors
    BY <1>6, LabelRulesKept
  <2>5. at + 1 \in 0..LastTurn /\ "labels" \in Stages
    BY <1>2, <2>2 DEF Stages
  <2>6. \E next \in Stages, first \in 0..LastTurn : Turn(next, first)
    BY <1>6, <2>5
  <2>7. names' \subseteq Keys /\ colors' \subseteq Colors
    BY <1>4, <1>6, <2>3, <2>4
  <2> QED
    BY <1>1, <1>3, <2>6, <2>7, MovesTyped
<1>7. CASE EndLabels
  <2>1. UNCHANGED <<names, colors>> /\ Turn("defaults", 0)
    BY <1>7 DEF EndLabels, met
  <2>2. \E next \in Stages, first \in 0..LastTurn : Turn(next, first)
    BY <1>2, <2>1 DEF Stages
  <2> QED
    BY <1>1, <1>3, <1>4, <2>1, <2>2, MovesTyped
<1> QED
  BY <1>5, <1>6, <1>7 DEF CheckLabel

LEMMA DefaultsTyped == LoadTypeOK /\ PassInv /\ CheckDefaults => LoadTypeOK'
<1> SUFFICES ASSUME LoadTypeOK, PassInv, CheckDefaults PROVE LoadTypeOK'
  OBVIOUS
<1>1. UNCHANGED <<held, disk, explicit, writes, path, file, labels, renames, names, colors, froms, tos>>
  BY DEF CheckDefaults, content, parsed, met
<1>2. LastTurn \in Nat /\ 1 \in 0..LastTurn
  BY LastTurnBounds DEF PassInv
<1>3. names' \subseteq Keys /\ froms' \subseteq Keys /\ tos' \subseteq Keys /\ colors' \subseteq Colors
  BY <1>1 DEF LoadTypeOK
<1>4. \/ \E rule \in Rules : Reject(rule)
      \/ \E next \in Stages, first \in 0..LastTurn : Turn(next, first)
  BY <1>2 DEF CheckDefaults, Rules, Stages
<1> QED
  BY <1>1, <1>3, <1>4, MovesTyped

LEMMA RenameTyped == LoadTypeOK /\ PassInv /\ (CheckRename \/ EndRenames) => LoadTypeOK'
<1> SUFFICES ASSUME LoadTypeOK, PassInv, CheckRename \/ EndRenames PROVE LoadTypeOK'
  OBVIOUS
<1>1. UNCHANGED <<held, disk, explicit, writes, path, file, labels, renames, names, colors>>
  BY DEF CheckRename, EndRenames, content, parsed, met
<1>2. LastTurn \in Nat /\ 0 \in 0..LastTurn /\ Len(renames) + 1 <= LastTurn
  BY LastTurnBounds DEF PassInv
<1>3. names' \subseteq Keys /\ colors' \subseteq Colors
  BY <1>1 DEF LoadTypeOK
<1>4. froms \subseteq Keys /\ tos \subseteq Keys
  BY DEF LoadTypeOK
<1>5. CASE CheckRename /\ RejectFirst(RenameRules, BrokenByRename(renames[at])) /\ UNCHANGED <<froms, tos>>
  <2>1. \E rule \in Rules : Reject(rule)
    BY <1>5 DEF RejectFirst, BrokenByRename
  <2> QED
    BY <1>1, <1>3, <1>4, <1>5, <2>1, MovesTyped
<1>6. CASE /\ CheckRename /\ Turn("renames", at + 1)
           /\ froms' = froms \cup {Lower[renames[at].from]} /\ tos' = tos \cup {Lower[renames[at].to]}
  <2>1. at \in DOMAIN renames
    BY <1>6 DEF CheckRename
  <2>2. renames[at] \in RawRename /\ at \in 1..Len(renames) /\ Len(renames) \in Nat
    BY <2>1, LengthOfList, ListElement DEF PassInv, ListsOK
  <2>3. Lower[renames[at].from] \in Keys /\ Lower[renames[at].to] \in Keys
    BY <2>2 DEF RawRename, Keys
  <2>4. at + 1 \in 0..LastTurn /\ "renames" \in Stages
    BY <1>2, <2>2 DEF Stages
  <2>5. \E next \in Stages, first \in 0..LastTurn : Turn(next, first)
    BY <1>6, <2>4
  <2>6. froms' \subseteq Keys /\ tos' \subseteq Keys
    BY <1>4, <1>6, <2>3
  <2> QED
    BY <1>1, <1>3, <2>5, <2>6, MovesTyped
<1>7. CASE EndRenames
  <2>1. UNCHANGED <<froms, tos>> /\ Turn("chains", 0)
    BY <1>7 DEF EndRenames, met
  <2>2. \E next \in Stages, first \in 0..LastTurn : Turn(next, first)
    BY <1>2, <2>1 DEF Stages
  <2> QED
    BY <1>1, <1>3, <1>4, <2>1, <2>2, MovesTyped
<1> QED
  BY <1>5, <1>6, <1>7 DEF CheckRename

LEMMA ChainsTyped == LoadTypeOK /\ PassInv /\ CheckChains => LoadTypeOK'
<1> SUFFICES ASSUME LoadTypeOK, PassInv, CheckChains PROVE LoadTypeOK'
  OBVIOUS
<1>1. UNCHANGED <<held, disk, explicit, writes, path, file, labels, renames, names, colors, froms, tos>>
  BY DEF CheckChains, content, parsed, met
<1>2. LastTurn \in Nat /\ 0 \in 0..LastTurn
  BY LastTurnBounds DEF PassInv
<1>3. names' \subseteq Keys /\ froms' \subseteq Keys /\ tos' \subseteq Keys /\ colors' \subseteq Colors
  BY <1>1 DEF LoadTypeOK
<1>4. \/ \E rule \in Rules : Reject(rule)
      \/ \E next \in Stages, first \in 0..LastTurn : Turn(next, first)
  BY <1>2 DEF CheckChains, Rules, Stages
<1> QED
  BY <1>1, <1>3, <1>4, MovesTyped

LEMMA LoadStepTyped == LoadInv /\ PassInv /\ PassInv' /\ LoadStep => LoadTypeOK'
BY LoadTyped, ParseTyped, HeaderTyped, GroupsTyped, LabelTyped, DefaultsTyped, RenameTyped,
   ChainsTyped DEF LoadInv, LoadStep

\* Resolve begins on the groups of the file, and is done when the labels are
\* looked at.
LEMMA LoadStepWalks ==
  ASSUME LoadInv, LoadStep
  PROVE  WalkInv' /\ Early' /\ Resolves'
<1>1. LoadTypeOK /\ WalkInv /\ Early /\ Resolves
  BY DEF LoadInv
<1>2. CASE Load \/ Parse
  <2>1. UNCHANGED resolveVars /\ stage \in {"shell", "read"}
        /\ stage' \in {"read", "parsed", "rejected"}
    BY <1>2 DEF Load, Parse, Turn, Reject
  <2>2. UNCHANGED <<config, checked, leaves, resolved, stack, done, outcome>>
    BY <2>1 DEF resolveVars
  <2>3. WalkInv'
    BY <1>1, <2>1, WalkKept
  <2> QED
    BY <1>1, <2>1, <2>2, <2>3 DEF Early, Resolves, ResolveInit
<1>3. CASE CheckHeader
  <2>1. /\ UNCHANGED <<checked, leaves, resolved, stack, done, outcome, file>>
        /\ stage = "parsed" /\ stage' \in {"groups", "rejected"}
        /\ config' \in {config, file.groups}
    BY <1>3 DEF CheckHeader, Turn, Reject, content
  <2>2. ResolveInit'
    BY <1>1, <2>1 DEF Early, ResolveInit
  <2>3. IsGroupsSection(config')
    BY <1>1, <2>1 DEF LoadTypeOK, IsFile, WalkInv, ResolveTypeOK
  <2>4. IsGroupsSection(config)'
    BY <2>3 DEF IsGroupsSection
  <2>5. WalkInv'
    BY <2>2, <2>4, StartsWalk, PTL
  <2> QED
    BY <2>1, <2>5 DEF Early, Resolves
<1>4. CASE CheckGroups
  <2>1. ResolveStep /\ UNCHANGED stage /\ stage = "groups"
    BY <1>4 DEF CheckGroups
  <2> QED
    BY <1>1, <2>1, StepWalks DEF Early, Resolves
<1>5. CASE EndGroups
  <2>1. /\ UNCHANGED resolveVars
        /\ stage' = "rejected" \/ (stage' = "labels" /\ outcome = "resolved")
    BY <1>5 DEF EndGroups, Turn, Reject
  <2>2. WalkInv' /\ UNCHANGED outcome
    BY <1>1, <2>1, WalkKept DEF resolveVars
  <2> QED
    BY <2>1, <2>2 DEF Early, Resolves
<1>6. CASE CheckLabel \/ EndLabels \/ CheckDefaults \/ CheckRename \/ EndRenames \/ CheckChains
  <2>1. /\ UNCHANGED resolveVars
        /\ stage \in {"labels", "defaults", "renames", "chains"}
        /\ stage' \in {"labels", "defaults", "renames", "chains", "accepted", "rejected"}
    BY <1>6 DEF CheckLabel, EndLabels, CheckDefaults, CheckRename, EndRenames, CheckChains,
            Turn, Reject, RejectFirst
  <2>2. WalkInv' /\ UNCHANGED outcome
    BY <1>1, <2>1, WalkKept DEF resolveVars
  <2> QED
    BY <1>1, <2>1, <2>2 DEF Early, Resolves
<1> QED
  BY <1>2, <1>3, <1>4, <1>5, <1>6 DEF LoadStep

\* A file that is written is typed, and Resolve has not begun.
LEMMA WriteLoads ==
  ASSUME LoadInv, NEW by \in {"init", "export"}, NEW p \in Paths, NEW document, IsFile(document),
         Write(by, p, document)
  PROVE  LoadInv'
<1>1. LoadTypeOK /\ WalkInv /\ Early /\ Resolves
  BY DEF LoadInv
<1>2. UNCHANGED <<resolveVars, stage>>
  BY DEF Write
<1>3. UNCHANGED <<config, checked, leaves, resolved, stack, done, outcome, stage>>
  BY <1>2 DEF resolveVars
<1>4. LoadTypeOK'
  BY <1>1, WriteTyped
<1>5. WalkInv'
  BY <1>1, <1>2, WalkKept
<1> QED
  BY <1>1, <1>3, <1>4, <1>5 DEF LoadInv, Early, Resolves, ResolveInit

LEMMA WritesLoad ==
  ASSUME LoadInv,
         \/ \E force \in BOOLEAN : RunInit(force)
         \/ \E out \in Answers \ {<<>>} : RunExport(out)
  PROVE  LoadInv'
<1>1. explicit \in Answers /\ held \in Views
  BY DEF LoadInv, LoadTypeOK
<1>2. ASSUME NEW force \in BOOLEAN, RunInit(force) PROVE LoadInv'
  <2>1. Write("init", Destination(explicit), Scaffold)
    BY <1>2 DEF RunInit
  <2>2. Destination(explicit) \in Paths /\ IsFile(Scaffold)
    BY <1>1, DestinationTyped, LoadingAssumption
  <2> QED
    BY <2>1, <2>2, WriteLoads
<1>3. ASSUME NEW out \in Answers \ {<<>>}, RunExport(out) PROVE LoadInv'
  <2>1. PICK order \in Orders(held) : Write("export", Destination(out), Exported(held, order))
    BY <1>3 DEF RunExport
  <2>2. Destination(out) \in Paths /\ IsFile(Exported(held, order))
    BY <1>1, DestinationTyped, ExportedTyped
  <2> QED
    BY <2>1, <2>2, WriteLoads
<1> QED
  BY <1>2, <1>3

\* Together with what the loops check, the types and the walk hold throughout.
THEOREM LoadingGoesWell == Spec => [](LoadInv /\ PassInv)
<1>1. LoadInv /\ PassInv /\ PassInv' /\ [Next]_vars => LoadInv'
  <2> SUFFICES ASSUME LoadInv, PassInv, PassInv', [Next]_vars PROVE LoadInv'
    OBVIOUS
  <2>1. CASE LoadStep
    BY <2>1, LoadStepTyped, LoadStepWalks DEF LoadInv
  <2>2. CASE (\E force \in BOOLEAN : RunInit(force)) \/ \E out \in Answers \ {<<>>} : RunExport(out)
    BY <2>2, WritesLoad
  <2>3. CASE UNCHANGED vars
    <3>1. /\ UNCHANGED <<held, disk, explicit, writes, path, file, labels, renames, names, colors,
                         froms, tos, stage, at, error>>
          /\ UNCHANGED resolveVars
      BY <2>3 DEF vars, content, parsed, met
    <3>2. UNCHANGED <<config, checked, leaves, resolved, stack, done, outcome>>
      BY <3>1 DEF resolveVars
    <3>3. WalkInv'
      BY <3>1, WalkKept DEF LoadInv
    <3>4. LoadTypeOK'
      BY <3>1 DEF LoadInv, LoadTypeOK
    <3> QED
      BY <3>1, <3>2, <3>3, <3>4 DEF LoadInv, Early, Resolves, ResolveInit
  <2> QED
    BY <2>1, <2>2, <2>3 DEF Next
<1> QED
  BY InitLoads, LoopsCheck, <1>1, PTL DEF Spec

\* Every variable of the load and of the walk keeps its type.
THEOREM TypeCorrect == Spec => []TypeOK
<1>1. LoadInv => TypeOK
  BY DEF LoadInv, WalkInv, TypeOK
<1> QED
  BY <1>1, LoadingGoesWell, PTL

\* A group that has been flattened stands for the leaf groups that it reaches,
\* each of them once, in any groups section.
THEOREM GroupsAreFlattened == Spec => []FlattenedIsReachable
<1>1. LoadInv => FlattenedIsReachable
  <2> SUFFICES ASSUME LoadInv PROVE FlattenedIsReachable
    OBVIOUS
  <2>1. \A g \in DOMAIN done : ToSet(done[g]) = LeavesOf(g) /\ IsInjective(done[g])
    BY DEF LoadInv, WalkInv, DoneOK
  <2>2. outcome = "resolved" => DOMAIN done = Defined
    BY DEF LoadInv, WalkInv, ResolvedOK, ResolveTypeOK
  <2> QED
    BY <2>1, <2>2 DEF FlattenedIsReachable, LeavesOf
<1> QED
  BY <1>1, LoadingGoesWell, PTL
-----------------------------------------------------------------------------
(***************************************************************************)
(* The first fault is the one reported.  What Validate has left behind is  *)
(* free of faults, and at the label or rename at hand a rule is broken     *)
(* exactly when the file has that fault there.                             *)
(***************************************************************************)

Parsed ==
  /\ labels = [i \in DOMAIN file.labels |-> Normalized(file.labels[i])]
  /\ renames = [i \in DOMAIN file.renames |->
                  [from |-> Trim[file.renames[i].from], to |-> Trim[file.renames[i].to]]]

HeaderPassed == file.version = 1 /\ labels # <<>> /\ config = file.groups

\* The rules that need nothing remembered, on the labels and renames up to n.
LabelsFit(n) == \A i \in 1..n : labels[i].desc \notin LongDescs
RenamesFit(n) == \A i \in 1..n : Blank \notin {renames[i].from, renames[i].to}

WrongAsWhole(rule) == rule \in GroupFaults \/ WrongWithFile(file, rule)

BehindInv ==
  /\ stage = "shell" => path = NoPath
  /\ stage \in {"parsed", "groups", "labels", "defaults", "renames", "chains", "accepted"} => Parsed
  /\ stage \in {"groups", "labels", "defaults", "renames", "chains", "accepted"} => HeaderPassed
  /\ stage \in {"shell", "read", "parsed", "groups", "defaults", "chains"} => at = 0
  /\ stage = "labels" => LabelsFit(at - 1)
  /\ stage \in {"defaults", "renames", "chains", "accepted"} => LabelsFit(Len(labels))
  /\ stage \in {"renames", "chains", "accepted"} => ToSet(file.defaults) \subseteq Defined
  /\ stage = "renames" => RenamesFit(at - 1)
  /\ stage \in {"chains", "accepted"} => RenamesFit(Len(renames))

\* Of what is wrong, an error names the first.
IsFirst(e) == e \in Faults /\ \A f \in Faults : ~Sooner(f, e)

Reported == stage = "rejected" /\ path # NoPath => IsFirst(error)

ReportInv == BehindInv /\ Reported

LEMMA Places ==
  /\ Place["unsupported_version"] = <<1, 1>> /\ Place["empty_config"] = <<1, 2>>
  /\ \A o \in {"ambiguous", "invalid_ref", "cyclic", "unknown"} : Place[o] = <<2, 1>>
  /\ \A i \in 1..6 : Place[LabelRules[i]] = <<3, i>>
  /\ Place["unknown_default"] = <<4, 1>>
  /\ \A i \in 1..5 : Place[RenameRules[i]] = <<5, i>>
BY DEF Place, LabelRules, RenameRules

LEMMA RulesHavePlaces ==
  /\ {"unsupported_version", "empty_config", "unknown_default"} \subseteq DOMAIN Place
  /\ {"ambiguous", "invalid_ref", "cyclic", "unknown"} \subseteq DOMAIN Place
  /\ \A i \in 1..6 : LabelRules[i] \in DOMAIN Place
  /\ \A i \in 1..5 : RenameRules[i] \in DOMAIN Place
BY DEF Place, LabelRules, RenameRules

\* Where in Validate a fault belongs.
LEMMA FilePart ==
  ASSUME NEW rule, WrongAsWhole(rule)
  PROVE  \/ rule = "unsupported_version" /\ file.version # 1 /\ Place[rule] = <<1, 1>>
         \/ rule = "empty_config" /\ file.labels = <<>> /\ Place[rule] = <<1, 2>>
         \/ rule \in GroupFaults /\ Place[rule] = <<2, 1>>
         \/ /\ rule = "unknown_default" /\ Place[rule] = <<4, 1>>
            /\ ~(ToSet(file.defaults) \subseteq DOMAIN file.groups)
<1>1. rule \in GroupFaults => rule \in {"ambiguous", "invalid_ref", "cyclic", "unknown"}
  BY DEF GroupFaults
<1> QED
  BY <1>1, Places DEF WrongAsWhole, WrongWithFile

LEMMA LabelPart ==
  ASSUME NEW rule, NEW i, WrongWithLabel(file, rule, i)
  PROVE  \E k \in 1..6 : rule = LabelRules[k] /\ Place[rule] = <<3, k>>
<1>1. \E k \in 1..6 : rule = LabelRules[k]
  BY DEF WrongWithLabel, LabelRules
<1> QED
  BY <1>1, Places

LEMMA RenamePart ==
  ASSUME NEW rule, NEW i, WrongWithRename(file, rule, i)
  PROVE  \E k \in 1..5 : rule = RenameRules[k] /\ Place[rule] = <<5, k>>
<1>1. \E k \in 1..5 : rule = RenameRules[k]
  BY DEF WrongWithRename, RenameRules
<1> QED
  BY <1>1, Places

LEMMA FaultParts ==
  ASSUME NEW f \in Faults
  PROVE  \/ f.at = 0 /\ WrongAsWhole(f.rule)
         \/ f.at \in DOMAIN file.labels /\ WrongWithLabel(file, f.rule, f.at)
         \/ f.at \in DOMAIN file.renames /\ WrongWithRename(file, f.rule, f.at)
BY DEF Faults, WrongAsWhole

LEMMA IsFault ==
  ASSUME NEW rule \in DOMAIN Place, NEW i,
         \/ i = 0 /\ WrongAsWhole(rule)
         \/ i \in DOMAIN file.labels /\ WrongWithLabel(file, rule, i)
         \/ i \in DOMAIN file.renames /\ WrongWithRename(file, rule, i)
  PROVE  [rule |-> rule, at |-> i] \in Faults
BY DEF Faults, WrongAsWhole

LEMMA ParsedLists ==
  ASSUME Parsed
  PROVE  /\ DOMAIN labels = DOMAIN file.labels /\ DOMAIN renames = DOMAIN file.renames
         /\ \A i \in DOMAIN labels :
              /\ labels[i].name = Trim[file.labels[i].name]
              /\ labels[i].color = Bare[file.labels[i].color]
              /\ labels[i].desc = file.labels[i].desc
              /\ labels[i].groups = IF file.labels[i].groups = <<>> THEN file.defaults
                                    ELSE file.labels[i].groups
         /\ \A i \in DOMAIN renames :
              /\ renames[i].from = Trim[file.renames[i].from]
              /\ renames[i].to = Trim[file.renames[i].to]
BY DEF Parsed, Normalized

\* The label at hand: the rules it breaks are the faults the file has there.
LEMMA LabelAtHand ==
  ASSUME Parsed, ListsOK, config = file.groups, NEW i \in DOMAIN labels, LabelsPassed(i - 1), NEW rule
  PROVE  rule \in BrokenByLabel(labels[i]) <=> WrongWithLabel(file, rule, i)
<1> DEFINE l == labels[i]
           w == file.labels[i]
<1>1. i \in Nat /\ i >= 1 /\ 1..(i - 1) \subseteq DOMAIN labels
  BY LengthOfList DEF ListsOK
<1>2. /\ l.name = Trim[w.name] /\ l.color = Bare[w.color] /\ l.desc = w.desc
      /\ l.groups = IF w.groups = <<>> THEN file.defaults ELSE w.groups
  BY ParsedLists
<1>3. Lower[l.name] \in names <=> \E j \in 1..(i - 1) : FoldedName(file.labels[j]) = FoldedName(w)
  <2>1. names = {Lower[labels[j].name] : j \in 1..(i - 1)}
    BY DEF LabelsPassed
  <2>2. \A j \in 1..(i - 1) : Lower[labels[j].name] = FoldedName(file.labels[j])
    BY <1>1, ParsedLists DEF FoldedName
  <2>3. Lower[l.name] = FoldedName(w)
    BY <1>2 DEF FoldedName
  <2> QED
    BY <2>1, <2>2, <2>3
<1>4. l.color \in colors <=> \E j \in 1..(i - 1) : Bare[file.labels[j].color] = Bare[w.color]
  <2>1. colors = {labels[j].color : j \in 1..(i - 1)}
    BY DEF LabelsPassed
  <2>2. \A j \in 1..(i - 1) : labels[j].color = Bare[file.labels[j].color]
    BY <1>1, ParsedLists
  <2> QED
    BY <1>2, <2>1, <2>2
<1>5. \A k \in 1..6 : LabelRules[k] \in Rules
  BY DEF LabelRules, Rules
<1>6. WrongWithLabel(file, rule, i) => rule \in Rules
  BY <1>5, LabelPart
<1>7. rule \in BrokenByLabel(l) <=>
        /\ rule \in Rules
        /\ \/ rule = "invalid_label_name" /\ l.name \in UnfitNames
           \/ rule = "invalid_color" /\ l.color \notin Colors
           \/ rule = "description_too_long" /\ l.desc \in LongDescs
           \/ rule = "duplicate_label_name" /\ Lower[l.name] \in names
           \/ rule = "duplicate_label_color" /\ l.color \in colors
           \/ rule = "unknown_group" /\ ~(ToSet(l.groups) \subseteq Defined)
  BY DEF BrokenByLabel
<1>8. WrongWithLabel(file, rule, i) <=>
        \/ rule = "invalid_label_name" /\ l.name \in UnfitNames
        \/ rule = "invalid_color" /\ l.color \notin Colors
        \/ rule = "description_too_long" /\ l.desc \in LongDescs
        \/ rule = "duplicate_label_name" /\ Lower[l.name] \in names
        \/ rule = "duplicate_label_color" /\ l.color \in colors
        \/ rule = "unknown_group" /\ ~(ToSet(l.groups) \subseteq Defined)
  <2>1. ~(ToSet(l.groups) \subseteq Defined) <=>
          ~(ToSet(IF w.groups = <<>> THEN file.defaults ELSE w.groups) \subseteq DOMAIN file.groups)
    BY <1>2 DEF Defined
  <2> HIDE DEF l
  <2> QED
    BY <1>2, <1>3, <1>4, <2>1 DEF WrongWithLabel
<1> QED
  BY <1>6, <1>7, <1>8

\* The rename at hand.
LEMMA RenameAtHand ==
  ASSUME Parsed, ListsOK, NEW i \in DOMAIN renames, RenamesPassed(i - 1), NEW rule
  PROVE  rule \in BrokenByRename(renames[i]) <=> WrongWithRename(file, rule, i)
<1> DEFINE n == renames[i]
           w == file.renames[i]
<1>1. i \in Nat /\ i >= 1 /\ 1..(i - 1) \subseteq DOMAIN renames
  BY LengthOfList DEF ListsOK
<1>2. n.from = Trim[w.from] /\ n.to = Trim[w.to]
  BY ParsedLists
<1>3. Lower[n.from] \in froms <=> \E j \in 1..(i - 1) : FoldedFrom(file.renames[j]) = FoldedFrom(w)
  <2>1. froms = {Lower[renames[j].from] : j \in 1..(i - 1)}
    BY DEF RenamesPassed
  <2>2. \A j \in 1..(i - 1) : Lower[renames[j].from] = FoldedFrom(file.renames[j])
    BY <1>1, ParsedLists DEF FoldedFrom
  <2>3. Lower[n.from] = FoldedFrom(w)
    BY <1>2 DEF FoldedFrom
  <2> QED
    BY <2>1, <2>2, <2>3
<1>4. Lower[n.to] \in tos <=> \E j \in 1..(i - 1) : FoldedTo(file.renames[j]) = FoldedTo(w)
  <2>1. tos = {Lower[renames[j].to] : j \in 1..(i - 1)}
    BY DEF RenamesPassed
  <2>2. \A j \in 1..(i - 1) : Lower[renames[j].to] = FoldedTo(file.renames[j])
    BY <1>1, ParsedLists DEF FoldedTo
  <2>3. Lower[n.to] = FoldedTo(w)
    BY <1>2 DEF FoldedTo
  <2> QED
    BY <2>1, <2>2, <2>3
<1>5. ConfiguredKeys = {FoldedName(file.labels[j]) : j \in DOMAIN file.labels}
  BY ParsedLists DEF ConfiguredKeys, FoldedName
<1>6. \A k \in 1..5 : RenameRules[k] \in Rules
  BY DEF RenameRules, Rules
<1>7. WrongWithRename(file, rule, i) => rule \in Rules
  BY <1>6, RenamePart
<1>8. rule \in BrokenByRename(n) <=>
        /\ rule \in Rules
        /\ \/ rule = "incomplete_rename" /\ Blank \in {n.from, n.to}
           \/ rule = "undeclared_target" /\ Lower[n.to] \notin ConfiguredKeys
           \/ rule = "configured_source" /\ Lower[n.from] \in ConfiguredKeys
           \/ rule = "renamed_twice" /\ Lower[n.from] \in froms
           \/ rule = "duplicate_target" /\ Lower[n.to] \in tos
  BY DEF BrokenByRename
<1>9. WrongWithRename(file, rule, i) <=>
        \/ rule = "incomplete_rename" /\ Blank \in {n.from, n.to}
        \/ rule = "undeclared_target" /\ Lower[n.to] \notin ConfiguredKeys
        \/ rule = "configured_source" /\ Lower[n.from] \in ConfiguredKeys
        \/ rule = "renamed_twice" /\ Lower[n.from] \in froms
        \/ rule = "duplicate_target" /\ Lower[n.to] \in tos
  <2>1. Lower[n.from] = FoldedFrom(w) /\ Lower[n.to] = FoldedTo(w)
    BY <1>2 DEF FoldedFrom, FoldedTo
  <2> HIDE DEF n
  <2> QED
    BY <1>2, <1>3, <1>4, <1>5, <2>1 DEF WrongWithRename
<1> QED
  BY <1>7, <1>8, <1>9

\* What has been passed is free of faults.
LEMMA LabelBehind ==
  ASSUME Parsed, ListsOK, config = file.groups, NEW n \in Nat, n <= Len(labels),
         LabelsPassed(n), LabelsFit(n), NEW i \in 1..n, NEW rule
  PROVE  ~WrongWithLabel(file, rule, i)
<1>1. i \in Nat /\ 1..n \subseteq DOMAIN labels /\ 1..(i - 1) \subseteq 1..n
  BY LengthOfList DEF ListsOK
<1>2. /\ labels[i].name = Trim[file.labels[i].name]
      /\ labels[i].color = Bare[file.labels[i].color]
      /\ labels[i].desc = file.labels[i].desc
      /\ labels[i].groups = IF file.labels[i].groups = <<>> THEN file.defaults
                            ELSE file.labels[i].groups
  BY <1>1, ParsedLists
<1>3. /\ labels[i].name \notin UnfitNames /\ labels[i].color \in Colors
      /\ ToSet(labels[i].groups) \subseteq Defined /\ labels[i].desc \notin LongDescs
  BY DEF LabelsPassed, LabelsFit
<1>4. ASSUME NEW j \in 1..(i - 1)
      PROVE  /\ FoldedName(file.labels[j]) # FoldedName(file.labels[i])
             /\ Bare[file.labels[j].color] # Bare[file.labels[i].color]
  <2>1. j \in 1..n /\ j < i
    BY <1>1
  <2>2. Lower[labels[j].name] # Lower[labels[i].name] /\ labels[j].color # labels[i].color
    BY <2>1 DEF LabelsPassed
  <2>3. labels[j].name = Trim[file.labels[j].name] /\ labels[j].color = Bare[file.labels[j].color]
    BY <1>1, <2>1, ParsedLists
  <2> QED
    BY <1>2, <2>2, <2>3 DEF FoldedName
<1>5. ToSet(IF file.labels[i].groups = <<>> THEN file.defaults ELSE file.labels[i].groups)
        \subseteq DOMAIN file.groups
  BY <1>2, <1>3 DEF Defined
<1> QED
  BY <1>2, <1>3, <1>4, <1>5 DEF WrongWithLabel

LEMMA RenameBehind ==
  ASSUME Parsed, ListsOK, NEW n \in Nat, n <= Len(renames),
         RenamesPassed(n), RenamesFit(n), NEW i \in 1..n, NEW rule
  PROVE  ~WrongWithRename(file, rule, i)
<1>1. i \in Nat /\ 1..n \subseteq DOMAIN renames /\ 1..(i - 1) \subseteq 1..n
  BY LengthOfList DEF ListsOK
<1>2. /\ renames[i].from = Trim[file.renames[i].from] /\ renames[i].to = Trim[file.renames[i].to]
      /\ FoldedFrom(file.renames[i]) = Lower[renames[i].from]
      /\ FoldedTo(file.renames[i]) = Lower[renames[i].to]
  BY <1>1, ParsedLists DEF FoldedFrom, FoldedTo
<1>3. /\ Lower[renames[i].from] \notin ConfiguredKeys /\ Lower[renames[i].to] \in ConfiguredKeys
      /\ Blank \notin {renames[i].from, renames[i].to}
  BY DEF RenamesPassed, RenamesFit
<1>4. ConfiguredKeys = {FoldedName(file.labels[j]) : j \in DOMAIN file.labels}
  BY ParsedLists DEF ConfiguredKeys, FoldedName
<1>5. ASSUME NEW j \in 1..(i - 1)
      PROVE  /\ FoldedFrom(file.renames[j]) # FoldedFrom(file.renames[i])
             /\ FoldedTo(file.renames[j]) # FoldedTo(file.renames[i])
  <2>1. j \in 1..n /\ j < i
    BY <1>1
  <2>2. Lower[renames[j].from] # Lower[renames[i].from] /\ Lower[renames[j].to] # Lower[renames[i].to]
    BY <2>1 DEF RenamesPassed
  <2>3. /\ FoldedFrom(file.renames[j]) = Lower[renames[j].from]
        /\ FoldedTo(file.renames[j]) = Lower[renames[j].to]
    BY <1>1, <2>1, ParsedLists DEF FoldedFrom, FoldedTo
  <2> QED
    BY <1>2, <2>2, <2>3
<1> QED
  BY <1>2, <1>3, <1>4, <1>5 DEF WrongWithRename

\* Groups that have been resolved have nothing wrong with them.
LEMMA ResolvedGroups == WalkInv /\ outcome = "resolved" => GroupFaults = {}
<1> SUFFICES ASSUME WalkInv, outcome = "resolved" PROVE GroupFaults = {}
  OBVIOUS
<1>1. checked = Defined /\ DOMAIN done = Defined
  BY DEF WalkInv, CheckedOK, ResolvedOK, ResolveTypeOK
<1>2. ASSUME NEW g \in Defined
      PROVE  /\ ~Ambiguous(config[g].sources) /\ ~Unparsable(g) /\ ~OnCycle(g)
             /\ ToSet(config[g].includes) \subseteq Defined
  BY <1>1 DEF WalkInv, CheckedOK, DoneOK
<1> QED
  BY <1>2 DEF GroupFaults, Ambiguous, Unparsable
LEMMA SoonerByPlace ==
  ASSUME NEW e, NEW f, NEW a \in Nat, NEW b \in Nat, NEW c \in Nat, NEW d \in Nat,
         Place[e.rule] = <<a, b>>, Place[f.rule] = <<c, d>>
  PROVE  Sooner(f, e) <=> c < a \/ (c = a /\ (f.at < e.at \/ (f.at = e.at /\ d < b)))
BY DEF Sooner

LEMMA LaterPart ==
  ASSUME NEW e, NEW f,
         ~(Place[f.rule][1] < Place[e.rule][1]), Place[f.rule][1] # Place[e.rule][1]
  PROVE  ~Sooner(f, e)
BY DEF Sooner

LEMMA SamePart ==
  ASSUME NEW e, NEW f, ~(Place[f.rule][1] < Place[e.rule][1]), ~(f.at < e.at),
         ~(f.at = e.at /\ Place[f.rule][2] < Place[e.rule][2])
  PROVE  ~Sooner(f, e)
BY DEF Sooner

\* Before the labels, once the header has been passed.
LEMMA PastHeader ==
  ASSUME HeaderPassed, Parsed, ListsOK, NEW f \in Faults
  PROVE  \/ f.at = 0 /\ f.rule \in GroupFaults /\ Place[f.rule] = <<2, 1>>
         \/ /\ f.at = 0 /\ Place[f.rule] = <<4, 1>> /\ ~(ToSet(file.defaults) \subseteq Defined)
         \/ /\ f.at \in DOMAIN labels /\ WrongWithLabel(file, f.rule, f.at)
            /\ \E k \in 1..6 : f.rule = LabelRules[k] /\ Place[f.rule] = <<3, k>>
         \/ /\ f.at \in DOMAIN renames /\ WrongWithRename(file, f.rule, f.at)
            /\ \E k \in 1..5 : f.rule = RenameRules[k] /\ Place[f.rule] = <<5, k>>
<1>1. CASE f.at = 0 /\ WrongAsWhole(f.rule)
  <2>1. file.labels # <<>>
    <3>1. Len(labels) \in Nat \ {0} /\ DOMAIN labels = 1..Len(labels)
      BY EmptySeq, LengthOfList DEF ListsOK, HeaderPassed
    <3>2. 1 \in DOMAIN file.labels
      BY <3>1, ParsedLists
    <3> QED
      BY <3>2
  <2> QED
    BY <1>1, <2>1, FilePart DEF HeaderPassed, Defined
<1>2. CASE f.at \in DOMAIN file.labels /\ WrongWithLabel(file, f.rule, f.at)
  BY <1>2, LabelPart, ParsedLists
<1>3. CASE f.at \in DOMAIN file.renames /\ WrongWithRename(file, f.rule, f.at)
  BY <1>3, RenamePart, ParsedLists
<1> QED
  BY <1>1, <1>2, <1>3, FaultParts

LEMMA HeaderFirst ==
  ASSUME Parsed, FileOK, ListsOK,
         NEW rule, \/ rule = "unsupported_version" /\ file.version # 1
                   \/ rule = "empty_config" /\ file.version = 1 /\ labels = <<>>
  PROVE  IsFirst([rule |-> rule, at |-> 0])
<1> DEFINE e == [rule |-> rule, at |-> 0]
<1>1. labels = <<>> => file.labels = <<>>
  <2>1. labels = <<>> => DOMAIN file.labels = {}
    BY ParsedLists
  <2>2. file.labels # <<>> => Len(file.labels) \in Nat \ {0} /\ DOMAIN file.labels = 1..Len(file.labels)
    BY EmptySeq, LengthOfList DEF FileOK, ListsIn
  <2>3. file.labels # <<>> => 1 \in DOMAIN file.labels
    BY <2>2
  <2> QED
    BY <2>1, <2>3
<1>2. WrongAsWhole(rule)
  BY <1>1 DEF WrongAsWhole, WrongWithFile
<1>3. rule \in DOMAIN Place
  BY RulesHavePlaces
<1>4. e \in Faults
  BY <1>2, <1>3, IsFault
<1>5. e.rule = rule /\ e.at = 0
  OBVIOUS
<1> HIDE DEF e
<1>6. ASSUME NEW f \in Faults, NEW b \in {1, 2}, Place[rule] = <<1, b>> PROVE ~Sooner(f, e)
  <2>1. ASSUME NEW c \in 1..5, NEW d \in 1..6, Place[f.rule] = <<c, d>>
        PROVE  Sooner(f, e) <=> c < 1 \/ (c = 1 /\ (f.at < e.at \/ (f.at = e.at /\ d < b)))
    BY <1>5, <1>6, <2>1, SoonerByPlace
  <2>2. CASE Place[f.rule] = <<1, 1>> /\ f.at = 0 /\ file.version # 1
    <3>1. rule = "unsupported_version"
      BY <2>2
    <3>2. Place[rule] = <<1, 1>>
      BY <3>1, Places
    <3>3. b = 1
      BY <1>6, <3>2
    <3> QED
      BY <1>5, <2>1, <2>2, <3>3
  <2>3. CASE Place[f.rule] = <<1, 2>> /\ f.at = 0
    BY <1>5, <2>1, <2>3
  <2>4. CASE \E c \in {2, 4} : Place[f.rule] = <<c, 1>>
    <3>1. PICK c \in {2, 4} : Place[f.rule] = <<c, 1>>
      BY <2>4
    <3>2. ~(c < 1) /\ c # 1 /\ c \in 1..5 /\ 1 \in 1..6
      BY <3>1
    <3> QED
      BY <2>1, <3>1, <3>2
  <2>5. CASE \E d \in 1..6 : Place[f.rule] = <<3, d>>
    BY <2>1, <2>5
  <2>6. CASE \E d \in 1..5 : Place[f.rule] = <<5, d>>
    BY <2>1, <2>6
  <2>7. CASE f.at = 0 /\ WrongAsWhole(f.rule)
    BY <2>2, <2>3, <2>4, <2>7, FilePart
  <2> QED
    BY <2>5, <2>6, <2>7, FaultParts, LabelPart, RenamePart
<1>7. \E b \in {1, 2} : Place[rule] = <<1, b>>
  BY Places
<1>8. IsFirst(e)
  BY <1>4, <1>6, <1>7 DEF IsFirst
<1> QED
  BY <1>8 DEF e

LEMMA GroupFirst ==
  ASSUME HeaderPassed, Parsed, ListsOK, NEW rule \in GroupFaults
  PROVE  IsFirst([rule |-> rule, at |-> 0])
<1> DEFINE e == [rule |-> rule, at |-> 0]
<1>1. rule \in {"ambiguous", "invalid_ref", "cyclic", "unknown"}
  BY DEF GroupFaults
<1>2. rule \in DOMAIN Place /\ WrongAsWhole(rule) /\ Place[e.rule] = <<2, 1>> /\ e.at = 0
  BY <1>1, RulesHavePlaces, Places DEF WrongAsWhole, WrongWithFile
<1>3. e \in Faults
  BY <1>2, IsFault
<1>4. ASSUME NEW f \in Faults PROVE ~Sooner(f, e)
  <2> HIDE DEF e
  <2>1. CASE f.at = 0 /\ Place[f.rule] = <<2, 1>>
    BY <1>2, <2>1, SamePart
  <2>2. CASE Place[f.rule] = <<4, 1>>
    <3>1. Place[f.rule][1] = 4 /\ Place[e.rule][1] = 2
      BY <1>2, <2>2
    <3> QED
      BY <3>1, LaterPart
  <2>3. CASE \E k \in 1..6 : Place[f.rule] = <<3, k>>
    <3>1. PICK k \in 1..6 : Place[f.rule] = <<3, k>>
      BY <2>3
    <3>2. Place[f.rule][1] = 3 /\ Place[e.rule][1] = 2
      BY <1>2, <3>1
    <3> QED
      BY <3>2, LaterPart
  <2>4. CASE \E k \in 1..5 : Place[f.rule] = <<5, k>>
    <3>1. PICK k \in 1..5 : Place[f.rule] = <<5, k>>
      BY <2>4
    <3>2. Place[f.rule][1] = 5 /\ Place[e.rule][1] = 2
      BY <1>2, <3>1
    <3> QED
      BY <3>2, LaterPart
  <2> QED
    BY <2>1, <2>2, <2>3, <2>4, PastHeader
<1> QED
  BY <1>3, <1>4 DEF IsFirst

LEMMA LabelFirst ==
  ASSUME HeaderPassed, Parsed, ListsOK, GroupFaults = {},
         at \in DOMAIN labels, LabelsPassed(at - 1), LabelsFit(at - 1),
         NEW i \in 1..6, LabelRules[i] \in BrokenByLabel(labels[at]),
         \A j \in 1..(i - 1) : LabelRules[j] \notin BrokenByLabel(labels[at])
  PROVE  IsFirst([rule |-> LabelRules[i], at |-> at])
<1> DEFINE e == [rule |-> LabelRules[i], at |-> at]
<1>1. Place[e.rule] = <<3, i>> /\ e.rule \in DOMAIN Place /\ e.at = at
  BY Places, RulesHavePlaces
<1>2. \A rule : rule \in BrokenByLabel(labels[at]) <=> WrongWithLabel(file, rule, at)
  BY LabelAtHand DEF HeaderPassed
<1>3. e \in Faults
  <2>1. at \in DOMAIN file.labels
    BY ParsedLists
  <2> QED
    BY <1>1, <1>2, <2>1, IsFault
<1>4. at \in 1..Len(labels) /\ DOMAIN labels = 1..Len(labels) /\ Len(labels) \in Nat
  BY LengthOfList DEF ListsOK
<1>5. ASSUME NEW f \in Faults PROVE ~Sooner(f, e)
  <2> HIDE DEF e
  <2>1. CASE Place[f.rule] = <<4, 1>>
    <3>1. Place[f.rule][1] = 4 /\ Place[e.rule][1] = 3
      BY <1>1, <2>1
    <3> QED
      BY <3>1, LaterPart
  <2>2. CASE \E k \in 1..5 : Place[f.rule] = <<5, k>>
    <3>1. PICK k \in 1..5 : Place[f.rule] = <<5, k>>
      BY <2>2
    <3>2. Place[f.rule][1] = 5 /\ Place[e.rule][1] = 3
      BY <1>1, <3>1
    <3> QED
      BY <3>2, LaterPart
  <2>3. CASE f.at \in DOMAIN labels /\ WrongWithLabel(file, f.rule, f.at)
    <3>1. PICK k \in 1..6 : f.rule = LabelRules[k] /\ Place[f.rule] = <<3, k>>
      BY <2>3, LabelPart
    <3>2. ~(f.at < at)
      <4>1. SUFFICES ASSUME f.at < at PROVE FALSE
        OBVIOUS
      <4>2. f.at \in 1..(at - 1) /\ at - 1 \in Nat /\ at - 1 <= Len(labels)
        BY <1>4, <2>3, <4>1
      <4> QED
        BY <2>3, <4>2, LabelBehind DEF HeaderPassed
    <3>3. ~(f.at = at /\ k < i)
      BY <1>2, <2>3, <3>1
    <3>4. /\ Place[f.rule][1] = 3 /\ Place[f.rule][2] = k
          /\ Place[e.rule][1] = 3 /\ Place[e.rule][2] = i
      BY <1>1, <3>1
    <3> QED
      BY <1>1, <3>2, <3>3, <3>4, SamePart
  <2> QED
    BY <2>1, <2>2, <2>3, PastHeader
<1> QED
  BY <1>3, <1>5 DEF IsFirst

\* The loop over the labels has left no fault.
LEMMA PastLabelFaults ==
  ASSUME HeaderPassed, Parsed, ListsOK, GroupFaults = {},
         LabelsPassed(Len(labels)), LabelsFit(Len(labels)), NEW f \in Faults
  PROVE  \/ f.at = 0 /\ Place[f.rule] = <<4, 1>> /\ ~(ToSet(file.defaults) \subseteq Defined)
         \/ /\ f.at \in DOMAIN renames /\ WrongWithRename(file, f.rule, f.at)
            /\ \E k \in 1..5 : f.rule = RenameRules[k] /\ Place[f.rule] = <<5, k>>
<1>1. Len(labels) \in Nat /\ DOMAIN labels = 1..Len(labels)
  BY LengthOfList DEF ListsOK
<1>2. \A i \in DOMAIN labels : \A rule : ~WrongWithLabel(file, rule, i)
  BY <1>1, LabelBehind DEF HeaderPassed
<1> QED
  BY <1>2, PastHeader

LEMMA DefaultFirst ==
  ASSUME HeaderPassed, Parsed, ListsOK, GroupFaults = {},
         LabelsPassed(Len(labels)), LabelsFit(Len(labels)), ~(ToSet(file.defaults) \subseteq Defined)
  PROVE  IsFirst([rule |-> "unknown_default", at |-> 0])
<1> DEFINE e == [rule |-> "unknown_default", at |-> 0]
<1>1. Place[e.rule] = <<4, 1>> /\ e.rule \in DOMAIN Place /\ e.at = 0
  BY Places, RulesHavePlaces
<1>2. e \in Faults
  BY <1>1, IsFault DEF WrongAsWhole, WrongWithFile, HeaderPassed, Defined
<1>3. ASSUME NEW f \in Faults PROVE ~Sooner(f, e)
  <2> HIDE DEF e
  <2>1. CASE f.at = 0 /\ Place[f.rule] = <<4, 1>>
    BY <1>1, <2>1, SamePart
  <2>2. CASE \E k \in 1..5 : Place[f.rule] = <<5, k>>
    <3>1. PICK k \in 1..5 : Place[f.rule] = <<5, k>>
      BY <2>2
    <3>2. Place[f.rule][1] = 5 /\ Place[e.rule][1] = 4
      BY <1>1, <3>1
    <3> QED
      BY <3>2, LaterPart
  <2> QED
    BY <2>1, <2>2, PastLabelFaults
<1> QED
  BY <1>2, <1>3 DEF IsFirst

LEMMA RenameFirst ==
  ASSUME HeaderPassed, Parsed, ListsOK, GroupFaults = {},
         LabelsPassed(Len(labels)), LabelsFit(Len(labels)), ToSet(file.defaults) \subseteq Defined,
         at \in DOMAIN renames, RenamesPassed(at - 1), RenamesFit(at - 1),
         NEW i \in 1..5, RenameRules[i] \in BrokenByRename(renames[at]),
         \A j \in 1..(i - 1) : RenameRules[j] \notin BrokenByRename(renames[at])
  PROVE  IsFirst([rule |-> RenameRules[i], at |-> at])
<1> DEFINE e == [rule |-> RenameRules[i], at |-> at]
<1>1. Place[e.rule] = <<5, i>> /\ e.rule \in DOMAIN Place /\ e.at = at
  BY Places, RulesHavePlaces
<1>2. \A rule : rule \in BrokenByRename(renames[at]) <=> WrongWithRename(file, rule, at)
  BY RenameAtHand
<1>3. e \in Faults
  <2>1. at \in DOMAIN file.renames
    BY ParsedLists
  <2> QED
    BY <1>1, <1>2, <2>1, IsFault
<1>4. at \in 1..Len(renames) /\ DOMAIN renames = 1..Len(renames) /\ Len(renames) \in Nat
  BY LengthOfList DEF ListsOK
<1>5. ASSUME NEW f \in Faults PROVE ~Sooner(f, e)
  <2> HIDE DEF e
  <2>1. f.at \in DOMAIN renames /\ WrongWithRename(file, f.rule, f.at)
    BY PastLabelFaults
  <2>2. PICK k \in 1..5 : f.rule = RenameRules[k] /\ Place[f.rule] = <<5, k>>
    BY <2>1, RenamePart
  <2>3. ~(f.at < at)
    <3>1. SUFFICES ASSUME f.at < at PROVE FALSE
      OBVIOUS
    <3>2. f.at \in 1..(at - 1) /\ at - 1 \in Nat /\ at - 1 <= Len(renames)
      BY <1>4, <2>1, <3>1
    <3> QED
      BY <2>1, <3>2, RenameBehind
  <2>4. ~(f.at = at /\ k < i)
    BY <1>2, <2>1, <2>2
  <2>5. /\ Place[f.rule][1] = 5 /\ Place[f.rule][2] = k
        /\ Place[e.rule][1] = 5 /\ Place[e.rule][2] = i
    BY <1>1, <2>2
  <2> QED
    BY <1>1, <2>3, <2>4, <2>5, SamePart
<1> QED
  BY <1>3, <1>5 DEF IsFirst

\* At the end of Validate nothing is left.
LEMMA NothingWrong ==
  ASSUME HeaderPassed, Parsed, ListsOK, GroupFaults = {},
         LabelsPassed(Len(labels)), LabelsFit(Len(labels)), ToSet(file.defaults) \subseteq Defined,
         RenamesPassed(Len(renames)), RenamesFit(Len(renames))
  PROVE  Faults = {}
<1>1. Len(renames) \in Nat /\ DOMAIN renames = 1..Len(renames)
  BY LengthOfList DEF ListsOK
<1>2. \A i \in DOMAIN renames : \A rule : ~WrongWithRename(file, rule, i)
  BY <1>1, RenameBehind
<1> QED
  BY <1>2, PastLabelFaults

\* No chain of renames is left for the last loop.
LEMMA NoChain ==
  ASSUME ListsOK, RenamesPassed(Len(renames)), NEW i \in DOMAIN renames
  PROVE  Lower[renames[i].to] \notin froms
<1>1. DOMAIN renames = 1..Len(renames)
  BY LengthOfList DEF ListsOK
<1> QED
  BY <1>1 DEF RenamesPassed
-----------------------------------------------------------------------------
(***************************************************************************)
(* Every step keeps it so.                                                 *)
(***************************************************************************)

LEMMA FaultsKept == UNCHANGED <<file, config>> => Faults' = Faults
<1> SUFFICES ASSUME UNCHANGED <<file, config>> PROVE Faults' = Faults
  OBVIOUS
<1>1. GroupFaults' = GroupFaults
  BY MeaningKept
<1>2. \A rule : WrongAsWhole(rule)' <=> WrongAsWhole(rule)
  BY <1>1 DEF WrongAsWhole, WrongWithFile
<1>3. \A rule, i : WrongWithLabel(file, rule, i)' <=> WrongWithLabel(file, rule, i)
  BY DEF WrongWithLabel, FoldedName
<1>4. \A rule, i : WrongWithRename(file, rule, i)' <=> WrongWithRename(file, rule, i)
  BY DEF WrongWithRename, FoldedName, FoldedFrom, FoldedTo
<1> QED
  BY <1>2, <1>3, <1>4 DEF Faults, WrongAsWhole

LEMMA FirstKept ==
  ASSUME NEW e, IsFirst(e), UNCHANGED <<file, config>>, error' = e
  PROVE  IsFirst(error)'
BY FaultsKept DEF IsFirst, Sooner

LEMMA BehindKept ==
  ASSUME BehindInv, UNCHANGED <<path, file, labels, renames, config, stage, at>>
  PROVE  BehindInv'
<1>1. Parsed => Parsed'
  BY DEF Parsed, Normalized
<1>2. HeaderPassed => HeaderPassed'
  BY DEF HeaderPassed
<1>3. /\ LabelsFit(at - 1) => LabelsFit(at - 1)'
      /\ LabelsFit(Len(labels)) => LabelsFit(Len(labels))'
      /\ RenamesFit(at - 1) => RenamesFit(at - 1)'
      /\ RenamesFit(Len(renames)) => RenamesFit(Len(renames))'
  BY DEF LabelsFit, RenamesFit
<1> QED
  BY <1>1, <1>2, <1>3 DEF BehindInv, Defined

\* A refusal that names the first fault.
LEMMA RefusedFirst ==
  ASSUME NEW rule, Reject(rule), IsFirst([rule |-> rule, at |-> at]), UNCHANGED <<file, config>>
  PROVE  ReportInv'
<1>1. stage' = "rejected" /\ error' = [rule |-> rule, at |-> at]
  BY DEF Reject
<1>2. IsFirst(error)'
  BY <1>1, FirstKept
<1> QED
  BY <1>1, <1>2 DEF ReportInv, BehindInv, Reported

LEMMA LoadReports == ReportInv /\ Load => ReportInv'
<1> SUFFICES ASSUME ReportInv, Load PROVE ReportInv'
  OBVIOUS
<1>1. stage = "shell" /\ path = NoPath
  BY DEF Load, ReportInv, BehindInv
<1>2. CASE (Reject("config_not_found") \/ Reject("ambiguous_config_file")) /\ UNCHANGED <<path, file>>
  BY <1>1, <1>2 DEF Reject, ReportInv, BehindInv, Reported
<1>3. CASE Turn("read", 0)
  BY <1>3 DEF Turn, ReportInv, BehindInv, Reported
<1> QED
  BY <1>2, <1>3 DEF Load

LEMMA ParseReports == ReportInv /\ Parse => ReportInv'
<1> SUFFICES ASSUME ReportInv, Parse PROVE ReportInv'
  OBVIOUS
<1>1. stage' = "parsed" /\ at' = 0 /\ UNCHANGED file
  BY DEF Parse, Turn, content
<1>2. Parsed'
  BY <1>1 DEF Parse, Parsed, Normalized
<1> QED
  BY <1>1, <1>2 DEF ReportInv, BehindInv, Reported

\* Parsed is about the file and the lists only.
LEMMA ParsedKept == Parsed /\ UNCHANGED <<file, labels, renames>> => Parsed'
BY DEF Parsed, Normalized

LEMMA HeaderReports == ReportInv /\ PassInv /\ CheckHeader => ReportInv'
<1> SUFFICES ASSUME ReportInv, PassInv, CheckHeader PROVE ReportInv'
  OBVIOUS
<1>1. /\ Parsed /\ at = 0 /\ UNCHANGED <<file, labels, renames>>
      /\ FileOK /\ ListsOK
  BY DEF CheckHeader, ReportInv, BehindInv, content, parsed, PassInv
<1>2. CASE file.version # 1 /\ Reject("unsupported_version") /\ UNCHANGED config
  BY <1>1, <1>2, HeaderFirst, RefusedFirst
<1>3. CASE file.version = 1 /\ labels = <<>> /\ Reject("empty_config") /\ UNCHANGED config
  BY <1>1, <1>3, HeaderFirst, RefusedFirst
<1>4. CASE file.version = 1 /\ labels # <<>> /\ Turn("groups", 0) /\ config' = file.groups
  <2>1. stage' = "groups" /\ at' = 0
    BY <1>4 DEF Turn
  <2>2. Parsed' /\ HeaderPassed'
    BY <1>1, <1>4, ParsedKept DEF HeaderPassed
  <2> QED
    BY <2>1, <2>2 DEF ReportInv, BehindInv, Reported
<1> QED
  BY <1>2, <1>3, <1>4 DEF CheckHeader

LEMMA GroupsReport == ReportInv /\ PassInv /\ LoadInv /\ (CheckGroups \/ EndGroups) => ReportInv'
<1> SUFFICES ASSUME ReportInv, PassInv, LoadInv, CheckGroups \/ EndGroups PROVE ReportInv'
  OBVIOUS
<1>1. /\ stage = "groups" /\ Parsed /\ HeaderPassed /\ at = 0 /\ ListsOK
      /\ UNCHANGED <<path, file, labels, renames>>
  BY DEF CheckGroups, EndGroups, ReportInv, BehindInv, content, parsed, PassInv
<1>2. CASE CheckGroups
  <2>1. UNCHANGED <<stage, at, config>>
    BY <1>2, ResolveKeepsConfig DEF CheckGroups
  <2> QED
    BY <1>1, <2>1, BehindKept DEF ReportInv, Reported
<1>3. CASE EndGroups /\ outcome \notin {"checking", "flattening", "resolved"} /\ Reject(outcome)
  <2>1. outcome \in GroupFaults
    BY <1>3 DEF LoadInv, WalkInv, FaultOK
  <2>2. UNCHANGED <<file, config>>
    BY <1>1, <1>3 DEF EndGroups, resolveVars
  <2>3. IsFirst([rule |-> outcome, at |-> at])
    BY <1>1, <2>1, GroupFirst
  <2> QED
    BY <1>3, <2>2, <2>3, RefusedFirst
<1>4. CASE EndGroups /\ Turn("labels", 1)
  <2>1. UNCHANGED config /\ stage' = "labels" /\ at' = 1
    BY <1>4 DEF EndGroups, resolveVars, Turn
  <2>2. Parsed' /\ HeaderPassed' /\ LabelsFit(at - 1)'
    BY <1>1, <2>1, ParsedKept DEF HeaderPassed, LabelsFit
  <2> QED
    BY <2>1, <2>2 DEF ReportInv, BehindInv, Reported
<1> QED
  BY <1>2, <1>3, <1>4 DEF EndGroups

LEMMA LabelReports == ReportInv /\ PassInv /\ LoadInv /\ CheckLabel => ReportInv'
<1> SUFFICES ASSUME ReportInv, PassInv, LoadInv, CheckLabel PROVE ReportInv'
  OBVIOUS
<1>1. /\ stage = "labels" /\ at \in DOMAIN labels /\ Parsed /\ HeaderPassed /\ ListsOK
      /\ LabelsFit(at - 1) /\ LabelsPassed(at - 1)
      /\ UNCHANGED <<path, file, labels, renames, config>>
  BY DEF CheckLabel, ReportInv, BehindInv, content, parsed, resolveVars, PassInv, LabelLoop
<1>2. GroupFaults = {}
  BY <1>1, ResolvedGroups DEF LoadInv, Resolves
<1>3. CASE RejectFirst(LabelRules, BrokenByLabel(labels[at]))
  <2>1. DOMAIN LabelRules = 1..6
    BY DEF LabelRules
  <2>2. PICK i \in 1..6 : /\ LabelRules[i] \in BrokenByLabel(labels[at])
                          /\ \A j \in 1..(i - 1) : LabelRules[j] \notin BrokenByLabel(labels[at])
                          /\ Reject(LabelRules[i])
    BY <1>3, <2>1 DEF RejectFirst
  <2>3. IsFirst([rule |-> LabelRules[i], at |-> at])
    BY <1>1, <1>2, <2>2, LabelFirst
  <2> QED
    BY <1>1, <2>2, <2>3, RefusedFirst
<1>4. CASE BrokenByLabel(labels[at]) = {} /\ Turn("labels", at + 1)
  <2>1. stage' = "labels" /\ at' = at + 1
    BY <1>4 DEF Turn
  <2>2. labels[at].desc \notin LongDescs
    BY <1>4 DEF BrokenByLabel, Rules
  <2>3. at \in Nat /\ at >= 1 /\ 1..at = 1..(at - 1) \cup {at} /\ at' - 1 = at
    BY <1>1, <2>1, LengthOfList DEF ListsOK
  <2>4. LabelsFit(at - 1)'
    BY <1>1, <2>2, <2>3 DEF LabelsFit
  <2>5. Parsed' /\ HeaderPassed'
    BY <1>1, ParsedKept DEF HeaderPassed
  <2> QED
    BY <2>1, <2>4, <2>5 DEF ReportInv, BehindInv, Reported
<1> QED
  BY <1>3, <1>4 DEF CheckLabel

LEMMA EndLabelsReports == ReportInv /\ PassInv /\ EndLabels => ReportInv'
<1> SUFFICES ASSUME ReportInv, PassInv, EndLabels PROVE ReportInv'
  OBVIOUS
<1>1. /\ stage = "labels" /\ at \notin DOMAIN labels /\ Parsed /\ HeaderPassed /\ ListsOK
      /\ LabelsFit(at - 1) /\ at >= 1 /\ at <= Len(labels) + 1
      /\ UNCHANGED <<path, file, labels, renames, config>>
      /\ stage' = "defaults" /\ at' = 0
  BY DEF EndLabels, ReportInv, BehindInv, content, parsed, resolveVars, PassInv, LabelLoop, Turn
<1>2. at - 1 = Len(labels)
  BY <1>1, LengthOfList DEF ListsOK
<1>3. Parsed' /\ HeaderPassed' /\ LabelsFit(Len(labels))'
  BY <1>1, <1>2, ParsedKept DEF HeaderPassed, LabelsFit
<1> QED
  BY <1>1, <1>3 DEF ReportInv, BehindInv, Reported

\* Past the loop over the labels.
LEMMA PastLabelsHolds ==
  ASSUME ReportInv, PassInv, LoadInv, stage \in {"defaults", "renames", "chains", "accepted"}
  PROVE  /\ Parsed /\ HeaderPassed /\ ListsOK /\ GroupFaults = {}
         /\ LabelsPassed(Len(labels)) /\ LabelsFit(Len(labels))
BY ResolvedGroups DEF ReportInv, BehindInv, PassInv, LabelLoop, LoadInv, Resolves

LEMMA PastLabelsKept ==
  ASSUME Parsed, HeaderPassed, LabelsFit(Len(labels)), UNCHANGED <<file, labels, renames, config>>
  PROVE  Parsed' /\ HeaderPassed' /\ LabelsFit(Len(labels))'
BY ParsedKept DEF HeaderPassed, LabelsFit

LEMMA DefaultsReport == ReportInv /\ PassInv /\ LoadInv /\ CheckDefaults => ReportInv'
<1> SUFFICES ASSUME ReportInv, PassInv, LoadInv, CheckDefaults PROVE ReportInv'
  OBVIOUS
<1>1. stage = "defaults" /\ at = 0 /\ UNCHANGED <<path, file, labels, renames, config>>
  BY DEF CheckDefaults, ReportInv, BehindInv, content, parsed, resolveVars
<1>2. /\ Parsed /\ HeaderPassed /\ ListsOK /\ GroupFaults = {}
      /\ LabelsPassed(Len(labels)) /\ LabelsFit(Len(labels))
  BY <1>1, PastLabelsHolds
<1>3. CASE ~(ToSet(file.defaults) \subseteq Defined)
  <2>1. Reject("unknown_default")
    BY <1>3 DEF CheckDefaults
  <2> QED
    BY <1>1, <1>2, <1>3, <2>1, DefaultFirst, RefusedFirst
<1>4. CASE ToSet(file.defaults) \subseteq Defined
  <2>1. stage' = "renames" /\ at' = 1
    BY <1>4 DEF CheckDefaults, Turn
  <2>2. Parsed' /\ HeaderPassed' /\ LabelsFit(Len(labels))'
    BY <1>1, <1>2, PastLabelsKept
  <2>3. RenamesFit(at - 1)' /\ (ToSet(file.defaults) \subseteq Defined)'
    BY <1>1, <1>4, <2>1 DEF RenamesFit, Defined
  <2> QED
    BY <2>1, <2>2, <2>3 DEF ReportInv, BehindInv, Reported
<1> QED
  BY <1>3, <1>4

LEMMA RenameReports == ReportInv /\ PassInv /\ LoadInv /\ CheckRename => ReportInv'
<1> SUFFICES ASSUME ReportInv, PassInv, LoadInv, CheckRename PROVE ReportInv'
  OBVIOUS
<1>1. /\ stage = "renames" /\ at \in DOMAIN renames /\ ToSet(file.defaults) \subseteq Defined
      /\ RenamesFit(at - 1) /\ RenamesPassed(at - 1)
      /\ UNCHANGED <<path, file, labels, renames, config>>
  BY DEF CheckRename, ReportInv, BehindInv, content, parsed, resolveVars, PassInv, RenameLoop
<1>2. /\ Parsed /\ HeaderPassed /\ ListsOK /\ GroupFaults = {}
      /\ LabelsPassed(Len(labels)) /\ LabelsFit(Len(labels))
  BY <1>1, PastLabelsHolds
<1>3. CASE RejectFirst(RenameRules, BrokenByRename(renames[at]))
  <2>1. DOMAIN RenameRules = 1..5
    BY DEF RenameRules
  <2>2. PICK i \in 1..5 : /\ RenameRules[i] \in BrokenByRename(renames[at])
                          /\ \A j \in 1..(i - 1) : RenameRules[j] \notin BrokenByRename(renames[at])
                          /\ Reject(RenameRules[i])
    BY <1>3, <2>1 DEF RejectFirst
  <2>3. IsFirst([rule |-> RenameRules[i], at |-> at])
    BY <1>1, <1>2, <2>2, RenameFirst
  <2> QED
    BY <1>1, <2>2, <2>3, RefusedFirst
<1>4. CASE BrokenByRename(renames[at]) = {} /\ Turn("renames", at + 1)
  <2>1. stage' = "renames" /\ at' = at + 1
    BY <1>4 DEF Turn
  <2>2. Blank \notin {renames[at].from, renames[at].to}
    BY <1>4 DEF BrokenByRename, Rules
  <2>3. at \in Nat /\ at >= 1 /\ 1..at = 1..(at - 1) \cup {at} /\ at' - 1 = at
    BY <1>1, <1>2, <2>1, LengthOfList DEF ListsOK
  <2>4. RenamesFit(at - 1)' /\ (ToSet(file.defaults) \subseteq Defined)'
    BY <1>1, <2>2, <2>3 DEF RenamesFit, Defined
  <2>5. Parsed' /\ HeaderPassed' /\ LabelsFit(Len(labels))'
    BY <1>1, <1>2, PastLabelsKept
  <2> QED
    BY <2>1, <2>4, <2>5 DEF ReportInv, BehindInv, Reported
<1> QED
  BY <1>3, <1>4 DEF CheckRename

LEMMA EndRenamesReports == ReportInv /\ PassInv /\ LoadInv /\ EndRenames => ReportInv'
<1> SUFFICES ASSUME ReportInv, PassInv, LoadInv, EndRenames PROVE ReportInv'
  OBVIOUS
<1>1. /\ stage = "renames" /\ at \notin DOMAIN renames /\ ToSet(file.defaults) \subseteq Defined
      /\ RenamesFit(at - 1) /\ at >= 1 /\ at <= Len(renames) + 1
      /\ UNCHANGED <<path, file, labels, renames, config>>
      /\ stage' = "chains" /\ at' = 0
  BY DEF EndRenames, ReportInv, BehindInv, content, parsed, resolveVars, PassInv, RenameLoop, Turn
<1>2. Parsed /\ HeaderPassed /\ ListsOK /\ LabelsFit(Len(labels))
  BY <1>1, PastLabelsHolds
<1>3. at - 1 = Len(renames)
  BY <1>1, <1>2, LengthOfList DEF ListsOK
<1>4. RenamesFit(Len(renames))' /\ (ToSet(file.defaults) \subseteq Defined)'
  BY <1>1, <1>3 DEF RenamesFit, Defined
<1>5. Parsed' /\ HeaderPassed' /\ LabelsFit(Len(labels))'
  BY <1>1, <1>2, PastLabelsKept
<1> QED
  BY <1>1, <1>4, <1>5 DEF ReportInv, BehindInv, Reported

LEMMA ChainsReport == ReportInv /\ PassInv /\ LoadInv /\ CheckChains => ReportInv'
<1> SUFFICES ASSUME ReportInv, PassInv, LoadInv, CheckChains PROVE ReportInv'
  OBVIOUS
<1>1. /\ stage = "chains" /\ ToSet(file.defaults) \subseteq Defined
      /\ RenamesFit(Len(renames)) /\ RenamesPassed(Len(renames))
      /\ UNCHANGED <<path, file, labels, renames, config>>
  BY DEF CheckChains, ReportInv, BehindInv, content, parsed, resolveVars, PassInv, RenameLoop
<1>2. Parsed /\ HeaderPassed /\ ListsOK /\ LabelsFit(Len(labels))
  BY <1>1, PastLabelsHolds
<1>3. stage' = "accepted" /\ at' = 0
  BY <1>1, <1>2, NoChain DEF CheckChains, Turn
<1>4. RenamesFit(Len(renames))' /\ (ToSet(file.defaults) \subseteq Defined)'
  BY <1>1 DEF RenamesFit, Defined
<1>5. Parsed' /\ HeaderPassed' /\ LabelsFit(Len(labels))'
  BY <1>1, <1>2, PastLabelsKept
<1> QED
  BY <1>3, <1>4, <1>5 DEF ReportInv, BehindInv, Reported

\* Nothing wrong has been passed over, at any point.
THEOREM ReportsHold == Spec => []ReportInv
<1>1. Init => ReportInv
  BY DEF Init, ReportInv, BehindInv, Reported
<1>2. ReportInv /\ PassInv /\ LoadInv /\ [Next]_vars => ReportInv'
  <2> SUFFICES ASSUME ReportInv, PassInv, LoadInv, [Next]_vars PROVE ReportInv'
    OBVIOUS
  <2>1. CASE LoadStep
    BY <2>1, LoadReports, ParseReports, HeaderReports, GroupsReport, LabelReports, EndLabelsReports,
       DefaultsReport, RenameReports, EndRenamesReports, ChainsReport DEF LoadStep
  <2>2. CASE \E by, p, document : Write(by, p, document)
    <3>1. stage = "shell" /\ UNCHANGED <<path, stage, at>>
      BY <2>2 DEF Write
    <3> QED
      BY <3>1 DEF ReportInv, BehindInv, Reported
  <2>3. CASE UNCHANGED vars
    <3>1. UNCHANGED <<path, file, labels, renames, config, stage, at, error>>
      BY <2>3 DEF vars, content, parsed, resolveVars
    <3>2. IsFirst(error) => IsFirst(error)'
      BY <3>1, FirstKept
    <3> QED
      BY <3>1, <3>2, BehindKept DEF ReportInv, Reported
  <2> QED
    BY <2>1, <2>2, <2>3 DEF Next, RunInit, RunExport
<1> QED
  BY <1>1, <1>2, LoadingGoesWell, PTL DEF Spec

\* A file that is accepted has nothing wrong in it, and of one that is refused
\* the first fault is named, for every file.
THEOREM FirstFault == Spec => []FirstFaultIsReported
<1>1. ReportInv /\ PassInv /\ LoadInv => FirstFaultIsReported
  <2> SUFFICES ASSUME ReportInv, PassInv, LoadInv PROVE FirstFaultIsReported
    OBVIOUS
  <2>1. ASSUME stage = "accepted" PROVE Faults = {}
    <3>1. /\ Parsed /\ HeaderPassed /\ ListsOK /\ GroupFaults = {}
          /\ LabelsPassed(Len(labels)) /\ LabelsFit(Len(labels))
      BY <2>1, PastLabelsHolds
    <3>2. /\ ToSet(file.defaults) \subseteq Defined
          /\ RenamesPassed(Len(renames)) /\ RenamesFit(Len(renames))
      BY <2>1 DEF ReportInv, BehindInv, PassInv, RenameLoop
    <3> QED
      BY <3>1, <3>2, NothingWrong
  <2> QED
    BY <2>1 DEF FirstFaultIsReported, ReportInv, Reported, IsFirst
<1> QED
  BY <1>1, ReportsHold, LoadingGoesWell, PTL
-----------------------------------------------------------------------------
(***************************************************************************)
(* What init and export have written last.  It is on disk as it was        *)
(* written, Find comes to it from any --config that looks there, and       *)
(* nothing is wrong with it but the colours an export has found twice.     *)
(***************************************************************************)

IsWritten(w) ==
  /\ w.to \in DOMAIN disk
  /\ w.by = "init" => disk[w.to] = Scaffold /\ OtherSpelling(w.to) \cap DOMAIN disk = {}
  /\ w.by = "export" => /\ Present(held) # {}
                        /\ \E order \in Orders(held) : disk[w.to] = Exported(held, order)

IsLoaded(w) == path = w.to /\ file = disk[w.to]

IsRefused(w) ==
  /\ w.by = "export" /\ OtherSpelling(w.to) \cap DOMAIN disk # {}
  /\ stage = "rejected" /\ path = NoPath /\ error.rule = "ambiguous_config_file"

WrittenInv ==
  /\ IsHeld(held)
  /\ writes # <<>> => IsWritten(Last(writes))
  /\ writes # <<>> /\ LooksAt(Last(writes).to) /\ stage # "shell" =>
       IsLoaded(Last(writes)) \/ IsRefused(Last(writes))
  /\ path # NoPath => file = disk[path]
  /\ stage \notin {"shell", "read"} /\ path # NoPath => Parsed
  /\ stage # "shell" => config \in {<<>>, file.groups}

LEMMA PathsAreNoAnswers ==
  ASSUME NEW p \in Paths
  PROVE  /\ p # NoPath /\ p \in Answers /\ <<p[1]>> \notin Paths /\ <<p[1]>> # <<>>
         /\ <<p[1]>>[1] = p[1]
BY DEF Paths, NoPath, Answers, Dirs

\* Find comes to a file it is made to look at, alone or with the other spelling.
LEMMA FindsIt ==
  ASSUME NEW p \in DOMAIN disk, DOMAIN disk \subseteq Paths, LooksAt(p)
  PROVE  p \in Find /\ \A q \in Find : q = p \/ q \in OtherSpelling(p)
<1>1. p \in Paths
  OBVIOUS
<1>2. \A d : FindInDir(d) \subseteq DOMAIN disk /\ \A q \in FindInDir(d) : q[1] = d
  BY DEF FindInDir
<1>3. p \in FindInDir(p[1]) /\ \A q \in FindInDir(p[1]) : q = p \/ q \in OtherSpelling(p)
  BY <1>2 DEF FindInDir, OtherSpelling
<1>4. CASE explicit = p
  <2>1. explicit \in Paths /\ explicit # <<>>
    BY <1>1, <1>4, PathsAreNoAnswers DEF NoPath
  <2>2. Find = {explicit} \cap DOMAIN disk
    BY <2>1 DEF Find
  <2> QED
    BY <1>4, <2>2
<1>5. CASE explicit = <<p[1]>>
  <2>1. explicit \notin Paths /\ explicit # <<>> /\ explicit[1] = p[1]
    BY <1>1, <1>5, PathsAreNoAnswers
  <2>2. Find = FindInDir(p[1])
    BY <2>1 DEF Find
  <2> QED
    BY <1>3, <2>2
<1>6. CASE explicit = <<>> /\ p[1] = "working"
  <2>1. explicit \notin Paths
    BY <1>6, PathsAreNoAnswers DEF NoPath
  <2>2. FindInDir("working") # {}
    BY <1>3, <1>6
  <2>3. Find = FindInDir("working")
    BY <1>6, <2>1, <2>2 DEF Find
  <2> QED
    BY <1>3, <1>6, <2>3
<1> QED
  BY <1>4, <1>5, <1>6 DEF LooksAt

-----------------------------------------------------------------------------
(***************************************************************************)
(* What is wrong with a scaffold, and with an export.                      *)
(***************************************************************************)

LEMMA PlainGroups ==
  ASSUME \A g \in Defined : /\ Cardinality(config[g].sources) = 1
                            /\ config[g].includes = <<>> /\ config[g].valid
  PROVE  GroupFaults = {}
<1>1. ToSet(<<>>) = {}
  BY DEF ToSet
<1>2. ASSUME NEW g \in Defined PROVE ~OnCycle(g) /\ ToSet(config[g].includes) \subseteq Defined
  <2>1. IncludesOf(g) = {}
    BY <1>1 DEF IncludesOf
  <2> QED
    BY <1>1, <2>1 DEF OnCycle
<1> QED
  BY <1>2 DEF GroupFaults

LEMMA ScaffoldIsClean ==
  ASSUME file = Scaffold, config \in {<<>>, file.groups}
  PROVE  Faults = {}
<1>1. GroupFaults = {}
  <2>1. \A g \in Defined : /\ Cardinality(config[g].sources) = 1
                           /\ config[g].includes = <<>> /\ config[g].valid
    BY ScaffoldAssumption DEF Defined
  <2> QED
    BY <2>1, PlainGroups
<1>2. DOMAIN Place \subseteq Rules
  BY DEF Place, Rules
<1>3. SUFFICES ASSUME NEW f \in Faults PROVE FALSE
  OBVIOUS
<1>4. f.rule \in Rules
  BY <1>2 DEF Faults
<1> QED
  BY <1>1, <1>4, FaultParts, ScaffoldAssumption DEF WrongAsWhole

\* The labels of an exported file, one by one.
LEMMA ExportedEntries ==
  ASSUME NEW v, IsHeld(v), NEW order \in Orders(v)
  PROVE  /\ Exported(v, order).labels \in Seq(RawLabel)
         /\ DOMAIN Exported(v, order).labels = DOMAIN order
         /\ Present(v) # {} => DOMAIN order # {}
         /\ \A i \in DOMAIN order :
              LET l == Exported(v, order).labels[i]
              IN  /\ l \in RawLabel /\ Trim[l.name] = l.name /\ l.name \notin UnfitNames
                  /\ l.color \in Colors /\ Bare[l.color] = l.color
                  /\ l.desc \notin LongDescs /\ l.groups = <<>> /\ Lower[l.name] = order[i]
         /\ \A i, j \in DOMAIN order : i < j => order[i] # order[j]
<1> DEFINE list == Exported(v, order).labels
<1>1. IsFiniteSet(Present(v)) /\ Cardinality(Present(v)) \in Nat
  <2>1. IsFiniteSet(Keys)
    <3>1. Keys \subseteq Names
      BY NamesAssumption DEF Keys
    <3> QED
      BY <3>1, LoadingAssumption, FS_Subset
  <2> QED
    BY <2>1, FS_Subset, FS_CardinalityType DEF Present
<1>2. order \in [1..Cardinality(Present(v)) -> Present(v)]
  BY DEF Orders
<1>3. list = [i \in DOMAIN order |-> ExportedLabel(v[order[i]])]
  BY DEF Exported
<1>4. list \in Seq(RawLabel)
  BY ExportedLists DEF ListsIn, IsHeld
<1>5. Present(v) # {} => DOMAIN order # {}
  <2>1. Present(v) # {} => Cardinality(Present(v)) >= 1
    BY <1>1, FS_EmptySet
  <2>2. DOMAIN order = 1..Cardinality(Present(v))
    BY <1>2
  <2>3. Present(v) # {} => 1 \in DOMAIN order
    BY <1>1, <2>1, <2>2
  <2> QED
    BY <2>3
<1>6. ASSUME NEW i \in DOMAIN order
      PROVE  /\ list[i] \in RawLabel /\ Trim[list[i].name] = list[i].name
             /\ list[i].name \notin UnfitNames /\ list[i].color \in Colors
             /\ Bare[list[i].color] = list[i].color
             /\ list[i].desc \notin LongDescs /\ list[i].groups = <<>> /\ Lower[list[i].name] = order[i]
  <2>1. order[i] \in Present(v)
    BY <1>2
  <2>2. /\ v[order[i]] \in Label /\ order[i] \in Keys /\ v[order[i]] # None
        /\ Trim[v[order[i]].name] = v[order[i]].name /\ v[order[i]].name \notin UnfitNames
        /\ v[order[i]].desc \notin LongDescs
    BY <2>1 DEF IsHeld, Present, Views
  <2>3. Lower[v[order[i]].name] = order[i]
    BY <2>2 DEF IsHeld, WellKeyed
  <2>4. v[order[i]].color \in Colors /\ Bare[v[order[i]].color] = v[order[i]].color
    BY <2>2, LoadingAssumption DEF Label
  <2>5. list[i] = [name |-> v[order[i]].name, color |-> v[order[i]].color,
                   desc |-> v[order[i]].desc, groups |-> <<>>]
    BY <1>3, <2>2, <2>4 DEF ExportedLabel
  <2>6. list[i] \in RawLabel
    BY <1>3, <1>4, ListElement
  <2> QED
    BY <2>2, <2>3, <2>4, <2>5, <2>6
<1>7. ASSUME NEW i \in DOMAIN order, NEW j \in DOMAIN order, i < j PROVE order[i] # order[j]
  <2>1. Rank[order[i]] < Rank[order[j]]
    BY <1>7 DEF Orders
  <2>2. order[i] \in Names /\ order[j] \in Names
    BY <1>2, NamesAssumption DEF Present, Keys
  <2> QED
    BY <2>1, <2>2, NamesAssumption
<1> QED
  BY <1>3, <1>4, <1>5, <1>6, <1>7

\* Nothing but a colour that comes twice is wrong with an exported file, and
\* that is flagged in it.
LEMMA ExportedFaults ==
  ASSUME NEW v, IsHeld(v), Present(v) # {}, NEW order \in Orders(v),
         file = Exported(v, order), config \in {<<>>, file.groups}
  PROVE  /\ \A f \in Faults :
              /\ f.rule = "duplicate_label_color" /\ f.at \in DOMAIN file.labels
              /\ \E j \in DOMAIN file.labels : j # f.at /\ file.labels[j].color = file.labels[f.at].color
         /\ file.notes # {} => Faults # {}
<1> DEFINE list == file.labels
<1>1. /\ file.version = 1 /\ file.groups = ExportedGroups /\ file.defaults = <<ExportGroup>>
      /\ file.renames = <<>> /\ file.notes = Duplicates(list)
  BY DEF Exported
<1>2. /\ list \in Seq(RawLabel) /\ DOMAIN list = DOMAIN order /\ DOMAIN list # {}
      /\ \A i \in DOMAIN list :
           /\ list[i] \in RawLabel /\ Trim[list[i].name] = list[i].name /\ list[i].name \notin UnfitNames
           /\ list[i].color \in Colors /\ Bare[list[i].color] = list[i].color
           /\ list[i].desc \notin LongDescs /\ list[i].groups = <<>> /\ Lower[list[i].name] = order[i]
      /\ \A i, j \in DOMAIN list : i < j => order[i] # order[j]
  BY ExportedEntries
<1>3. DOMAIN list = 1..Len(list) /\ Len(list) \in Nat /\ list # <<>>
  BY <1>2
<1>4. DOMAIN ExportedGroups = {ExportGroup} /\ ToSet(file.defaults) = {ExportGroup}
  BY <1>1 DEF ExportedGroups, ToSet
<1>5. GroupFaults = {}
  <2>1. \A g \in Defined : config[g] = [sources |-> {"repos"}, includes |-> <<>>, valid |-> TRUE]
    BY <1>1 DEF Defined, ExportedGroups
  <2>2. Cardinality({"repos"}) = 1
    BY FS_Singleton
  <2>3. \A g \in Defined : config[g].sources = {"repos"} /\ config[g].includes = <<>> /\ config[g].valid
    BY <2>1
  <2>4. \A g \in Defined : Cardinality(config[g].sources) = 1
    BY <2>2, <2>3
  <2> QED
    BY <2>3, <2>4, PlainGroups
<1>6. \A rule : ~WrongAsWhole(rule)
  BY <1>1, <1>3, <1>4, <1>5 DEF WrongAsWhole, WrongWithFile
<1>7. ASSUME NEW i \in DOMAIN list, NEW rule, WrongWithLabel(file, rule, i)
      PROVE  rule = "duplicate_label_color" /\ \E j \in 1..(i - 1) : list[j].color = list[i].color
  <2>1. \A j \in 1..(i - 1) : j \in DOMAIN list /\ j < i
    BY <1>3
  <2>2. \A j \in 1..(i - 1) : FoldedName(list[j]) # FoldedName(list[i])
    BY <1>2, <2>1 DEF FoldedName
  <2>3. \A j \in 1..(i - 1) : Bare[list[j].color] = list[j].color
    BY <1>2, <2>1
  <2>4. ToSet(IF list[i].groups = <<>> THEN file.defaults ELSE list[i].groups) \subseteq DOMAIN file.groups
    BY <1>1, <1>2, <1>4
  <2> QED
    BY <1>2, <1>7, <2>2, <2>3, <2>4 DEF WrongWithLabel
<1>8. DOMAIN file.renames = {}
  BY <1>1
<1>9. ASSUME NEW f \in Faults
      PROVE  /\ f.rule = "duplicate_label_color" /\ f.at \in DOMAIN list
             /\ \E j \in DOMAIN list : j # f.at /\ list[j].color = list[f.at].color
  <2>1. f.at \in DOMAIN list /\ WrongWithLabel(file, f.rule, f.at)
    BY <1>6, <1>8, FaultParts
  <2>2. PICK j \in 1..(f.at - 1) : list[j].color = list[f.at].color
    BY <1>7, <2>1
  <2>3. j \in DOMAIN list /\ j # f.at
    BY <1>3, <2>1
  <2> QED
    BY <1>7, <2>1, <2>2, <2>3
<1>10. ASSUME file.notes # {} PROVE Faults # {}
  <2>1. PICK i \in DOMAIN list : i \in Duplicates(list)
    BY <1>1, <1>10 DEF Duplicates
  <2>2. PICK j \in DOMAIN list : j # i /\ list[j].color = list[i].color
    BY <2>1 DEF Duplicates
  <2>3. PICK m \in DOMAIN list, n \in DOMAIN list : m < n /\ list[m].color = list[n].color
    <3>1. i < j \/ j < i
      BY <1>3, <2>1, <2>2
    <3> QED
      BY <2>2, <3>1
  <2>4. m \in 1..(n - 1)
    BY <1>3, <2>3
  <2>5. Bare[list[m].color] = Bare[list[n].color]
    BY <2>3
  <2>6. WrongWithLabel(file, "duplicate_label_color", n)
    BY <2>4, <2>5 DEF WrongWithLabel
  <2>7. "duplicate_label_color" \in DOMAIN Place
    BY DEF Place
  <2>8. [rule |-> "duplicate_label_color", at |-> n] \in Faults
    BY <2>6, <2>7, IsFault
  <2> QED
    BY <2>8
<1> QED
  BY <1>9, <1>10
-----------------------------------------------------------------------------
(***************************************************************************)
(* Every step keeps what has been written in sight.                        *)
(***************************************************************************)

LEMMA LastWritten ==
  ASSUME NEW S, NEW s \in Seq(S), NEW x \in S
  PROVE  Last(Append(s, x)) = x /\ Append(s, x) # <<>>
BY DEF Last

LEMMA LastIsOne ==
  ASSUME NEW S, NEW s \in Seq(S), s # <<>>
  PROVE  Last(s) \in S
<1>1. Len(s) \in Nat \ {0} /\ DOMAIN s = 1..Len(s)
  BY EmptySeq, LengthOfList
<1>2. Len(s) \in DOMAIN s
  BY <1>1
<1> QED
  BY <1>2, ListElement DEF Last

LEMMA LastWriteTyped ==
  ASSUME LoadInv, writes # <<>>
  PROVE  Last(writes).by \in {"init", "export"}
<1>1. writes \in Seq([by : {"init", "export"}, to : Paths])
  BY DEF LoadInv, LoadTypeOK
<1>2. Last(writes) \in [by : {"init", "export"}, to : Paths]
  BY <1>1, LastIsOne
<1> QED
  BY <1>2

\* A file is written, and nothing is there yet of what is loaded.
LEMMA WriteIsWritten ==
  ASSUME WrittenInv, LoadInv, ReportInv, NEW by \in {"init", "export"}, NEW p \in Paths, NEW document,
         Write(by, p, document),
         by = "init" => document = Scaffold /\ OtherSpelling(p) \cap DOMAIN disk = {},
         by = "export" => Present(held) # {} /\ \E order \in Orders(held) : document = Exported(held, order)
  PROVE  WrittenInv'
<1> DEFINE w == [by |-> by, to |-> p]
<1>1. /\ stage = "shell" /\ UNCHANGED <<held, stage>> /\ path' = NoPath
      /\ writes' = Append(writes, w)
      /\ disk' = [q \in DOMAIN disk \cup {p} |-> IF q = p THEN document ELSE disk[q]]
  BY DEF Write, WriteFile, ReportInv, BehindInv
<1>2. Last(writes') = w
  <2>1. writes \in Seq([by : {"init", "export"}, to : Paths])
    BY DEF LoadInv, LoadTypeOK
  <2>2. w \in [by : {"init", "export"}, to : Paths]
    OBVIOUS
  <2> QED
    BY <1>1, <2>1, <2>2, LastWritten
<1>3. /\ DOMAIN disk' = DOMAIN disk \cup {p} /\ disk'[p] = document
  BY <1>1
<1>4. p \notin OtherSpelling(p)
  BY DEF OtherSpelling
<1>5. /\ w.by = "init" => disk'[w.to] = Scaffold /\ OtherSpelling(w.to) \cap DOMAIN disk' = {}
      /\ w.by = "export" => /\ Present(held') # {}
                            /\ \E order \in Orders(held') : disk'[w.to] = Exported(held', order)
  BY <1>1, <1>3, <1>4
<1>6. ASSUME NEW x, x = w PROVE IsWritten(x)'
  BY <1>3, <1>5, <1>6 DEF IsWritten
<1>7. IsWritten(Last(writes))'
  BY <1>2, <1>6
<1> QED
  BY <1>1, <1>7 DEF WrittenInv

LEMMA WritesAreWritten ==
  ASSUME WrittenInv, LoadInv, ReportInv,
         \/ \E force \in BOOLEAN : RunInit(force)
         \/ \E out \in Answers \ {<<>>} : RunExport(out)
  PROVE  WrittenInv'
<1>1. explicit \in Answers
  BY DEF LoadInv, LoadTypeOK
<1>2. ASSUME NEW force \in BOOLEAN, RunInit(force) PROVE WrittenInv'
  <2>1. /\ Write("init", Destination(explicit), Scaffold)
        /\ OtherSpelling(Destination(explicit)) \cap DOMAIN disk = {}
    BY <1>2 DEF RunInit, MayScaffold
  <2>2. Destination(explicit) \in Paths
    BY <1>1, DestinationTyped
  <2> QED
    BY <2>1, <2>2, WriteIsWritten
<1>3. ASSUME NEW out \in Answers \ {<<>>}, RunExport(out) PROVE WrittenInv'
  <2>1. PICK order \in Orders(held) : Write("export", Destination(out), Exported(held, order))
    BY <1>3 DEF RunExport
  <2>2. Destination(out) \in Paths /\ Present(held) # {}
    BY <1>3, DestinationTyped DEF RunExport
  <2> QED
    BY <2>1, <2>2, WriteIsWritten
<1> QED
  BY <1>2, <1>3

LEMMA WrittenKept == ASSUME NEW w, IsWritten(w), UNCHANGED <<disk, held>> PROVE IsWritten(w)'
BY DEF IsWritten

\* Load comes to the file that was written last, or to two spellings.
LEMMA LoadComesToIt ==
  ASSUME WrittenInv, LoadInv, ReportInv, Load
  PROVE  WrittenInv'
<1> DEFINE w == Last(writes)
<1>1. /\ stage = "shell" /\ path = NoPath /\ config = <<>>
      /\ UNCHANGED <<held, disk, explicit, writes, config>>
  BY DEF Load, ReportInv, BehindInv, LoadInv, Early, resolveVars
<1>2. writes # <<>> => IsWritten(w)'
  BY <1>1, WrittenKept DEF WrittenInv
<1>3. IsHeld(held)'
  BY <1>1 DEF WrittenInv, IsHeld, WellKeyed, Present
<1>4. /\ stage' \in {"read", "rejected"} /\ (stage' = "rejected" => path' = NoPath)
      /\ path' # NoPath => file' = disk'[path']
  BY <1>1 DEF Load, Turn, Reject
<1>5. ASSUME writes # <<>>, LooksAt(w.to) PROVE IsLoaded(w)' \/ IsRefused(w)'
  <2>1. w.to \in DOMAIN disk
    BY <1>5 DEF WrittenInv, IsWritten
  <2>2. w.to \in Find /\ \A q \in Find : q = w.to \/ q \in OtherSpelling(w.to)
    BY <1>5, <2>1, FindsIt DEF LoadInv, LoadTypeOK
  <2>3. CASE Cardinality(Find) > 1 /\ Reject("ambiguous_config_file") /\ UNCHANGED <<path, file>>
    <3>1. Find # {w.to}
      <4>1. Cardinality({w.to}) = 1
        BY FS_Singleton
      <4> QED
        BY <2>3, <4>1
    <3>2. PICK q \in Find : q \in OtherSpelling(w.to)
      BY <2>2, <3>1
    <3>3. q \in DOMAIN disk
      BY <3>2 DEF Find, FindInDir
    <3>4. w.by = "export"
      <4>1. w.by # "init"
        BY <1>5, <3>2, <3>3 DEF WrittenInv, IsWritten
      <4> QED
        BY <1>5, <4>1, LastWriteTyped
    <3>5. /\ w.by' = "export" /\ stage' = "rejected" /\ path' = NoPath
          /\ error'.rule = "ambiguous_config_file" /\ OtherSpelling(w.to) \cap DOMAIN disk' # {}
      BY <1>1, <2>3, <3>2, <3>3, <3>4 DEF Reject
    <3>6. IsRefused(w)'
      BY <1>1, <3>5 DEF IsRefused
    <3> QED
      BY <3>6
  <2>4. CASE \E p \in Find : Find = {p} /\ path' = p /\ file' = disk[p] /\ Turn("read", 0)
    <3>1. path' = w.to /\ file' = disk[w.to]
      BY <2>2, <2>4
    <3> QED
      BY <1>1, <3>1 DEF IsLoaded
  <2> QED
    BY <2>2, <2>3, <2>4 DEF Load
<1>6. (writes # <<>> /\ LooksAt(Last(writes).to))' => writes # <<>> /\ LooksAt(w.to)
  BY <1>1 DEF LooksAt
<1> QED
  BY <1>1, <1>2, <1>3, <1>4, <1>5, <1>6 DEF WrittenInv

\* Once Load has looked for it, the file stays the one that is loaded.
LEMMA LoadedKept ==
  ASSUME WrittenInv, stage # "shell", stage' # "shell",
         UNCHANGED <<held, disk, explicit, writes, path, file>>,
         stage = "rejected" => UNCHANGED <<stage, error>>,
         stage' \notin {"shell", "read"} /\ path # NoPath => Parsed',
         config' \in {<<>>, file.groups}
  PROVE  WrittenInv'
<1> DEFINE w == Last(writes)
<1>1. writes # <<>> => IsWritten(w)'
  BY WrittenKept DEF WrittenInv
<1>2. IsHeld(held)'
  BY DEF WrittenInv, IsHeld, WellKeyed, Present
<1>3. LooksAt(w.to)' => LooksAt(w.to)
  BY DEF LooksAt
<1>4. (IsLoaded(w) => IsLoaded(w)') /\ (IsRefused(w) => IsRefused(w)')
  BY DEF IsLoaded, IsRefused
<1> QED
  BY <1>1, <1>2, <1>3, <1>4 DEF WrittenInv

LEMMA StepKeepsWritten ==
  ASSUME WrittenInv, LoadInv, ReportInv, LoadStep
  PROVE  WrittenInv'
<1>1. CASE Load
  BY <1>1, LoadComesToIt
<1>2. CASE Parse
  <2>1. /\ stage = "read" /\ stage' = "parsed" /\ UNCHANGED <<config, file>>
        /\ UNCHANGED <<held, disk, explicit, writes, path>>
    BY <1>2 DEF Parse, Turn, content, resolveVars
  <2>2. Parsed'
    BY <1>2, <2>1 DEF Parse, Parsed, Normalized
  <2>3. config' \in {<<>>, file.groups}
    BY <2>1 DEF WrittenInv
  <2> QED
    BY <2>1, <2>2, <2>3, LoadedKept
<1>3. CASE ~Load /\ ~Parse
  <2>1. /\ UNCHANGED <<held, disk, explicit, writes, path, file, labels, renames>>
        /\ stage \notin {"shell", "read", "rejected"}
    BY <1>3 DEF LoadStep, CheckHeader, CheckGroups, EndGroups, CheckLabel, EndLabels, CheckDefaults,
                CheckRename, EndRenames, CheckChains, content, parsed
  <2>2. stage' # "shell"
    BY <1>3, <2>1 DEF LoadStep, CheckHeader, CheckGroups, EndGroups, CheckLabel, EndLabels, CheckDefaults,
                      CheckRename, EndRenames, CheckChains, RejectFirst, Reject, Turn
  <2>3. config' \in {config, file.groups}
    BY <1>3, ResolveKeepsConfig
       DEF LoadStep, CheckHeader, CheckGroups, EndGroups, CheckLabel, EndLabels, CheckDefaults,
           CheckRename, EndRenames, CheckChains, resolveVars
  <2>4. config' \in {<<>>, file.groups}
    BY <2>1, <2>3 DEF WrittenInv
  <2>5. path # NoPath => Parsed'
    BY <2>1, ParsedKept DEF WrittenInv
  <2> QED
    BY <2>1, <2>2, <2>4, <2>5, LoadedKept
<1> QED
  BY <1>1, <1>2, <1>3

\* What an accepted export has for labels is what it says.
LEMMA ExportAsItIs ==
  ASSUME NEW v, IsHeld(v), NEW order \in Orders(v), file = Exported(v, order), Parsed
  PROVE  file.labels = [i \in DOMAIN labels |-> [labels[i] EXCEPT !.groups = <<>>]]
<1>1. DOMAIN labels = DOMAIN file.labels
  BY ParsedLists
<1>2. ASSUME NEW i \in DOMAIN file.labels
      PROVE  file.labels[i] = [labels[i] EXCEPT !.groups = <<>>]
  <2>1. /\ file.labels[i] \in RawLabel /\ Trim[file.labels[i].name] = file.labels[i].name
        /\ Bare[file.labels[i].color] = file.labels[i].color /\ file.labels[i].groups = <<>>
    BY ExportedEntries
  <2>2. labels[i] = [name |-> file.labels[i].name, color |-> file.labels[i].color,
                     desc |-> file.labels[i].desc, groups |-> file.defaults]
    BY <2>1 DEF Parsed, Normalized
  <2>3. [labels[i] EXCEPT !.groups = <<>>]
          = [name |-> file.labels[i].name, color |-> file.labels[i].color,
             desc |-> file.labels[i].desc, groups |-> <<>>]
    BY <2>2
  <2>4. file.labels[i] = [name |-> file.labels[i].name, color |-> file.labels[i].color,
                          desc |-> file.labels[i].desc, groups |-> file.labels[i].groups]
    BY <2>1 DEF RawLabel
  <2> QED
    BY <2>1, <2>3, <2>4
<1>3. file.labels = [i \in DOMAIN file.labels |-> file.labels[i]]
  BY ExportedEntries
<1> QED
  BY <1>1, <1>2, <1>3

\* The written file that is loaded, in the end.
LEMMA LoadedClean ==
  ASSUME WrittenInv, LoadInv, FirstFaultIsReported, NEW w, w = Last(writes),
         writes # <<>>, stage \in {"accepted", "rejected"}, IsLoaded(w)
  PROVE  \/ /\ path = w.to /\ file.notes = {} /\ stage = "accepted"
            /\ ExportIsLoaded => file.labels = [i \in DOMAIN labels |-> [labels[i] EXCEPT !.groups = <<>>]]
         \/ /\ path = w.to /\ file.notes # {}
            /\ stage = "rejected" /\ error.rule = "duplicate_label_color"
            /\ \A i \in DOMAIN labels : labels[i].color = labels[error.at].color => i \in file.notes
<1>1. /\ path = w.to /\ file = disk[w.to] /\ w.to \in DOMAIN disk /\ IsHeld(held)
      /\ IsWritten(w) /\ config \in {<<>>, file.groups}
  BY DEF WrittenInv, IsWritten, IsLoaded
<1>2. path # NoPath
  BY <1>1, PathsAreNoAnswers DEF LoadInv, LoadTypeOK
<1>3. Parsed
  BY <1>2 DEF WrittenInv
<1>4. w.by \in {"init", "export"}
  BY LastWriteTyped
<1>5. /\ stage = "accepted" => Faults = {}
      /\ stage = "rejected" => error \in Faults
  BY <1>2 DEF FirstFaultIsReported
<1>6. CASE w.by = "init"
  <2>1. file = Scaffold /\ file.notes = {}
    BY <1>1, <1>6, ScaffoldAssumption DEF IsWritten
  <2>2. stage = "accepted"
    BY <1>1, <1>5, <2>1, ScaffoldIsClean
  <2>3. ~ExportIsLoaded
    BY <1>6 DEF ExportIsLoaded
  <2> QED
    BY <1>1, <2>1, <2>2, <2>3
<1>7. CASE w.by = "export"
  <2>1. PICK order \in Orders(held) : file = Exported(held, order)
    BY <1>1, <1>7 DEF IsWritten
  <2>2. Present(held) # {}
    BY <1>1, <1>7 DEF IsWritten
  <2>3. /\ \A f \in Faults :
             /\ f.rule = "duplicate_label_color" /\ f.at \in DOMAIN file.labels
             /\ \E j \in DOMAIN file.labels : j # f.at /\ file.labels[j].color = file.labels[f.at].color
        /\ file.notes # {} => Faults # {}
    BY <1>1, <2>1, <2>2, ExportedFaults
  <2>4. file.notes = Duplicates(file.labels)
    BY <2>1 DEF Exported
  <2>5. CASE stage = "accepted"
    <3>1. file.notes = {}
      BY <1>5, <2>3, <2>5
    <3>2. file.labels = [i \in DOMAIN labels |-> [labels[i] EXCEPT !.groups = <<>>]]
      BY <1>1, <1>3, <2>1, ExportAsItIs
    <3> QED
      BY <1>1, <2>5, <3>1, <3>2
  <2>6. CASE stage = "rejected"
    <3>1. /\ error.rule = "duplicate_label_color" /\ error.at \in DOMAIN file.labels
          /\ \E j \in DOMAIN file.labels : j # error.at /\ file.labels[j].color = file.labels[error.at].color
      BY <1>5, <2>3, <2>6
    <3>2. /\ DOMAIN labels = DOMAIN file.labels
          /\ \A i \in DOMAIN file.labels : labels[i].color = file.labels[i].color
      <4>1. \A i \in DOMAIN file.labels : Bare[file.labels[i].color] = file.labels[i].color
        BY <1>1, <2>1, ExportedEntries
      <4> QED
        BY <1>3, <4>1, ParsedLists
    <3>3. ASSUME NEW i \in DOMAIN labels, labels[i].color = labels[error.at].color
          PROVE  i \in Duplicates(file.labels)
      <4>1. \E j \in DOMAIN file.labels : j # i /\ file.labels[j].color = file.labels[i].color
        <5>1. CASE i = error.at
          BY <3>1, <5>1
        <5>2. CASE i # error.at
          BY <3>1, <3>2, <3>3, <5>2
        <5> QED
          BY <5>1, <5>2
      <4> QED
        BY <3>2, <4>1 DEF Duplicates
    <3>4. file.notes # {}
      BY <2>4, <3>1, <3>2, <3>3
    <3> QED
      BY <1>1, <2>4, <2>6, <3>1, <3>3, <3>4
  <2> QED
    BY <2>5, <2>6
<1> QED
  BY <1>4, <1>6, <1>7

\* What has been written last stays in sight, through every later step.
THEOREM WrittenHolds == Spec => []WrittenInv
<1>1. Init => WrittenInv
  <2> SUFFICES ASSUME Init PROVE WrittenInv
    OBVIOUS
  <2>1. PICK i \in DOMAIN Settings : \E s \in Settings[i] : held = s.held
    BY DEF Init
  <2>2. PICK s \in Settings[i] : held = s.held
    BY <2>1
  <2>3. IsHeld(held)
    BY <2>2, SettingsAssumption
  <2> QED
    BY <2>3 DEF Init, WrittenInv
<1>2. WrittenInv /\ LoadInv /\ ReportInv /\ [Next]_vars => WrittenInv'
  <2> SUFFICES ASSUME WrittenInv, LoadInv, ReportInv, [Next]_vars PROVE WrittenInv'
    OBVIOUS
  <2>1. CASE LoadStep
    BY <2>1, StepKeepsWritten
  <2>2. CASE (\E force \in BOOLEAN : RunInit(force)) \/ \E out \in Answers \ {<<>>} : RunExport(out)
    BY <2>2, WritesAreWritten
  <2>3. CASE UNCHANGED vars
    <3>1. /\ UNCHANGED <<held, disk, explicit, writes, path, file, stage, error, config>>
          /\ UNCHANGED <<labels, renames>>
      BY <2>3 DEF vars, content, parsed, resolveVars
    <3>2. CASE stage = "shell"
      <4>1. writes # <<>> => IsWritten(Last(writes))'
        BY <3>1, WrittenKept DEF WrittenInv
      <4>2. IsHeld(held)'
        BY <3>1 DEF WrittenInv, IsHeld, WellKeyed, Present
      <4> QED
        BY <3>1, <3>2, <4>1, <4>2 DEF WrittenInv
    <3>3. CASE stage # "shell"
      <4>1. stage' \notin {"shell", "read"} /\ path # NoPath => Parsed'
        BY <3>1, ParsedKept DEF WrittenInv
      <4>2. config' \in {<<>>, file.groups}
        BY <3>1, <3>3 DEF WrittenInv
      <4> QED
        BY <3>1, <3>3, <4>1, <4>2, LoadedKept
    <3> QED
      BY <3>2, <3>3
  <2> QED
    BY <2>1, <2>2, <2>3 DEF Next
<1> QED
  BY <1>1, <1>2, ReportsHold, LoadingGoesWell, PTL DEF Spec

\* What init has written is found and accepted by the next command, and what
\* export has written is too, but for the two exceptions that it announces.
THEOREM WrittenFilesLoad == Spec => []WrittenLoadsClean
<1>1. WrittenInv /\ LoadInv /\ FirstFaultIsReported => WrittenLoadsClean
  <2> SUFFICES ASSUME WrittenInv, LoadInv, FirstFaultIsReported,
                      writes # <<>>, LooksAt(Last(writes).to), stage \in {"accepted", "rejected"}
               PROVE  WrittenLoadsClean
    BY DEF WrittenLoadsClean
  <2>1. CASE IsLoaded(Last(writes))
    BY <2>1, LoadedClean DEF WrittenLoadsClean
  <2>2. CASE IsRefused(Last(writes))
    BY <2>2 DEF IsRefused, WrittenLoadsClean
  <2> QED
    BY <2>1, <2>2 DEF WrittenInv
<1> QED
  BY <1>1, WrittenHolds, LoadingGoesWell, FirstFault, PTL
-----------------------------------------------------------------------------
(***************************************************************************)
(* A repository and the plan made for it from its own export.              *)
(***************************************************************************)

AsDesired(l) == [name |-> l.name, color |-> l.color, desc |-> l.desc]

\* Every label is exported.
LEMMA NoneLeftOut ==
  ASSUME NEW v, IsHeld(v), NEW order \in Orders(v), NEW k \in Present(v)
  PROVE  \E i \in DOMAIN order : order[i] = k
<1>1. IsFiniteSet(Present(v)) /\ Cardinality(Present(v)) \in Nat
  <2>1. Keys \subseteq Names
    BY NamesAssumption DEF Keys
  <2>2. IsFiniteSet(Keys)
    BY <2>1, LoadingAssumption, FS_Subset
  <2> QED
    BY <2>2, FS_Subset, FS_CardinalityType DEF Present
<1>2. order \in [1..Cardinality(Present(v)) -> Present(v)]
  BY DEF Orders
<1>3. \A i, j \in DOMAIN order : i < j => order[i] # order[j]
  BY ExportedEntries
<1>4. IsInjective(order)
  <2>1. ASSUME NEW i \in DOMAIN order, NEW j \in DOMAIN order, i # j PROVE order[i] # order[j]
    BY <1>1, <1>2, <1>3, <2>1
  <2> QED
    BY <2>1 DEF IsInjective
<1>5. Cardinality(1..Cardinality(Present(v))) = Cardinality(Present(v))
  <2>1. ASSUME NEW n \in Nat PROVE Cardinality(1..n) = n
    BY FS_Interval
  <2> QED
    BY <1>1, <2>1
<1>6. order \in Injection(1..Cardinality(Present(v)), Present(v))
  BY <1>2, <1>4 DEF Injection
<1>7. order \in Surjection(1..Cardinality(Present(v)), Present(v))
  BY <1>1, <1>5, <1>6, FS_Injection
<1> QED
  BY <1>2, <1>7 DEF Surjection

\* What an accepted export is: the labels of the repository, each of them in its
\* one group, and that group resolves to itself.
LEMMA ExportAccepted ==
  ASSUME WrittenInv, LoadInv, ReportInv, stage = "accepted", ExportIsLoaded
  PROVE  /\ IsHeld(held) /\ Present(held) # {}
         /\ renames = <<>>
         /\ \E order \in Orders(held) : Parsed /\ file = Exported(held, order)
         /\ ExportGroup \in ToSet(done[ExportGroup])
<1>1. writes # <<>> /\ Last(writes).by = "export" /\ path = Last(writes).to
  BY DEF ExportIsLoaded
<1>2. path # NoPath
  <2>1. Last(writes).to \in DOMAIN disk
    BY <1>1 DEF WrittenInv, IsWritten
  <2> QED
    BY <1>1, <2>1, PathsAreNoAnswers DEF LoadInv, LoadTypeOK
<1>3. file = disk[path] /\ Parsed /\ HeaderPassed /\ Present(held) # {}
  BY <1>1, <1>2 DEF WrittenInv, IsWritten, ReportInv, BehindInv
<1>4. PICK order \in Orders(held) : file = Exported(held, order)
  BY <1>1, <1>3 DEF WrittenInv, IsWritten
<1>5. /\ file.renames = <<>> /\ file.defaults = <<ExportGroup>> /\ file.groups = ExportedGroups
  BY <1>4 DEF Exported
<1>6. renames = <<>>
  BY <1>3, <1>5 DEF Parsed
<1>7. /\ Defined = {ExportGroup} /\ config[ExportGroup].sources = {"repos"}
  BY <1>3, <1>5 DEF HeaderPassed, ExportedGroups, Defined
<1>8. ExportGroup \in DOMAIN done
  BY <1>7 DEF LoadInv, Resolves, WalkInv, ResolvedOK
<1>9. ExportGroup \in LeavesOf(ExportGroup)
  <2>1. ~Composed(ExportGroup)
    BY <1>7 DEF Composed
  <2> QED
    BY <1>7, <2>1, Reaches DEF LeavesOf
<1>10. ExportGroup \in ToSet(done[ExportGroup])
  BY <1>8, <1>9 DEF LoadInv, WalkInv, DoneOK
<1> QED
  BY <1>3, <1>4, <1>6, <1>10 DEF WrittenInv

\* What the file asks of the repository is what it holds.
LEMMA DesiredAsHeld ==
  ASSUME WrittenInv, LoadInv, ReportInv, stage = "accepted", ExportIsLoaded
  PROVE  DesiredHere = {AsDesired(held[k]) : k \in Present(held)}
<1>1. /\ IsHeld(held) /\ ExportGroup \in ToSet(done[ExportGroup])
  BY ExportAccepted
<1>2. PICK order \in Orders(held) : Parsed /\ file = Exported(held, order)
  BY ExportAccepted
<1>3. /\ DOMAIN file.labels = DOMAIN order /\ DOMAIN labels = DOMAIN order
      /\ order \in [DOMAIN order -> Present(held)]
  BY <1>1, <1>2, ExportedEntries, ParsedLists DEF Orders
<1>4. ASSUME NEW i \in DOMAIN order
      PROVE  /\ AsDesired(labels[i]) = AsDesired(held[order[i]]) /\ labels[i].groups = <<ExportGroup>>
  <2>1. file.labels[i] = ExportedLabel(held[order[i]]) /\ file.defaults = <<ExportGroup>>
    BY <1>2 DEF Exported
  <2>2. /\ order[i] \in Present(held) /\ held[order[i]] \in Label
        /\ Trim[held[order[i]].name] = held[order[i]].name
    BY <1>1, <1>3 DEF IsHeld, Views, Present
  <2>3. Bare[held[order[i]].color] = held[order[i]].color
    BY <2>2, LoadingAssumption DEF Label
  <2>4. file.labels[i] = [name |-> held[order[i]].name, color |-> held[order[i]].color,
                          desc |-> held[order[i]].desc, groups |-> <<>>]
    BY <2>1, <2>2, <2>3 DEF ExportedLabel
  <2>5. labels[i] = [name |-> Trim[file.labels[i].name], color |-> Bare[file.labels[i].color],
                     desc |-> file.labels[i].desc, groups |-> file.defaults]
    BY <1>2, <1>3, <2>4 DEF Parsed, Normalized
  <2>6. labels[i] = [name |-> held[order[i]].name, color |-> held[order[i]].color,
                     desc |-> held[order[i]].desc, groups |-> <<ExportGroup>>]
    BY <2>1, <2>2, <2>3, <2>4, <2>5
  <2> QED
    BY <2>6 DEF AsDesired
<1>5. ASSUME NEW i \in DOMAIN labels
      PROVE  \E g \in ToSet(labels[i].groups) : ToSet(done[g]) \cap Selecting # {}
  <2>1. ExportGroup \in ToSet(labels[i].groups)
    BY <1>3, <1>4 DEF ToSet
  <2> QED
    BY <1>1, <2>1, SelectingAssumption
<1>6. DesiredHere = {AsDesired(labels[i]) : i \in DOMAIN labels}
  BY <1>5 DEF DesiredHere, AsDesired
<1>7. ASSUME NEW k \in Present(held) PROVE \E i \in DOMAIN labels : AsDesired(labels[i]) = AsDesired(held[k])
  <2>1. PICK i \in DOMAIN order : order[i] = k
    BY <1>1, NoneLeftOut
  <2> QED
    BY <1>3, <1>4, <2>1
<1>8. ASSUME NEW i \in DOMAIN labels PROVE \E k \in Present(held) : AsDesired(labels[i]) = AsDesired(held[k])
  BY <1>3, <1>4
<1> QED
  BY <1>6, <1>7, <1>8

\* A plan for what is there already.
LEMMA NothingToWrite ==
  ASSUME NEW v, v \in Views, WellKeyed(v), NEW r \in Repos, NEW mode, NEW desired, NEW list,
         desired = [q \in Repos |-> {AsDesired(v[k]) : k \in Present(v)}], list = <<>>,
         NEW p \in Plan(desired, list)!Compute(r, v, mode)
  PROVE  Writes(p) = {}
<1>1. desired[r] = {AsDesired(v[k]) : k \in Present(v)} /\ DOMAIN list = {}
  OBVIOUS
<1>2. /\ Plan(desired, list)!RenameActions(v) = {}
      /\ Plan(desired, list)!Renamed(v) = v
  <2>1. Plan(desired, list)!Applicable(v) = {}
    BY <1>1 DEF Plan!Applicable
  <2>2. Plan(desired, list)!Renamed(v) = [k \in Keys |-> v[k]]
    BY <2>1 DEF Plan!Renamed, Plan!Keys, Keys
  <2>3. [k \in Keys |-> v[k]] = v
    BY DEF Views
  <2> QED
    BY <2>1, <2>2, <2>3 DEF Plan!RenameActions
<1>3. ASSUME NEW d \in desired[r]
      PROVE  \E k \in Present(v) : d = AsDesired(v[k]) /\ Lower[d.name] = k /\ v[k] # None
  <2>1. PICK k \in Present(v) : d = AsDesired(v[k])
    BY <1>1
  <2> QED
    BY <2>1 DEF AsDesired, Present, WellKeyed
<1>4. Plan(desired, list)!Missing(r, v) = {}
  BY <1>3 DEF Plan!Missing
<1>5. Plan(desired, list)!Unconfigured(r, v) = {}
  <2>1. ASSUME NEW k \in Present(v) PROVE k \in Plan(desired, list)!Configured(r)
    <3>1. AsDesired(v[k]) \in desired[r] /\ Lower[AsDesired(v[k]).name] = k
      BY <1>1 DEF AsDesired, Present, WellKeyed
    <3> QED
      BY <3>1 DEF Plan!Configured
  <2> QED
    BY <2>1 DEF Plan!Unconfigured, Plan!Present, Plan!Keys, Present, Keys
<1>6. ASSUME NEW f PROVE Plan(desired, list)!RecolourSquatters(r, v, f) = {}
  BY <1>5 DEF Plan!RecolourSquatters, Plan!Squatters
<1>7. ASSUME NEW a \in Plan(desired, list)!Converge(r, v) PROVE a.kind = "noop"
  <2>1. PICK d \in desired[r] : a = Plan(desired, list)!Update(d, v[Lower[d.name]])
    BY <1>7 DEF Plan!Converge
  <2>2. LET l == v[Lower[d.name]] IN d.name = l.name /\ d.color = l.color /\ d.desc = l.desc
    BY <1>3 DEF AsDesired
  <2> QED
    BY <2>1, <2>2 DEF Plan!Update
<1>8. ASSUME NEW a \in p PROVE a.kind = "noop"
  <2>1. CASE desired[r] = {}
    BY <1>8, <2>1 DEF Plan!Compute
  <2>2. CASE desired[r] # {}
    <3>1. PICK f : p = Plan(desired, list)!RenameActions(v)
                         \cup Plan(desired, list)!RecolourSquatters(r, v, f)
                         \cup Plan(desired, list)!Creates(r, v)
                         \cup Plan(desired, list)!Converge(r, v)
                         \cup (IF mode = "prune" THEN Plan(desired, list)!Candidates(r, v) ELSE {})
      BY <1>2, <2>2 DEF Plan!Compute
    <3>2. Plan(desired, list)!Creates(r, v) = {} /\ Plan(desired, list)!Candidates(r, v) = {}
      BY <1>4, <1>5 DEF Plan!Creates, Plan!Candidates
    <3>3. a \in Plan(desired, list)!Converge(r, v)
      BY <1>2, <1>6, <1>8, <3>1, <3>2
    <3> QED
      BY <1>7, <3>3
  <2> QED
    BY <2>1, <2>2
<1> QED
  BY <1>8 DEF Writes

\* A sync of the repository a file was exported from, with the file as it is, in
\* either mode: there is something to compare, and nothing to write or to remove.
THEOREM ExportsPlanNothing == Spec => []ExportPlansNothing
<1>1. WrittenInv /\ LoadInv /\ ReportInv => ExportPlansNothing
  <2> SUFFICES ASSUME WrittenInv, LoadInv, ReportInv, stage = "accepted", ExportIsLoaded
               PROVE  ExportPlansNothing
    BY DEF ExportPlansNothing
  <2>1. /\ held \in Views /\ WellKeyed(held) /\ Present(held) # {} /\ renames = <<>>
    BY ExportAccepted DEF IsHeld
  <2>2. DesiredHere = {AsDesired(held[k]) : k \in Present(held)}
    BY DesiredAsHeld
  <2>3. DesiredHere # {}
    BY <2>1, <2>2
  <2>4. ASSUME NEW r \in Repos, NEW mode \in {"append", "prune"}, NEW desired,
               desired = [q \in Repos |-> DesiredHere],
               NEW p \in Plan(desired, renames)!Compute(r, held, mode)
        PROVE  Writes(p) = {}
    BY <2>1, <2>2, <2>4, NothingToWrite
  <2> QED
    BY <2>3, <2>4 DEF ExportPlansNothing
<1> QED
  BY <1>1, WrittenHolds, ReportsHold, LoadingGoesWell, PTL
=============================================================================
