------------------------------ MODULE Loading ------------------------------
(***************************************************************************)
(* How a labels.yml becomes the configuration a run works from             *)
(* (internal/config): init and export may write it (internal/cmd), Load    *)
(* finds it (ConfigFiles), Parse normalises it, and Validate stops at the  *)
(* first rule that is broken.  Validate is a state machine here, one       *)
(* group, label or rename at a time; the groups are Resolve's (Groups).    *)
(*                                                                         *)
(* A file is what YAML decodes it to, and the comments of an export.  Left *)
(* out: decoding it, and the wording of an error beyond the rule it names. *)
(***************************************************************************)
EXTENDS Labels, Groups, ConfigFiles

CONSTANTS
  Trim,        \* strings.TrimSpace on Names
  UnfitNames,  \* the empty name, over 50 code points, or nothing but emoji
  Blank,       \* the empty name
  LongDescs,   \* descriptions over 100 code points
  Spellings,   \* what a file may say for a colour
  Bare,        \* normalizeColor on Spellings; Colors are the six digits it may leave
  ExportGroup, \* the group of an exported file
  Scaffold,    \* the file init writes
  Settings,    \* what there may be at first: files, the choice of --config, and what
               \* the repository that is exported holds; a sequence of sets
  MaxWrites    \* files that init and export write, at most

GroupList == Seq(GroupNames)

RawLabel == [name : Names, color : Spellings, desc : Descs, groups : GroupList]

RawRename == [from : Names, to : Names]

IsFile(f) ==
  /\ f.version \in Nat /\ IsGroupsSection(f.groups) /\ f.defaults \in GroupList
  /\ f.labels \in Seq(RawLabel) /\ f.renames \in Seq(RawRename)
  /\ f.notes \subseteq DOMAIN f.labels

\* GitHub keeps a name trimmed and within the bounds that Validate mirrors.
IsHeld(v) ==
  /\ v \in Views /\ WellKeyed(v)
  /\ \A k \in Present(v) : /\ Trim[v[k].name] = v[k].name /\ v[k].name \notin UnfitNames
                           /\ v[k].desc \notin LongDescs

ASSUME LoadingAssumption ==
  /\ Trim \in [Names -> Names] /\ \A n \in Names : Trim[Trim[n]] = Trim[n]
  /\ UnfitNames \subseteq Names /\ Blank \in UnfitNames /\ LongDescs \subseteq Descs
  /\ Colors \subseteq Spellings /\ Bare \in [Spellings -> Spellings]
  /\ \A c \in Colors : Bare[c] = c
  /\ ExportGroup \in GroupNames /\ IsFiniteSet(Names)
  /\ IsFile(Scaffold) /\ MaxWrites \in Nat

ASSUME SettingsAssumption ==
  \A i \in DOMAIN Settings : \A s \in Settings[i] :
    /\ DOMAIN s.disk \subseteq Paths /\ \A p \in DOMAIN s.disk : IsFile(s.disk[p])
    /\ s.explicit \in Answers /\ IsHeld(s.held)

VARIABLES
  held,    \* what the repository that is exported holds
  writes,  \* the files init and export have written, in that order
  file,    \* the file that is loaded, as decoded
  stage,   \* how far it has come
  labels, renames,   \* Config.Labels and Config.Renames, normalised
  at,      \* the label or rename it is the turn of
  names, colors,     \* validateLabels: the keys and colours met so far
  froms, tos,        \* validateRenames: the same for sources and targets
  error    \* the first rule that is broken, and where

content == <<held, disk, explicit, writes, path, file>>
parsed  == <<labels, renames>>
met     == <<names, colors, froms, tos>>
vars    == <<resolveVars, content, parsed, met, stage, at, error>>

EmptyFile == [version |-> 0, groups |-> <<>>, defaults |-> <<>>, labels |-> <<>>,
              renames |-> <<>>, notes |-> {}]

NoError == [rule |-> "none", at |-> 0]

Rules == {"config_not_found", "ambiguous_config_file", "unsupported_version", "empty_config", "ambiguous", "invalid_ref", "cyclic",
          "unknown", "invalid_label_name", "invalid_color", "description_too_long",
          "duplicate_label_name", "duplicate_label_color", "unknown_group",
          "unknown_default", "incomplete_rename", "undeclared_target", "configured_source",
          "renamed_twice", "duplicate_target", "chained"}

Stages == {"shell", "read", "parsed", "groups", "labels", "defaults", "renames",
           "chains", "accepted", "rejected"}

\* The variables of this module.
LoadTypeOK ==
  /\ held \in Views /\ IsFile(file)
  /\ DOMAIN disk \subseteq Paths /\ \A p \in DOMAIN disk : IsFile(disk[p])
  /\ explicit \in Answers /\ path \in Paths \cup {NoPath}
  /\ Len(writes) <= MaxWrites /\ writes \in Seq([by : {"init", "export"}, to : Paths])
  /\ stage \in Stages
  /\ labels \in Seq(RawLabel) /\ renames \in Seq(RawRename)
  /\ at \in 0..(IF Len(labels) > Len(renames) THEN Len(labels) ELSE Len(renames)) + 1
  /\ names \subseteq Keys /\ froms \subseteq Keys /\ tos \subseteq Keys
  /\ colors \subseteq Colors
  /\ error \in [rule : Rules \cup {"none"}, at : Nat]

TypeOK == ResolveTypeOK /\ LoadTypeOK

\* Before the commands of a session.
Init ==
  /\ \E i \in DOMAIN Settings : \E s \in Settings[i] :
       disk = s.disk /\ explicit = s.explicit /\ held = s.held
  /\ stage = "shell" /\ writes = <<>> /\ path = NoPath /\ file = EmptyFile
  /\ config = <<>> /\ ResolveInit
  /\ labels = <<>> /\ renames = <<>> /\ at = 0
  /\ names = {} /\ colors = {} /\ froms = {} /\ tos = {}
  /\ error = NoError

Reject(rule) ==
  /\ stage' = "rejected"
  /\ error' = [rule |-> rule, at |-> at]
  /\ UNCHANGED at

Turn(next, first) ==
  /\ stage' = next
  /\ at' = first
  /\ UNCHANGED error

-----------------------------------------------------------------------------
(***************************************************************************)
(* labelsync init, and labelsync export.                                   *)
(***************************************************************************)
Write(by, p, document) ==
  /\ stage = "shell" /\ Len(writes) < MaxWrites
  /\ WriteFile(p, document)
  /\ writes' = Append(writes, [by |-> by, to |-> p])
  /\ UNCHANGED <<resolveVars, held, explicit, path, file, parsed, met, stage, at, error>>

\* runInit, with or without --force.
RunInit(force) ==
  LET p == Destination(explicit)
  IN  MayScaffold(p, force) /\ Write("init", p, Scaffold)

\* SortFunc: the labels of a view, by folded name.
Orders(v) ==
  {order \in [1..Cardinality(Present(v)) -> Present(v)] :
     \A i, j \in DOMAIN order : i < j => Rank[order[i]] < Rank[order[j]]}

ExportedGroups ==
  [g \in {ExportGroup} |-> [sources |-> {"repos"}, includes |-> <<>>, valid |-> TRUE]]

ExportedLabel(l) == [name |-> Trim[l.name], color |-> Bare[l.color], desc |-> l.desc, groups |-> <<>>]

\* Mutant: only the second label of a colour carries a note.
LaterDuplicates(list) ==
  {i \in DOMAIN list : \E j \in 1..(i - 1) : list[j].color = list[i].color}

\* DuplicateColors: a note goes to every label of a colour that is used twice.
Duplicates(list) ==
  {i \in DOMAIN list : \E j \in DOMAIN list : j # i /\ list[j].color = list[i].color}

\* Mutant: no label of an exported file belongs to a group.
ExportedWithoutDefaults(v, order) ==
  LET list == [i \in DOMAIN order |-> ExportedLabel(v[order[i]])]
  IN  [version |-> 1, groups |-> ExportedGroups, defaults |-> <<>>, renames |-> <<>>,
       labels |-> list, notes |-> Duplicates(list)]

\* exportDocument: the labels belong to the file's one group by default.
Exported(v, order) ==
  LET list == [i \in DOMAIN order |-> ExportedLabel(v[order[i]])]
  IN  [version |-> 1, groups |-> ExportedGroups, defaults |-> <<ExportGroup>>, renames |-> <<>>,
       labels |-> list, notes |-> Duplicates(list)]

\* runExport.  A repository without labels is not exported, since the file would
\* be rejected; nothing is asked of the place the file goes to.
RunExport(out) ==
  /\ Present(held) # {}
  /\ \E order \in Orders(held) : Write("export", Destination(out), Exported(held, order))

-----------------------------------------------------------------------------
(***************************************************************************)
(* config.Load: Find, and Parse.                                           *)
(***************************************************************************)
Load ==
  /\ stage = "shell"
  /\ \/ Find = {} /\ Reject("config_not_found") /\ UNCHANGED <<path, file>>
     \/ Cardinality(Find) > 1 /\ Reject("ambiguous_config_file") /\ UNCHANGED <<path, file>>
     \/ \E p \in Find : Find = {p} /\ path' = p /\ file' = disk[p] /\ Turn("read", 0)
  /\ UNCHANGED <<resolveVars, held, disk, explicit, writes, parsed, met>>

Normalized(l) ==
  [name |-> Trim[l.name], color |-> Bare[l.color], desc |-> l.desc,
   groups |-> IF l.groups = <<>> THEN file.defaults ELSE l.groups]

Parse ==
  /\ stage = "read"
  /\ labels' = [i \in DOMAIN file.labels |-> Normalized(file.labels[i])]
  /\ renames' = [i \in DOMAIN file.renames |->
                   [from |-> Trim[file.renames[i].from], to |-> Trim[file.renames[i].to]]]
  /\ Turn("parsed", 0)
  /\ UNCHANGED <<resolveVars, content, met>>

-----------------------------------------------------------------------------
(***************************************************************************)
(* Config.Validate.  The rules for one label, or one rename, are tried in  *)
(* order, and the first that is broken is the answer.                      *)
(***************************************************************************)
RejectFirst(rules, broken) ==
  \E i \in DOMAIN rules :
    rules[i] \in broken /\ (\A j \in 1..(i - 1) : rules[j] \notin broken) /\ Reject(rules[i])

CheckHeader ==
  /\ stage = "parsed"
  /\ \/ file.version # 1 /\ Reject("unsupported_version") /\ UNCHANGED config
     \/ file.version = 1 /\ labels = <<>> /\ Reject("empty_config") /\ UNCHANGED config
     \/ file.version = 1 /\ labels # <<>> /\ Turn("groups", 0) /\ config' = file.groups
  /\ UNCHANGED <<checked, leaves, resolved, stack, done, outcome, content, parsed, met>>

\* validateGroups is Resolve, step by step, ...
CheckGroups ==
  /\ stage = "groups" /\ ResolveStep
  /\ UNCHANGED <<content, parsed, met, stage, at, error>>

\* ... and its error.
EndGroups ==
  /\ stage = "groups"
  /\ \/ outcome = "resolved" /\ Turn("labels", 1)
     \/ outcome \notin {"checking", "flattening", "resolved"} /\ Reject(outcome)
  /\ UNCHANGED <<resolveVars, content, parsed, met>>

LabelRules == <<"invalid_label_name", "invalid_color", "description_too_long",
                "duplicate_label_name", "duplicate_label_color", "unknown_group">>

\* Mutant: two names are compared with their casing.
BrokenByCase(l) ==
  {r \in Rules :
     \/ r = "invalid_label_name" /\ l.name \in UnfitNames
     \/ r = "invalid_color" /\ l.color \notin Colors
     \/ r = "description_too_long" /\ l.desc \in LongDescs
     \/ r = "duplicate_label_name" /\ \E i \in 1..(at - 1) : labels[i].name = l.name
     \/ r = "duplicate_label_color" /\ l.color \in colors
     \/ r = "unknown_group" /\ ~(ToSet(l.groups) \subseteq Defined)}

BrokenByLabel(l) ==
  {r \in Rules :
     \/ r = "invalid_label_name" /\ l.name \in UnfitNames
     \/ r = "invalid_color" /\ l.color \notin Colors
     \/ r = "description_too_long" /\ l.desc \in LongDescs
     \/ r = "duplicate_label_name" /\ Lower[l.name] \in names
     \/ r = "duplicate_label_color" /\ l.color \in colors
     \/ r = "unknown_group" /\ ~(ToSet(l.groups) \subseteq Defined)}

\* One turn of the loop over the labels.
CheckLabel ==
  /\ stage = "labels" /\ at \in DOMAIN labels
  /\ LET l == labels[at]
     IN  \/ /\ RejectFirst(LabelRules, BrokenByLabel(l))
            /\ UNCHANGED <<names, colors>>
         \/ /\ BrokenByLabel(l) = {} /\ Turn("labels", at + 1)
            /\ names' = names \cup {Lower[l.name]} /\ colors' = colors \cup {l.color}
  /\ UNCHANGED <<resolveVars, content, parsed, froms, tos>>

EndLabels ==
  /\ stage = "labels" /\ at \notin DOMAIN labels
  /\ Turn("defaults", 0)
  /\ UNCHANGED <<resolveVars, content, parsed, met>>

\* Mutant: defaults.groups is checked on the labels that inherit it only.
CheckNoDefaults ==
  /\ stage = "defaults"
  /\ Turn("renames", 1)
  /\ UNCHANGED <<resolveVars, content, parsed, met>>

CheckDefaults ==
  /\ stage = "defaults"
  /\ IF ToSet(file.defaults) \subseteq Defined THEN Turn("renames", 1)
     ELSE Reject("unknown_default")
  /\ UNCHANGED <<resolveVars, content, parsed, met>>

ConfiguredKeys == {Lower[labels[i].name] : i \in DOMAIN labels}

RenameRules == <<"incomplete_rename", "undeclared_target", "configured_source",
                 "renamed_twice", "duplicate_target">>

BrokenByRename(n) ==
  {r \in Rules :
     \/ r = "incomplete_rename" /\ Blank \in {n.from, n.to}
     \/ r = "undeclared_target" /\ Lower[n.to] \notin ConfiguredKeys
     \/ r = "configured_source" /\ Lower[n.from] \in ConfiguredKeys
     \/ r = "renamed_twice" /\ Lower[n.from] \in froms
     \/ r = "duplicate_target" /\ Lower[n.to] \in tos}

\* One turn of the loop over the renames.
CheckRename ==
  /\ stage = "renames" /\ at \in DOMAIN renames
  /\ LET n == renames[at]
     IN  \/ /\ RejectFirst(RenameRules, BrokenByRename(n))
            /\ UNCHANGED <<froms, tos>>
         \/ /\ BrokenByRename(n) = {} /\ Turn("renames", at + 1)
            /\ froms' = froms \cup {Lower[n.from]} /\ tos' = tos \cup {Lower[n.to]}
  /\ UNCHANGED <<resolveVars, content, parsed, names, colors>>

EndRenames ==
  /\ stage = "renames" /\ at \notin DOMAIN renames
  /\ Turn("chains", 0)
  /\ UNCHANGED <<resolveVars, content, parsed, met>>

\* The last loop: a target that is itself renamed.
CheckChains ==
  /\ stage = "chains"
  /\ IF \E i \in DOMAIN renames : Lower[renames[i].to] \in froms THEN Reject("chained")
     ELSE Turn("accepted", 0)
  /\ UNCHANGED <<resolveVars, content, parsed, met>>

LoadStep ==
  \/ Load
  \/ Parse
  \/ CheckHeader
  \/ CheckGroups
  \/ EndGroups
  \/ CheckLabel
  \/ EndLabels
  \/ CheckDefaults
  \/ CheckRename
  \/ EndRenames
  \/ CheckChains

Next ==
  \/ \E force \in BOOLEAN : RunInit(force)
  \/ \E out \in Answers \ {<<>>} : RunExport(out)
  \/ LoadStep

Spec == Init /\ [][Next]_vars

\* Load does not wait for anybody.
FairSpec == Spec /\ WF_vars(LoadStep)

-----------------------------------------------------------------------------
(***************************************************************************)
(* Properties.                                                             *)
(***************************************************************************)

\* A configuration that is accepted is what the planner takes for granted: no
\* two labels share a name in any casing, or a colour, every name is as GitHub
\* will store it, the groups they name exist, and the renames are such that the
\* order they are applied in does not matter.
AcceptedIsWellFormed ==
  stage = "accepted" =>
    /\ \A i \in DOMAIN labels :
         LET l == labels[i]
         IN  /\ Trim[l.name] = l.name /\ l.name \notin UnfitNames
             /\ l.color \in Colors
             /\ \A j \in DOMAIN labels : j # i => /\ Lower[labels[j].name] # Lower[l.name]
                                                  /\ labels[j].color # l.color
             /\ ToSet(l.groups) \subseteq Defined
    /\ SimpleRenames(renames, ConfiguredKeys)
    /\ \A i \in DOMAIN renames : Lower[renames[i].to] \in ConfiguredKeys

\* The place of a rule in Validate; those on groups have no order of their own.
Place == [unsupported_version |-> <<1, 1>>, empty_config |-> <<1, 2>>,
          ambiguous |-> <<2, 1>>, invalid_ref |-> <<2, 1>>,
          cyclic |-> <<2, 1>>, unknown |-> <<2, 1>>,
          invalid_label_name |-> <<3, 1>>, invalid_color |-> <<3, 2>>,
          description_too_long |-> <<3, 3>>, duplicate_label_name |-> <<3, 4>>,
          duplicate_label_color |-> <<3, 5>>, unknown_group |-> <<3, 6>>,
          unknown_default |-> <<4, 1>>, incomplete_rename |-> <<5, 1>>,
          undeclared_target |-> <<5, 2>>, configured_source |-> <<5, 3>>,
          renamed_twice |-> <<5, 4>>, duplicate_target |-> <<5, 5>>]

Sooner(e, f) ==
  LET p == Place[e.rule]
      q == Place[f.rule]
  IN  \/ p[1] < q[1]
      \/ p[1] = q[1] /\ (e.at < f.at \/ (e.at = f.at /\ p[2] < q[2]))

FoldedName(l) == Lower[Trim[l.name]]
FoldedFrom(n) == Lower[Trim[n.from]]
FoldedTo(n)   == Lower[Trim[n.to]]

\* What is wrong with a file, its groups aside: with the whole of it, ...
WrongWithFile(f, rule) ==
  \/ rule = "unsupported_version" /\ f.version # 1
  \/ rule = "empty_config" /\ f.labels = <<>>
  \/ rule = "unknown_default" /\ ~(ToSet(f.defaults) \subseteq DOMAIN f.groups)

\* ... with the label at i, as it was written, ...
WrongWithLabel(f, rule, i) ==
  LET list == f.labels
      l == list[i]
      groups == IF l.groups = <<>> THEN f.defaults ELSE l.groups
  IN  \/ rule = "invalid_label_name" /\ Trim[l.name] \in UnfitNames
      \/ rule = "invalid_color" /\ Bare[l.color] \notin Colors
      \/ rule = "description_too_long" /\ l.desc \in LongDescs
      \/ rule = "duplicate_label_name" /\ \E j \in 1..(i - 1) : FoldedName(list[j]) = FoldedName(l)
      \/ rule = "duplicate_label_color" /\ \E j \in 1..(i - 1) : Bare[list[j].color] = Bare[l.color]
      \/ rule = "unknown_group" /\ ~(ToSet(groups) \subseteq DOMAIN f.groups)

\* ... and with the rename at i.
WrongWithRename(f, rule, i) ==
  LET list == f.renames
      n == list[i]
      declared == {FoldedName(f.labels[j]) : j \in DOMAIN f.labels}
  IN  \/ rule = "incomplete_rename" /\ Blank \in {Trim[n.from], Trim[n.to]}
      \/ rule = "undeclared_target" /\ FoldedTo(n) \notin declared
      \/ rule = "configured_source" /\ FoldedFrom(n) \in declared
      \/ rule = "renamed_twice" /\ \E j \in 1..(i - 1) : FoldedFrom(list[j]) = FoldedFrom(n)
      \/ rule = "duplicate_target" /\ \E j \in 1..(i - 1) : FoldedTo(list[j]) = FoldedTo(n)

\* Everything that is wrong with the file, rule by rule.
Faults ==
  {f \in [rule : DOMAIN Place, at : {0} \cup DOMAIN file.labels \cup DOMAIN file.renames] :
     \/ f.at = 0 /\ (f.rule \in GroupFaults \/ WrongWithFile(file, f.rule))
     \/ f.at \in DOMAIN file.labels /\ WrongWithLabel(file, f.rule, f.at)
     \/ f.at \in DOMAIN file.renames /\ WrongWithRename(file, f.rule, f.at)}

\* catalogue_test.go: there is nothing wrong with the file init writes, whose groups
\* have selectors of their own.
ASSUME ScaffoldAssumption ==
  /\ \A g \in DOMAIN Scaffold.groups :
       LET group == Scaffold.groups[g]
       IN  Cardinality(group.sources) = 1 /\ group.includes = <<>> /\ group.valid
  /\ \A rule \in Rules :
       /\ ~WrongWithFile(Scaffold, rule)
       /\ \A i \in DOMAIN Scaffold.labels : ~WrongWithLabel(Scaffold, rule, i)
       /\ \A i \in DOMAIN Scaffold.renames : ~WrongWithRename(Scaffold, rule, i)
  /\ Scaffold.notes = {}

\* A file with nothing wrong in it is accepted, and of one that is refused the
\* first thing wrong is named: a duplicate is the later of the two, and no chain
\* of renames is left for the last loop to find.
FirstFaultIsReported ==
  /\ stage = "accepted" => Faults = {}
  /\ stage = "rejected" /\ path # NoPath => /\ error \in Faults
                                            /\ \A f \in Faults : ~Sooner(f, error)

\* The file that is loaded is the last that was written, and an export.
ExportIsLoaded == writes # <<>> /\ Last(writes) = [by |-> "export", to |-> path]

\* A run with this --config looks at the path.
LooksAt(p) == explicit \in {p, <<p[1]>>} \/ (explicit = <<>> /\ p[1] = "working")

\* What init has written is the file the next command loads, and is accepted,
\* whatever else there was.  So is an export, as it was written, with two
\* exceptions: --out may have put it next to the other spelling, and labels that
\* share a colour are refused, all of which were flagged in the file.
WrittenLoadsClean ==
  writes # <<>> /\ LooksAt(Last(writes).to) /\ stage \in {"accepted", "rejected"} =>
    LET w == Last(writes)
    IN  \/ /\ path = w.to /\ file.notes = {} /\ stage = "accepted"
           /\ ExportIsLoaded => file.labels = [i \in DOMAIN labels |-> [labels[i] EXCEPT !.groups = <<>>]]
        \/ /\ path = w.to /\ file.notes # {}
           /\ stage = "rejected" /\ error.rule = "duplicate_label_color"
           /\ \A i \in DOMAIN labels : labels[i].color = labels[error.at].color => i \in file.notes
        \/ /\ w.by = "export" /\ OtherSpelling(w.to) \cap DOMAIN disk # {}
           /\ stage = "rejected" /\ error.rule = "ambiguous_config_file"

\* Whatever the file says, it is accepted or refused in the end.
LoadEnds == <>(stage \in {"accepted", "rejected"})
=============================================================================
