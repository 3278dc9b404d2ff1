------------------------------- MODULE Groups -------------------------------
(***************************************************************************)
(* Resolve (internal/config/resolve.go): the source of every group is      *)
(* checked, and include_groups is flattened into the leaf groups it        *)
(* reaches by a depth-first walk that remembers what it has resolved       *)
(* (done) and what it is in the middle of (the stack, which is both path   *)
(* and open).  The walk is a state machine of its own, one call, loop      *)
(* iteration or return at a time; Loading runs it as a part of Validate.   *)
(*                                                                         *)
(* A leaf's selector is named by its group.  Which repositories it selects *)
(* is Selection's; the warning about a private user group is left out.     *)
(***************************************************************************)
EXTENDS Integers, Sequences, FiniteSets, SequencesExt

CONSTANTS
  GroupNames,  \* the names a file may use for groups
  Ascending    \* where each of them comes when they are sorted

\* sources: the keys a group sets; valid: whether its repos entries parse.
Group == [sources : SUBSET {"org", "user", "repos", "include_groups"},
          includes : Seq(GroupNames), valid : BOOLEAN]

\* A groups section: a key that is set is not empty.
IsGroupsSection(groups) ==
  /\ DOMAIN groups \subseteq GroupNames
  /\ \A g \in DOMAIN groups :
       /\ groups[g] \in Group
       /\ "include_groups" \in groups[g].sources <=> groups[g].includes # <<>>

ASSUME GroupNamesAssumption ==
  Ascending \in [GroupNames -> Nat] /\ IsInjective(Ascending)

VARIABLES
  config,   \* the groups section
  checked,  \* the groups that have passed checkGroupSource
  leaves,   \* the groups with a selector of their own
  resolved, \* the groups Resolve has flattened
  stack,    \* the calls of flatten under way: the group, the include it is at, how many
            \* of that one's selectors it has been through, and the union so far
  done,     \* what each group that is flattened resolves to
  outcome   \* what Resolve has come to

resolveVars == <<config, checked, leaves, resolved, stack, done, outcome>>

Defined == DOMAIN config

\* Resolution.names is sorted: whose turn it is when these have had theirs.
IsNext(g, passed) == g \in Defined \ passed /\ \A h \in Defined \ passed : Ascending[g] <= Ascending[h]

Frame == [name : Defined, next : Nat \ {0}, merged : Nat, out : Seq(Defined)]

ResolveTypeOK ==
  /\ IsGroupsSection(config)
  /\ checked \subseteq Defined /\ resolved \subseteq Defined /\ leaves \subseteq Defined
  /\ stack \in Seq(Frame)
  /\ DOMAIN done \subseteq Defined /\ done \in [DOMAIN done -> Seq(Defined)]
  /\ outcome \in {"checking", "flattening", "resolved", "ambiguous", "invalid_ref", "cyclic", "unknown"}

\* Nothing is resolved yet.
ResolveInit ==
  /\ checked = {} /\ resolved = {}
  /\ leaves = {} /\ stack = <<>> /\ done = <<>>
  /\ outcome = "checking"

-----------------------------------------------------------------------------
\* checkGroupSource: one source, no more and no less.
Ambiguous(sources) == Cardinality(sources) # 1

\* leafSelector: a repos entry that is no owner/repo reference.
Unparsable(g) == config[g].sources = {"repos"} /\ ~config[g].valid

Composed(g) == config[g].sources = {"include_groups"}

\* One turn of the loop over the groups: its source is checked, and the
\* selector of a group that includes no other is made.
CheckSource(g) ==
  /\ outcome = "checking" /\ IsNext(g, checked)
  /\ \/ /\ Ambiguous(config[g].sources)
        /\ outcome' = "ambiguous" /\ UNCHANGED <<checked, leaves>>
     \/ /\ ~Ambiguous(config[g].sources) /\ Unparsable(g)
        /\ outcome' = "invalid_ref" /\ UNCHANGED <<checked, leaves>>
     \/ /\ ~Ambiguous(config[g].sources) /\ ~Unparsable(g)
        /\ leaves' = IF Composed(g) THEN leaves ELSE leaves \cup {g}
        /\ checked' = checked \cup {g} /\ UNCHANGED outcome
  /\ UNCHANGED <<config, resolved, stack, done>>

\* Every leaf is known before the first group is flattened.
StartFlattening ==
  /\ outcome = "checking" /\ checked = Defined
  /\ outcome' = "flattening"
  /\ UNCHANGED <<config, checked, leaves, resolved, stack, done>>

Open(g) == \E i \in DOMAIN stack : stack[i].name = g

\* Mutant: a selector that two includes share is listed twice.
AddedAgain(out, g) == Append(out, g)

\* A selector joins the union unless it has been seen.
Added(out, g) == IF g \in ToSet(out) THEN out ELSE Append(out, g)

\* Mutant: the walk over the includes starts before the first of them.
OpenedEarly(g) == [name |-> g, next |-> 0, merged |-> 0, out |-> <<>>]

Opened(g) == [name |-> g, next |-> 1, merged |-> 0, out |-> <<>>]

Remember(g, selectors) ==
  done' = [h \in DOMAIN done \cup {g} |-> IF h = g THEN selectors ELSE done[h]]

\* flatten(g), called from Resolve or for an include: a leaf is its own
\* selector, a group in the middle of being resolved is a cycle.
Enter(g) ==
  /\ g \notin DOMAIN done
  /\ \/ /\ Open(g)
        /\ outcome' = "cyclic" /\ UNCHANGED <<stack, done>>
     \/ /\ ~Open(g) /\ g \in leaves
        /\ Remember(g, <<g>>) /\ UNCHANGED <<stack, outcome>>
     \/ /\ ~Open(g) /\ g \notin leaves
        /\ stack' = Append(stack, Opened(g))
        /\ UNCHANGED <<done, outcome>>
  /\ UNCHANGED <<config, checked, leaves, resolved>>

Top == stack[Len(stack)]

Includes == config[Top.name].includes

AtInclude == outcome = "flattening" /\ stack # <<>> /\ Top.next <= Len(Includes)

Include == Includes[Top.next]

\* The loop over a group's includes: an unknown one ends it, ...
IncludeUnknown ==
  /\ AtInclude /\ Include \notin Defined
  /\ outcome' = "unknown"
  /\ UNCHANGED <<config, checked, leaves, resolved, stack, done>>

\* ... one that is not resolved is flattened first, ...
IncludeEnter ==
  /\ AtInclude /\ Include \in Defined
  /\ Enter(Include)

\* ... then its selectors are added, in the order they are listed, ...
IncludeAdd ==
  /\ AtInclude /\ Include \in DOMAIN done
  /\ Top.merged < Len(done[Include])
  /\ stack' = [stack EXCEPT ![Len(stack)] =
       [Top EXCEPT !.merged = @ + 1, !.out = Added(@, done[Include][Top.merged + 1])]]
  /\ UNCHANGED <<config, checked, leaves, resolved, done, outcome>>

\* ... and it is the next one's turn.
IncludeAdvance ==
  /\ AtInclude /\ Include \in DOMAIN done
  /\ Top.merged = Len(done[Include])
  /\ stack' = [stack EXCEPT ![Len(stack)] = [Top EXCEPT !.next = @ + 1, !.merged = 0]]
  /\ UNCHANGED <<config, checked, leaves, resolved, done, outcome>>

\* Mutant: what a group resolves to is not remembered.
ReturnForgotten ==
  /\ outcome = "flattening" /\ stack # <<>> /\ Top.next > Len(Includes)
  /\ stack' = Front(stack)
  /\ UNCHANGED <<config, checked, leaves, resolved, done, outcome>>

\* flatten returns.
Return ==
  /\ outcome = "flattening" /\ stack # <<>> /\ Top.next > Len(Includes)
  /\ Remember(Top.name, Top.out)
  /\ stack' = Front(stack)
  /\ UNCHANGED <<config, checked, leaves, resolved, outcome>>

\* The loop of Resolve: the next group is flattened ...
ResolveEnter(g) ==
  /\ outcome = "flattening" /\ stack = <<>> /\ IsNext(g, resolved)
  /\ Enter(g)

\* ... and then it is the next one's turn.
ResolveAdvance(g) ==
  /\ outcome = "flattening" /\ stack = <<>> /\ IsNext(g, resolved)
  /\ g \in DOMAIN done
  /\ resolved' = resolved \cup {g}
  /\ UNCHANGED <<config, checked, leaves, stack, done, outcome>>

Finish ==
  /\ outcome = "flattening" /\ stack = <<>> /\ resolved = Defined
  /\ outcome' = "resolved"
  /\ UNCHANGED <<config, checked, leaves, resolved, stack, done>>

ResolveStep ==
  \/ \E g \in Defined : CheckSource(g)
  \/ StartFlattening
  \/ IncludeUnknown
  \/ IncludeEnter
  \/ IncludeAdd
  \/ IncludeAdvance
  \/ Return
  \/ \E g \in Defined : ResolveEnter(g)
  \/ \E g \in Defined : ResolveAdvance(g)
  \/ Finish

-----------------------------------------------------------------------------
(***************************************************************************)
(* What a configuration means, defined without the walk.                   *)
(***************************************************************************)

IncludesOf(g) == IF Composed(g) THEN ToSet(config[g].includes) \cap Defined ELSE {}

Closed(S) == \A g \in S : IncludesOf(g) \subseteq S

\* The groups that are g, or included by it, or by one of these: what every closed
\* set with g in it has.
ReachableFrom(g) == {h \in Defined : \A S \in SUBSET Defined : g \in S /\ Closed(S) => h \in S}

OnCycle(g) == \E h \in IncludesOf(g) : g \in ReachableFrom(h)

\* A group that is flattened stands for the leaf groups it reaches, each of them
\* once, by however many ways it reaches them; in the end every group is.
FlattenedIsReachable ==
  /\ \A g \in DOMAIN done :
       ToSet(done[g]) = {h \in ReachableFrom(g) : ~Composed(h)} /\ IsInjective(done[g])
  /\ outcome = "resolved" => DOMAIN done = Defined

\* What is wrong with the groups, by the outcome that says so.  A diamond is no
\* cycle.
GroupFaults ==
  {o \in {"ambiguous", "invalid_ref", "cyclic", "unknown"} :
     \E g \in Defined :
       CASE o = "ambiguous"   -> Cardinality(config[g].sources) # 1
         [] o = "invalid_ref" -> config[g].sources = {"repos"} /\ ~config[g].valid
         [] o = "cyclic"      -> OnCycle(g)
         [] OTHER             -> ~(ToSet(config[g].includes) \subseteq Defined)}
=============================================================================
