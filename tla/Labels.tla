------------------------------- MODULE Labels -------------------------------
(***************************************************************************)
(* The labels of a repository as GitHub keeps them, and what its three     *)
(* write endpoints do to them.  GitHub is not part of the repository: it   *)
(* is modelled from how internal/github/labels.go and client.go use it.    *)
(*                                                                         *)
(* A view is the set of labels of one repository, keyed by lower-cased     *)
(* name: GitHub refuses two labels whose names differ only in case, and    *)
(* looks a label up case-insensitively.  A label carries, next to the      *)
(* three fields the program reads, the key it had when the behaviour       *)
(* began: it stands for the label's node id, which issues and pull         *)
(* requests refer to and which a PATCH keeps and a delete destroys.        *)
(***************************************************************************)
EXTENDS Integers, FiniteSets, Sequences

CONSTANTS
  Repos,     \* the repositories of the run
  Names,     \* label names, casing included
  Lower,     \* strings.ToLower on Names: a name's key
  Rank,      \* position of a name in ascending byte order
  Colors,    \* normalised colours: bare lower-case hex
  Descs,     \* descriptions, NoDesc among them
  NoDesc,    \* the empty description
  None,      \* no label under this key
  Keep,      \* a nil pointer of an update: leave the field alone
  Fresh      \* the origin of a label created during the behaviour

Keys == {Lower[n] : n \in Names}

ASSUME NamesAssumption ==
  /\ Lower \in [Names -> Names]
  /\ \A n \in Names : Lower[Lower[n]] = Lower[n]
  /\ Rank \in [Names -> Nat]
  /\ \A m, n \in Names : Rank[m] = Rank[n] => m = n

Label == [origin : Keys \cup {Fresh}, name : Names, color : Colors, desc : Descs]

ASSUME SentinelAssumption ==
  /\ NoDesc \in Descs
  /\ None \notin Label
  /\ Keep \notin Names \cup Colors \cup Descs
  /\ Fresh \notin Keys

Views == [Keys -> Label \cup {None}]

\* A view in which every label sits under its own lower-cased name.
WellKeyed(v) == \A k \in Keys : v[k] # None => Lower[v[k].name] = k

Present(v) == {k \in Keys : v[k] # None}

\* The identities that are alive in a repository.
Origins(v) == {v[k].origin : k \in Present(v)}

-----------------------------------------------------------------------------
(***************************************************************************)
(* plan.Action.  The executor walks a slice of actions in order; here a    *)
(* plan is a set of actions that carry their position: the phase of        *)
(* Compute that emitted them and their place within it.                    *)
(***************************************************************************)
Renaming   == 1
Recolouring == 2
Creating   == 3
Existing   == 4
Deleting   == 5

Kinds == {"create", "update", "delete", "noop"}

ActionRecord == [kind    : Kinds,
                 phase   : 1..5,
                 pos     : Nat,
                 name    : Names,
                 newName : Names \cup {Keep},
                 color   : Colors \cup {Keep},
                 desc    : Descs \cup {Keep}]

\* A create carries every field, because there is nothing to leave alone.
Action == {a \in ActionRecord : a.kind = "create" =>
             a.newName = Keep /\ a.color # Keep /\ a.desc # Keep}

Before(a, b) ==
  \/ a.phase < b.phase
  \/ a.phase = b.phase /\ a.pos < b.pos

\* The requests a set of actions sends: a no-op never reaches the API.
Writes(actions) == {a \in actions : a.kind # "noop"}

Removals(actions) == {a \in actions : a.kind = "delete"}

Or(new, old) == IF new = Keep THEN old ELSE new

-----------------------------------------------------------------------------
(***************************************************************************)
(* What GitHub answers to a write: "ok", "missing" (404, no such label) or *)
(* "exists" (422 already_exists, the name belongs to another label).       *)
(***************************************************************************)
Target(a) == Lower[Or(a.newName, a.name)]

Answer(v, a) ==
  CASE a.kind = "create" -> IF v[Target(a)] # None THEN "exists" ELSE "ok"
    [] a.kind = "update" -> IF v[Lower[a.name]] = None THEN "missing"
                            ELSE IF /\ Target(a) # Lower[a.name]
                                    /\ v[Target(a)] # None THEN "exists"
                            ELSE "ok"
    [] OTHER             -> IF v[Lower[a.name]] = None THEN "missing" ELSE "ok"

Created(a) == [origin |-> Fresh, name |-> a.name, color |-> a.color, desc |-> a.desc]

Patched(l, a) == [origin |-> l.origin,
                  name   |-> Or(a.newName, l.name),
                  color  |-> Or(a.color, l.color),
                  desc   |-> Or(a.desc, l.desc)]

\* The repository after a write GitHub accepted.
Effect(v, a) ==
  CASE a.kind = "create" -> [v EXCEPT ![Target(a)] = Created(a)]
    [] a.kind = "update" ->
         [k \in Keys |-> IF k = Target(a) THEN Patched(v[Lower[a.name]], a)
                         ELSE IF k = Lower[a.name] THEN None
                         ELSE v[k]]
    [] OTHER             -> [v EXCEPT ![Lower[a.name]] = None]

\* The repository after a write, accepted or refused.
Served(v, a) == IF Answer(v, a) = "ok" THEN Effect(v, a) ELSE v

-----------------------------------------------------------------------------
(***************************************************************************)
(* What plan.Compute takes for granted of a configuration that has passed  *)
(* config.Validate.                                                        *)
(***************************************************************************)
Wanted == [name : Names, color : Colors, desc : Descs]

OneLabelPerKey(desired) == \A c, d \in desired : Lower[c.name] = Lower[d.name] => c = d

\* No two renames share a source or a target, none continues another, and none
\* takes the name of a configured label away.
SimpleRenames(renames, configured) ==
  /\ renames \in Seq([from : Names, to : Names])
  /\ \A i, j \in DOMAIN renames :
        /\ Lower[renames[i].from] = Lower[renames[j].from] => i = j
        /\ Lower[renames[i].to] = Lower[renames[j].to] => i = j
        /\ Lower[renames[i].from] # Lower[renames[j].to]
  /\ \A i \in DOMAIN renames : Lower[renames[i].from] \notin configured
=============================================================================
