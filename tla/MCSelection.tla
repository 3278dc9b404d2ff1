---------------------------- MODULE MCSelection ----------------------------
(***************************************************************************)
(* An organisation and a user with two repositories each, listed by        *)
(* several groups that filter differently.                                 *)
(***************************************************************************)
EXTENDS Selection

FourRepos == {"acme/app", "acme/web", "joe/dot", "joe/lib"}

ByName == [r \in FourRepos |-> CASE r = "acme/app" -> 1 [] r = "acme/web" -> 2
                                 [] r = "joe/dot" -> 3 [] r = "joe/lib" -> 4]

TwoOwners == [r \in FourRepos |-> IF r \in {"acme/app", "acme/web"} THEN "acme" ELSE "joe"]

Active == [archived |-> FALSE, fork |-> FALSE, private |-> FALSE]

Archived == [Active EXCEPT !.archived = TRUE]

Private == [Active EXCEPT !.private = TRUE]

Fork == [Active EXCEPT !.fork = TRUE]

Mixed == [r \in FourRepos |->
            CASE r = "acme/app" -> Active
              [] r = "acme/web" -> Archived
              [] r = "joe/dot"  -> Private
              [] r = "joe/lib"  -> Fork]

All == [kind |-> "org", owner |-> "acme", own |-> FALSE, named |-> {},
        include |-> FourRepos, exclude |-> {},
        skipArchived |-> FALSE, skipForks |-> FALSE, visibility |-> "all"]

Config ==
  [active |-> [All EXCEPT !.skipArchived = TRUE],
   secret |-> [All EXCEPT !.visibility = "private"],
   code   |-> [All EXCEPT !.exclude = {"acme/app"}],
   own    |-> [All EXCEPT !.kind = "user", !.owner = "joe", !.skipForks = TRUE],
   picked |-> [All EXCEPT !.kind = "repos", !.named = {"acme/web", "acme/app"}]]

Flattened ==
  [active |-> <<"active">>, secret |-> <<"secret">>, code |-> <<"code">>,
   own |-> <<"own">>, picked |-> <<"picked">>,
   most |-> <<"active", "own", "picked">>, org |-> <<"active", "secret", "code">>]

Labels == [bug |-> {"active"}, security |-> {"secret"}, chore |-> {"code"}, meta |-> {"picked"}]

Run(groups, explicit) == [groups |-> groups, explicit |-> explicit]

Listings ==
  {Run(<<"most", "own">>, {}), Run(<<"org">>, {}), Run(<<"most", "mots">>, {}),
   Run(<<"most">>, {"acme/web", "joe/lib", "joe/dot"})}

Explicit == {Run(<<"most">>, {"acme/web"})}
=============================================================================
