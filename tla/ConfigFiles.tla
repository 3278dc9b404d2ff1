---------------------------- MODULE ConfigFiles ----------------------------
(***************************************************************************)
(* Where a configuration file is looked for, and where one is written:     *)
(* Find (internal/config/config.go), scaffoldPath and checkDestination     *)
(* (internal/cmd/init.go) and exportPath (internal/cmd/export.go).  A path *)
(* is a directory and a spelling; an answer is what --config or --out says: *)
(* nothing, a directory, or a path.                                        *)
(*                                                                         *)
(* Left out: a directory that is missing or cannot be read or written, and *)
(* files that come and go while a command looks at them.                   *)
(***************************************************************************)
EXTENDS FiniteSets

VARIABLES
  disk,      \* the contents of the files there are, by path
  explicit,  \* --config
  path       \* Config.Path: the file that is read, or NoPath

\* The working directory and the XDG one are searched; others are not.
Dirs  == {"working", "config"}
Paths == (Dirs \X {"yml", "yaml"}) \cup {<<"elsewhere", "local">>}

Answers == {<<>>} \cup {<<d>> : d \in Dirs} \cup Paths
NoPath  == <<>>

FindInDir(d) == {p \in DOMAIN disk : p[1] = d}

\* Find: the files in the first directory that has any.  There has to be one.
Find ==
  CASE explicit \in Paths -> {explicit} \cap DOMAIN disk
    [] explicit = <<>> -> IF FindInDir("working") # {} THEN FindInDir("working") ELSE FindInDir("config")
    [] OTHER -> FindInDir(explicit[1])

\* scaffoldPath and exportPath: a directory means labels.yml inside it.
Destination(choice) ==
  IF choice \in Paths THEN choice ELSE <<IF choice = <<>> THEN "working" ELSE choice[1], "yml">>

OtherSpelling(p) == {q \in Paths : q[1] = p[1] /\ q # p}

\* Mutant: --force answers for the other spelling as well.
ForcedAnyway(p, force) ==
  force \/ (OtherSpelling(p) \cap DOMAIN disk = {} /\ p \notin DOMAIN disk)

\* checkDestination: there is no forcing a directory to hold both spellings.
MayScaffold(p, force) ==
  OtherSpelling(p) \cap DOMAIN disk = {} /\ (force \/ p \notin DOMAIN disk)

WriteFile(p, content) ==
  disk' = [q \in DOMAIN disk \cup {p} |-> IF q = p THEN content ELSE disk[q]]
=============================================================================
