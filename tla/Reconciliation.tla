--------------------------- MODULE Reconciliation ---------------------------
(***************************************************************************)
(* What a sync promises to do to the labels of the repositories, without   *)
(* saying how: no reads, plans, requests, runs or crashes.  Every write is *)
(* one of the five kinds below, is made to one label, and is made only     *)
(* when the repository is ready for it.  The promise is the one the doc    *)
(* comments of plan.Compute and apply.Apply make; Sync is shown to keep it.*)
(***************************************************************************)
EXTENDS Planner

CONSTANTS
  Stores,      \* the labels the repositories may start with
  MayRemove    \* whether any run is a prune run

VARIABLE store

PromiseInit == store \in Stores

Becomes(r, v) == store' = [store EXCEPT ![r] = v]

\* A renamed label moves, with its identity, to a name that is free.
MoveLabel(r, i) ==
  LET v == store[r]
  IN  /\ v[From(i)] # None
      /\ v[To(i)] = None
      /\ Becomes(r, [v EXCEPT ![From(i)] = None,
                              ![To(i)] = [v[From(i)] EXCEPT !.name = Renames[i].to]])

\* A label that is not configured here moves to a colour nobody configured; one
\* that a rename would make a configured label is not touched before it.
MoveColor(r, k) ==
  /\ k \in Unconfigured(r, store[r])
  /\ \A i \in DOMAIN Renames :
       k = From(i) /\ To(i) \in Configured(r) => store[r][To(i)] # None
  /\ \E c \in Palette \ Reserved(r) :
       Becomes(r, [store[r] EXCEPT ![k].color = c])

\* A configured label is made to look as configured, in one write, when its
\* colour is free of squatters.  It is created only if there is no label that a
\* rename would make it.
Settle(r, d) ==
  LET k == Lower[d.name]
      l == store[r][k]
  IN  /\ \A j \in Squatters(r, store[r]) : store[r][j].color # d.color
      /\ \A i \in DOMAIN Renames : k = To(i) /\ l = None => store[r][From(i)] = None
      /\ Becomes(r, [store[r] EXCEPT ![k] =
           [origin |-> IF l = None THEN Fresh ELSE l.origin,
            name |-> d.name, color |-> d.color, desc |-> d.desc]])

\* A label is removed only when nothing else is left to do.
Remove(r, k) ==
  /\ MayRemove
  /\ Conforms(r, store[r])
  /\ k \in Unconfigured(r, store[r])
  /\ Becomes(r, [store[r] EXCEPT ![k] = None])

PromiseNext ==
  \E r \in Repos :
    /\ Desired[r] # {}
    /\ \/ \E i \in DOMAIN Renames : MoveLabel(r, i)
       \/ \E k \in Keys : MoveColor(r, k)
       \/ \E d \in Desired[r] : Settle(r, d)
       \/ \E k \in Keys : Remove(r, k)

PromiseSpec == PromiseInit /\ [][PromiseNext]_store
=============================================================================
