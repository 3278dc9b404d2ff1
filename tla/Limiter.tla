------------------------------ MODULE Limiter -------------------------------
(***************************************************************************)
(* Keeping a run inside GitHub's limits: ratelimit.Limiter and Transport   *)
(* (internal/github/ratelimit), the retry loops of Client.Do and           *)
(* retryTransport above them (internal/github/client.go), and the budget   *)
(* check of applyPlan (internal/cmd/sync.go).  The callers are the         *)
(* goroutines that send requests: several label readers at once, or the    *)
(* one writer of an apply.  They share the limiter.                        *)
(*                                                                         *)
(* Time is relative: a deadline is the number of ticks left until it, 0    *)
(* once it has passed.  A token of the bucket is counted as the Gap ticks  *)
(* it takes to arrive, so a minute's worth is Rate * Gap ticks, and the    *)
(* bucket is topped up at every tick instead of when it is next looked at. *)
(*                                                                         *)
(* GitHub's side (quota, renew and Serve) is external.  Not here: what the *)
(* countdown prints, the delay before a 5xx is retried (any time may pass  *)
(* between two attempts), and requests of other users of the token.        *)
(***************************************************************************)
EXTENDS Integers, FiniteSets

CONSTANTS
  Callers,      \* goroutines that send requests
  Writers,      \* those whose requests create content
  Teams,        \* those that send requests in the same phase of a run
  Requests,     \* how many requests each of them has to make
  Rate,         \* --write-rate: tokens per minute, 0 to disable pacing
  Gap,          \* ticks in which one token arrives
  MaxWait,      \* --max-wait, 0 for no limit
  Threshold,    \* the budget that is kept back
  Base,         \* secondaryBackoff
  MaxBackoff,   \* maxSecondaryBackoff
  Primings,     \* whether GET /rate_limit is read at startup: it may fail, or not be asked
  MaxTries,     \* maxRetries: how often a 5xx is retried
  Budget,       \* GitHub: requests per window
  Window,       \* GitHub: ticks per window
  Kinds,        \* GitHub: what it may answer within the budget
  RetryAfters   \* GitHub: the values of Retry-After, 0 for none

Minute == Rate * Gap

ASSUME LimiterAssumption ==
  /\ IsFiniteSet(Callers) /\ Writers \subseteq Callers
  /\ Teams \subseteq SUBSET Callers
  /\ \A t \in Teams : \A v, w \in t \cap Writers : v = w  \* Apply writes one label after the other
  /\ Requests \in [Callers -> Nat]
  /\ Rate \in Nat /\ Gap \in Nat \ {0}
  /\ MaxWait \in Nat /\ Threshold \in Nat
  /\ Base \in Nat \ {0} /\ MaxBackoff \in Nat /\ Base <= MaxBackoff
  /\ Primings \subseteq BOOLEAN
  /\ MaxTries \in Nat
  /\ Budget \in Nat \ {0} /\ Window \in Nat \ {0}
  /\ Kinds \subseteq {"ok", "error", "gateway", "secondary", "disguised"}
  /\ RetryAfters \subseteq Nat /\ 0 \in RetryAfters

VARIABLES
  credit,    \* tokens, in ticks
  known,     \* remaining and reset, the last reading of the primary budget
  waited,    \* what has been booked against MaxWait
  backoff,   \* the next wait for a secondary limit
  pending,   \* the writes the run still expects to send
  pc,        \* how far each caller has come with its request
  left,      \* the requests a caller has not completed
  wake,      \* ticks a caller has still to sleep
  owed,      \* the budget wait a caller takes after pacing
  answer,    \* GitHub's answer to a caller
  tries,     \* 5xx answers to a caller's request
  outcome,   \* what has become of the run
  team,      \* the callers of this run
  quota,     \* GitHub: requests left in the window
  renew,     \* GitHub: ticks until the next window
  asleep,    \* (history) ticks in which somebody sat out a limit, up to MaxWait + 1
  refused,   \* (history) the wait that would have exceeded MaxWait
  tally,     \* (history) the tokens, in ticks, that went out in a minute
  drawn      \* (history) readings of this window taken with quota at Threshold or below

limiter == <<credit, known, waited, backoff, pending>>
callers == <<pc, left, wake, owed, answer, tries, outcome, team>>
github  == <<quota, renew>>
history == <<asleep, refused, tally, drawn>>
vars    == <<credit, known, waited, backoff, pending, pc, left, wake, owed, answer, tries,
             outcome, team, quota, renew, asleep, refused, tally, drawn>>

Reading == [valid : BOOLEAN, remaining : Nat, left : Nat]

Response == [kind : Kinds \cup {"primary"}, remaining : Nat, left : Nat, after : Nat]

NoResponse == [kind |-> "none", remaining |-> 0, left |-> 0, after |-> 0]

\* Sitting out a limit, on account of the budget or of a refusal.
Sleeping(c) == pc[c] \in {"budgeting", "waiting"} /\ wake[c] > 0

TypeOK ==
  /\ credit \in Int /\ credit <= Minute
  /\ known \in Reading
  /\ waited \in Nat
  /\ backoff \in Base..MaxBackoff
  /\ pending \in Nat
  /\ pc \in [Callers -> {"idle", "pacing", "budgeting", "sent", "answered", "waiting"}]
  /\ left \in [Callers -> Nat]
  /\ wake \in [Callers -> Nat]
  /\ owed \in [Callers -> Nat]
  /\ answer \in [Callers -> Response \cup {NoResponse}]
  /\ \A c \in Callers :
       /\ pc[c] = "answered" /\ outcome \in {"planned", "running"} => answer[c] \in Response
       /\ pc[c] # "idle" => left[c] > 0
       /\ left[c] > 0 => c \in team
  /\ tries \in [Callers -> 0..MaxTries]
  /\ outcome \in {"planned", "running", "unaffordable", "max_wait_exceeded", "error"}
  /\ team \in Teams
  /\ quota \in 0..Budget
  /\ renew \in 1..Window
  /\ asleep \in Nat /\ refused \in Nat
  /\ tally \in [age : Nat, cost : Nat] /\ drawn \in Nat

Sooner(n) == IF n > 0 THEN n - 1 ELSE 0

Uncounted == [age |-> 0, cost |-> 0]

\* New: the bucket starts full.  A run may start anywhere in a window.
Init ==
  /\ quota \in 0..Budget /\ renew \in 1..Window
  /\ credit = Minute
  /\ \E primed \in Primings :
       known = IF primed THEN [valid |-> TRUE, remaining |-> quota, left |-> renew]
                         ELSE [valid |-> FALSE, remaining |-> 0, left |-> 0]
  /\ waited = 0 /\ backoff = Base /\ pending = 0
  /\ pc = [c \in Callers |-> "idle"]
  /\ team \in Teams
  /\ left = [c \in Callers |-> IF c \in team THEN Requests[c] ELSE 0]
  /\ wake = [c \in Callers |-> 0]
  /\ owed = [c \in Callers |-> 0]
  /\ answer = [c \in Callers |-> NoResponse]
  /\ tries = [c \in Callers |-> 0]
  /\ outcome = IF team \cap Writers = {} THEN "running" ELSE "planned"
  /\ asleep = 0 /\ refused = 0 /\ tally = Uncounted /\ drawn = 0

-----------------------------------------------------------------------------
Affordable(writes) == known.valid => writes <= known.remaining

\* applyPlan: a plan that does not fit the budget is refused before its first
\* write; otherwise the limiter is told how many writes to expect.
Begin(c) ==
  /\ outcome = "planned" /\ c \in team \cap Writers
  /\ IF Affordable(left[c])
       THEN outcome' = "running" /\ pending' = left[c]
       ELSE outcome' = "unaffordable" /\ UNCHANGED pending
  /\ UNCHANGED <<credit, known, waited, backoff, pc, left, wake, owed, answer, tries, team,
                 github, history>>

\* plan: the wait for a token, which is spent whether or not it is there yet.
Pace(c) == IF c \in Writers /\ Rate > 0 /\ credit < Gap THEN Gap - credit ELSE 0

\* plan: the wait for the reset, when the last reading was too low.
BudgetWait == IF known.valid /\ known.remaining <= Threshold THEN known.left ELSE 0

\* Await, up to its first sleep: both waits are decided under one lock.
Await(c) ==
  /\ outcome = "running" /\ pc[c] = "idle" /\ left[c] > 0
  /\ pc' = [pc EXCEPT ![c] = "pacing"]
  /\ wake' = [wake EXCEPT ![c] = Pace(c)]
  /\ owed' = [owed EXCEPT ![c] = BudgetWait]
  /\ IF c \in Writers /\ Rate > 0
       THEN /\ credit' = credit - Gap
            /\ pending' = IF pending > 0 THEN pending - 1 ELSE 0
       ELSE UNCHANGED <<credit, pending>>
  /\ UNCHANGED <<known, waited, backoff, left, answer, tries, outcome, team, github,
                 history>>

\* Mutant: the ceiling is compared with this wait alone.
AffordsEach(d) == MaxWait > 0 => d <= MaxWait

\* Mutant: a wait that uses the ceiling up exactly is refused.
AffordsStrictly(d) == MaxWait > 0 => waited + d < MaxWait

\* spend
Affords(d) == MaxWait > 0 => waited + d <= MaxWait

\* Mutant: a wait is not booked.
BookedNothing(d) == waited

Booked(d) == IF MaxWait > 0 THEN waited + d ELSE waited

\* waitOut: d ticks of sleep against MaxWait, or the end of the run.
WaitOut(c, d, sleeping, awake) ==
  \/ /\ d = 0
     /\ pc' = [pc EXCEPT ![c] = awake]
     /\ UNCHANGED <<waited, wake, outcome, refused>>
  \/ /\ d > 0 /\ Affords(d)
     /\ waited' = Booked(d)
     /\ wake' = [wake EXCEPT ![c] = d]
     /\ pc' = [pc EXCEPT ![c] = sleeping]
     /\ UNCHANGED <<outcome, refused>>
  \/ /\ d > 0 /\ ~Affords(d)
     /\ outcome' = "max_wait_exceeded"
     /\ refused' = d
     /\ UNCHANGED <<pc, waited, wake>>

\* A write that leaves may open the minute that is being counted: any minute
\* that begins with a write.
Counts(c) ==
  \/ c \notin Writers /\ UNCHANGED tally
  \/ c \in Writers /\ tally = Uncounted /\ UNCHANGED tally
  \/ c \in Writers /\ tally' = [tally EXCEPT !.cost = @ + Gap]

\* Await, after pacing: on to the budget wait, which was decided before it.
Paced(c) ==
  /\ outcome = "running" /\ pc[c] = "pacing" /\ wake[c] = 0
  /\ WaitOut(c, owed[c], "budgeting", "sent")
  /\ IF pc'[c] = "sent" THEN Counts(c) ELSE UNCHANGED tally
  /\ UNCHANGED <<credit, known, backoff, pending, left, owed, answer, tries, team, github,
                 asleep, drawn>>

\* Await returns after a budget wait, and the request goes out.
Budgeted(c) ==
  /\ outcome = "running" /\ pc[c] = "budgeting" /\ wake[c] = 0
  /\ pc' = [pc EXCEPT ![c] = "sent"]
  /\ Counts(c)
  /\ UNCHANGED <<limiter, left, wake, owed, answer, tries, outcome, team, github, asleep,
                 refused, drawn>>

\* GitHub answers: a primary limit when the window's budget is spent, otherwise
\* anything in Kinds, with the budget that is left and the time of the reset.  A
\* gateway in front of it fails without either, whether or not GitHub was asked.
Serve(c) ==
  /\ outcome = "running" /\ pc[c] = "sent"
  /\ pc' = [pc EXCEPT ![c] = "answered"]
  /\ \/ /\ quota = 0
        /\ answer' = [answer EXCEPT ![c] =
             [kind |-> "primary", remaining |-> 0, left |-> renew, after |-> 0]]
        /\ drawn' = drawn + 1
        /\ UNCHANGED quota
     \/ /\ quota > 0
        /\ \E kind \in Kinds \ {"gateway"}, after \in RetryAfters :
             /\ kind # "secondary" => after = 0
             /\ answer' = [answer EXCEPT ![c] =
                  [kind |-> kind, remaining |-> quota - 1, left |-> renew, after |-> after]]
        /\ quota' = quota - 1
        /\ drawn' = IF quota <= Threshold THEN drawn + 1 ELSE drawn
     \/ /\ "gateway" \in Kinds
        /\ answer' = [answer EXCEPT ![c] =
             [kind |-> "gateway", remaining |-> 0, left |-> 0, after |-> 0]]
        /\ quota' \in {quota, Sooner(quota)}
        /\ UNCHANGED drawn
  /\ UNCHANGED <<limiter, left, wake, owed, tries, outcome, team, renew, asleep, refused, tally>>

-----------------------------------------------------------------------------
\* Mutant: only a request that succeeded leaves a reading.
ObserveSuccess(c) ==
  known' = IF answer[c].kind # "ok" THEN known
           ELSE [valid |-> TRUE, remaining |-> answer[c].remaining, left |-> answer[c].left]

\* Observe: every response with the headers overwrites the reading, in the order
\* in which they are read.
Observe(c) ==
  known' = IF answer[c].kind = "gateway" THEN known
           ELSE [valid |-> TRUE, remaining |-> answer[c].remaining, left |-> answer[c].left]

Returns(c, kind) ==
  /\ outcome = "running" /\ pc[c] = "answered" /\ answer[c].kind = kind
  /\ Observe(c)
  /\ answer' = [answer EXCEPT ![c] = NoResponse]

\* The request succeeded, and Do returns.
Complete(c) ==
  /\ Returns(c, "ok")
  /\ left' = [left EXCEPT ![c] = @ - 1]
  /\ tries' = [tries EXCEPT ![c] = 0]
  /\ pc' = [pc EXCEPT ![c] = "idle"]
  /\ UNCHANGED <<credit, waited, backoff, pending, wake, owed, outcome, team, github, history>>

\* retryTransport sits above the limiter: a 5xx is sent again, as a request
\* like any other.  The last one is Do's error, which ends the run.
ServerError(c) ==
  /\ Returns(c, "error") \/ Returns(c, "gateway")
  /\ IF tries[c] < MaxTries
       THEN /\ tries' = [tries EXCEPT ![c] = @ + 1]
            /\ pc' = [pc EXCEPT ![c] = "idle"]
            /\ UNCHANGED outcome
       ELSE /\ outcome' = "error"
            /\ UNCHANGED <<tries, pc>>
  /\ UNCHANGED <<credit, waited, backoff, pending, left, wake, owed, team, github, history>>

\* Recover waits, and Do makes the call again, with no 5xx held against it.
Recover(c, d) ==
  /\ WaitOut(c, d, "waiting", "idle")
  /\ tries' = [tries EXCEPT ![c] = 0]
  /\ UNCHANGED <<credit, pending, left, owed, team, github, asleep, tally, drawn>>

\* penalty: a primary limit lasts until the reset.
PrimaryLimit(c) ==
  /\ Returns(c, "primary")
  /\ backoff' = Base
  /\ Recover(c, answer[c].left)

\* penalty: a secondary limit that says how long it lasts ...
SecondaryLimit(c) ==
  /\ Returns(c, "secondary") /\ answer[c].after > 0
  /\ backoff' = Base
  /\ Recover(c, answer[c].after)

\* ... or does not, and is backed off from, give or take a fifth.
Jittered(d) == (d - (d \div 5))..(d + (d \div 5))

BackOff(c) ==
  /\ Returns(c, "secondary") /\ answer[c].after = 0
  /\ backoff' = IF backoff * 2 < MaxBackoff THEN backoff * 2 ELSE MaxBackoff
  /\ \E d \in Jittered(backoff) : Recover(c, d)

\* A 403 or 429 that is a rate limit by its headers only: Classify takes it for
\* one, Recover has no typed error to go by, and Do returns it as the run's.
Disguised(c) ==
  /\ Returns(c, "disguised")
  /\ outcome' = "error"
  /\ UNCHANGED <<credit, waited, backoff, pending, pc, left, wake, owed, tries, team, github,
                 history>>

\* Do's loop: the wait is over and the call is made again.
Resume(c) ==
  /\ outcome = "running" /\ pc[c] = "waiting" /\ wake[c] = 0
  /\ pc' = [pc EXCEPT ![c] = "idle"]
  /\ UNCHANGED <<limiter, left, wake, owed, answer, tries, outcome, team, github, history>>

Step(c) ==
  \/ Begin(c)
  \/ Await(c)
  \/ Paced(c)
  \/ Budgeted(c)
  \/ Serve(c)
  \/ Complete(c)
  \/ ServerError(c)
  \/ PrimaryLimit(c)
  \/ SecondaryLimit(c)
  \/ BackOff(c)
  \/ Disguised(c)
  \/ Resume(c)

-----------------------------------------------------------------------------
\* Mutant: the bucket is not capped.
RefillWithoutCap(tokens) == tokens + 1

\* refill
Refill(tokens) == IF tokens < Minute THEN tokens + 1 ELSE tokens

\* A tick passes, for everybody.  A timer may fire late.
Tick ==
  /\ outcome = "running"
  /\ \E c \in Callers : left[c] > 0
  /\ credit' = Refill(credit)
  /\ known' = [known EXCEPT !.left = Sooner(@)]
  /\ wake' = [c \in Callers |-> Sooner(wake[c])]
  /\ answer' = [c \in Callers |-> [answer[c] EXCEPT !.left = Sooner(@)]]
  /\ IF renew > 1 THEN renew' = renew - 1 /\ UNCHANGED <<quota, drawn>>
                  ELSE renew' = Window /\ quota' = Budget /\ drawn' = 0
  /\ asleep' = IF asleep <= MaxWait /\ \E c \in Callers : Sleeping(c)
                 THEN asleep + 1 ELSE asleep
  /\ tally' = IF tally.cost > 0 /\ tally.age + 1 < Minute
                THEN [tally EXCEPT !.age = @ + 1] ELSE Uncounted
  /\ UNCHANGED <<waited, backoff, pending, pc, left, owed, tries, outcome, team, refused>>

Next == Tick \/ \E c \in Callers : Step(c)

Spec == Init /\ [][Next]_vars

\* Time passes, timers fire and GitHub answers.
FairSpec == Spec /\ WF_vars(Tick) /\ \A c \in Callers : WF_vars(Step(c))

-----------------------------------------------------------------------------
(***************************************************************************)
(* Properties.                                                             *)
(***************************************************************************)

\* The total time a run sits asleep for limits never exceeds --max-wait, and
\* is never more than what has been booked, however many callers wait at once.
AsleepWithinMaxWait == MaxWait > 0 => asleep <= waited /\ waited <= MaxWait

\* With one caller at a time, as in an apply, a wait is refused only when it would
\* take the time asleep past --max-wait: nothing is booked that was not slept.
RefusesOnlyPastCeiling ==
  (\E c \in Callers : team = {c}) /\ refused > 0 => asleep + refused > MaxWait

\* In any minute, the writes that go out are a full bucket and what arrives
\* in it, one of them perhaps having been paid for before the minute began.
PacedWrites == Rate > 0 => tally.cost <= Minute + tally.age + Gap

\* What the margin has to absorb.  Once GitHub's count is down to the threshold,
\* n callers get at most n + (n - 1) + ... + 1 requests more through to it, served
\* or refused, before the window ends, however late and in whatever order their
\* answers are read: one, for the writer of an apply.  Those that a gateway
\* answered are not among them, since nothing is known of what they cost.
DrawIsBounded ==
  LET n == Cardinality(team) IN 2 * drawn <= n * (n + 1)

\* Every request is answered in the end, or the run is over: rate limits cannot
\* keep Do in its loop, since each wait brings the run closer to --max-wait.  (A
\* window has to hold more than what repeated 5xx spend: with a budget of two, they
\* can use it up each time just before it ends, and the wait for its end is zero.)
EveryCallEnds == <>(outcome \notin {"planned", "running"} \/ \A c \in Callers : left[c] = 0)
=============================================================================
