--------------------------- MODULE LimiterProofs ----------------------------
(***************************************************************************)
(* What holds of Limiter for any number of callers, requests and ticks and *)
(* any answers of GitHub: its types, the ceiling on the time spent asleep, *)
(* the pace of a single writer, where a single caller is told to give up,  *)
(* that going on would have broken the ceiling, and how many requests can  *)
(* still go out once the budget is down to the threshold.                  *)
(***************************************************************************)
EXTENDS Limiter, FiniteSetTheorems, TLAPS

\* The constants, as the leaves below use them.
LEMMA Constants ==
  /\ Minute \in Nat /\ Rate \in Nat /\ Gap \in Nat /\ Gap > 0
  /\ MaxWait \in Nat /\ Threshold \in Nat /\ MaxTries \in Nat
  /\ Base \in Nat /\ Base > 0 /\ MaxBackoff \in Nat /\ Base <= MaxBackoff
  /\ Budget \in Nat /\ Budget > 0 /\ Window \in Nat /\ Window > 0
  /\ IsFiniteSet(Callers) /\ Writers \subseteq Callers /\ Requests \in [Callers -> Nat]
BY LimiterAssumption DEF LimiterAssumption, Minute

-----------------------------------------------------------------------------
(***************************************************************************)
(* Types.                                                                  *)
(***************************************************************************)

Stages == {"idle", "pacing", "budgeting", "sent", "answered", "waiting"}

LEMMA InitTyped == Init => TypeOK
<1> SUFFICES ASSUME Init PROVE TypeOK
  OBVIOUS
<1> USE Constants DEF Init
<1>1. known \in Reading
  <2>1. PICK primed \in Primings :
          known = IF primed THEN [valid |-> TRUE, remaining |-> quota, left |-> renew]
                            ELSE [valid |-> FALSE, remaining |-> 0, left |-> 0]
    OBVIOUS
  <2> QED
    BY <2>1 DEF Reading
<1>2. tally \in [age : Nat, cost : Nat]
  BY DEF Uncounted
<1>3. backoff \in Base..MaxBackoff /\ tries \in [Callers -> 0..MaxTries]
  OBVIOUS
<1>4. answer \in [Callers -> Response \cup {NoResponse}]
  OBVIOUS
<1>5. credit \in Int /\ credit <= Minute
  OBVIOUS
<1> QED
  BY <1>1, <1>2, <1>3, <1>4, <1>5 DEF TypeOK

\* The clause of TypeOK that relates the callers' variables.
Underway ==
  \A c \in Callers :
    /\ pc[c] = "answered" /\ outcome \in {"planned", "running"} => answer[c] \in Response
    /\ pc[c] # "idle" => left[c] > 0
    /\ left[c] > 0 => c \in team

\* waitOut keeps the types of what it changes.
LEMMA WaitOutTyped ==
  ASSUME TypeOK, NEW c \in Callers, NEW d \in Nat,
         NEW sleeping \in Stages, NEW awake \in Stages,
         WaitOut(c, d, sleeping, awake)
  PROVE  /\ waited' \in Nat /\ refused' \in Nat
         /\ wake' \in [Callers -> Nat]
         /\ pc' \in [Callers -> Stages]
         /\ pc'[c] \in {pc[c], sleeping, awake}
         /\ \A e \in Callers \ {c} : pc'[e] = pc[e]
         /\ outcome' \in {outcome, "max_wait_exceeded"}
BY Constants DEF TypeOK, WaitOut, Booked, Stages

\* What an answer, processed, leaves behind.
LEMMA ReturnsTyped ==
  ASSUME TypeOK, NEW c \in Callers, NEW kind, Returns(c, kind)
  PROVE  /\ outcome = "running" /\ answer[c] \in Response
         /\ known' \in Reading
         /\ answer' \in [Callers -> Response \cup {NoResponse}]
         /\ \A e \in Callers \ {c} : answer'[e] = answer[e]
<1>1. outcome = "running" /\ answer[c] \in Response
  BY DEF TypeOK, Returns
<1>2. known' \in Reading
  BY <1>1 DEF Returns, Observe, Reading, Response, TypeOK
<1> QED
  BY <1>1, <1>2 DEF TypeOK, Returns

\* penalty, the backoff and the wait behind it.
LEMMA RecoverTyped ==
  ASSUME TypeOK, NEW c \in Callers, NEW kind, Returns(c, kind),
         NEW d \in Nat, Recover(c, d), backoff' \in Base..MaxBackoff
  PROVE  TypeOK'
<1>1. /\ waited' \in Nat /\ refused' \in Nat
      /\ wake' \in [Callers -> Nat] /\ pc' \in [Callers -> Stages]
      /\ pc'[c] \in {pc[c], "waiting", "idle"}
      /\ \A e \in Callers \ {c} : pc'[e] = pc[e]
      /\ outcome' \in {outcome, "max_wait_exceeded"}
  BY WaitOutTyped DEF Recover, Stages
<1>2. /\ answer' \in [Callers -> Response \cup {NoResponse}] /\ known' \in Reading
      /\ outcome = "running" /\ \A e \in Callers \ {c} : answer'[e] = answer[e]
  BY ReturnsTyped
<1>3. outcome' = "running" => pc'[c] # "answered"
  BY <1>2 DEF Recover, WaitOut, TypeOK
<1>4. tries' \in [Callers -> 0..MaxTries]
  BY Constants DEF Recover, TypeOK
<1>5. Underway'
  BY <1>1, <1>2, <1>3 DEF TypeOK, Recover, Returns, Underway
<1>6. UNCHANGED <<credit, pending, left, owed, team, quota, renew, asleep, tally, drawn>>
  BY DEF Recover, github
<1> QED
  BY <1>1, <1>2, <1>4, <1>5, <1>6 DEF TypeOK, Underway, Stages

LEMMA BeginTyped == ASSUME TypeOK, NEW c \in Callers, Begin(c) PROVE TypeOK'
<1>1. UNCHANGED <<credit, known, waited, backoff, pc, left, wake, owed, answer, tries, quota,
                  team, renew, asleep, refused, tally, drawn>>
  BY DEF Begin, github, history
<1>2. pending' \in Nat /\ outcome' \in {"running", "unaffordable"} /\ outcome = "planned"
  BY Constants DEF Begin, TypeOK
<1>3. Underway'
  BY <1>1, <1>2 DEF TypeOK, Underway
<1> QED
  BY <1>1, <1>2, <1>3 DEF TypeOK, Underway

LEMMA AwaitTyped == ASSUME TypeOK, NEW c \in Callers, Await(c) PROVE TypeOK'
<1> USE Constants DEF TypeOK
<1>1. Pace(c) \in Nat /\ BudgetWait \in Nat
  BY DEF Pace, BudgetWait, Reading
<1>2. credit' \in Int /\ credit' <= Minute /\ pending' \in Nat
  BY DEF Await
<1>3. /\ pc' \in [Callers -> {"idle", "pacing", "budgeting", "sent", "answered", "waiting"}]
      /\ wake' \in [Callers -> Nat] /\ owed' \in [Callers -> Nat]
  BY <1>1 DEF Await
<1>4. UNCHANGED <<known, waited, backoff, left, answer, tries, outcome, quota, renew,
                  team, asleep, refused, tally, drawn>>
  BY DEF Await, github, history
<1>5. Underway'
  BY DEF Await, Underway
<1> QED
  BY <1>2, <1>3, <1>4, <1>5 DEF Underway

LEMMA CountsTyped ==
  ASSUME TypeOK, NEW c \in Callers, Counts(c) \/ UNCHANGED tally
  PROVE  tally' \in [age : Nat, cost : Nat]
BY Constants DEF TypeOK, Counts, Uncounted

LEMMA PacedTyped == ASSUME TypeOK, NEW c \in Callers, Paced(c) PROVE TypeOK'
<1>1. owed[c] \in Nat
  BY DEF TypeOK
<1>2. /\ waited' \in Nat /\ refused' \in Nat
      /\ wake' \in [Callers -> Nat] /\ pc' \in [Callers -> Stages]
      /\ pc'[c] \in {pc[c], "budgeting", "sent"}
      /\ \A e \in Callers \ {c} : pc'[e] = pc[e]
      /\ outcome' \in {outcome, "max_wait_exceeded"}
  BY <1>1, WaitOutTyped DEF Paced, Stages
<1>3. tally' \in [age : Nat, cost : Nat]
  BY CountsTyped DEF Paced
<1>4. UNCHANGED <<credit, known, backoff, pending, left, owed, answer, tries, team, quota, renew,
                  asleep, drawn>>
  BY DEF Paced, github
<1>5. Underway'
  BY <1>2, <1>4 DEF Paced, TypeOK, Underway
<1> QED
  BY <1>2, <1>3, <1>4, <1>5 DEF TypeOK, Underway, Stages

LEMMA BudgetedTyped == ASSUME TypeOK, NEW c \in Callers, Budgeted(c) PROVE TypeOK'
<1>1. tally' \in [age : Nat, cost : Nat]
  BY CountsTyped DEF Budgeted
<1>2. UNCHANGED <<credit, known, waited, backoff, pending, left, wake, owed, answer, tries,
                  outcome, team, quota, renew, asleep, refused, drawn>>
  BY DEF Budgeted, limiter, github
<1>3. pc[c] = "budgeting" /\ pc' = [pc EXCEPT ![c] = "sent"]
  BY DEF Budgeted
<1>4. Underway'
  BY <1>2, <1>3 DEF TypeOK, Underway
<1> QED
  BY <1>1, <1>2, <1>3, <1>4 DEF TypeOK, Underway

LEMMA ServeTyped == ASSUME TypeOK, NEW c \in Callers, Serve(c) PROVE TypeOK'
<1> USE Constants DEF TypeOK
<1>1. quota' \in 0..Budget /\ pc[c] = "sent" /\ pc' = [pc EXCEPT ![c] = "answered"]
  BY DEF Serve, Sooner
<1>2. PICK a \in Response : answer' = [answer EXCEPT ![c] = a]
  <2>1. CASE answer' = [answer EXCEPT ![c] =
                [kind |-> "primary", remaining |-> 0, left |-> renew, after |-> 0]]
    <3>1. [kind |-> "primary", remaining |-> 0, left |-> renew, after |-> 0] \in Response
      BY DEF Response
    <3> QED
      BY <2>1, <3>1
  <2>2. CASE quota > 0 /\ \E kind \in Kinds, after \in RetryAfters :
               answer' = [answer EXCEPT ![c] =
                 [kind |-> kind, remaining |-> quota - 1, left |-> renew, after |-> after]]
    <3>1. PICK kind \in Kinds, after \in RetryAfters :
            answer' = [answer EXCEPT ![c] =
              [kind |-> kind, remaining |-> quota - 1, left |-> renew, after |-> after]]
      BY <2>2
    <3>2. [kind |-> kind, remaining |-> quota - 1, left |-> renew, after |-> after] \in Response
      BY <2>2, LimiterAssumption DEF Response, LimiterAssumption
    <3> QED
      BY <3>1, <3>2
  <2>3. CASE "gateway" \in Kinds /\ answer' = [answer EXCEPT ![c] =
                [kind |-> "gateway", remaining |-> 0, left |-> 0, after |-> 0]]
    <3>1. [kind |-> "gateway", remaining |-> 0, left |-> 0, after |-> 0] \in Response
      BY <2>3 DEF Response
    <3> QED
      BY <2>3, <3>1
  <2> QED
    BY <2>1, <2>2, <2>3 DEF Serve
<1>3. UNCHANGED <<credit, known, waited, backoff, pending, left, wake, owed, tries, outcome,
                  team, renew, asleep, refused, tally>>
  BY DEF Serve, limiter
<1>4. drawn' \in Nat
  BY DEF Serve
<1>5. Underway'
  BY <1>1, <1>2, <1>3 DEF Underway
<1> QED
  BY <1>1, <1>2, <1>3, <1>4, <1>5 DEF Underway

LEMMA CompleteTyped == ASSUME TypeOK, NEW c \in Callers, Complete(c) PROVE TypeOK'
<1>1. /\ answer' \in [Callers -> Response \cup {NoResponse}] /\ known' \in Reading
      /\ \A e \in Callers \ {c} : answer'[e] = answer[e]
  BY ReturnsTyped DEF Complete
<1>2. /\ left' = [left EXCEPT ![c] = @ - 1] /\ tries' = [tries EXCEPT ![c] = 0]
      /\ pc' = [pc EXCEPT ![c] = "idle"]
      /\ UNCHANGED <<credit, waited, backoff, pending, wake, owed, outcome, quota, renew,
                     team, asleep, refused, tally, drawn>>
  BY DEF Complete, github, history
<1>3. left[c] > 0 /\ left[c] \in Nat
  BY DEF Complete, Returns, TypeOK
<1>4. Underway'
  BY <1>1, <1>2, <1>3 DEF TypeOK, Underway
<1> QED
  BY <1>1, <1>2, <1>3, <1>4, Constants DEF TypeOK, Underway

LEMMA ServerErrorTyped == ASSUME TypeOK, NEW c \in Callers, ServerError(c) PROVE TypeOK'
<1>1. /\ answer' \in [Callers -> Response \cup {NoResponse}] /\ known' \in Reading
      /\ \A e \in Callers \ {c} : answer'[e] = answer[e]
      /\ outcome = "running"
  BY ReturnsTyped DEF ServerError
<1>2. UNCHANGED <<credit, waited, backoff, pending, left, wake, owed, quota, renew,
                  team, asleep, refused, tally, drawn>>
  BY DEF ServerError, github, history
<1>3. \/ /\ tries[c] < MaxTries /\ tries' = [tries EXCEPT ![c] = @ + 1]
         /\ pc' = [pc EXCEPT ![c] = "idle"] /\ outcome' = outcome
      \/ outcome' = "error" /\ UNCHANGED <<tries, pc>>
  BY DEF ServerError
<1>4. tries' \in [Callers -> 0..MaxTries]
  BY <1>3, Constants DEF TypeOK
<1>5. Underway'
  BY <1>1, <1>2, <1>3 DEF TypeOK, Underway
<1> QED
  BY <1>1, <1>2, <1>3, <1>4, <1>5 DEF TypeOK, Underway

\* The three limits that penalty knows, and the wait each asks for.
LEMMA LimitsTyped ==
  ASSUME TypeOK, NEW c \in Callers, PrimaryLimit(c) \/ SecondaryLimit(c) \/ BackOff(c)
  PROVE  TypeOK'
<1>1. CASE PrimaryLimit(c)
  <2>1. answer[c].left \in Nat
    BY <1>1, ReturnsTyped DEF PrimaryLimit, Response
  <2>2. backoff' \in Base..MaxBackoff
    BY <1>1, Constants DEF PrimaryLimit
  <2> QED
    BY <1>1, <2>1, <2>2, RecoverTyped DEF PrimaryLimit
<1>2. CASE SecondaryLimit(c)
  <2>1. answer[c].after \in Nat
    BY <1>2, ReturnsTyped DEF SecondaryLimit, Response
  <2>2. backoff' \in Base..MaxBackoff
    BY <1>2, Constants DEF SecondaryLimit
  <2> QED
    BY <1>2, <2>1, <2>2, RecoverTyped DEF SecondaryLimit
<1>3. CASE BackOff(c)
  <2>1. backoff \in Base..MaxBackoff /\ backoff \in Nat /\ backoff > 0
    BY Constants DEF TypeOK
  <2>2. backoff' \in Base..MaxBackoff
    BY <1>3, <2>1, Constants DEF BackOff
  <2>3. PICK d \in Jittered(backoff) : Recover(c, d)
    BY <1>3 DEF BackOff
  <2>4. d \in Nat
    BY <2>1, <2>3 DEF Jittered
  <2> QED
    BY <1>3, <2>2, <2>3, <2>4, RecoverTyped DEF BackOff
<1> QED
  BY <1>1, <1>2, <1>3

LEMMA DisguisedTyped == ASSUME TypeOK, NEW c \in Callers, Disguised(c) PROVE TypeOK'
<1>1. /\ answer' \in [Callers -> Response \cup {NoResponse}] /\ known' \in Reading
      /\ outcome' = "error"
  BY ReturnsTyped DEF Disguised
<1>2. UNCHANGED <<credit, waited, backoff, pending, pc, left, wake, owed, tries, quota, renew,
                  team, asleep, refused, tally, drawn>>
  BY DEF Disguised, github, history
<1>3. Underway'
  BY <1>1, <1>2 DEF TypeOK, Underway
<1> QED
  BY <1>1, <1>2, <1>3 DEF TypeOK, Underway

LEMMA ResumeTyped == ASSUME TypeOK, NEW c \in Callers, Resume(c) PROVE TypeOK'
<1>1. pc[c] = "waiting" /\ pc' = [pc EXCEPT ![c] = "idle"]
  BY DEF Resume
<1>2. UNCHANGED <<credit, known, waited, backoff, pending, left, wake, owed, answer, tries,
                  outcome, team, quota, renew, asleep, refused, tally, drawn>>
  BY DEF Resume, limiter, github, history
<1>3. Underway'
  BY <1>1, <1>2 DEF TypeOK, Underway
<1> QED
  BY <1>1, <1>2, <1>3 DEF TypeOK, Underway

LEMMA TickTyped == ASSUME TypeOK, Tick PROVE TypeOK'
<1>1. credit' \in Int /\ credit' <= Minute
  BY Constants DEF Tick, TypeOK, Refill
<1>2. known' \in Reading
  BY DEF Tick, TypeOK, Reading, Sooner
<1>3. wake' \in [Callers -> Nat]
  BY DEF Tick, TypeOK, Sooner
<1>4. ASSUME NEW c \in Callers
      PROVE  /\ answer[c] \in Response => answer'[c] \in Response
             /\ answer[c] = NoResponse => answer'[c] = NoResponse
  <2>1. answer'[c] = [answer[c] EXCEPT !.left = Sooner(@)]
    BY DEF Tick
  <2> QED
    BY <2>1 DEF Response, NoResponse, Sooner
<1>5. answer' \in [Callers -> Response \cup {NoResponse}]
  BY <1>4 DEF TypeOK, Tick
<1>6. quota' \in 0..Budget /\ renew' \in 1..Window
  BY Constants DEF Tick, TypeOK
<1>7. asleep' \in Nat /\ tally' \in [age : Nat, cost : Nat] /\ drawn' \in Nat
  BY Constants DEF Tick, TypeOK, Uncounted
<1>8. UNCHANGED <<waited, backoff, pending, pc, left, owed, tries, outcome, team, refused>>
  BY DEF Tick
<1>9. Underway'
  BY <1>4, <1>8 DEF TypeOK, Underway
<1> QED
  BY <1>1, <1>2, <1>3, <1>5, <1>6, <1>7, <1>8, <1>9 DEF TypeOK, Underway

LEMMA NextTyped == TypeOK /\ [Next]_vars => TypeOK'
<1> SUFFICES ASSUME TypeOK, [Next]_vars PROVE TypeOK'
  OBVIOUS
<1>1. CASE Tick
  BY <1>1, TickTyped
<1>2. ASSUME NEW c \in Callers, Step(c) PROVE TypeOK'
  BY <1>2, BeginTyped, AwaitTyped, PacedTyped, BudgetedTyped, ServeTyped, CompleteTyped,
     ServerErrorTyped, LimitsTyped, DisguisedTyped, ResumeTyped DEF Step
<1>3. CASE UNCHANGED vars
  BY <1>3 DEF vars, TypeOK
<1> QED
  BY <1>1, <1>2, <1>3 DEF Next

\* Every variable of the limiter, of its callers and of GitHub keeps its type,
\* whatever the number of callers and the answers they get.
THEOREM TypeCorrect == Spec => []TypeOK
<1> QED
  BY InitTyped, NextTyped, PTL DEF Spec

-----------------------------------------------------------------------------
(***************************************************************************)
(* The ceiling.  What is booked covers, for every caller that is sitting   *)
(* out a limit, the ticks the run has been asleep and those the caller     *)
(* still has to sleep: callers asleep at once share their ticks, and each  *)
(* has booked its own.                                                     *)
(***************************************************************************)

Booking ==
  MaxWait > 0 =>
    /\ waited <= MaxWait
    /\ asleep <= waited
    /\ \A c \in Callers : Sleeping(c) => asleep + wake[c] <= waited

\* A wait that is taken is booked first, and one that does not fit is not taken.
LEMMA WaitOutBooks ==
  ASSUME TypeOK, Booking, NEW c \in Callers, NEW d \in Nat,
         NEW sleeping \in {"budgeting", "waiting"}, NEW awake \in {"idle", "sent"},
         WaitOut(c, d, sleeping, awake), UNCHANGED asleep
  PROVE  Booking'
<1> SUFFICES ASSUME MaxWait > 0
             PROVE  /\ waited' <= MaxWait /\ asleep <= waited'
                    /\ \A e \in Callers : Sleeping(e)' => asleep + wake'[e] <= waited'
  BY DEF Booking
<1> USE Constants DEF TypeOK, Booking, Sleeping
<1>1. CASE d = 0 /\ pc' = [pc EXCEPT ![c] = awake] /\ UNCHANGED <<waited, wake>>
  BY <1>1
<1>2. CASE /\ d > 0 /\ Affords(d) /\ waited' = Booked(d)
           /\ wake' = [wake EXCEPT ![c] = d] /\ pc' = [pc EXCEPT ![c] = sleeping]
  <2>1. waited' = waited + d /\ waited + d <= MaxWait
    BY <1>2 DEF Affords, Booked
  <2> QED
    BY <1>2, <2>1
<1>3. CASE UNCHANGED <<pc, waited, wake>>
  BY <1>3
<1> QED
  BY <1>1, <1>2, <1>3 DEF WaitOut

\* A step that wakes or starts a caller, and leaves the booking alone.
LEMMA WakingBooks ==
  ASSUME TypeOK, Booking, NEW c \in Callers,
         pc' = [pc EXCEPT ![c] = pc'[c]], pc'[c] \notin {"budgeting", "waiting"},
         wake' = [wake EXCEPT ![c] = wake'[c]], UNCHANGED <<waited, asleep>>
  PROVE  Booking'
BY DEF TypeOK, Booking, Sleeping

LEMMA StepBooks == ASSUME TypeOK, Booking, NEW c \in Callers, Step(c) PROVE Booking'
<1>1. CASE Begin(c) \/ Disguised(c)
  BY <1>1 DEF Begin, Disguised, history, Booking, Sleeping
<1>2. CASE Await(c) \/ Budgeted(c) \/ Serve(c) \/ Complete(c) \/ Resume(c)
  <2>1. /\ pc' = [pc EXCEPT ![c] = pc'[c]] /\ pc'[c] \notin {"budgeting", "waiting"}
        /\ wake' = [wake EXCEPT ![c] = wake'[c]] /\ UNCHANGED <<waited, asleep>>
    BY <1>2 DEF Await, Budgeted, Serve, Complete, Resume, TypeOK, limiter, history
  <2> QED
    BY <2>1, WakingBooks
<1>3. CASE Paced(c)
  <2>1. owed[c] \in Nat
    BY DEF TypeOK
  <2> QED
    BY <1>3, <2>1, WaitOutBooks DEF Paced
<1>4. CASE ServerError(c)
  <2>1. \/ pc' = [pc EXCEPT ![c] = "idle"]
        \/ pc' = pc
    BY <1>4 DEF ServerError
  <2>2. UNCHANGED <<waited, wake, asleep>>
    BY <1>4 DEF ServerError, history
  <2> QED
    BY <2>1, <2>2 DEF TypeOK, Booking, Sleeping
<1>5. CASE PrimaryLimit(c)
  <2>1. answer[c].left \in Nat
    BY <1>5, ReturnsTyped DEF PrimaryLimit, Response
  <2> QED
    BY <1>5, <2>1, WaitOutBooks DEF PrimaryLimit, Recover
<1>6. CASE SecondaryLimit(c)
  <2>1. answer[c].after \in Nat
    BY <1>6, ReturnsTyped DEF SecondaryLimit, Response
  <2> QED
    BY <1>6, <2>1, WaitOutBooks DEF SecondaryLimit, Recover
<1>7. CASE BackOff(c)
  <2>1. backoff \in Nat
    BY Constants DEF TypeOK
  <2>2. PICK d \in Jittered(backoff) : Recover(c, d)
    BY <1>7 DEF BackOff
  <2>3. d \in Nat
    BY <2>1, <2>2 DEF Jittered
  <2> QED
    BY <2>2, <2>3, WaitOutBooks DEF Recover
<1> QED
  BY <1>1, <1>2, <1>3, <1>4, <1>5, <1>6, <1>7 DEF Step

LEMMA TickBooks == ASSUME TypeOK, Booking, Tick PROVE Booking'
<1> SUFFICES ASSUME MaxWait > 0 PROVE Booking'
  BY DEF Booking
<1>1. UNCHANGED <<waited, pc>> /\ \A c \in Callers : wake'[c] = Sooner(wake[c])
  BY DEF Tick
<1>2. \A c \in Callers : Sleeping(c)' => Sleeping(c) /\ wake'[c] = wake[c] - 1
  BY <1>1 DEF TypeOK, Sleeping, Sooner
<1>3. asleep' <= waited /\ asleep' <= asleep + 1
  <2>1. CASE \E c \in Callers : Sleeping(c)
    <3>1. PICK c \in Callers : Sleeping(c)
      BY <2>1
    <3>2. asleep + wake[c] <= waited /\ wake[c] > 0
      BY <3>1 DEF Booking, Sleeping
    <3> QED
      BY <3>2 DEF Tick, TypeOK
  <2>2. CASE ~\E c \in Callers : Sleeping(c)
    BY <2>2 DEF Tick, TypeOK, Booking
  <2> QED
    BY <2>1, <2>2
<1>4. ASSUME NEW c \in Callers, Sleeping(c)' PROVE asleep' + wake'[c] <= waited'
  <2>1. Sleeping(c) /\ wake'[c] = wake[c] - 1 /\ asleep + wake[c] <= waited
    BY <1>2, <1>4 DEF Booking
  <2> QED
    BY <1>1, <1>3, <2>1 DEF TypeOK, Tick
<1> QED
  BY <1>1, <1>3, <1>4 DEF Booking

LEMMA BookingHolds == Spec => []Booking
<1>1. Init => Booking
  BY Constants DEF Init, Booking, Sleeping
<1>2. TypeOK /\ Booking /\ [Next]_vars => Booking'
  <2> SUFFICES ASSUME TypeOK, Booking, [Next]_vars PROVE Booking'
    OBVIOUS
  <2>1. CASE UNCHANGED vars
    BY <2>1 DEF vars, Booking, Sleeping
  <2> QED
    BY <2>1, TickBooks, StepBooks DEF Next
<1> QED
  BY <1>1, <1>2, TypeCorrect, PTL DEF Spec

\* A run is never asleep for limits for longer than --max-wait, nor for longer
\* than it has booked, however many of its requests are waiting at once.
THEOREM CeilingHolds == Spec => []AsleepWithinMaxWait
<1>1. Booking => AsleepWithinMaxWait
  BY DEF Booking, AsleepWithinMaxWait
<1> QED
  BY <1>1, BookingHolds, PTL

-----------------------------------------------------------------------------
(***************************************************************************)
(* The pace of a single writer.  The bucket is overdrawn only while the    *)
(* writer sleeps for the token it has taken, and by no more than it will   *)
(* have got by then.  In the minute that is being counted, the tokens that *)
(* went out, the one in hand and the ones in the bucket are together no    *)
(* more than a full bucket, what has arrived, and one that was in hand.    *)
(***************************************************************************)

\* Two writers are never at work at once: a run has one at most.
LEMMA OneWriter ==
  ASSUME TypeOK, NEW c \in Writers, left[c] > 0
  PROVE  c \in Callers /\ \A w \in Writers \ {c} : pc[w] = "idle"
<1>1. c \in Callers /\ c \in team /\ team \in Teams
  BY Constants DEF TypeOK
<1>2. \A w \in Writers : w \in team => w = c
  BY <1>1, LimiterAssumption DEF LimiterAssumption
<1> QED
  BY <1>1, <1>2, Constants DEF TypeOK

InHand == IF \E w \in Writers : pc[w] \in {"pacing", "budgeting"} THEN Gap ELSE 0

Overdrawn ==
  \A w \in Writers : pc[w] = "pacing" => credit + wake[w] >= 0 /\ wake[w] <= Gap

Solvent == (\A w \in Writers : pc[w] # "pacing") => credit >= 0

Spent ==
  /\ tally.cost = 0 => tally = Uncounted
  /\ tally.cost > 0 => tally.cost + InHand + credit <= Minute + tally.age + Gap

Pacing == Rate > 0 => Overdrawn /\ Solvent /\ Spent

LEMMA PacingBounds == TypeOK /\ Pacing => PacedWrites
<1> SUFFICES ASSUME TypeOK, Pacing, Rate > 0
             PROVE  tally.cost <= Minute + tally.age + Gap
  BY DEF PacedWrites
<1> USE Constants DEF TypeOK, Pacing
<1>1. InHand + credit >= 0
  <2>1. CASE \E w \in Writers : pc[w] = "pacing"
    <3>1. PICK w \in Writers : pc[w] = "pacing"
      BY <2>1
    <3>2. w \in Callers /\ wake[w] \in Nat /\ credit + wake[w] >= 0 /\ wake[w] <= Gap
      BY <3>1 DEF Overdrawn
    <3>3. InHand = Gap
      BY <3>1 DEF InHand
    <3> QED
      BY <3>2, <3>3
  <2>2. CASE \A w \in Writers : pc[w] # "pacing"
    BY <2>2 DEF Solvent, InHand
  <2> QED
    BY <2>1, <2>2
<1>2. InHand \in Nat
  BY DEF InHand
<1> QED
  BY <1>1, <1>2 DEF Spent

\* Steps of a caller that does not write, or whose writer neither takes a token
\* nor lets one go.
LEMMA IdleKeepsPace ==
  ASSUME TypeOK, Pacing, UNCHANGED <<credit, tally>>,
         \A w \in Writers :
           /\ pc'[w] = "pacing" <=> pc[w] = "pacing"
           /\ pc'[w] = "budgeting" <=> pc[w] = "budgeting"
           /\ pc[w] = "pacing" => wake'[w] = wake[w]
  PROVE  Pacing'
<1>1. InHand' = InHand
  BY DEF InHand
<1> QED
  BY <1>1 DEF Pacing, Overdrawn, Solvent, Spent

\* The writer takes a token.
LEMMA AwaitPaces ==
  ASSUME TypeOK, Pacing, NEW c \in Writers, Await(c), Rate > 0
  PROVE  Pacing'
<1> USE Constants DEF TypeOK
<1>1. c \in Callers /\ \A w \in Writers \ {c} : pc[w] = "idle" /\ pc'[w] = "idle"
  <2>1. c \in Callers /\ \A w \in Writers \ {c} : pc[w] = "idle"
    BY OneWriter DEF Await
  <2> QED
    BY <2>1 DEF Await
<1>2. /\ pc[c] = "idle" /\ pc'[c] = "pacing" /\ wake'[c] = Pace(c)
      /\ credit' = credit - Gap /\ tally' = tally
  BY <1>1 DEF Await, history
<1>3. credit >= 0
  BY <1>1, <1>2 DEF Pacing, Solvent
<1>4. Pace(c) = IF credit < Gap THEN Gap - credit ELSE 0
  BY DEF Pace
<1>5. Overdrawn' /\ Solvent'
  BY <1>1, <1>2, <1>3, <1>4 DEF Overdrawn, Solvent
<1>6. InHand = 0 /\ InHand' = Gap
  BY <1>1, <1>2 DEF InHand
<1>7. Spent'
  BY <1>2, <1>6 DEF Pacing, Spent
<1> QED
  BY <1>5, <1>7 DEF Pacing

\* The writer lets its token go, and the write goes out.
LEMMA SendingPaces ==
  ASSUME TypeOK, Pacing, NEW c \in Writers, Rate > 0,
         (pc[c] = "pacing" /\ wake[c] = 0) \/ pc[c] = "budgeting",
         pc' = [pc EXCEPT ![c] = "sent"], Counts(c), UNCHANGED credit
  PROVE  Pacing'
<1> USE Constants DEF TypeOK
<1>1. c \in Callers /\ \A w \in Writers \ {c} : pc[w] = "idle" /\ pc'[w] = "idle"
  <2>1. left[c] > 0 /\ c \in Callers
    OBVIOUS
  <2> QED
    BY <2>1, OneWriter
<1>2. credit >= 0
  BY <1>1 DEF Pacing, Overdrawn, Solvent
<1>3. Overdrawn' /\ Solvent'
  BY <1>1, <1>2 DEF Overdrawn, Solvent
<1>4. InHand = Gap /\ InHand' = 0
  BY <1>1 DEF InHand
<1>5. (tally' = tally /\ tally = Uncounted) \/ tally' = [tally EXCEPT !.cost = @ + Gap]
  BY DEF Counts
<1>6. CASE tally' = tally /\ tally = Uncounted
  BY <1>3, <1>6 DEF Pacing, Spent, Uncounted
<1>7. CASE tally' = [tally EXCEPT !.cost = @ + Gap]
  <2>1. /\ tally'.cost = tally.cost + Gap /\ tally'.age = tally.age
        /\ tally.cost \in Nat /\ tally.age \in Nat
    BY <1>7
  <2>2. tally'.cost + credit <= Minute + tally'.age + Gap
    <3>1. CASE tally.cost = 0
      BY <2>1, <3>1
    <3>2. CASE tally.cost > 0
      BY <1>4, <2>1, <3>2 DEF Pacing, Spent
    <3> QED
      BY <2>1, <3>1, <3>2
  <2>3. Spent'
    BY <1>4, <2>1, <2>2 DEF Spent
  <2> QED
    BY <1>3, <2>3 DEF Pacing
<1> QED
  BY <1>5, <1>6, <1>7

\* After pacing, the writer sits out a budget wait with its token in hand.
LEMMA HoldingPaces ==
  ASSUME TypeOK, Pacing, NEW c \in Writers, Rate > 0,
         pc[c] = "pacing", wake[c] = 0, pc' = [pc EXCEPT ![c] = "budgeting"],
         UNCHANGED <<credit, tally>>
  PROVE  Pacing'
<1>1. c \in Callers /\ \A w \in Writers \ {c} : pc[w] = "idle" /\ pc'[w] = "idle"
  <2>1. left[c] > 0 /\ c \in Callers
    BY Constants DEF TypeOK
  <2> QED
    BY <2>1, OneWriter
<1>2. credit \in Int /\ credit >= 0
  BY <1>1, Constants DEF TypeOK, Pacing, Overdrawn
<1>3. pc'[c] = "budgeting"
  BY <1>1 DEF TypeOK
<1>4. InHand' = InHand
  BY <1>1, <1>3 DEF InHand
<1> QED
  BY <1>1, <1>2, <1>3, <1>4 DEF Pacing, Overdrawn, Solvent, Spent

LEMMA PacedPaces ==
  ASSUME TypeOK, Pacing, NEW c \in Callers, Paced(c), Rate > 0
  PROVE  Pacing'
<1>1. /\ pc[c] = "pacing" /\ wake[c] = 0 /\ UNCHANGED credit
      /\ IF pc'[c] = "sent" THEN Counts(c) ELSE UNCHANGED tally
  BY DEF Paced
<1>2. \/ pc' = [pc EXCEPT ![c] = "sent"] /\ UNCHANGED wake
      \/ pc' = [pc EXCEPT ![c] = "budgeting"]
      \/ UNCHANGED <<pc, wake>>
  BY DEF Paced, WaitOut
<1>3. CASE c \notin Writers
  <2>1. UNCHANGED tally
    BY <1>1, <1>3 DEF Counts
  <2>2. \A w \in Writers : pc'[w] = pc[w] /\ wake'[w] = wake[w]
    BY <1>3, Constants DEF Paced, WaitOut, TypeOK
  <2> QED
    BY <1>1, <2>1, <2>2, IdleKeepsPace
<1>4. CASE c \in Writers /\ pc' = [pc EXCEPT ![c] = "sent"]
  BY <1>1, <1>4, SendingPaces DEF TypeOK
<1>5. CASE c \in Writers /\ pc' = [pc EXCEPT ![c] = "budgeting"]
  BY <1>1, <1>5, HoldingPaces DEF TypeOK
<1>6. CASE UNCHANGED <<pc, wake>>
  BY <1>1, <1>6, IdleKeepsPace
<1> QED
  BY <1>2, <1>3, <1>4, <1>5, <1>6 DEF TypeOK

\* Every other step of a caller touches neither the bucket nor the minute that
\* is being counted, nor the sleep of a writer that is pacing.
LEMMA OthersPace ==
  ASSUME TypeOK, Pacing, NEW c \in Callers,
         \/ Begin(c) \/ Serve(c) \/ Complete(c) \/ ServerError(c) \/ PrimaryLimit(c)
         \/ SecondaryLimit(c) \/ BackOff(c) \/ Disguised(c) \/ Resume(c)
  PROVE  Pacing'
<1>1. UNCHANGED <<credit, tally>>
  BY DEF Begin, Serve, Complete, ServerError, PrimaryLimit, SecondaryLimit, BackOff, Recover,
         Disguised, Resume, limiter, history
<1>2. CASE Begin(c) \/ Disguised(c)
  BY <1>1, <1>2, IdleKeepsPace DEF Begin, Disguised
<1>3. CASE Serve(c) \/ Complete(c) \/ ServerError(c) \/ Resume(c)
  <2>1. /\ UNCHANGED wake /\ pc[c] \in {"sent", "answered", "waiting"}
        /\ pc' = pc \/ \E stage \in {"answered", "idle"} : pc' = [pc EXCEPT ![c] = stage]
    BY <1>3 DEF Serve, Complete, ServerError, Resume, Returns
  <2> QED
    BY <1>1, <2>1, IdleKeepsPace, Constants DEF TypeOK
<1>4. CASE PrimaryLimit(c) \/ SecondaryLimit(c) \/ BackOff(c)
  <2>1. pc[c] = "answered" /\ \E d : WaitOut(c, d, "waiting", "idle")
    BY <1>4 DEF PrimaryLimit, SecondaryLimit, BackOff, Returns, Recover
  <2>2. \A e \in Callers \ {c} : pc'[e] = pc[e] /\ wake'[e] = wake[e]
    BY <2>1 DEF WaitOut, TypeOK
  <2>3. pc'[c] \in {"answered", "waiting", "idle"}
    BY <2>1 DEF WaitOut, TypeOK
  <2> QED
    BY <1>1, <2>1, <2>2, <2>3, IdleKeepsPace, Constants
<1> QED
  BY <1>2, <1>3, <1>4

LEMMA StepPaces ==
  ASSUME TypeOK, Pacing, NEW c \in Callers, Step(c), Rate > 0
  PROVE  Pacing'
<1>1. CASE Await(c)
  <2>1. CASE c \in Writers
    BY <1>1, <2>1, AwaitPaces
  <2>2. CASE c \notin Writers
    <3>1. UNCHANGED <<credit, tally>> /\ \A w \in Writers : pc'[w] = pc[w] /\ wake'[w] = wake[w]
      BY <1>1, <2>2, Constants DEF Await, history, TypeOK
    <3> QED
      BY <3>1, IdleKeepsPace
  <2> QED
    BY <2>1, <2>2
<1>2. CASE Budgeted(c)
  <2>1. /\ pc[c] = "budgeting" /\ pc' = [pc EXCEPT ![c] = "sent"] /\ Counts(c)
        /\ UNCHANGED <<credit, wake>>
    BY <1>2 DEF Budgeted, limiter
  <2>2. CASE c \in Writers
    BY <2>1, <2>2, SendingPaces DEF TypeOK
  <2>3. CASE c \notin Writers
    <3>1. UNCHANGED tally /\ \A w \in Writers : pc'[w] = pc[w]
      BY <2>1, <2>3, Constants DEF Counts, TypeOK
    <3> QED
      BY <2>1, <3>1, IdleKeepsPace
  <2> QED
    BY <2>2, <2>3
<1> QED
  BY <1>1, <1>2, PacedPaces, OthersPace DEF Step

\* A tick puts no more into the bucket than it adds to the age of the minute.
LEMMA TickPaces == ASSUME TypeOK, Pacing, Tick, Rate > 0 PROVE Pacing'
<1> USE Constants DEF TypeOK
<1>1. /\ credit' = (IF credit < Minute THEN credit + 1 ELSE credit)
      /\ \A c \in Callers : wake'[c] = IF wake[c] > 0 THEN wake[c] - 1 ELSE 0
      /\ UNCHANGED pc
  BY DEF Tick, Refill, Sooner
<1>2. Overdrawn'
  <2> SUFFICES ASSUME NEW w \in Writers, pc[w] = "pacing"
               PROVE  credit' + wake'[w] >= 0 /\ wake'[w] <= Gap
    BY <1>1 DEF Overdrawn
  <2>1. w \in Callers /\ wake[w] \in Nat /\ credit + wake[w] >= 0 /\ wake[w] <= Gap
    BY DEF Pacing, Overdrawn
  <2> QED
    BY <1>1, <2>1
<1>3. Solvent'
  BY <1>1 DEF Pacing, Solvent
<1>4. InHand' = InHand /\ InHand \in Nat
  BY <1>1 DEF InHand
<1>5. \/ tally' = Uncounted
      \/ tally.cost > 0 /\ tally' = [tally EXCEPT !.age = @ + 1]
  BY DEF Tick
<1>6. Spent'
  <2>1. CASE tally' = Uncounted
    BY <2>1 DEF Spent, Uncounted
  <2>2. CASE tally.cost > 0 /\ tally' = [tally EXCEPT !.age = @ + 1]
    <3>1. tally'.cost = tally.cost /\ tally'.age = tally.age + 1
      BY <2>2
    <3> QED
      BY <1>1, <1>4, <2>2, <3>1 DEF Pacing, Spent
  <2> QED
    BY <1>5, <2>1, <2>2
<1> QED
  BY <1>2, <1>3, <1>6 DEF Pacing

LEMMA PacingKept == TypeOK /\ Pacing /\ [Next]_vars => Pacing'
<1> SUFFICES ASSUME TypeOK, Pacing, [Next]_vars, Rate > 0 PROVE Pacing'
  BY DEF Pacing
<1>1. CASE UNCHANGED vars
  BY <1>1, IdleKeepsPace DEF vars
<1> QED
  BY <1>1, TickPaces, StepPaces DEF Next

\* With one writer, as an apply has, the writes that go out in any minute are a
\* full bucket and what arrives in it, and one already paid for: for every rate.
THEOREM WritesArePaced == Spec => []PacedWrites
<1>1. Init => Pacing
  BY Constants DEF Init, Pacing, Overdrawn, Solvent, Spent, Uncounted
<1>2. TypeOK /\ Pacing /\ [Next]_vars => Pacing'
  BY PacingKept
<1> QED
  BY <1>1, <1>2, PacingBounds, TypeCorrect, PTL DEF Spec
-----------------------------------------------------------------------------
(***************************************************************************)
(* Refusals.  A caller that is alone sleeps out one limit at a time, so    *)
(* what is booked is exactly what it has slept and what it still sleeps,   *)
(* and a wait that does not fit what is booked does not fit the ceiling.   *)
(* Callers that sleep at the same time book more than the run sleeps.      *)
(***************************************************************************)

Alone == \E c \in Callers : team = {c}

ToSleep(c) == IF Sleeping(c) THEN wake[c] ELSE 0

Accounted ==
  /\ refused = 0 => (MaxWait > 0 => \A c \in team : waited = asleep + ToSleep(c))
  /\ refused > 0 => outcome = "max_wait_exceeded" /\ asleep + refused > MaxWait

\* Steps of a caller that is awake before and after, and books nothing.
LEMMA AwakeAccounts ==
  ASSUME TypeOK, Accounted, NEW c \in Callers, team = {c}, outcome # "max_wait_exceeded",
         ~Sleeping(c), ~Sleeping(c)', UNCHANGED <<waited, asleep, refused, team>>
  PROVE  Accounted'
<1>1. refused = 0
  BY DEF TypeOK, Accounted
<1>2. ToSleep(c) = 0 /\ ToSleep(c)' = 0
  BY DEF ToSleep
<1> QED
  BY <1>1, <1>2 DEF Accounted

\* A wait is booked to the tick, or refused because it does not fit.
LEMMA WaitOutAccounts ==
  ASSUME TypeOK, Booking, Accounted, NEW c \in Callers, team = {c}, NEW d \in Nat,
         outcome = "running", ~Sleeping(c),
         NEW sleeping \in {"budgeting", "waiting"}, NEW awake \in {"idle", "sent"},
         WaitOut(c, d, sleeping, awake), UNCHANGED <<asleep, team>>
  PROVE  Accounted'
<1> USE Constants DEF TypeOK
<1>2. refused = 0 /\ (MaxWait > 0 => waited = asleep)
  BY DEF Accounted, ToSleep
<1>3. CASE d = 0 /\ pc' = [pc EXCEPT ![c] = awake] /\ UNCHANGED <<waited, wake, refused>>
  <2>1. ~Sleeping(c)'
    BY <1>3 DEF Sleeping
  <2> QED
    BY <1>3, <2>1, AwakeAccounts
<1>4. CASE d > 0 /\ waited' = Booked(d) /\ wake' = [wake EXCEPT ![c] = d]
           /\ pc' = [pc EXCEPT ![c] = sleeping] /\ UNCHANGED refused
  <2>1. Sleeping(c)' /\ wake'[c] = d
    BY <1>4 DEF Sleeping
  <2>2. MaxWait > 0 => waited' = asleep' + d
    BY <1>2, <1>4 DEF Booked
  <2>3. ToSleep(c)' = d
    BY <2>1 DEF ToSleep
  <2> QED
    BY <1>2, <1>4, <2>2, <2>3 DEF Accounted
<1>5. CASE d > 0 /\ ~Affords(d) /\ outcome' = "max_wait_exceeded" /\ refused' = d
  <2>1. asleep + d > MaxWait
    BY <1>2, <1>5 DEF Affords
  <2> QED
    BY <1>5, <2>1 DEF Accounted
<1> QED
  BY <1>3, <1>4, <1>5 DEF WaitOut

LEMMA StepAccounts ==
  ASSUME TypeOK, Booking, Accounted, Alone, NEW c \in Callers, Step(c)
  PROVE  Accounted'
<1>0. team = {c} /\ team' = team
  <2>1. c \in team
    BY DEF Step, Begin, Await, Paced, Budgeted, Serve, Complete, ServerError, PrimaryLimit,
           SecondaryLimit, BackOff, Disguised, Resume, Returns, TypeOK
  <2>2. team' = team
    BY DEF Step, Begin, Await, Paced, Budgeted, Serve, Complete, ServerError, PrimaryLimit,
           SecondaryLimit, BackOff, Disguised, Resume, Recover
  <2> QED
    BY <2>1, <2>2 DEF Alone
<1>1. CASE Begin(c)
  <2>1. outcome = "planned" /\ UNCHANGED <<waited, pc, wake, asleep, refused>>
    BY <1>1 DEF Begin, history
  <2>2. refused = 0
    BY <2>1 DEF TypeOK, Accounted
  <2> QED
    BY <1>0, <2>1, <2>2 DEF Accounted, ToSleep, Sleeping
<1>2. CASE Await(c) \/ Budgeted(c) \/ Serve(c) \/ Resume(c)
  <2>1. /\ outcome = "running" /\ UNCHANGED <<waited, asleep, refused>> /\ ~Sleeping(c)
        /\ \E stage \in {"pacing", "sent", "answered", "idle"} : pc' = [pc EXCEPT ![c] = stage]
    BY <1>2, Constants DEF Await, Budgeted, Serve, Resume, limiter, history, Sleeping, TypeOK
  <2>2. ~Sleeping(c)'
    BY <2>1 DEF Sleeping, TypeOK
  <2> QED
    BY <1>0, <2>1, <2>2, AwakeAccounts
<1>3. CASE Complete(c) \/ ServerError(c) \/ Disguised(c)
  <2>1. /\ outcome = "running" /\ UNCHANGED <<waited, asleep, refused>> /\ pc[c] = "answered"
        /\ pc' = pc \/ pc' = [pc EXCEPT ![c] = "idle"]
    BY <1>3 DEF Complete, ServerError, Disguised, Returns, history
  <2>2. ~Sleeping(c) /\ ~Sleeping(c)'
    BY <2>1 DEF Sleeping, TypeOK
  <2> QED
    BY <1>0, <2>1, <2>2, AwakeAccounts
<1>4. CASE Paced(c)
  <2>1. /\ owed[c] \in Nat /\ outcome = "running" /\ ~Sleeping(c) /\ UNCHANGED asleep
        /\ WaitOut(c, owed[c], "budgeting", "sent")
    BY <1>4 DEF Paced, TypeOK, Sleeping
  <2> QED
    BY <1>0, <2>1, WaitOutAccounts
<1>5. CASE PrimaryLimit(c) \/ SecondaryLimit(c) \/ BackOff(c)
  <2>1. outcome = "running" /\ ~Sleeping(c) /\ answer[c] \in Response
    BY <1>5, ReturnsTyped DEF PrimaryLimit, SecondaryLimit, BackOff, Returns, Sleeping
  <2>2. PICK d \in Nat : Recover(c, d)
    <3>1. CASE PrimaryLimit(c) \/ SecondaryLimit(c)
      BY <2>1, <3>1 DEF PrimaryLimit, SecondaryLimit, Response
    <3>2. CASE BackOff(c)
      <4>1. PICK d \in Jittered(backoff) : Recover(c, d)
        BY <3>2 DEF BackOff
      <4>2. d \in Nat
        BY <4>1, Constants DEF Jittered, TypeOK
      <4> QED
        BY <4>1, <4>2
    <3> QED
      BY <1>5, <3>1, <3>2
  <2> QED
    BY <1>0, <2>1, <2>2, WaitOutAccounts DEF Recover
<1> QED
  BY <1>1, <1>2, <1>3, <1>4, <1>5 DEF Step

\* A tick that is slept leaves one less to sleep.
LEMMA TickAccounts ==
  ASSUME TypeOK, Booking, Accounted, Alone, Tick PROVE Accounted'
<1> USE Constants DEF TypeOK
<1>1. /\ refused = 0 /\ refused' = 0 /\ UNCHANGED <<waited, pc, team>>
      /\ \A c \in Callers : wake'[c] = Sooner(wake[c])
  BY DEF Tick, Accounted
<1> SUFFICES ASSUME MaxWait > 0, NEW c \in Callers, team = {c}
             PROVE  waited' = asleep' + ToSleep(c)'
  BY <1>1 DEF Accounted, Alone
<1>2. asleep <= MaxWait /\ waited = asleep + ToSleep(c)
  BY <1>1 DEF Booking, Accounted
<1>3. CASE Sleeping(c)
  <2>1. asleep' = asleep + 1 /\ ToSleep(c)' = wake[c] - 1
    BY <1>1, <1>2, <1>3 DEF Tick, Sleeping, ToSleep, Sooner
  <2> QED
    BY <1>1, <1>2, <1>3, <2>1 DEF ToSleep
<1>4. CASE ~Sleeping(c)
  <2>1. ~\E e \in Callers : Sleeping(e)
    BY <1>4 DEF Sleeping
  <2>2. asleep' = asleep
    BY <2>1 DEF Tick
  <2>3. ToSleep(c) = 0 /\ ToSleep(c)' = 0
    BY <1>1, <1>4 DEF ToSleep, Sleeping, Sooner
  <2> QED
    BY <1>1, <1>2, <2>2, <2>3
<1> QED
  BY <1>3, <1>4

\* A run with one caller at a time, as an apply is, is only given up when the
\* wait that GitHub asks for would have kept it asleep past --max-wait.
THEOREM RefusalsAreDue == Spec => []RefusesOnlyPastCeiling
<1>1. Init => (Alone => Accounted)
  BY Constants DEF Init, Accounted, Alone, ToSleep, Sleeping
<1>2. TypeOK /\ Booking /\ (Alone => Accounted) /\ [Next]_vars => (Alone => Accounted)'
  <2> SUFFICES ASSUME TypeOK, Booking, Alone => Accounted, [Next]_vars, Alone'
               PROVE  Accounted'
    OBVIOUS
  <2>1. CASE UNCHANGED vars
    BY <2>1 DEF vars, Accounted, ToSleep, Sleeping, Alone
  <2>2. CASE Tick
    BY <2>2, TickAccounts DEF Tick, Alone
  <2>3. ASSUME NEW c \in Callers, Step(c) PROVE Accounted'
    <3>1. team' = team
      BY <2>3 DEF Step, Begin, Await, Paced, Budgeted, Serve, Complete, ServerError,
         PrimaryLimit, SecondaryLimit, BackOff, Disguised, Resume, Recover
    <3> QED
      BY <2>3, <3>1, StepAccounts DEF Alone
  <2> QED
    BY <2>1, <2>2, <2>3 DEF Next
<1>3. TypeOK /\ (Alone => Accounted) => RefusesOnlyPastCeiling
  BY DEF Accounted, Alone, RefusesOnlyPastCeiling, TypeOK
<1> QED
  BY <1>1, <1>2, <1>3, TypeCorrect, BookingHolds, PTL DEF Spec

-----------------------------------------------------------------------------
(***************************************************************************)
(* The margin.  A reading holds until the reset it names, so the requests  *)
(* GitHub can still get in a window are those of the callers that are past *)
(* the wait, or will be before the window ends, or come back from an       *)
(* answer without a reading; one more of each caller that nothing holds    *)
(* back as things stand; and, each time an older reading overtakes a newer *)
(* one and lets the callers through again, one more of all of them but     *)
(* those whose own answer is out of date too and still to be read.  With k *)
(* such answers and n callers the last part is n + (n - 1) + ... +         *)
(* (n - (k - 1)), which Demand has twice, as it has the others, to do      *)
(* without fractions.                                                      *)
(***************************************************************************)

\* Await lets a request through on this reading.
Permits(reading) == reading.remaining > Threshold \/ reading.left = 0

\* The callers whose request can reach GitHub before the window ends.
Passing == {c \in team :
  \/ pc[c] = "sent"
  \/ pc[c] = "pacing" /\ wake[c] + owed[c] < renew
  \/ pc[c] = "budgeting" /\ wake[c] < renew
  \/ pc[c] = "answered" /\ answer[c].kind = "gateway"}

Unhindered == {c \in team : pc[c] \in {"idle", "waiting"}}

\* Those Await would let through as things stand.
Asked == IF Permits(known) THEN Unhindered ELSE {}

\* Those whose answer, read now, would let the others through.
Outdated == {c \in team :
  pc[c] = "answered" /\ answer[c].kind # "gateway" /\ Permits(answer[c])}

\* Twice the requests that n callers can still make, with p of them on their way,
\* f free to go and k that have an outdated answer.
Demand(n, p, f, k) == 2 * (p + f) + 2 * (k * n) - k * (k - 1)

Coming == Demand(Cardinality(team), Cardinality(Passing), Cardinality(Asked),
                 Cardinality(Outdated))

Limit == Cardinality(team) * (Cardinality(team) + 1)

\* Every reading names the end of this window, or of one that is over.
Dated ==
  /\ known.left \in {0, renew}
  /\ ~known.valid => known.left = 0
  /\ \A c \in Callers : pc[c] = "answered" => answer[c].left \in {0, renew}

Afforded == IF quota > Threshold THEN drawn = 0 ELSE Coming + 2 * drawn <= Limit

Margin ==
  /\ DrawIsBounded
  /\ outcome \in {"planned", "running"} => Dated /\ Afforded

\* An outdated reading, once read, frees the callers that were held back.
LEMMA DemandAfterOutdated ==
  ASSUME NEW n \in Nat, NEW p \in Nat, NEW f \in Nat, NEW u \in Nat, NEW k \in Nat,
         k > 0, k + u <= n
  PROVE  Demand(n, p, u + 1, k - 1) <= Demand(n, p, f, k)
<1>1. (k - 1) * n = k * n - n
  OBVIOUS
<1>2. (k - 1) * (k - 1 - 1) = k * (k - 1) - 2 * (k - 1)
  OBVIOUS
<1>3. PICK a \in Int, b \in Int : a = k * n /\ b = k * (k - 1)
  OBVIOUS
<1>4. Demand(n, p, u + 1, k - 1) = 2 * (p + (u + 1)) + 2 * (a - n) - (b - 2 * (k - 1))
  BY <1>1, <1>2, <1>3 DEF Demand
<1>5. Demand(n, p, f, k) = 2 * (p + f) + 2 * a - b
  BY <1>3 DEF Demand
<1> QED
  BY <1>3, <1>4, <1>5

\* No n callers can make more requests than n + (n - 1) + ... + 1.
LEMMA DemandIsLimited ==
  ASSUME NEW n \in Nat, NEW p \in Nat, NEW f \in Nat, NEW k \in Nat, p + f + k <= n
  PROVE  Demand(n, p, f, k) <= n * (n + 1)
<1>1. PICK m \in Nat : m = n - k
  OBVIOUS
<1>2. n = m + k /\ p + f <= m
  BY <1>1
<1>3. k * n = k * m + k * k
  BY <1>2
<1>4. k * (k - 1) = k * k - k
  OBVIOUS
<1>5. n * (n + 1) = m * m + 2 * (k * m) + k * k + m + k
  BY <1>2
<1>6. PICK a \in Int, b \in Int, e \in Int : a = k * m /\ b = k * k /\ e = m * m
  OBVIOUS
<1>7. e >= m
  <2>1. CASE m = 0
    BY <1>6, <2>1
  <2>2. CASE m >= 1
    BY <1>6, <2>2
  <2> QED
    BY <2>1, <2>2
<1>8. Demand(n, p, f, k) = 2 * (p + f) + 2 * (a + b) - (b - k)
  BY <1>3, <1>4, <1>6 DEF Demand
<1>9. n * (n + 1) = e + 2 * a + b + m + k
  BY <1>5, <1>6
<1> QED
  BY <1>2, <1>6, <1>7, <1>8, <1>9

LEMMA DemandGrows ==
  ASSUME NEW n \in Nat, NEW k \in Nat, NEW p \in Nat, NEW f \in Nat, NEW q \in Nat, NEW g \in Nat,
         q + g <= p + f
  PROVE  Demand(n, q, g, k) <= Demand(n, p, f, k)
<1>1. PICK a \in Int : a = 2 * (k * n) - k * (k - 1)
  OBVIOUS
<1>2. Demand(n, q, g, k) = 2 * (q + g) + a /\ Demand(n, p, f, k) = 2 * (p + f) + a
  BY <1>1 DEF Demand
<1> QED
  BY <1>1, <1>2

LEMMA DemandOfOneMore ==
  ASSUME NEW n \in Nat, NEW k \in Nat, NEW p \in Nat, NEW f \in Nat, p > 0
  PROVE  Demand(n, p - 1, f, k) = Demand(n, p, f, k) - 2
<1>1. PICK a \in Int : a = 2 * (k * n) - k * (k - 1)
  OBVIOUS
<1>2. /\ Demand(n, p - 1, f, k) = 2 * (p - 1 + f) + a
      /\ Demand(n, p, f, k) = 2 * (p + f) + a
  BY <1>1 DEF Demand
<1> QED
  BY <1>1, <1>2

LEMMA DemandOfPassing ==
  ASSUME NEW n \in Nat, NEW k \in Nat, NEW p \in Nat, NEW f \in Nat, k <= n
  PROVE  Demand(n, p, f, k) >= 2 * p
<1>1. PICK d \in Nat : d = n - k
  OBVIOUS
<1>2. n = k + d
  BY <1>1
<1>3. k * n = k * k + k * d
  BY <1>2
<1>4. k * (k - 1) = k * k - k
  OBVIOUS
<1>5. PICK a \in Int, b \in Int : a = k * k /\ b = k * d
  OBVIOUS
<1>6. a >= 0 /\ b >= 0
  BY <1>5
<1>7. Demand(n, p, f, k) = 2 * (p + f) + 2 * (a + b) - (a - k)
  BY <1>3, <1>4, <1>5 DEF Demand
<1> QED
  BY <1>5, <1>6, <1>7

LEMMA DemandIsInteger ==
  ASSUME NEW n \in Nat, NEW k \in Nat, NEW p \in Nat, NEW f \in Nat
  PROVE  Demand(n, p, f, k) \in Int
BY DEF Demand

LEMMA DisjointUnionIsCounted ==
  ASSUME NEW S, NEW T, IsFiniteSet(S), IsFiniteSet(T), S \cap T = {}
  PROVE  IsFiniteSet(S \cup T) /\ Cardinality(S \cup T) = Cardinality(S) + Cardinality(T)
<1>1. Cardinality(S \cap T) = 0
  BY FS_EmptySet
<1>2. Cardinality(S) \in Nat /\ Cardinality(T) \in Nat
  BY FS_CardinalityType
<1>3. /\ IsFiniteSet(S \cup T)
      /\ Cardinality(S \cup T) = Cardinality(S) + Cardinality(T) - Cardinality(S \cap T)
  BY FS_Union
<1> QED
  BY <1>1, <1>2, <1>3

\* Three groups of the callers, none of whom is in two of them, are no more than
\* the callers, and can make no more requests than they.
LEMMA DisjointSetsAreCounted ==
  ASSUME NEW T, IsFiniteSet(T), NEW A \in SUBSET T, NEW B \in SUBSET T, NEW C \in SUBSET T,
         A \cap B = {}, A \cap C = {}, B \cap C = {}
  PROVE  /\ IsFiniteSet(A) /\ IsFiniteSet(B) /\ IsFiniteSet(C)
         /\ Cardinality(T) \in Nat /\ Cardinality(A) \in Nat /\ Cardinality(B) \in Nat
         /\ Cardinality(C) \in Nat
         /\ Cardinality(A) + Cardinality(B) + Cardinality(C) <= Cardinality(T)
         /\ Demand(Cardinality(T), Cardinality(A), Cardinality(B), Cardinality(C))
              <= Cardinality(T) * (Cardinality(T) + 1)
<1>1. IsFiniteSet(A) /\ IsFiniteSet(B) /\ IsFiniteSet(C)
  BY FS_Subset
<1>2. /\ Cardinality(A) \in Nat /\ Cardinality(B) \in Nat /\ Cardinality(C) \in Nat
      /\ Cardinality(T) \in Nat
  BY <1>1, FS_CardinalityType
<1>3. IsFiniteSet(A \cup B) /\ Cardinality(A \cup B) = Cardinality(A) + Cardinality(B)
  BY <1>1, DisjointUnionIsCounted
<1>4. (A \cup B) \cap C = {}
  OBVIOUS
<1>5. Cardinality((A \cup B) \cup C) = Cardinality(A) + Cardinality(B) + Cardinality(C)
  BY <1>1, <1>3, <1>4, DisjointUnionIsCounted
<1>6. (A \cup B) \cup C \in SUBSET T
  OBVIOUS
<1>7. Cardinality((A \cup B) \cup C) <= Cardinality(T)
  BY <1>6, FS_Subset
<1>8. Cardinality(A) + Cardinality(B) + Cardinality(C) <= Cardinality(T)
  BY <1>5, <1>7
<1> QED
  BY <1>1, <1>2, <1>8, DemandIsLimited

\* The three groups of a state.
LEMMA TeamIsFinite ==
  ASSUME TypeOK PROVE team \in SUBSET Callers /\ IsFiniteSet(team) /\ Cardinality(team) \in Nat
<1>1. team \in SUBSET Callers
  BY LimiterAssumption DEF TypeOK, LimiterAssumption
<1>2. IsFiniteSet(team)
  BY <1>1, Constants, FS_Subset
<1> QED
  BY <1>1, <1>2, FS_CardinalityType

LEMMA GroupsAreDisjoint ==
  /\ Passing \in SUBSET team /\ Asked \in SUBSET team /\ Outdated \in SUBSET team
  /\ Unhindered \in SUBSET team
  /\ Passing \cap Asked = {} /\ Passing \cap Outdated = {} /\ Asked \cap Outdated = {}
  /\ Passing \cap Unhindered = {} /\ Unhindered \cap Outdated = {}
BY DEF Passing, Asked, Unhindered, Outdated

LEMMA CallersAreCounted ==
  ASSUME TypeOK
  PROVE  /\ IsFiniteSet(Passing) /\ IsFiniteSet(Asked) /\ IsFiniteSet(Outdated)
         /\ IsFiniteSet(Unhindered)
         /\ Cardinality(team) \in Nat /\ Cardinality(Passing) \in Nat
         /\ Cardinality(Asked) \in Nat /\ Cardinality(Outdated) \in Nat
         /\ Cardinality(Unhindered) \in Nat
         /\ Cardinality(Outdated) <= Cardinality(team)
         /\ Cardinality(Unhindered) + Cardinality(Outdated) <= Cardinality(team)
         /\ Coming <= Limit
<1>1. IsFiniteSet(team)
  BY TeamIsFinite
<1>2. /\ IsFiniteSet(Passing) /\ IsFiniteSet(Asked) /\ IsFiniteSet(Outdated)
      /\ Cardinality(team) \in Nat /\ Cardinality(Passing) \in Nat
      /\ Cardinality(Asked) \in Nat /\ Cardinality(Outdated) \in Nat
      /\ Cardinality(Passing) + Cardinality(Asked) + Cardinality(Outdated) <= Cardinality(team)
      /\ Coming <= Limit
  BY <1>1, GroupsAreDisjoint, DisjointSetsAreCounted DEF Coming, Limit
<1>3. /\ IsFiniteSet(Unhindered) /\ Cardinality(Unhindered) \in Nat
      /\ Cardinality(Passing) + Cardinality(Unhindered) + Cardinality(Outdated)
           <= Cardinality(team)
  BY <1>1, GroupsAreDisjoint, DisjointSetsAreCounted
<1> QED
  BY <1>2, <1>3

\* With nothing drawn, any state will do.
LEMMA NothingDrawnIsAfforded ==
  ASSUME TypeOK, team' = team, drawn' = 0 PROVE Afforded'
<1>1. IsFiniteSet(team')
  BY TeamIsFinite
<1>2. /\ Passing' \in SUBSET team' /\ Asked' \in SUBSET team' /\ Outdated' \in SUBSET team'
      /\ Passing' \cap Asked' = {} /\ Passing' \cap Outdated' = {} /\ Asked' \cap Outdated' = {}
  BY DEF Passing, Asked, Unhindered, Outdated
<1>3. PICK n \in Nat, p \in Nat, f \in Nat, k \in Nat :
        /\ n = Cardinality(team') /\ p = Cardinality(Passing') /\ f = Cardinality(Asked')
        /\ k = Cardinality(Outdated')
        /\ Demand(n, p, f, k) <= n * (n + 1)
  BY <1>1, <1>2, DisjointSetsAreCounted
<1>4. Demand(n, p, f, k) \in Int /\ n * (n + 1) \in Int
  BY DemandIsInteger
<1>5. Coming' = Demand(n, p, f, k) /\ Limit' = n * (n + 1)
  BY <1>3 DEF Coming, Limit
<1>6. Coming' + 2 * drawn' <= Limit'
  BY <1>3, <1>4, <1>5
<1> QED
  BY <1>6 DEF Afforded

\* Of two states in which as many readings are out of date, the one with no
\* more callers on their way or free to go is covered when the other is.
LEMMA NoMoreIsAfforded ==
  ASSUME TypeOK, Afforded, UNCHANGED <<team, quota, drawn>>, Outdated' = Outdated,
         IsFiniteSet(Passing'), IsFiniteSet(Asked'),
         Cardinality(Passing)' + Cardinality(Asked)' <= Cardinality(Passing) + Cardinality(Asked)
  PROVE  Afforded'
<1>1. PICK n \in Nat, p \in Nat, f \in Nat, k \in Nat, q \in Nat, g \in Nat :
        /\ n = Cardinality(team) /\ p = Cardinality(Passing) /\ f = Cardinality(Asked)
        /\ k = Cardinality(Outdated) /\ q = Cardinality(Passing)' /\ g = Cardinality(Asked)'
  <2>1. Cardinality(Passing') \in Nat /\ Cardinality(Asked') \in Nat
    BY FS_CardinalityType
  <2> QED
    BY <2>1, CallersAreCounted
<1>2. Demand(n, q, g, k) <= Demand(n, p, f, k)
  BY <1>1, DemandGrows
<1>3. Demand(n, q, g, k) \in Int /\ Demand(n, p, f, k) \in Int /\ n * (n + 1) \in Int
  <2>1. n * (n + 1) \in Int
    OBVIOUS
  <2> QED
    BY <2>1, DemandIsInteger
<1>4. Coming = Demand(n, p, f, k) /\ Coming' = Demand(n, q, g, k) /\ Limit = n * (n + 1)
      /\ Limit' = Limit
  BY <1>1 DEF Coming, Limit
<1> QED
  BY <1>2, <1>3, <1>4, Constants DEF Afforded, TypeOK

LEMMA FewerAreAfforded ==
  ASSUME TypeOK, Afforded, UNCHANGED <<team, quota, drawn>>,
         Outdated' = Outdated, Passing' \subseteq Passing, Asked' \subseteq Asked
  PROVE  Afforded'
<1>1. /\ Passing' \in SUBSET Passing /\ Asked' \in SUBSET Asked
      /\ IsFiniteSet(Passing) /\ IsFiniteSet(Asked)
  BY CallersAreCounted
<1>2. /\ Cardinality(Passing') <= Cardinality(Passing) /\ Cardinality(Asked') <= Cardinality(Asked)
      /\ IsFiniteSet(Passing') /\ IsFiniteSet(Asked')
  BY <1>1, FS_Subset
<1>3. /\ Cardinality(Passing') \in Nat /\ Cardinality(Asked') \in Nat
      /\ Cardinality(Passing) \in Nat /\ Cardinality(Asked) \in Nat
  BY <1>1, <1>2, FS_CardinalityType
<1> QED
  BY <1>2, <1>3, NoMoreIsAfforded

\* A caller leaves those on their way, or joins them, in exchange for its place
\* among those that are free to go.
LEMMA MovingIsAfforded ==
  ASSUME TypeOK, Afforded, UNCHANGED <<team, quota, drawn>>, Outdated' = Outdated,
         NEW c,
         \/ /\ c \in Asked /\ Asked' = Asked \ {c}
            /\ c \notin Passing /\ Passing' \subseteq Passing \cup {c}
         \/ /\ c \in Passing /\ Passing' = Passing \ {c}
            /\ c \notin Asked /\ Asked' \subseteq Asked \cup {c}
  PROVE  Afforded'
<1>1. /\ IsFiniteSet(Passing) /\ IsFiniteSet(Asked)
      /\ Cardinality(Passing) \in Nat /\ Cardinality(Asked) \in Nat
  BY CallersAreCounted
<1>2. ASSUME NEW S, NEW T, NEW U, NEW V, IsFiniteSet(S), IsFiniteSet(T), c \in S, U = S \ {c},
             c \notin T, V \in SUBSET (T \cup {c})
      PROVE  /\ IsFiniteSet(U) /\ IsFiniteSet(V)
             /\ Cardinality(U) + Cardinality(V) <= Cardinality(S) + Cardinality(T)
  <2>1. IsFiniteSet(U) /\ Cardinality(U) = Cardinality(S) - 1
    BY <1>2, FS_RemoveElement
  <2>2. IsFiniteSet(T \cup {c}) /\ Cardinality(T \cup {c}) = Cardinality(T) + 1
    BY <1>2, FS_AddElement
  <2>3. IsFiniteSet(V) /\ Cardinality(V) <= Cardinality(T \cup {c})
    BY <1>2, <2>2, FS_Subset
  <2>4. Cardinality(S) \in Nat /\ Cardinality(T) \in Nat /\ Cardinality(V) \in Nat
    BY <1>2, <2>3, FS_CardinalityType
  <2> QED
    BY <2>1, <2>2, <2>3, <2>4
<1>3. CASE c \in Asked /\ Asked' = Asked \ {c} /\ c \notin Passing
           /\ Passing' \in SUBSET (Passing \cup {c})
  <2>1. /\ IsFiniteSet(Asked') /\ IsFiniteSet(Passing')
        /\ Cardinality(Asked') + Cardinality(Passing')
             <= Cardinality(Asked) + Cardinality(Passing)
    BY <1>1, <1>2, <1>3
  <2>2. Cardinality(Asked') \in Nat /\ Cardinality(Passing') \in Nat
    BY <2>1, FS_CardinalityType
  <2> QED
    BY <1>1, <2>1, <2>2, NoMoreIsAfforded
<1>4. CASE c \in Passing /\ Passing' = Passing \ {c} /\ c \notin Asked
           /\ Asked' \in SUBSET (Asked \cup {c})
  <2>1. /\ IsFiniteSet(Asked') /\ IsFiniteSet(Passing')
        /\ Cardinality(Passing') + Cardinality(Asked')
             <= Cardinality(Passing) + Cardinality(Asked)
    BY <1>1, <1>2, <1>4
  <2> QED
    BY <2>1, NoMoreIsAfforded
<1> QED
  BY <1>3, <1>4

\* A caller whom nothing holds back is on its way; one that waits for the reset
\* is not before the window is over.
LEMMA AwaitIsAfforded ==
  ASSUME TypeOK, Dated, Afforded, NEW c \in Callers, Await(c) PROVE Afforded'
<1>1. /\ pc[c] = "idle" /\ pc' = [pc EXCEPT ![c] = "pacing"] /\ c \in team
      /\ wake' = [wake EXCEPT ![c] = Pace(c)] /\ owed' = [owed EXCEPT ![c] = BudgetWait]
      /\ UNCHANGED <<known, answer, team, quota, renew, drawn>>
  BY DEF Await, github, history, TypeOK
<1>2. team \in SUBSET Callers
  BY TeamIsFinite
<1>3. Outdated' = Outdated
  BY <1>1, <1>2 DEF Outdated, Permits, TypeOK
<1>4. Unhindered' = Unhindered \ {c} /\ c \in Unhindered
  BY <1>1, <1>2 DEF Unhindered, TypeOK
<1>5. Passing' \subseteq Passing \cup {c} /\ c \notin Passing
  BY <1>1, <1>2 DEF Passing, TypeOK
<1>6. CASE Permits(known)
  <2>1. Asked' = Asked \ {c} /\ c \in Asked
    BY <1>1, <1>4, <1>6 DEF Asked, Permits
  <2> QED
    BY <1>1, <1>3, <1>5, <2>1, MovingIsAfforded
<1>7. CASE ~Permits(known)
  <2>1. BudgetWait = renew
    BY <1>7, Constants DEF Permits, BudgetWait, Dated, TypeOK, Reading
  <2>2. wake'[c] \in Nat /\ owed'[c] = renew /\ renew \in Nat
    <3>1. Pace(c) \in Nat
      BY Constants DEF Pace, TypeOK
    <3> QED
      BY <1>1, <2>1, <3>1, Constants DEF TypeOK
  <2>3. c \notin Passing'
    BY <1>1, <2>2 DEF Passing, TypeOK
  <2>4. Asked' = {}
    BY <1>1, <1>7 DEF Asked, Permits
  <2> QED
    BY <1>1, <1>3, <1>5, <2>3, <2>4, FewerAreAfforded
<1> QED
  BY <1>6, <1>7

\* The budget wait was decided before the pacing, and is no shorter for it.
LEMMA PacedIsAfforded ==
  ASSUME TypeOK, Afforded, NEW c \in Callers, Paced(c), outcome' = "running"
  PROVE  Afforded'
<1>1. /\ pc[c] = "pacing" /\ wake[c] = 0 /\ owed[c] \in Nat /\ renew \in Nat /\ renew > 0
      /\ UNCHANGED <<known, owed, answer, team, quota, renew, drawn>>
  BY Constants DEF Paced, github, TypeOK
<1>2. \/ owed[c] = 0 /\ pc' = [pc EXCEPT ![c] = "sent"] /\ wake' = wake
      \/ pc' = [pc EXCEPT ![c] = "budgeting"] /\ wake' = [wake EXCEPT ![c] = owed[c]]
  BY DEF Paced, WaitOut
<1>3. team \in SUBSET Callers
  BY TeamIsFinite
<1>4. Passing' \subseteq Passing
  BY <1>1, <1>2, <1>3 DEF Passing, TypeOK
<1>5. Outdated' = Outdated /\ Asked' \subseteq Asked
  BY <1>1, <1>2, <1>3 DEF Outdated, Asked, Unhindered, Permits, TypeOK
<1> QED
  BY <1>1, <1>4, <1>5, FewerAreAfforded

LEMMA BudgetedIsAfforded ==
  ASSUME TypeOK, Afforded, NEW c \in Callers, Budgeted(c) PROVE Afforded'
<1>1. /\ pc[c] = "budgeting" /\ wake[c] = 0 /\ pc' = [pc EXCEPT ![c] = "sent"]
      /\ renew \in Nat /\ renew > 0
      /\ UNCHANGED <<known, wake, owed, answer, team, quota, renew, drawn>>
  BY Constants DEF Budgeted, limiter, github, TypeOK
<1>2. team \in SUBSET Callers
  BY TeamIsFinite
<1>3. Passing' \subseteq Passing /\ Outdated' = Outdated /\ Asked' \subseteq Asked
  BY <1>1, <1>2 DEF Passing, Outdated, Asked, Unhindered, Permits, TypeOK
<1> QED
  BY <1>1, <1>3, FewerAreAfforded

LEMMA ResumeIsAfforded ==
  ASSUME TypeOK, Afforded, NEW c \in Callers, Resume(c) PROVE Afforded'
<1>1. /\ pc[c] = "waiting" /\ pc' = [pc EXCEPT ![c] = "idle"]
      /\ UNCHANGED <<known, wake, owed, answer, team, quota, renew, drawn>>
  BY DEF Resume, limiter, github, history
<1>2. team \in SUBSET Callers
  BY TeamIsFinite
<1>3. Passing' \subseteq Passing /\ Outdated' = Outdated /\ Asked' \subseteq Asked
  BY <1>1, <1>2 DEF Passing, Outdated, Asked, Unhindered, Permits, TypeOK
<1> QED
  BY <1>1, <1>3, FewerAreAfforded

\* A request that GitHub counts was covered, and is one less to come; one that a
\* gateway answers may come again.
LEMMA ServeIsAfforded ==
  ASSUME TypeOK, Afforded, DrawIsBounded, NEW c \in Callers, Serve(c)
  PROVE  DrawIsBounded' /\ Afforded' /\ answer'[c].left \in {0, renew}
<1>1. /\ pc[c] = "sent" /\ pc' = [pc EXCEPT ![c] = "answered"] /\ c \in team
      /\ UNCHANGED <<known, wake, owed, renew, team>>
      /\ quota \in Nat /\ Threshold \in Nat /\ renew \in Nat /\ renew > 0 /\ drawn \in Nat
  BY Constants DEF Serve, limiter, TypeOK
<1>2. team \in SUBSET Callers /\ c \in Passing /\ c \notin Asked /\ c \notin Outdated
  BY <1>1, TeamIsFinite DEF Passing, Asked, Unhindered, Outdated
<1>3. Asked' = Asked
  BY <1>1, <1>2 DEF Asked, Unhindered, Permits, TypeOK
<1>4. PICK n \in Nat, p \in Nat, f \in Nat, k \in Nat :
        /\ n = Cardinality(team) /\ p = Cardinality(Passing) /\ f = Cardinality(Asked)
        /\ k = Cardinality(Outdated) /\ k <= n
  BY CallersAreCounted
<1>5. /\ Demand(n, p, f, k) \in Int /\ Demand(n, p, f, k) >= 2 * p /\ n * (n + 1) \in Int
      /\ Coming = Demand(n, p, f, k) /\ Limit = n * (n + 1) /\ Limit' = Limit
  <2>1. n * (n + 1) \in Int
    OBVIOUS
  <2>2. Demand(n, p, f, k) \in Int /\ Demand(n, p, f, k) >= 2 * p
    BY <1>4, DemandIsInteger, DemandOfPassing
  <2> QED
    BY <1>1, <1>4, <2>1, <2>2 DEF Coming, Limit
<1>6. Cardinality(Passing \ {c}) = p - 1 /\ p > 0
  <2>1. IsFiniteSet(Passing)
    BY CallersAreCounted
  <2>2. p # 0
    BY <1>2, <1>4, <2>1, FS_EmptySet
  <2>3. Cardinality(Passing \ {c}) = Cardinality(Passing) - 1
    BY <1>2, <2>1, FS_RemoveElement
  <2> QED
    BY <1>4, <2>2, <2>3
<1>7. ASSUME NEW a \in Response, answer' = [answer EXCEPT ![c] = a], a.kind # "gateway", a.left = renew,
             a.remaining <= Threshold, quota <= Threshold, drawn' = drawn + 1,
             quota' \in Nat, quota' <= Threshold
      PROVE  DrawIsBounded' /\ Afforded'
  <2>1. answer'[c] = a /\ \A e \in Callers \ {c} : answer'[e] = answer[e]
    BY <1>7 DEF TypeOK
  <2>2. ~Permits(a) /\ Outdated' = Outdated
    <3>1. ~Permits(a)
      BY <1>1, <1>7, Constants DEF Permits, Response
    <3>2. ~Permits(answer'[c])
      BY <2>1, <3>1
    <3> QED
      BY <1>1, <1>2, <2>1, <3>1, <3>2 DEF Outdated, TypeOK, Permits
  <2>3. Passing' = Passing \ {c}
    BY <1>1, <1>2, <1>7, <2>1 DEF Passing, TypeOK
  <2>4. Coming' = Demand(n, p - 1, f, k)
    BY <1>1, <1>3, <1>4, <1>6, <2>2, <2>3 DEF Coming
  <2>5. Coming' = Coming - 2
    BY <1>4, <1>5, <1>6, <2>4, DemandOfOneMore
  <2>6. Coming + 2 * drawn <= Limit
    BY <1>1, <1>7 DEF Afforded
  <2>7. Afforded'
    BY <1>1, <1>5, <1>7, <2>5, <2>6 DEF Afforded
  <2>8. 2 * (drawn + 1) <= n * (n + 1)
    BY <1>1, <1>5, <1>6, <2>6
  <2> QED
    BY <1>1, <1>4, <1>7, <2>7, <2>8 DEF DrawIsBounded
<1>8. ASSUME quota > Threshold, UNCHANGED drawn PROVE DrawIsBounded' /\ Afforded'
  <2>1. drawn' = 0
    BY <1>1, <1>8 DEF Afforded
  <2> QED
    BY <1>1, <1>8, <2>1, NothingDrawnIsAfforded DEF DrawIsBounded
<1>9. CASE quota = 0 /\ drawn' = drawn + 1 /\ UNCHANGED quota
           /\ answer' = [answer EXCEPT ![c] =
                [kind |-> "primary", remaining |-> 0, left |-> renew, after |-> 0]]
  <2>1. answer'[c].left = renew
    BY <1>9 DEF TypeOK
  <2>2. PICK a \in Response :
          a = [kind |-> "primary", remaining |-> 0, left |-> renew, after |-> 0]
    BY <1>1 DEF Response
  <2>3. a.kind # "gateway" /\ a.left = renew /\ a.remaining = 0 /\ 0 <= Threshold
        /\ answer' = [answer EXCEPT ![c] = a]
    BY <1>1, <1>9, <2>2
  <2>4. DrawIsBounded' /\ Afforded'
    BY <1>1, <1>7, <1>9, <2>3
  <2> QED
    BY <2>1, <2>4
<1>10. CASE /\ quota > 0 /\ quota' = quota - 1
            /\ drawn' = IF quota <= Threshold THEN drawn + 1 ELSE drawn
            /\ \E kind \in Kinds \ {"gateway"}, after \in RetryAfters :
                 answer' = [answer EXCEPT ![c] =
                   [kind |-> kind, remaining |-> quota - 1, left |-> renew, after |-> after]]
  <2>1. PICK kind \in Kinds \ {"gateway"}, after \in RetryAfters :
          answer' = [answer EXCEPT ![c] =
            [kind |-> kind, remaining |-> quota - 1, left |-> renew, after |-> after]]
    BY <1>10
  <2>2. answer'[c].left = renew
    BY <2>1 DEF TypeOK
  <2>3. CASE quota <= Threshold
    <3>1. drawn' = drawn + 1 /\ quota' <= Threshold /\ quota - 1 <= Threshold
      BY <1>1, <1>10, <2>3
    <3>2. PICK a \in Response :
            a = [kind |-> kind, remaining |-> quota - 1, left |-> renew, after |-> after]
      <4>1. quota - 1 \in Nat /\ renew \in Nat
        BY <1>1, <1>10
      <4>2. after \in Nat /\ kind \in Kinds \cup {"primary"}
        BY LimiterAssumption DEF LimiterAssumption
      <4>3. [kind |-> kind, remaining |-> quota - 1, left |-> renew, after |-> after] \in Response
        BY <4>1, <4>2 DEF Response
      <4> QED
        BY <4>3
    <3>3. a.kind # "gateway" /\ a.left = renew /\ a.remaining = quota - 1
          /\ answer' = [answer EXCEPT ![c] = a]
      BY <2>1, <3>2
    <3>4. quota' \in Nat
      BY <1>1, <1>10
    <3>5. DrawIsBounded' /\ Afforded'
      BY <1>7, <2>3, <3>1, <3>3, <3>4
    <3> QED
      BY <2>2, <3>5
  <2>4. CASE quota > Threshold
    BY <1>1, <1>8, <1>10, <2>2, <2>4
  <2> QED
    BY <1>1, <2>3, <2>4
<1>11. CASE /\ quota' \in {quota, Sooner(quota)} /\ UNCHANGED drawn
            /\ answer' = [answer EXCEPT ![c] =
                 [kind |-> "gateway", remaining |-> 0, left |-> 0, after |-> 0]]
  <2>1. answer'[c].left = 0 /\ answer'[c].kind = "gateway"
        /\ \A e \in Callers \ {c} : answer'[e] = answer[e]
    BY <1>11 DEF TypeOK
  <2>2. CASE quota <= Threshold
    <3>1. Passing' = Passing /\ Outdated' = Outdated
      BY <1>1, <1>2, <2>1 DEF Passing, Outdated, Permits, TypeOK
    <3>2. Coming' = Coming
      BY <1>1, <1>3, <3>1 DEF Coming
    <3>3. quota' <= Threshold
      BY <1>1, <1>11, <2>2 DEF Sooner
    <3>4. DrawIsBounded'
      BY <1>1, <1>11 DEF DrawIsBounded
    <3> QED
      BY <1>1, <1>5, <1>11, <2>1, <2>2, <3>2, <3>3, <3>4 DEF Afforded
  <2>3. CASE quota > Threshold
    BY <1>8, <1>11, <2>1, <2>3
  <2> QED
    BY <1>1, <2>2, <2>3
<1> QED
  BY <1>9, <1>10, <1>11 DEF Serve

\* A reading that lets the others through frees them at the cost of one reading
\* out of date; any other holds them back.
LEMMA ReadingIsAfforded ==
  ASSUME TypeOK, Afforded, NEW c \in Callers, NEW kind,
         Returns(c, kind), pc'[c] \in {"idle", "waiting"},
         \A e \in Callers \ {c} : pc'[e] = pc[e] /\ wake'[e] = wake[e],
         UNCHANGED <<owed, team, quota, renew, drawn>>
  PROVE  Afforded'
<1>1. /\ pc[c] = "answered" /\ c \in team
      /\ answer' = [answer EXCEPT ![c] = NoResponse]
  BY DEF Returns, TypeOK
<1>2. team \in SUBSET Callers
  BY TeamIsFinite
<1>3. Unhindered' = Unhindered \cup {c} /\ c \notin Unhindered
  BY <1>1, <1>2 DEF Unhindered
<1>4. Passing' = Passing \ {c}
  BY <1>1, <1>2 DEF Passing, TypeOK
<1>5. Outdated' = Outdated \ {c}
  BY <1>1, <1>2 DEF Outdated, TypeOK, Permits
<1>6. CASE answer[c].kind = "gateway"
  <2>1. known' = known
    BY <1>6 DEF Returns, Observe
  <2>2. Outdated' = Outdated /\ c \in Passing /\ c \notin Asked
    BY <1>1, <1>5, <1>6 DEF Outdated, Passing, Asked, Unhindered
  <2>3. Asked' \subseteq Asked \cup {c}
    BY <1>3, <2>1 DEF Asked, Permits
  <2> QED
    BY <1>4, <2>2, <2>3, MovingIsAfforded
<1>7. CASE answer[c].kind # "gateway"
  <2>1. known' = [valid |-> TRUE, remaining |-> answer[c].remaining, left |-> answer[c].left]
    BY <1>7 DEF Returns, Observe
  <2>2. Permits(known)' <=> Permits(answer[c])
    BY <2>1 DEF Permits
  <2>3. Passing' = Passing
    BY <1>1, <1>4, <1>7 DEF Passing
  <2>4. CASE ~Permits(answer[c])
    <3>1. Asked' = {} /\ Outdated' = Outdated
      BY <1>5, <2>2, <2>4 DEF Asked, Outdated
    <3> QED
      BY <2>3, <3>1, FewerAreAfforded
  <2>5. CASE Permits(answer[c])
    <3>1. Asked' = Unhindered \cup {c} /\ c \in Outdated
      BY <1>1, <1>3, <1>7, <2>2, <2>5 DEF Asked, Outdated
    <3>2. IsFiniteSet(Unhindered) /\ IsFiniteSet(Outdated)
      BY CallersAreCounted
    <3>3. PICK n \in Nat, p \in Nat, f \in Nat, u \in Nat, k \in Nat :
            /\ n = Cardinality(team) /\ p = Cardinality(Passing) /\ f = Cardinality(Asked)
            /\ u = Cardinality(Unhindered) /\ k = Cardinality(Outdated) /\ u + k <= n
      BY CallersAreCounted
    <3>4. k > 0
      <4>1. k # 0
        BY <3>1, <3>2, <3>3, FS_EmptySet
      <4> QED
        BY <3>3, <4>1
    <3>5. Cardinality(Asked') = u + 1
      BY <1>3, <3>1, <3>2, <3>3, FS_AddElement
    <3>6. Cardinality(Outdated') = k - 1
      BY <1>5, <3>1, <3>2, <3>3, FS_RemoveElement
    <3>7. Demand(n, p, u + 1, k - 1) <= Demand(n, p, f, k)
      BY <3>3, <3>4, DemandAfterOutdated
    <3>8. /\ Coming = Demand(n, p, f, k) /\ Coming' = Demand(n, p, u + 1, k - 1)
          /\ Limit = n * (n + 1) /\ Limit' = Limit
      BY <2>3, <3>3, <3>5, <3>6 DEF Coming, Limit
    <3>9. Demand(n, p, u + 1, k - 1) \in Int /\ Demand(n, p, f, k) \in Int /\ n * (n + 1) \in Int
      <4>1. u + 1 \in Nat /\ k - 1 \in Nat
        BY <3>3, <3>4
      <4> QED
        BY <4>1, DemandIsInteger
    <3> QED
      BY <3>7, <3>8, <3>9, Constants DEF Afforded, TypeOK
  <2> QED
    BY <2>4, <2>5
<1> QED
  BY <1>6, <1>7

\* The five ways an answer is dealt with, the run going on.
LEMMA AnswersAreAfforded ==
  ASSUME TypeOK, Dated, Afforded, NEW c \in Callers,
         Complete(c) \/ ServerError(c) \/ PrimaryLimit(c) \/ SecondaryLimit(c) \/ BackOff(c)
  PROVE  UNCHANGED <<drawn, team>> /\ (outcome' = "running" => Dated' /\ Afforded')
<1>1. PICK kind : Returns(c, kind)
  BY DEF Complete, ServerError, PrimaryLimit, SecondaryLimit, BackOff
<1>2. /\ outcome = "running" /\ pc[c] = "answered"
      /\ \/ known' = known
         \/ known' = [valid |-> TRUE, remaining |-> answer[c].remaining, left |-> answer[c].left]
      /\ answer' = [answer EXCEPT ![c] = NoResponse]
  BY <1>1 DEF Returns, Observe
<1>3. UNCHANGED <<owed, team, quota, renew, drawn>>
  BY DEF Complete, ServerError, PrimaryLimit, SecondaryLimit, BackOff, Recover, github, history
<1>4. ASSUME outcome' = "running"
      PROVE  /\ pc'[c] \in {"idle", "waiting"}
             /\ \A e \in Callers \ {c} : pc'[e] = pc[e] /\ wake'[e] = wake[e]
  <2>1. ASSUME NEW d, Recover(c, d)
        PROVE  /\ pc'[c] \in {"idle", "waiting"}
               /\ \A e \in Callers \ {c} : pc'[e] = pc[e] /\ wake'[e] = wake[e]
    BY <1>4, <2>1 DEF Recover, WaitOut, TypeOK
  <2>2. CASE Complete(c) \/ ServerError(c)
    BY <1>4, <2>2 DEF Complete, ServerError, TypeOK
  <2>3. CASE PrimaryLimit(c) \/ SecondaryLimit(c) \/ BackOff(c)
    BY <2>1, <2>3 DEF PrimaryLimit, SecondaryLimit, BackOff
  <2> QED
    BY <2>2, <2>3
<1>5. ASSUME outcome' = "running" PROVE Dated'
  BY <1>2, <1>3, <1>4, <1>5 DEF Dated, TypeOK
<1>6. ASSUME outcome' = "running" PROVE Afforded'
  BY <1>1, <1>3, <1>4, <1>6, ReadingIsAfforded
<1> QED
  BY <1>3, <1>5, <1>6

LEMMA TickIsAfforded ==
  ASSUME TypeOK, Dated, Afforded, DrawIsBounded, Tick
  PROVE  DrawIsBounded' /\ Dated' /\ Afforded'
<1>1. /\ UNCHANGED <<pc, owed, team>> /\ renew \in Nat /\ renew > 0
      /\ known' = [known EXCEPT !.left = Sooner(@)] /\ known.left \in Nat
      /\ \A c \in Callers : wake'[c] = Sooner(wake[c]) /\ wake[c] \in Nat /\ owed[c] \in Nat
      /\ \A c \in Callers : answer'[c] = [answer[c] EXCEPT !.left = Sooner(@)]
  BY Constants DEF Tick, TypeOK, Reading
<1>2. \A c \in Callers : /\ answer'[c].kind = answer[c].kind
                         /\ answer'[c].remaining = answer[c].remaining
                         /\ answer'[c].left = Sooner(answer[c].left)
  <2>1. ASSUME NEW c \in Callers
        PROVE  /\ answer'[c].kind = answer[c].kind
               /\ answer'[c].remaining = answer[c].remaining
               /\ answer'[c].left = Sooner(answer[c].left)
    <3>1. answer'[c] = [answer[c] EXCEPT !.left = Sooner(@)]
      BY <1>1
    <3>2. CASE answer[c] \in Response
      BY <3>1, <3>2 DEF Response
    <3>3. CASE answer[c] = NoResponse
      BY <3>1, <3>3 DEF NoResponse
    <3> QED
      BY <3>2, <3>3 DEF TypeOK
  <2> QED
    BY <2>1
<1>3. /\ known'.valid = known.valid /\ known'.remaining = known.remaining
      /\ known'.left = Sooner(known.left)
  BY <1>1 DEF TypeOK, Reading
<1>4. Sooner(0) = 0
  BY DEF Sooner
<1>5. CASE renew > 1
  <2>1. renew' = renew - 1 /\ UNCHANGED <<quota, drawn>>
    BY <1>5 DEF Tick
  <2>2. Sooner(renew) = renew - 1 /\ \A n \in {0, renew} : Sooner(n) = 0 <=> n = 0
    BY <1>1, <1>5 DEF Sooner
  <2>3. Dated'
    BY <1>1, <1>2, <1>3, <1>4, <2>1, <2>2 DEF Dated
  <2>4. Passing' \subseteq Passing
    <3>1. SUFFICES ASSUME NEW c \in team, c \in Passing' PROVE c \in Passing
      BY <1>1 DEF Passing
    <3>2. c \in Callers
      BY TeamIsFinite
    <3>3. /\ wake'[c] = Sooner(wake[c]) /\ wake[c] \in Nat /\ owed[c] \in Nat /\ pc' = pc
          /\ owed' = owed /\ answer'[c].kind = answer[c].kind
      BY <1>1, <1>2, <3>2
    <3>4. wake'[c] + owed[c] < renew' => wake[c] + owed[c] < renew
      BY <1>1, <2>1, <3>3 DEF Sooner
    <3>5. wake'[c] < renew' => wake[c] < renew
      BY <1>1, <2>1, <3>3 DEF Sooner
    <3> QED
      BY <3>1, <3>3, <3>4, <3>5 DEF Passing
  <2>5. Permits(known)' <=> Permits(known)
    BY <1>3, <2>2 DEF Permits, Dated
  <2>6. ASSUME NEW c \in Callers, pc[c] = "answered"
        PROVE  Permits(answer[c])' <=> Permits(answer[c])
    BY <1>2, <2>2, <2>6 DEF Permits, Dated
  <2>7. Outdated' = Outdated
    BY <1>1, <1>2, <2>6, TeamIsFinite DEF Outdated
  <2>8. Asked' \subseteq Asked
    BY <1>1, <2>5 DEF Asked, Unhindered
  <2>9. Afforded'
    BY <1>1, <2>1, <2>4, <2>7, <2>8, FewerAreAfforded
  <2> QED
    BY <1>1, <2>1, <2>3, <2>9 DEF DrawIsBounded
<1>6. CASE renew = 1
  <2>1. drawn' = 0
    BY <1>6 DEF Tick
  <2>2. Sooner(1) = 0
    BY DEF Sooner
  <2>3. Dated'
    BY <1>1, <1>2, <1>3, <1>4, <1>6, <2>2 DEF Dated
  <2>4. Afforded'
    BY <1>1, <2>1, NothingDrawnIsAfforded
  <2>5. Cardinality(team) * (Cardinality(team) + 1) >= 0
    BY TeamIsFinite
  <2> QED
    BY <1>1, <2>1, <2>3, <2>4, <2>5 DEF DrawIsBounded
<1> QED
  BY <1>1, <1>5, <1>6

LEMMA StepIsAfforded ==
  ASSUME TypeOK, Margin, NEW c \in Callers, Step(c)
  PROVE  Margin'
<1>1. Dated /\ Afforded /\ DrawIsBounded
  <2>1. outcome \in {"planned", "running"}
    BY DEF Step, Begin, Await, Paced, Budgeted, Serve, Complete, ServerError, PrimaryLimit,
           SecondaryLimit, BackOff, Disguised, Resume, Returns
  <2> QED
    BY <2>1 DEF Margin
<1>2. ASSUME UNCHANGED <<drawn, team>> PROVE DrawIsBounded'
  BY <1>1, <1>2 DEF DrawIsBounded
<1>3. CASE Begin(c)
  <2>1. UNCHANGED <<known, pc, wake, owed, answer, team, quota, renew, drawn>>
    BY <1>3 DEF Begin, github, history
  <2>2. Dated'
    BY <1>1, <2>1 DEF Dated
  <2>3. Passing' = Passing /\ Outdated' = Outdated /\ Asked' = Asked
    BY <2>1 DEF Passing, Outdated, Asked, Unhindered, Permits
  <2> QED
    BY <1>1, <1>2, <2>1, <2>2, <2>3, FewerAreAfforded DEF Margin
<1>4. CASE Await(c)
  <2>1. Dated' /\ UNCHANGED <<drawn, team>>
    BY <1>1, <1>4 DEF Dated, Await, github, history, TypeOK
  <2> QED
    BY <1>1, <1>2, <1>4, <2>1, AwaitIsAfforded DEF Margin
<1>5. CASE Paced(c)
  <2>1. UNCHANGED <<known, answer, renew, drawn, team>>
    BY <1>5 DEF Paced, github
  <2>2. ASSUME outcome' \in {"planned", "running"} PROVE outcome' = "running" /\ Dated'
    <3>1. outcome' = "running"
      BY <1>5, <2>2 DEF Paced, WaitOut
    <3>2. \A e \in Callers : pc'[e] = "answered" => pc[e] = "answered"
      BY <1>5, <3>1 DEF Paced, WaitOut, TypeOK
    <3> QED
      BY <1>1, <2>1, <3>1, <3>2 DEF Dated
  <2> QED
    BY <1>1, <1>2, <1>5, <2>1, <2>2, PacedIsAfforded DEF Margin
<1>6. CASE Budgeted(c)
  <2>1. Dated' /\ UNCHANGED <<drawn, team>>
    BY <1>1, <1>6 DEF Dated, Budgeted, limiter, github, TypeOK
  <2> QED
    BY <1>1, <1>2, <1>6, <2>1, BudgetedIsAfforded DEF Margin
<1>7. CASE Serve(c)
  <2>1. DrawIsBounded' /\ Afforded' /\ answer'[c].left \in {0, renew}
    BY <1>1, <1>7, ServeIsAfforded
  <2>2. \A e \in Callers \ {c} : answer'[e] = answer[e] /\ pc'[e] = pc[e]
    BY <1>7 DEF Serve, TypeOK
  <2>3. UNCHANGED <<known, renew>>
    BY <1>7 DEF Serve, limiter
  <2>4. Dated'
    BY <1>1, <2>1, <2>2, <2>3 DEF Dated
  <2> QED
    BY <2>1, <2>4 DEF Margin
<1>8. CASE Complete(c) \/ ServerError(c) \/ PrimaryLimit(c) \/ SecondaryLimit(c) \/ BackOff(c)
  <2>1. UNCHANGED <<drawn, team>> /\ (outcome' = "running" => Dated' /\ Afforded')
    BY <1>1, <1>8, AnswersAreAfforded
  <2>2. outcome' # "planned"
    BY <1>8 DEF Complete, ServerError, PrimaryLimit, SecondaryLimit, BackOff, Recover, WaitOut,
                Returns
  <2> QED
    BY <1>2, <2>1, <2>2 DEF Margin
<1>9. CASE Disguised(c)
  <2>1. outcome' = "error" /\ UNCHANGED <<drawn, team>>
    BY <1>9 DEF Disguised, history
  <2> QED
    BY <1>2, <2>1 DEF Margin
<1>10. CASE Resume(c)
  <2>1. Dated' /\ UNCHANGED <<drawn, team>>
    BY <1>1, <1>10 DEF Dated, Resume, limiter, github, history, TypeOK
  <2> QED
    BY <1>1, <1>2, <1>10, <2>1, ResumeIsAfforded DEF Margin
<1> QED
  BY <1>3, <1>4, <1>5, <1>6, <1>7, <1>8, <1>9, <1>10 DEF Step

\* Once the budget is down to the threshold, n callers get no more than
\* n + (n - 1) + ... + 1 requests through before the window ends, whatever the
\* answers, their order and the retries: 36 for the readers of a run with the
\* default concurrency of eight, which the default margin of 20 does not cover,
\* 15 for five, which it does, and one for the writer.
THEOREM DrawsAreBounded == Spec => []DrawIsBounded
<1>1. TypeOK /\ Init => Margin
  <2> SUFFICES ASSUME TypeOK, Init PROVE Margin
    OBVIOUS
  <2>1. Dated
    BY Constants DEF Init, Dated, NoResponse
  <2>2. drawn = 0 /\ Coming <= Limit
    BY CallersAreCounted DEF Init
  <2>3. Limit \in Nat
    BY TeamIsFinite DEF Limit
  <2>4. Coming \in Int
    BY CallersAreCounted, DemandIsInteger DEF Coming
  <2> QED
    BY <2>1, <2>2, <2>3, <2>4 DEF Margin, Afforded, DrawIsBounded, Limit
<1>2. TypeOK /\ Margin /\ [Next]_vars => Margin'
  <2> SUFFICES ASSUME TypeOK, Margin, [Next]_vars PROVE Margin'
    OBVIOUS
  <2>1. CASE Tick
    <3>1. Dated /\ Afforded /\ DrawIsBounded
      BY <2>1 DEF Tick, Margin
    <3> QED
      BY <2>1, <3>1, TickIsAfforded DEF Margin
  <2>2. CASE UNCHANGED vars
    <3>1. UNCHANGED <<known, pc, wake, owed, answer, team, quota, renew, outcome, drawn>>
      BY <2>2 DEF vars
    <3> QED
      BY <3>1 DEF Margin, DrawIsBounded, Dated, Afforded, Limit, Coming, Passing, Asked,
                  Unhindered, Outdated, Permits
  <2> QED
    BY <2>1, <2>2, StepIsAfforded DEF Next
<1>3. Margin => DrawIsBounded
  BY DEF Margin
<1> QED
  BY <1>1, <1>2, <1>3, TypeCorrect, PTL DEF Spec
=============================================================================
