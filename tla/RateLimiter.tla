---------------------------- MODULE RateLimiter -----------------------------
(***************************************************************************)
(* app/rate_limit.py: the per-client sliding window in memory.  Nothing in *)
(* the locked block awaits, so allow() is one step.  A key that is not in  *)
(* _hits and one with an empty deque are the same: _hits is a defaultdict. *)
(***************************************************************************)
EXTENDS Integers, Sequences, FiniteSets

CONSTANTS
  Clients,
  Limit,          \* _limit; 0 switches the limiter off and is not modelled
  Window,         \* _window_seconds
  PruneInterval,  \* _prune_interval
  MaxTime         \* the bound on the clock

ASSUME LimiterAssumption ==
  /\ Limit \in Nat \ {0}
  /\ Window \in Nat \ {0}
  /\ PruneInterval \in Nat \ {0}
  /\ MaxTime \in Nat

VARIABLES
  now,    \* time.monotonic()
  hits,   \* _hits: the deque of each client
  ops,    \* _ops_since_prune
  reply,  \* what each client was last told
  log     \* auxiliary: every admission ever

vars == <<now, hits, ops, reply, log>>

Init ==
  /\ now = 0
  /\ hits = [c \in Clients |-> <<>>]
  /\ ops = 0
  /\ reply = [c \in Clients |-> "none"]
  /\ log = [c \in Clients |-> <<>>]

Cutoff == now - Window

\* A slip: A client counts as idle when its first hit is old.
Idle_ByFirst(h) == h = <<>> \/ h[1] <= Cutoff

\* A slip: Only a client without any hit is idle, and nothing trims the others.
Idle_Empty(h) == h = <<>>

\* _prune drops the clients whose last hit is outside the window.
Idle(h) == h = <<>> \/ h[Len(h)] <= Cutoff

\* A slip: One call too late.
PruneIsDue_Late == ops >= PruneInterval

PruneIsDue == ops + 1 >= PruneInterval
Swept == [c \in Clients |-> IF PruneIsDue /\ Idle(hits[c]) THEN <<>> ELSE hits[c]]

\* The popleft loop stops after the k first hits: those are outside the window
\* and the next one, if any, is not.
Expired(h, k) ==
  /\ \A i \in 1..k : h[i] <= Cutoff
  /\ k < Len(h) => h[k + 1] > Cutoff

AtLimit(h) == Len(h) >= Limit

Allow(c) ==
  \E k \in 0..Len(Swept[c]) :
    LET live == SubSeq(Swept[c], k + 1, Len(Swept[c])) IN
    /\ Expired(Swept[c], k)
    /\ ops' = IF PruneIsDue THEN 0 ELSE ops + 1
    /\ \/ /\ AtLimit(live)
          /\ hits' = [Swept EXCEPT ![c] = live]
          /\ reply' = [reply EXCEPT ![c] = "denied"]
          /\ UNCHANGED log
       \/ /\ ~AtLimit(live)
          /\ hits' = [Swept EXCEPT ![c] = Append(live, now)]
          /\ reply' = [reply EXCEPT ![c] = "admitted"]
          /\ log' = [log EXCEPT ![c] = Append(@, now)]
    /\ UNCHANGED now

Tick ==
  /\ now < MaxTime
  /\ now' = now + 1
  /\ UNCHANGED <<hits, ops, reply, log>>

Next == Tick \/ \E c \in Clients : Allow(c)

Spec == Init /\ [][Next]_vars

-----------------------------------------------------------------------------
\* Every variable holds a value of its kind; the sweep counter never reaches
\* the interval.
TypeOK ==
  /\ now \in 0..MaxTime
  /\ hits \in [Clients -> Seq(Nat)]
  /\ ops \in 0..(PruneInterval - 1)
  /\ reply \in [Clients -> {"none", "admitted", "denied"}]
  /\ log \in [Clients -> Seq(Nat)]

\* No interval of the window's length holds more than Limit admissions of a
\* client, wherever it starts: the Limit + 1 st comes at least Window later.
WindowBound ==
  \A c \in Clients : \A i \in 1..(Len(log[c]) - Limit) :
    log[c][i] + Window <= log[c][i + Limit]

\* The admissions of all clients from time t on.
Since(t) == UNION {{c} \X {i \in DOMAIN log[c] : log[c][i] >= t} : c \in Clients}

\* "A churn of distinct client keys can't grow _hits without bound": a client whose
\* last hit has left the window is forgotten before PruneInterval admissions of
\* whatever clients have followed, however the sweeps fall.
IdleIsForgotten ==
  \A c \in Clients : hits[c] # <<>> =>
    Cardinality(Since(hits[c][Len(hits[c])] + Window)) < PruneInterval

\* Trimming and pruning forget nothing that still counts: the limiter decides
\* every request as if it kept the whole history.
Abstract == INSTANCE SlidingWindow
ImplementsSlidingWindow == Abstract!Spec
=============================================================================
