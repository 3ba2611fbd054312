--------------------------- MODULE SlidingWindow ----------------------------
(***************************************************************************)
(* What the per-client rate limiter promises, in terms of the full history *)
(* of admissions: a request is let through exactly when its client had     *)
(* fewer than Limit of them during the last Window.  RateLimiter.tla, the  *)
(* model of app/rate_limit.py, is shown to implement it.                   *)
(***************************************************************************)
EXTENDS Integers, Sequences

CONSTANTS Clients, Limit, Window

VARIABLES
  now,    \* the clock
  log,    \* when each client was admitted
  reply   \* what each client was last told

vars == <<now, log, reply>>

Init ==
  /\ now = 0
  /\ log = [c \in Clients |-> <<>>]
  /\ reply = [c \in Clients |-> "none"]

\* Of the client's admissions the last Limit all fall in the window.
Full(c) ==
  /\ Len(log[c]) >= Limit
  /\ log[c][Len(log[c]) - Limit + 1] > now - Window

Admit(c) ==
  /\ ~Full(c)
  /\ log' = [log EXCEPT ![c] = Append(@, now)]
  /\ reply' = [reply EXCEPT ![c] = "admitted"]
  /\ UNCHANGED now

Deny(c) ==
  /\ Full(c)
  /\ reply' = [reply EXCEPT ![c] = "denied"]
  /\ UNCHANGED <<now, log>>

Pass == now' > now /\ UNCHANGED <<log, reply>>

Next == Pass \/ \E c \in Clients : Admit(c) \/ Deny(c)

Spec == Init /\ [][Next]_vars
=============================================================================
