-------------------------- MODULE RateLimiterProofs -------------------------
(***************************************************************************)
(* For any number of clients, any limit, window and sweep interval: the    *)
(* limiter keeps its types and the bounds on what it admits and on whom it *)
(* remembers, and decides every request as SlidingWindow does from the     *)
(* whole history of admissions.                                            *)
(***************************************************************************)
EXTENDS RateLimiter, FiniteSetTheorems, TLAPS

\* A deque h beside the history l of its client: h is what is left of l after
\* dropping, from the front, only admissions that have left the window.
Keeps(h, l) ==
  /\ Len(h) <= Len(l) /\ Len(h) <= Limit
  /\ \A i \in 1..Len(h) : h[i] = l[Len(l) - Len(h) + i]
  /\ \A i \in 1..(Len(l) - Len(h)) : l[i] <= now - Window

\* A history is in order and in the past.
InOrder(l) ==
  /\ \A i \in 1..Len(l) : l[i] <= now
  /\ \A i, j \in 1..Len(l) : i <= j => l[i] <= l[j]

Spaced(l) == \A i \in 1..(Len(l) - Limit) : l[i] + Window <= l[i + Limit]

\* The inductive invariant: WindowBound alone is not, because whether the next
\* admission is allowed depends on what the deque still remembers.
IInv ==
  /\ TypeOK
  /\ \A c \in Clients : Keeps(hits[c], log[c]) /\ InOrder(log[c]) /\ Spaced(log[c])

\* Popping k hits that have left the window keeps the deque a window's memory.
LEMMA TrimKeeps ==
  ASSUME LimiterAssumption, now \in Nat,
         NEW h \in Seq(Nat), NEW l \in Seq(Nat), Keeps(h, l),
         NEW k \in 0..Len(h), \A i \in 1..k : h[i] <= now - Window
  PROVE  /\ SubSeq(h, k + 1, Len(h)) \in Seq(Nat)
         /\ Len(SubSeq(h, k + 1, Len(h))) = Len(h) - k
         /\ \A i \in 1..(Len(h) - k) : SubSeq(h, k + 1, Len(h))[i] = h[k + i]
         /\ Keeps(SubSeq(h, k + 1, Len(h)), l)
<1> DEFINE s == SubSeq(h, k + 1, Len(h))
<1>1. s \in Seq(Nat) /\ Len(s) = Len(h) - k
  OBVIOUS
<1>2. ASSUME NEW i \in 1..(Len(h) - k) PROVE s[i] = h[k + i]
  OBVIOUS
<1> HIDE DEF s
<1>3. ASSUME NEW i \in 1..Len(s) PROVE s[i] = l[Len(l) - Len(s) + i]
  <2>1. s[i] = h[k + i] /\ k + i \in 1..Len(h)
    BY <1>1, <1>2
  <2>2. h[k + i] = l[Len(l) - Len(h) + (k + i)]
    BY <2>1 DEF Keeps
  <2>3. Len(l) - Len(h) + (k + i) = Len(l) - Len(s) + i
    BY <1>1
  <2> QED BY <2>1, <2>2, <2>3
<1>4. ASSUME NEW i \in 1..(Len(l) - Len(s)) PROVE l[i] <= now - Window
  <2>1. CASE i <= Len(l) - Len(h)
    BY <2>1 DEF Keeps
  <2>2. CASE i > Len(l) - Len(h)
    <3> DEFINE j == i - (Len(l) - Len(h))
    <3>1. j \in 1..k /\ j \in 1..Len(h) /\ Len(l) - Len(h) + j = i
      BY <1>1, <2>2
    <3>2. h[j] = l[Len(l) - Len(h) + j]
      BY <3>1 DEF Keeps
    <3> QED BY <3>1, <3>2
  <2> QED BY <2>1, <2>2
<1>5. Keeps(s, l)
  BY <1>1, <1>3, <1>4 DEF Keeps
<1> QED BY <1>1, <1>2, <1>5 DEF s

\* Recording an admission below the limit keeps the memory, the order and the
\* spacing.
LEMMA AppendKeeps ==
  ASSUME LimiterAssumption, now \in Nat,
         NEW h \in Seq(Nat), NEW l \in Seq(Nat),
         Keeps(h, l), InOrder(l), Spaced(l), Len(h) < Limit
  PROVE  /\ Keeps(Append(h, now), Append(l, now))
         /\ InOrder(Append(l, now))
         /\ Spaced(Append(l, now))
<1> DEFINE g == Append(h, now)
           m == Append(l, now)
<1>1. /\ Len(g) = Len(h) + 1 /\ Len(m) = Len(l) + 1
      /\ \A i \in 1..Len(h) : g[i] = h[i]
      /\ \A i \in 1..Len(l) : m[i] = l[i]
      /\ g[Len(h) + 1] = now /\ m[Len(l) + 1] = now
  OBVIOUS
<1>2. Limit \in Nat /\ Limit > 0 /\ Window \in Nat
  BY LimiterAssumption DEF LimiterAssumption
<1>3. Len(h) \in Nat /\ Len(l) \in Nat /\ \A i \in 1..Len(l) : l[i] \in Nat
  OBVIOUS
<1> HIDE DEF g, m
<1>4. Keeps(g, m)
  <2>1. ASSUME NEW i \in 1..Len(g) PROVE g[i] = m[Len(m) - Len(g) + i]
    <3> DEFINE j == Len(l) - Len(h) + i
    <3>1. j \in 1..Len(m) /\ Len(m) - Len(g) + i = j
      BY <1>1, <1>3 DEF Keeps
    <3>2. CASE i <= Len(h)
      <4>1. i \in 1..Len(h) /\ j \in 1..Len(l)
        BY <1>3, <3>2 DEF Keeps
      <4> QED BY <1>1, <3>1, <4>1 DEF Keeps
    <3>3. CASE i > Len(h)
      <4>1. i \in Int /\ i <= Len(h) + 1
        BY <1>1, <1>3
      <4>2. i = Len(h) + 1
        BY <1>3, <3>3, <4>1
      <4>3. j = Len(l) + 1
        BY <1>3, <4>2
      <4> HIDE DEF j
      <4> QED BY <1>1, <3>1, <4>2, <4>3
    <3> QED BY <1>3, <3>2, <3>3
  <2>2. ASSUME NEW i \in 1..(Len(m) - Len(g)) PROVE m[i] <= now - Window
    <3>1. i \in 1..(Len(l) - Len(h)) /\ i \in 1..Len(l)
      BY <1>1, <1>3
    <3> QED BY <1>1, <3>1 DEF Keeps
  <2>3. Len(g) <= Len(m) /\ Len(g) <= Limit
    BY <1>1, <1>2, <1>3 DEF Keeps
  <2> QED BY <2>1, <2>2, <2>3 DEF Keeps
<1>5. InOrder(m)
  <2>1. ASSUME NEW i \in 1..Len(m) PROVE m[i] <= now /\ (i \in 1..Len(l) \/ i = Len(l) + 1)
    BY <1>1, <1>3 DEF InOrder
  <2>2. ASSUME NEW i \in 1..Len(m), NEW j \in 1..Len(m), i <= j PROVE m[i] <= m[j]
    <3>1. CASE j \in 1..Len(l)
      <4>1. i \in 1..Len(l)
        BY <1>3, <2>2, <3>1
      <4> QED BY <1>1, <2>2, <3>1, <4>1 DEF InOrder
    <3>2. CASE j = Len(l) + 1
      BY <1>1, <2>1, <3>2
    <3> QED BY <2>1, <3>1, <3>2
  <2> QED BY <2>1, <2>2 DEF InOrder
<1>6. ASSUME NEW i \in 1..(Len(m) - Limit) PROVE m[i] + Window <= m[i + Limit]
  <2>1. CASE i <= Len(l) - Limit
    <3>1. i \in 1..(Len(l) - Limit) /\ i \in 1..Len(l) /\ i + Limit \in 1..Len(l)
      BY <1>2, <1>3, <2>1
    <3> QED BY <1>1, <3>1 DEF Spaced
  <2>2. CASE i > Len(l) - Limit
    <3>1. i \in Int /\ 1 <= i /\ i = Len(l) + 1 - Limit
      <4> DEFINE d == Len(l) - Limit
      <4>1. d \in Int /\ i > d /\ Len(l) + 1 - Limit = d + 1
        BY <1>2, <1>3, <2>2
      <4>2. i \in Int /\ 1 <= i /\ i <= d + 1
        BY <1>1, <1>2, <1>3
      <4> HIDE DEF d
      <4>3. i = d + 1
        BY <4>1, <4>2
      <4> QED BY <4>1, <4>2, <4>3
    <3>2. i \in 1..Len(l) /\ i \in 1..(Len(l) - Len(h))
      BY <1>2, <1>3, <3>1
    <3>3. l[i] <= now - Window /\ l[i] \in Nat
      BY <1>3, <3>2 DEF Keeps
    <3>4. i + Limit = Len(l) + 1
      BY <1>2, <1>3, <3>1
    <3>5. m[i] = l[i] /\ m[i + Limit] = now
      BY <1>1, <3>2, <3>4
    <3> QED BY <1>2, <3>3, <3>5
  <2> QED BY <1>2, <1>3, <2>1, <2>2
<1> QED BY <1>4, <1>5, <1>6 DEF Spaced, g, m

\* The sweep is a trim: a client whose last hit is outside the window has no
\* hit inside it.
LEMMA SweepKeeps ==
  ASSUME LimiterAssumption, IInv, NEW c \in Clients
  PROVE  Swept[c] \in Seq(Nat) /\ Keeps(Swept[c], log[c])
<1> DEFINE h == hits[c]
           l == log[c]
<1>1. h \in Seq(Nat) /\ l \in Seq(Nat) /\ now \in Nat /\ Keeps(h, l) /\ InOrder(l)
  BY DEF IInv, TypeOK, LimiterAssumption
<1>2. Swept[c] = IF PruneIsDue /\ Idle(h) THEN <<>> ELSE h
  BY DEF Swept
<1> HIDE DEF h, l
<1>3. ASSUME Idle(h) PROVE Keeps(<<>>, l)
  <2>1. ASSUME NEW i \in 1..Len(h) PROVE h[i] <= now - Window
    <3>1. Len(h) \in 1..Len(h) /\ i <= Len(h)
      BY <1>1
    <3>2. h # <<>>
      BY <1>1, <3>1
    <3>3. h[Len(h)] <= now - Window
      BY <1>3, <3>2 DEF Idle, Cutoff
    <3> DEFINE n == Len(l) - Len(h)
    <3>4. n \in Nat /\ n + i \in 1..Len(l) /\ n + Len(h) \in 1..Len(l) /\ n + i <= n + Len(h)
      BY <1>1, <3>1 DEF Keeps
    <3>5. h[i] = l[n + i] /\ h[Len(h)] = l[n + Len(h)]
      BY <3>1, <1>1 DEF Keeps
    <3> HIDE DEF n
    <3>6. l[n + i] <= l[n + Len(h)]
      BY <1>1, <3>4 DEF InOrder
    <3>7. h[i] \in Nat /\ h[Len(h)] \in Nat /\ Window \in Nat
      BY <1>1, <3>1, LimiterAssumption DEF LimiterAssumption
    <3> QED BY <1>1, <3>3, <3>5, <3>6, <3>7
  <2>2. Len(h) \in 0..Len(h) /\ SubSeq(h, Len(h) + 1, Len(h)) = <<>>
    BY <1>1
  <2> QED BY <1>1, <2>1, <2>2, TrimKeeps
<1>4. <<>> \in Seq(Nat)
  OBVIOUS
<1> QED BY <1>1, <1>2, <1>3, <1>4 DEF l

\* What Allow(c) leaves of the client's deque once the sweep and the popleft
\* loop are through.
LEMMA LiveKeeps ==
  ASSUME LimiterAssumption, IInv, NEW c \in Clients,
         NEW k \in 0..Len(Swept[c]), Expired(Swept[c], k),
         NEW live, live = SubSeq(Swept[c], k + 1, Len(Swept[c]))
  PROVE  /\ live \in Seq(Nat)
         /\ Keeps(live, log[c])
         /\ live # <<>> => live[1] > now - Window
<1> DEFINE h == Swept[c]
           l == log[c]
<1>1. h \in Seq(Nat) /\ Keeps(h, l) /\ l \in Seq(Nat) /\ now \in Nat
  BY SweepKeeps DEF IInv, TypeOK
<1>2. /\ k \in 0..Len(h) /\ live = SubSeq(h, k + 1, Len(h))
      /\ \A i \in 1..k : h[i] <= now - Window
      /\ k < Len(h) => h[k + 1] > now - Window
  BY DEF Expired, Cutoff
<1> HIDE DEF h, l
<1>3. /\ live \in Seq(Nat) /\ Len(live) = Len(h) - k
      /\ \A i \in 1..(Len(h) - k) : live[i] = h[k + i]
      /\ Keeps(live, l)
  <2>1. /\ SubSeq(h, k + 1, Len(h)) \in Seq(Nat)
        /\ Len(SubSeq(h, k + 1, Len(h))) = Len(h) - k
        /\ \A i \in 1..(Len(h) - k) : SubSeq(h, k + 1, Len(h))[i] = h[k + i]
        /\ Keeps(SubSeq(h, k + 1, Len(h)), l)
    BY <1>1, <1>2, TrimKeeps
  <2> QED BY <1>2, <2>1
<1>4. ASSUME live # <<>> PROVE live[1] > now - Window
  <2>1. Len(live) > 0
    BY <1>3, <1>4
  <2>2. k < Len(h) /\ live[1] = h[k + 1]
    BY <1>1, <1>2, <1>3, <2>1
  <2> QED BY <1>2, <2>2
<1> QED BY <1>3, <1>4 DEF l

LEMMA InitEstablishes == LimiterAssumption /\ Init => IInv
BY DEF LimiterAssumption, Init, IInv, TypeOK, Keeps, InOrder, Spaced

LEMMA StepPreserves == LimiterAssumption /\ IInv /\ [Next]_vars => IInv'
<1> SUFFICES ASSUME LimiterAssumption, IInv, [Next]_vars PROVE IInv'
  OBVIOUS
<1> USE DEF LimiterAssumption
<1>1. CASE Tick
  <2>1. TypeOK'
    BY <1>1 DEF Tick, IInv, TypeOK
  <2>2. ASSUME NEW c \in Clients
        PROVE (Keeps(hits[c], log[c]) /\ InOrder(log[c]) /\ Spaced(log[c]))'
    <3>1. /\ now \in Nat /\ now' = now + 1 /\ hits' = hits /\ log' = log
          /\ log[c] \in Seq(Nat) /\ hits[c] \in Seq(Nat)
          /\ Keeps(hits[c], log[c]) /\ InOrder(log[c]) /\ Spaced(log[c])
      BY <1>1 DEF Tick, IInv, TypeOK
    <3>2. Window \in Nat /\ Len(hits[c]) \in Nat /\ Len(log[c]) \in Nat
      BY <3>1
    <3>3. ASSUME NEW i \in 1..(Len(log[c]) - Len(hits[c])) PROVE log[c][i] <= now' - Window
      <4>1. i \in 1..Len(log[c])
        BY <3>2
      <4>2. log[c][i] <= now - Window
        BY <3>1 DEF Keeps
      <4>3. log[c][i] \in Nat
        BY <3>1, <4>1
      <4> QED BY <3>1, <3>2, <4>2, <4>3
    <3>4. ASSUME NEW i \in 1..Len(log[c]) PROVE log[c][i] <= now'
      <4>1. log[c][i] \in Nat /\ log[c][i] <= now
        BY <3>1 DEF InOrder
      <4> QED BY <3>1, <4>1
    <3>5. Spaced(log[c])'
      BY <3>1 DEF Spaced
    <3>6. Keeps(hits[c], log[c])'
      BY <3>1, <3>3 DEF Keeps
    <3>7. InOrder(log[c])'
      BY <3>1, <3>4 DEF InOrder
    <3> QED BY <3>5, <3>6, <3>7
  <2> QED BY <2>1, <2>2 DEF IInv
<1>2. ASSUME NEW c \in Clients, Allow(c) PROVE IInv'
  <2>1. PICK k \in 0..Len(Swept[c]) : 
          LET live == SubSeq(Swept[c], k + 1, Len(Swept[c])) IN
          /\ Expired(Swept[c], k)
          /\ ops' = IF PruneIsDue THEN 0 ELSE ops + 1
          /\ \/ /\ AtLimit(live)
                /\ hits' = [Swept EXCEPT ![c] = live]
                /\ reply' = [reply EXCEPT ![c] = "denied"]
                /\ UNCHANGED log
             \/ /\ ~AtLimit(live)
                /\ hits' = [Swept EXCEPT ![c] = Append(live, now)]
                /\ reply' = [reply EXCEPT ![c] = "admitted"]
                /\ log' = [log EXCEPT ![c] = Append(@, now)]
          /\ UNCHANGED now
    BY <1>2 DEF Allow
  <2> DEFINE live == SubSeq(Swept[c], k + 1, Len(Swept[c]))
  <2>2. live \in Seq(Nat) /\ Keeps(live, log[c])
    BY <2>1, LiveKeeps
  <2>3. \A d \in Clients : Swept[d] \in Seq(Nat) /\ Keeps(Swept[d], log[d])
    BY SweepKeeps
  <2>4. /\ now \in Nat /\ now' = now
        /\ \A d \in Clients : log[d] \in Seq(Nat) /\ InOrder(log[d]) /\ Spaced(log[d])
    BY <2>1 DEF IInv, TypeOK
  <2>5. DOMAIN Swept = Clients /\ DOMAIN log = Clients
    BY DEF Swept, IInv, TypeOK
  <2>6. ops' \in 0..(PruneInterval - 1)
    BY <2>1 DEF PruneIsDue, IInv, TypeOK
  <2> HIDE DEF live
  <2>7. CASE /\ AtLimit(live)
             /\ hits' = [Swept EXCEPT ![c] = live]
             /\ reply' = [reply EXCEPT ![c] = "denied"]
             /\ UNCHANGED log
    <3>1. hits' = [d \in Clients |-> IF d = c THEN live ELSE Swept[d]]
      BY <2>5, <2>7
    <3>2. TypeOK'
      BY <2>2, <2>3, <2>4, <2>6, <2>7, <3>1 DEF IInv, TypeOK
    <3>3. ASSUME NEW d \in Clients
          PROVE (Keeps(hits[d], log[d]) /\ InOrder(log[d]) /\ Spaced(log[d]))'
      BY <2>2, <2>3, <2>4, <2>7, <3>1 DEF Keeps, InOrder, Spaced
    <3> QED BY <3>2, <3>3 DEF IInv
  <2>8. CASE /\ ~AtLimit(live)
             /\ hits' = [Swept EXCEPT ![c] = Append(live, now)]
             /\ reply' = [reply EXCEPT ![c] = "admitted"]
             /\ log' = [log EXCEPT ![c] = Append(@, now)]
    <3>1. /\ hits' = [d \in Clients |-> IF d = c THEN Append(live, now) ELSE Swept[d]]
          /\ log' = [d \in Clients |-> IF d = c THEN Append(log[c], now) ELSE log[d]]
      BY <2>5, <2>8
    <3>2. Append(live, now) \in Seq(Nat) /\ Append(log[c], now) \in Seq(Nat)
      BY <2>2, <2>4
    <3>3. TypeOK'
      BY <2>3, <2>4, <2>6, <2>8, <3>1, <3>2 DEF IInv, TypeOK
    <3>4. /\ Keeps(Append(live, now), Append(log[c], now))
          /\ InOrder(Append(log[c], now)) /\ Spaced(Append(log[c], now))
      <4>1. Len(live) < Limit
        BY <2>2, <2>8 DEF AtLimit
      <4> QED BY <2>2, <2>4, <4>1, AppendKeeps
    <3>5. ASSUME NEW d \in Clients
          PROVE (Keeps(hits[d], log[d]) /\ InOrder(log[d]) /\ Spaced(log[d]))'
      BY <2>3, <2>4, <3>1, <3>4 DEF Keeps, InOrder, Spaced
    <3> QED BY <3>3, <3>5 DEF IInv
  <2> QED BY <2>1, <2>7, <2>8 DEF live
<1>3. CASE UNCHANGED vars
  BY <1>3 DEF vars, IInv, TypeOK, Keeps, InOrder, Spaced
<1> QED BY <1>1, <1>2, <1>3 DEF Next

-----------------------------------------------------------------------------
\* The deques stay the memory of the window.
THEOREM Invariance == Spec => []IInv
<1>1. Init => IInv
  BY LimiterAssumption, InitEstablishes
<1>2. IInv /\ [Next]_vars => IInv'
  BY LimiterAssumption, StepPreserves
<1> QED BY <1>1, <1>2, PTL DEF Spec

\* Every variable keeps its type.
THEOREM TypeCorrect == Spec => []TypeOK
<1>1. IInv => TypeOK
  BY DEF IInv
<1> QED BY <1>1, Invariance, PTL

\* rate_limit.py, allow(): no client is admitted more than Limit times in any
\* interval of the window's length, whenever the sweep runs.
THEOREM NoBurst == Spec => []WindowBound
<1>1. IInv => WindowBound
  BY DEF IInv, WindowBound, Spaced
<1> QED BY <1>1, Invariance, PTL

-----------------------------------------------------------------------------
(* What the sweep forgets in time.                                         *)

Last(h) == h[Len(h)]

\* The admissions since a remembered client's window ended are counted by the
\* calls since the last sweep.
Counted(c) ==
  hits[c] # <<>> =>
    /\ IsFiniteSet(Since(Last(hits[c]) + Window))
    /\ Cardinality(Since(Last(hits[c]) + Window)) <= ops

LEMMA SinceMember ==
  \A t, a : a \in Since(t) <=>
    \E c \in Clients : \E i \in DOMAIN log[c] : a = <<c, i>> /\ log[c][i] >= t
BY DEF Since

\* Nobody was admitted after now.
LEMMA NothingSince ==
  ASSUME IInv, NEW t \in Int, t > now
  PROVE  Since(t) = {}
<1> SUFFICES ASSUME NEW c \in Clients, NEW i \in DOMAIN log[c], log[c][i] >= t
             PROVE  FALSE
  BY SinceMember
<1>1. log[c] \in Seq(Nat) /\ now \in Nat /\ InOrder(log[c])
  BY DEF IInv, TypeOK
<1>2. i \in 1..Len(log[c]) /\ log[c][i] \in Nat
  BY <1>1
<1>3. log[c][i] <= now
  BY <1>1, <1>2 DEF InOrder
<1> QED BY <1>1, <1>2, <1>3

\* One admission adds one element.
LEMMA SinceGrows ==
  ASSUME IInv, NEW c \in Clients, log' = [log EXCEPT ![c] = Append(@, now)], NEW t
  PROVE  /\ Since(t)' \subseteq Since(t) \cup {<<c, Len(log[c]) + 1>>}
         /\ t \in Int /\ t > now => Since(t)' \subseteq Since(t)
<1>1. log \in [Clients -> Seq(Nat)] /\ now \in Nat
  BY DEF IInv, TypeOK
<1> SUFFICES ASSUME NEW a \in Since(t)'
             PROVE  a \in Since(t) \/ (a = <<c, Len(log[c]) + 1>> /\ now >= t)
  BY <1>1
<1>2. PICK d \in Clients : \E j \in DOMAIN log'[d] : a = <<d, j>> /\ log'[d][j] >= t
  BY DEF Since
<1>3. PICK i \in DOMAIN log'[d] : a = <<d, i>> /\ log'[d][i] >= t
  BY <1>2
<1>4. CASE d # c
  BY <1>1, <1>3, <1>4, SinceMember
<1>5. CASE d = c
  <2>1. log'[c] = Append(log[c], now) /\ log[c] \in Seq(Nat)
    BY <1>1
  <2>2. i \in 1..(Len(log[c]) + 1)
    BY <1>1, <1>3, <1>5, <2>1
  <2>3. CASE i = Len(log[c]) + 1
    BY <1>1, <1>3, <1>5, <2>1, <2>3
  <2>4. CASE i \in 1..Len(log[c])
    <3>1. log'[c][i] = log[c][i] /\ i \in DOMAIN log[c]
      BY <1>1, <2>1, <2>4
    <3> QED BY <1>3, <1>5, <3>1, SinceMember
  <2> QED BY <1>1, <2>1, <2>2, <2>3, <2>4
<1> QED BY <1>4, <1>5

\* The last hit of a deque, trimmed from the front or with a further hit.
LEMMA LastStays ==
  ASSUME NEW h \in Seq(Nat), NEW k \in 0..Len(h), SubSeq(h, k + 1, Len(h)) # <<>>
  PROVE  h # <<>> /\ Last(SubSeq(h, k + 1, Len(h))) = Last(h)
<1> DEFINE s == SubSeq(h, k + 1, Len(h))
<1>1. s \in Seq(Nat) /\ Len(s) = Len(h) - k
  OBVIOUS
<1>2. \A i \in 1..(Len(h) - k) : s[i] = h[k + i]
  OBVIOUS
<1> HIDE DEF s
<1>3. Len(s) \in Nat /\ Len(s) # 0
  BY <1>1 DEF s
<1>4. Len(s) \in 1..(Len(h) - k) /\ k + Len(s) = Len(h)
  BY <1>1, <1>3
<1>5. s[Len(s)] = h[k + Len(s)]
  BY <1>2, <1>4
<1>6. h # <<>>
  BY <1>1, <1>3
<1> QED BY <1>4, <1>5, <1>6 DEF Last, s

LEMMA LastAppended ==
  ASSUME NEW h \in Seq(Nat), NEW n \in Nat
  PROVE  Last(Append(h, n)) = n
<1> DEFINE g == Append(h, n)
<1>1. Len(g) = Len(h) + 1 /\ g[Len(h) + 1] = n
  OBVIOUS
<1> HIDE DEF g
<1>2. g[Len(g)] = n
  BY <1>1
<1> QED BY <1>2 DEF Last, g

LEMMA StepCounted ==
  ASSUME LimiterAssumption, IInv, [Next]_vars, NEW c \in Clients, Counted(c)
  PROVE  Counted(c)'
<1>1. CASE UNCHANGED <<hits, ops, log>>
  BY <1>1 DEF Counted, Since
<1>2. ASSUME NEW d \in Clients, Allow(d), hits'[c] # <<>>, NEW t, t = Last(hits'[c]) + Window
      PROVE  IsFiniteSet(Since(t)') /\ Cardinality(Since(t)') <= ops'
  <2>1. PICK k \in 0..Len(Swept[d]) :
          LET live == SubSeq(Swept[d], k + 1, Len(Swept[d])) IN
          /\ Expired(Swept[d], k)
          /\ ops' = IF PruneIsDue THEN 0 ELSE ops + 1
          /\ \/ /\ AtLimit(live)
                /\ hits' = [Swept EXCEPT ![d] = live]
                /\ UNCHANGED log
             \/ /\ ~AtLimit(live)
                /\ hits' = [Swept EXCEPT ![d] = Append(live, now)]
                /\ log' = [log EXCEPT ![d] = Append(@, now)]
    BY <1>2 DEF Allow
  <2> DEFINE live == SubSeq(Swept[d], k + 1, Len(Swept[d]))
             admits == log' = [log EXCEPT ![d] = Append(@, now)]
  <2>2. /\ now \in Nat /\ Window \in Nat \ {0} /\ ops \in Nat
        /\ hits[c] \in Seq(Nat) /\ live \in Seq(Nat) /\ DOMAIN Swept = Clients
    <3>1. live \in Seq(Nat)
      BY <2>1, LiveKeeps
    <3> QED BY <3>1 DEF LimiterAssumption, IInv, TypeOK, Swept
  <2>3. \/ Last(hits'[c]) = now
        \/ /\ hits[c] # <<>> /\ Last(hits'[c]) = Last(hits[c])
           /\ PruneIsDue => ~Idle(hits[c])
    <3>1. Swept[c] = IF PruneIsDue /\ Idle(hits[c]) THEN <<>> ELSE hits[c]
      BY DEF Swept
    <3>2. CASE hits'[c] = Swept[c]
      BY <1>2, <3>1, <3>2
    <3>3. CASE c = d /\ hits'[c] = live
      <4>1. Swept[c] \in Seq(Nat)
        BY <2>2, <3>1
      <4>2. Last(live) = Last(Swept[c]) /\ Swept[c] # <<>>
        BY <1>2, <2>1, <3>3, <4>1, LastStays
      <4> QED BY <3>1, <3>3, <4>2
    <3>4. CASE hits'[c] = Append(live, now)
      BY <2>2, <3>4, LastAppended
    <3> HIDE DEF live
    <3> QED BY <2>1, <2>2, <3>2, <3>3, <3>4 DEF live
  <2>4. admits \/ UNCHANGED log
    BY <2>1
  <2>5. CASE Last(hits'[c]) = now \/ PruneIsDue
    <3>1. t \in Int /\ t > now
      <4>1. CASE Last(hits'[c]) = now
        BY <1>2, <2>2, <4>1
      <4>2. CASE Last(hits'[c]) # now
        <5>1. hits[c] # <<>> /\ t = Last(hits[c]) + Window /\ ~Idle(hits[c])
          BY <1>2, <2>3, <2>5, <4>2
        <5>2. Last(hits[c]) \in Nat
          BY <2>2, <5>1 DEF Last
        <5> QED BY <2>2, <5>1, <5>2 DEF Idle, Last, Cutoff
      <4> QED BY <4>1, <4>2
    <3>2. Since(t) = {}
      BY <3>1, NothingSince
    <3>3. Since(t)' = {}
      BY <2>4, <3>1, <3>2, SinceGrows DEF Since
    <3>4. ops' \in Nat
      BY <2>1, <2>2
    <3> QED BY <3>3, <3>4, FS_EmptySet
  <2>6. CASE Last(hits'[c]) # now /\ ~PruneIsDue
    <3>1. hits[c] # <<>> /\ t = Last(hits[c]) + Window /\ ops' = ops + 1
      BY <1>2, <2>1, <2>3, <2>6
    <3>2. IsFiniteSet(Since(t)) /\ Cardinality(Since(t)) <= ops
      BY <3>1 DEF Counted
    <3> DEFINE more == Since(t) \cup {<<d, Len(log[d]) + 1>>}
    <3>3. IsFiniteSet(more) /\ Cardinality(more) <= ops + 1
      <4>1. /\ IsFiniteSet(more)
            /\ Cardinality(more) \in {Cardinality(Since(t)), Cardinality(Since(t)) + 1}
        BY <3>2, FS_AddElement
      <4>2. Cardinality(Since(t)) \in Nat
        BY <3>2, FS_CardinalityType
      <4> HIDE DEF more
      <4> QED BY <2>2, <3>2, <4>1, <4>2
    <3>4. Since(t)' \subseteq more
      <4>1. CASE admits
        BY <4>1, SinceGrows
      <4>2. CASE UNCHANGED log
        BY <4>2 DEF Since
      <4> QED BY <2>4, <4>1, <4>2
    <3> HIDE DEF more
    <3>5. IsFiniteSet(Since(t)') /\ Cardinality(Since(t)') <= Cardinality(more)
      BY <3>3, <3>4, FS_Subset
    <3>6. Cardinality(Since(t)') \in Nat /\ Cardinality(more) \in Nat
      BY <3>3, <3>5, FS_CardinalityType
    <3> QED BY <2>2, <3>1, <3>3, <3>5, <3>6
  <2> QED BY <2>5, <2>6
<1>3. ASSUME NEW d \in Clients, Allow(d)
      PROVE  Counted(c)'
  BY <1>2, <1>3 DEF Counted, Since, Last
<1> QED BY <1>1, <1>3 DEF Next, Tick, vars

\* _prune: a client that has left the window is forgotten before PruneInterval
\* admissions, by whatever clients, have followed.
THEOREM Forgotten == Spec => []IdleIsForgotten
<1> DEFINE AllCounted == \A c \in Clients : Counted(c)
<1>1. Init => AllCounted
  BY DEF Init, Counted
<1>2. IInv /\ AllCounted /\ [Next]_vars => AllCounted'
  BY LimiterAssumption, StepCounted
<1>3. IInv /\ AllCounted => IdleIsForgotten
  <2> SUFFICES ASSUME IInv, NEW c \in Clients, Counted(c), hits[c] # <<>>
               PROVE  Cardinality(Since(Last(hits[c]) + Window)) < PruneInterval
    BY DEF IdleIsForgotten, Last
  <2>1. Cardinality(Since(Last(hits[c]) + Window)) \in Nat
    BY FS_CardinalityType DEF Counted
  <2>2. ops \in 0..(PruneInterval - 1) /\ PruneInterval \in Nat
    BY LimiterAssumption DEF IInv, TypeOK, LimiterAssumption
  <2> QED BY <2>1, <2>2 DEF Counted
<1> HIDE DEF AllCounted
<1> QED BY <1>1, <1>2, <1>3, Invariance, PTL DEF Spec

-----------------------------------------------------------------------------
LEMMA InitImplements == Init => Abstract!Init
BY DEF Init, Abstract!Init

\* With a deque that keeps the window's memory, trimmed so that its first hit
\* is inside the window, "the deque is full" means "the window is full".
LEMMA FullIsAtLimit ==
  ASSUME LimiterAssumption, TypeOK, NEW c \in Clients,
         NEW live \in Seq(Nat), Keeps(live, log[c]),
         live # <<>> => live[1] > now - Window
  PROVE  Abstract!Full(c) <=> AtLimit(live)
<1> DEFINE l == log[c]
           i == Len(l) - Limit + 1
<1>1. /\ Limit \in Nat /\ Limit > 0 /\ Window \in Nat /\ now \in Nat
      /\ l \in Seq(Nat) /\ Len(l) \in Nat /\ Len(live) \in Nat
      /\ Len(live) <= Len(l) /\ Len(live) <= Limit
      /\ \A j \in 1..Len(live) : live[j] = l[Len(l) - Len(live) + j]
      /\ \A j \in 1..(Len(l) - Len(live)) : l[j] <= now - Window
  BY DEF LimiterAssumption, TypeOK, Keeps
<1>2. Abstract!Full(c) <=> Len(l) >= Limit /\ l[i] > now - Window
  BY DEF Abstract!Full
<1> HIDE DEF l
<1>3. CASE AtLimit(live)
  <2>1. Len(live) >= Limit
    BY <1>3 DEF AtLimit
  <2>2. Len(live) = Limit
    BY <1>1, <2>1
  <2>3. Len(l) >= Limit /\ 1 \in 1..Len(live) /\ live # <<>>
    BY <1>1, <2>2
  <2>4. live[1] = l[Len(l) - Len(live) + 1]
    BY <1>1, <2>3
  <2> QED BY <1>2, <1>3, <2>2, <2>3, <2>4
<1>4. CASE ~AtLimit(live)
  <2>1. Len(live) < Limit
    BY <1>1, <1>4 DEF AtLimit
  <2>2. ASSUME Len(l) >= Limit PROVE ~(l[i] > now - Window)
    <3>1. i \in 1..(Len(l) - Len(live)) /\ i \in 1..Len(l)
      BY <1>1, <2>1, <2>2
    <3> HIDE DEF i
    <3>2. l[i] \in Nat /\ l[i] <= now - Window
      BY <1>1, <3>1
    <3> QED BY <1>1, <3>2
  <2> QED BY <1>2, <1>4, <2>2
<1> QED BY <1>3, <1>4

LEMMA StepImplements ==
  LimiterAssumption /\ IInv /\ [Next]_vars => [Abstract!Next]_Abstract!vars
<1> SUFFICES ASSUME LimiterAssumption, IInv, [Next]_vars
             PROVE [Abstract!Next]_Abstract!vars
  OBVIOUS
<1>1. CASE Tick
  <2>1. now' > now
    BY <1>1, LimiterAssumption DEF Tick, IInv, TypeOK, LimiterAssumption
  <2> QED BY <1>1, <2>1 DEF Tick, Abstract!Next, Abstract!Pass
<1>2. ASSUME NEW c \in Clients, Allow(c) PROVE [Abstract!Next]_Abstract!vars
  <2>1. PICK k \in 0..Len(Swept[c]) :
          LET live == SubSeq(Swept[c], k + 1, Len(Swept[c])) IN
          /\ Expired(Swept[c], k)
          /\ \/ /\ AtLimit(live)
                /\ reply' = [reply EXCEPT ![c] = "denied"]
                /\ UNCHANGED log
             \/ /\ ~AtLimit(live)
                /\ reply' = [reply EXCEPT ![c] = "admitted"]
                /\ log' = [log EXCEPT ![c] = Append(@, now)]
          /\ UNCHANGED now
    BY <1>2 DEF Allow
  <2> DEFINE live == SubSeq(Swept[c], k + 1, Len(Swept[c]))
  <2>2. Expired(Swept[c], k)
    BY <2>1
  <2>3. live \in Seq(Nat) /\ Keeps(live, log[c]) /\ (live # <<>> => live[1] > now - Window)
    BY <2>2, LiveKeeps
  <2>4. Abstract!Full(c) <=> AtLimit(live)
    <3> HIDE DEF live
    <3> QED BY <2>3, FullIsAtLimit DEF IInv
  <2>5. Abstract!Deny(c) \/ Abstract!Admit(c)
    BY <2>1, <2>4 DEF Abstract!Deny, Abstract!Admit
  <2> QED BY <2>5 DEF Abstract!Next
<1>3. CASE UNCHANGED vars
  BY <1>3 DEF vars, Abstract!vars
<1> QED BY <1>1, <1>2, <1>3 DEF Next

\* Trimming and sweeping forget nothing that counts: every decision is the
\* one SlidingWindow takes from the whole history.
THEOREM Implementation == Spec => ImplementsSlidingWindow
<1>1. Init => Abstract!Init
  BY InitImplements
<1>2. IInv /\ [Next]_vars => [Abstract!Next]_Abstract!vars
  BY LimiterAssumption, StepImplements
<1> QED BY <1>1, <1>2, Invariance, PTL DEF Spec, ImplementsSlidingWindow, Abstract!Spec
=============================================================================
