--------------------------- MODULE ESIClientProofs ---------------------------
(***************************************************************************)
(* What ESIClient keeps for any number of fetches, pages, permits and      *)
(* retries: its type correctness, that no permit is lost or made up, and   *)
(* that a success has every page.                                          *)
(***************************************************************************)
EXTENDS ESIClient, FiniteSetTheorems, TLAPS

Busy == {"pace", "upstream_sem", "http", "backoff"}
PcLabels == {"off", "page_sem", "ok", "failed"} \cup Busy

\* The requests on the wire, and the tasks that hold a page permit.
Wire == {t \in Tasks : pc[t] = "http"}
PageHolders == {t \in Tasks : IsPageTask(t) /\ pc[t] \in Busy}

Kinds ==
  /\ up \in Versions
  /\ pc \in [Tasks -> PcLabels]
  /\ attempt \in [Tasks -> 0..MaxRetries]
  /\ page \in [Tasks -> Versions \cup {None}]
  /\ upstream \in Nat /\ pageSem \in Nat /\ blocked \in Nat
  /\ call \in [Fetches -> {"new", "first", "fanout", "returned"}]
  /\ total \in [Fetches -> Pages \cup {0}]
  /\ result \in [Fetches -> Results \cup {None}]

\* The first request runs exactly in the first phase of its fetch, and until
\* it has answered there are no others; only a returned fetch has a result.
Phases(f) ==
  /\ pc[First(f)] \in Busy <=> call[f] = "first"
  /\ pc[First(f)] # "page_sem"
  /\ call[f] \in {"new", "first"} => \A t \in Tasks : t[1] = f /\ IsPageTask(t) => pc[t] = "off"
  /\ call[f] = "new" => pc[First(f)] = "off"
  /\ call[f] = "fanout" => total[f] \in Pages /\ pc[First(f)] = "ok"
  /\ result[f] = None <=> call[f] # "returned"

\* A page that was accepted is one of as many as the first page announced.
Fits(t) ==
  pc[t] = "ok" => page[t] \in Versions /\ PageCount[page[t]] = total[t[1]]

\* A success has as many pages as each of them was read from.
Complete(f) ==
  result[f] # None /\ result[f].status = "200" =>
    \E n \in Pages : /\ result[f].body \in [1..n -> Versions]
                     /\ \A p \in 1..n : PageCount[result[f].body[p]] = n

\* The inductive invariant.
IInv ==
  /\ Kinds
  /\ \A f \in Fetches : Phases(f) /\ Complete(f)
  /\ \A t \in Tasks : Fits(t)
  /\ upstream + Cardinality(Wire) = UpstreamConcurrency
  /\ pageSem + Cardinality(PageHolders) = PageConcurrency

LEMMA TaskPair ==
  /\ \A t \in Tasks : t[1] \in Fetches /\ t[2] \in Pages /\ t = <<t[1], t[2]>>
  /\ \A f \in Fetches, p \in Pages : <<f, p>> \in Tasks /\ <<f, p>>[1] = f /\ <<f, p>>[2] = p
  /\ \A f \in Fetches : First(f) \in Tasks /\ First(f)[1] = f /\ ~IsPageTask(First(f))
  /\ \A t \in Tasks : ~IsPageTask(t) => t = First(t[1])
BY ClientAssumption DEF Tasks, First, Pages, IsPageTask

LEMMA TasksAreFinite == \A S \in SUBSET Tasks : IsFiniteSet(S) /\ Cardinality(S) \in Nat
<1>1. IsFiniteSet(Pages)
  BY ClientAssumption, FS_Interval DEF Pages
<1>2. IsFiniteSet(Tasks)
  BY <1>1, ClientAssumption, FS_Product DEF Tasks
<1> QED BY <1>2, FS_Subset, FS_CardinalityType

\* Taking a permit and giving it back.
LEMMA PermitMoves ==
  ASSUME NEW S \in SUBSET Tasks, NEW t \in Tasks
  PROVE  /\ t \notin S => Cardinality(S \cup {t}) = Cardinality(S) + 1
         /\ t \in S => Cardinality(S \ {t}) = Cardinality(S) - 1
         /\ Cardinality(S) \in Nat
BY TasksAreFinite, FS_AddElement, FS_RemoveElement

LEMMA InitIInv == Init => IInv
<1> SUFFICES ASSUME Init PROVE IInv
  OBVIOUS
<1>1. Kinds
  BY ClientAssumption DEF Init, Kinds, PcLabels, Busy
<1>2. ASSUME NEW f \in Fetches
      PROVE  Phases(f) /\ Complete(f)
  BY <1>2, TaskPair DEF Init, Phases, Complete, Busy
<1>3. Wire = {} /\ PageHolders = {}
  BY DEF Init, Wire, PageHolders, Busy
<1>4. ASSUME NEW t \in Tasks
      PROVE  Fits(t)
  BY DEF Init, Fits
<1> QED BY <1>1, <1>2, <1>3, <1>4, FS_EmptySet, ClientAssumption DEF IInv, Init

\* A fetch begins, or returns with what its tasks have.
LEMMA CallKeeps ==
  ASSUME IInv, NEW f \in Fetches, Refuse(f) \/ Begin(f) \/ Merge(f) \/ FailFanout(f)
  PROVE  IInv'
<1>1. Wire' = Wire /\ PageHolders' = PageHolders /\ UNCHANGED <<upstream, pageSem>>
  BY TaskPair DEF IInv, Kinds, Phases, Wire, PageHolders, Busy, Refuse, Begin, Merge, FailFanout, Return, taskVars
<1> DEFINE merged == [status |-> "200", body |-> Merged(f)]
<1>2. CASE Refuse(f) \/ FailFanout(f) \/ (Merge(f) /\ Return(f, [status |-> "500"]))
  <2>1. PICK x \in {"refused", "500"} : Return(f, [status |-> x])
    BY <1>2 DEF Refuse, FailFanout
  <2>2. [status |-> x] \in Results /\ [status |-> x].status # "200"
    BY DEF Results
  <2>3. UNCHANGED <<up, pc, attempt, page, upstream, pageSem, blocked, total>>
        /\ call[f] # "first" /\ call[f] # "returned"
    BY <1>2 DEF Refuse, FailFanout, Merge, Return, taskVars
  <2>4. Kinds'
    BY <2>1, <2>2, <2>3 DEF IInv, Kinds, Return
  <2>5. ASSUME NEW g \in Fetches PROVE Phases(g)' /\ Complete(g)'
    BY <2>1, <2>2, <2>3, NoneAssumption DEF IInv, Kinds, Phases, Complete, Return, Busy
  <2>6. \A t \in Tasks : Fits(t)'
    BY <2>3 DEF IInv, Fits
  <2> QED BY <1>1, <2>4, <2>5, <2>6 DEF IInv
<1>3. CASE Begin(f)
  <2>1. /\ call[f] = "new" /\ call' = [call EXCEPT ![f] = "first"]
        /\ pc' = [pc EXCEPT ![First(f)] = "pace"]
        /\ UNCHANGED <<up, attempt, page, upstream, pageSem, blocked, total, result>>
    BY <1>3 DEF Begin
  <2>2. Kinds'
    BY <2>1, TaskPair DEF IInv, Kinds, PcLabels, Busy
  <2>3. ASSUME NEW g \in Fetches PROVE Phases(g)' /\ Complete(g)'
    <3>1. First(f) \in Tasks /\ First(g) \in Tasks /\ (First(f) = First(g) => f = g)
      BY TaskPair
    <3>2. Complete(g)'
      BY <2>1 DEF IInv, Complete
    <3>3. \A t \in Tasks : IsPageTask(t) => pc'[t] = pc[t]
      BY <2>1, TaskPair DEF IInv, Kinds
    <3>4. Phases(f) /\ Phases(g)
      BY DEF IInv
    <3>5. CASE g = f
      <4>1. pc'[First(g)] = "pace" /\ call'[g] = "first"
        BY <2>1, <3>1, <3>5 DEF IInv, Kinds
      <4>2. \A t \in Tasks : t[1] = g /\ IsPageTask(t) => pc'[t] = "off"
        BY <2>1, <3>3, <3>4, <3>5 DEF Phases
      <4>3. result'[g] = None
        BY <2>1, <3>4, <3>5 DEF Phases
      <4> QED BY <3>2, <4>1, <4>2, <4>3 DEF Phases, Busy
    <3>6. CASE g # f
      <4>1. pc'[First(g)] = pc[First(g)] /\ call'[g] = call[g]
        BY <2>1, <3>1, <3>6 DEF IInv, Kinds
      <4>2. call'[g] \in {"new", "first"} => \A t \in Tasks : t[1] = g /\ IsPageTask(t) => pc'[t] = "off"
        BY <4>1, <3>3, <3>4 DEF Phases
      <4> QED BY <2>1, <3>2, <3>4, <4>1, <4>2 DEF Phases
    <3> QED BY <3>5, <3>6
  <2>4. \A t \in Tasks : Fits(t)'
    BY <2>1 DEF IInv, Kinds, Fits
  <2> QED BY <1>1, <2>2, <2>3, <2>4 DEF IInv
<1>4. CASE Merge(f) /\ Return(f, merged)
  <2> DEFINE n == total[f]
             r == merged
  <2>1. /\ call[f] = "fanout" /\ call' = [call EXCEPT ![f] = "returned"]
        /\ result' = [result EXCEPT ![f] = r]
        /\ UNCHANGED <<up, pc, attempt, page, upstream, pageSem, blocked, total>>
    BY <1>4 DEF Merge, Return, taskVars
  <2>2. n \in Pages /\ pc[First(f)] = "ok"
    BY <2>1 DEF IInv, Phases
  <2>3. ASSUME NEW p \in 1..n
        PROVE  page[<<f, p>>] \in Versions /\ PageCount[page[<<f, p>>]] = n
    <3>1. p \in Pages
      BY <2>2, ClientAssumption DEF Pages
    <3>2. <<f, p>> \in Tasks /\ <<f, p>>[1] = f /\ <<f, p>>[2] = p
      BY <3>1, TaskPair
    <3>3. CASE p = 1
      BY <2>2, <3>2, <3>3 DEF First, IInv, Fits
    <3>4. CASE p # 1
      <4>1. p \in 2..n
        BY <3>4, <2>2, ClientAssumption DEF Pages
      <4>2. <<f, p>> \in PageTasks(f)
        BY <3>2, <4>1 DEF PageTasks
      <4> QED BY <4>2, <3>2, <1>4 DEF Merge, IInv, Fits
    <3> QED BY <3>3, <3>4
  <2>4. /\ Merged(f) \in [1..n -> Versions]
        /\ \A p \in 1..n : PageCount[Merged(f)[p]] = n
    BY <2>3 DEF Merged
  <2>5. r \in Results /\ r # None /\ r.status = "200" /\ r.body = Merged(f)
    BY <2>2, <2>4, NoneAssumption DEF Results
  <2> HIDE DEF r, n
  <2>6. Kinds'
    BY <2>1, <2>5 DEF IInv, Kinds
  <2>7. ASSUME NEW g \in Fetches PROVE Phases(g)' /\ Complete(g)'
    <3>1. CASE g = f
      <4>1. call'[f] = "returned" /\ result'[f] = r
        BY <2>1 DEF IInv, Kinds
      <4>2. Phases(f)'
        BY <2>1, <2>2, <2>5, <4>1 DEF IInv, Phases, Busy
      <4>3. Complete(f)'
        <5>1. result'[f].body \in [1..n -> Versions] /\ \A p \in 1..n : PageCount[result'[f].body[p]] = n
          BY <2>4, <2>5, <4>1
        <5> QED BY <2>2, <5>1 DEF Complete
      <4> QED BY <3>1, <4>2, <4>3
    <3>2. CASE g # f
      BY <2>1, <3>2 DEF IInv, Kinds, Phases, Complete
    <3> QED BY <3>1, <3>2
  <2>8. \A t \in Tasks : Fits(t)'
    BY <2>1 DEF IInv, Fits
  <2> QED BY <1>1, <2>6, <2>7, <2>8 DEF IInv
<1> QED BY <1>2, <1>3, <1>4 DEF Merge

\* How the counts change when one task moves to another label.
LEMMA Counts ==
  ASSUME Kinds, NEW t \in Tasks, NEW l \in PcLabels, Goto(t, l)
  PROVE  /\ Cardinality(Wire) \in Nat /\ Cardinality(PageHolders) \in Nat
         /\ Cardinality(Wire') \in Nat /\ Cardinality(PageHolders') \in Nat
         /\ Cardinality(Wire') + (IF pc[t] = "http" THEN 1 ELSE 0)
              = Cardinality(Wire) + (IF l = "http" THEN 1 ELSE 0)
         /\ Cardinality(PageHolders') + (IF IsPageTask(t) /\ pc[t] \in Busy THEN 1 ELSE 0)
              = Cardinality(PageHolders) + (IF IsPageTask(t) /\ l \in Busy THEN 1 ELSE 0)
<1>1. pc' \in [Tasks -> PcLabels] /\ pc'[t] = l /\ \A u \in Tasks : u # t => pc'[u] = pc[u]
  BY DEF Goto, Kinds
<1>2. Wire \in SUBSET Tasks /\ PageHolders \in SUBSET Tasks
  BY DEF Wire, PageHolders
<1>3. Wire' = IF l = "http" THEN Wire \cup {t} ELSE Wire \ {t}
  BY <1>1 DEF Wire
<1>4. PageHolders' = IF IsPageTask(t) /\ l \in Busy THEN PageHolders \cup {t} ELSE PageHolders \ {t}
  BY <1>1 DEF PageHolders
<1>5. t \in Wire <=> pc[t] = "http"
  BY DEF Wire
<1>6. t \in PageHolders <=> IsPageTask(t) /\ pc[t] \in Busy
  BY DEF PageHolders
<1>7. ASSUME NEW S \in SUBSET Tasks
      PROVE  /\ t \in S => S \cup {t} = S
             /\ t \notin S => S \ {t} = S
  OBVIOUS
<1>8. Cardinality(Wire') + (IF pc[t] = "http" THEN 1 ELSE 0)
        = Cardinality(Wire) + (IF l = "http" THEN 1 ELSE 0)
  <2>1. /\ t \notin Wire => Cardinality(Wire \cup {t}) = Cardinality(Wire) + 1
        /\ t \in Wire => Cardinality(Wire \ {t}) = Cardinality(Wire) - 1
        /\ Cardinality(Wire) \in Nat
    BY <1>2, PermitMoves
  <2>2. CASE l = "http"
    <3>1. Cardinality(Wire') = IF t \in Wire THEN Cardinality(Wire) ELSE Cardinality(Wire) + 1
      BY <2>1, <2>2, <1>2, <1>3, <1>7
    <3> QED BY <2>1, <2>2, <3>1, <1>5
  <2>3. CASE ~(l = "http")
    <3>1. Cardinality(Wire') = IF t \in Wire THEN Cardinality(Wire) - 1 ELSE Cardinality(Wire)
      BY <2>1, <2>3, <1>2, <1>3, <1>7
    <3> QED BY <2>1, <2>3, <3>1, <1>5
  <2> QED BY <2>2, <2>3
<1>9. Cardinality(PageHolders') + (IF IsPageTask(t) /\ pc[t] \in Busy THEN 1 ELSE 0)
        = Cardinality(PageHolders) + (IF IsPageTask(t) /\ l \in Busy THEN 1 ELSE 0)
  <2>1. /\ t \notin PageHolders => Cardinality(PageHolders \cup {t}) = Cardinality(PageHolders) + 1
        /\ t \in PageHolders => Cardinality(PageHolders \ {t}) = Cardinality(PageHolders) - 1
        /\ Cardinality(PageHolders) \in Nat
    BY <1>2, PermitMoves
  <2>2. CASE IsPageTask(t) /\ l \in Busy
    <3>1. Cardinality(PageHolders') = IF t \in PageHolders THEN Cardinality(PageHolders) ELSE Cardinality(PageHolders) + 1
      BY <2>1, <2>2, <1>2, <1>4, <1>7
    <3> QED BY <2>1, <2>2, <3>1, <1>6
  <2>3. CASE ~(IsPageTask(t) /\ l \in Busy)
    <3>1. Cardinality(PageHolders') = IF t \in PageHolders THEN Cardinality(PageHolders) - 1 ELSE Cardinality(PageHolders)
      BY <2>1, <2>3, <1>2, <1>4, <1>7
    <3> QED BY <2>1, <2>3, <3>1, <1>6
  <2> QED BY <2>2, <2>3
<1>10. Wire' \in SUBSET Tasks /\ PageHolders' \in SUBSET Tasks
  BY <1>2, <1>3, <1>4
<1> QED BY <1>2, <1>8, <1>9, <1>10, PermitMoves

\* A task that moves on without ending, or a page task that fails, leaves
\* every fetch as it is.
LEMMA StandingKept ==
  ASSUME IInv, NEW t \in Tasks, NEW l \in Busy \cup {"failed"}, Goto(t, l),
         pc[t] \in Busy \cup {"page_sem"}, IsPageTask(t) \/ l \in Busy,
         UNCHANGED <<page, callVars>>
  PROVE  /\ \A f \in Fetches : Phases(f)' /\ Complete(f)'
         /\ \A u \in Tasks : Fits(u)'
<1>1. pc' \in [Tasks -> PcLabels] /\ pc'[t] = l /\ \A u \in Tasks : u # t => pc'[u] = pc[u]
  BY DEF Goto, IInv, Kinds, PcLabels
<1>2. UNCHANGED <<page, call, total, result>>
  BY DEF callVars
<1>3. ASSUME NEW f \in Fetches PROVE Complete(f)'
  BY <1>2 DEF IInv, Complete
<1>4. ASSUME NEW u \in Tasks PROVE Fits(u)'
  BY <1>1, <1>2 DEF IInv, Fits, Busy
<1>5. ASSUME NEW f \in Fetches PROVE Phases(f)'
  <2>1. First(f) \in Tasks /\ ~IsPageTask(First(f))
    BY TaskPair
  <2>2. CASE IsPageTask(t)
    <3>1. pc'[First(f)] = pc[First(f)]
      BY <1>1, <2>1, <2>2
    <3>2. call[f] \in {"new", "first"} => \A u \in Tasks : u[1] = f /\ IsPageTask(u) => u # t
      BY <2>2 DEF IInv, Phases, Busy
    <3> QED BY <1>1, <1>2, <3>1, <3>2 DEF IInv, Phases
  <2>3. CASE ~IsPageTask(t)
    <3>1. \A u \in Tasks : IsPageTask(u) => pc'[u] = pc[u]
      BY <1>1, <2>3
    <3>2. CASE First(f) = t
      BY <1>1, <1>2, <2>1, <2>3, <3>1, <3>2 DEF IInv, Phases, Busy
    <3>3. CASE First(f) # t
      BY <1>1, <1>2, <2>1, <3>1, <3>3 DEF IInv, Phases
    <3> QED BY <3>2, <3>3
  <2> QED BY <2>2, <2>3
<1> QED BY <1>3, <1>4, <1>5

LEMMA StepKeeps ==
  ASSUME IInv, NEW t \in Tasks, AcquirePage(t) \/ Pace(t) \/ Send(t) \/ Backoff(t)
  PROVE  IInv'
<1>1. PICK l \in Busy : Goto(t, l)
  BY DEF AcquirePage, Pace, Send, Backoff, Busy
<1>2. UNCHANGED <<up, attempt, page, blocked, callVars>> /\ pc[t] \in Busy \cup {"page_sem"}
  BY DEF AcquirePage, Pace, Send, Backoff, Busy
<1>3. \A f \in Fetches : Phases(f)' /\ Complete(f)'
  BY <1>1, <1>2, StandingKept
<1>4. \A u \in Tasks : Fits(u)'
  BY <1>1, <1>2, StandingKept
<1>5. upstream' \in Nat /\ pageSem' \in Nat
  BY DEF AcquirePage, Pace, Send, Backoff, IInv, Kinds
<1>6. Kinds'
  BY <1>1, <1>2, <1>5 DEF IInv, Kinds, Goto, PcLabels, callVars
<1>7. pc'[t] = l
  BY <1>1 DEF Goto, IInv, Kinds
<1>8. pc[t] = "page_sem" => IsPageTask(t)
  BY TaskPair DEF IInv, Phases
<1>9. /\ upstream' + Cardinality(Wire') = UpstreamConcurrency
      /\ pageSem' + Cardinality(PageHolders') = PageConcurrency
  <2>1. /\ Cardinality(Wire) \in Nat /\ Cardinality(PageHolders) \in Nat
        /\ Cardinality(Wire') \in Nat /\ Cardinality(PageHolders') \in Nat
        /\ Cardinality(Wire') + (IF pc[t] = "http" THEN 1 ELSE 0)
             = Cardinality(Wire) + (IF l = "http" THEN 1 ELSE 0)
        /\ Cardinality(PageHolders') + (IF IsPageTask(t) /\ pc[t] \in Busy THEN 1 ELSE 0)
             = Cardinality(PageHolders) + (IF IsPageTask(t) /\ l \in Busy THEN 1 ELSE 0)
    BY <1>1, Counts DEF IInv, PcLabels
  <2>2. /\ upstream \in Nat /\ pageSem \in Nat
        /\ upstream + Cardinality(Wire) = UpstreamConcurrency
        /\ pageSem + Cardinality(PageHolders) = PageConcurrency
    BY DEF IInv, Kinds
  <2>3. CASE AcquirePage(t)
    <3>1. pc[t] = "page_sem" /\ l = "pace" /\ pageSem' = pageSem - 1 /\ upstream' = upstream
      BY <2>3, <1>7 DEF AcquirePage, Goto, IInv, Kinds
    <3> QED BY <2>1, <2>2, <3>1, <1>8 DEF Busy
  <2>4. CASE Send(t)
    <3>1. pc[t] = "upstream_sem" /\ l = "http" /\ pageSem' = pageSem /\ upstream' = upstream - 1
      BY <2>4, <1>7 DEF Send, Goto, IInv, Kinds
    <3> QED BY <2>1, <2>2, <3>1 DEF Busy
  <2>5. CASE Pace(t) \/ Backoff(t)
    <3>1. pc[t] \in {"pace", "backoff"} /\ l \in {"pace", "upstream_sem"} /\ pageSem' = pageSem /\ upstream' = upstream
      BY <2>5, <1>7 DEF Pace, Backoff, Goto, IInv, Kinds
    <3> QED BY <2>1, <2>2, <3>1 DEF Busy
  <2> QED BY <2>3, <2>4, <2>5
<1> QED BY <1>3, <1>4, <1>6, <1>9 DEF IInv

\* A task that ends gives back what it held.
LEMMA ReleaseKeeps ==
  ASSUME IInv, NEW t \in Tasks, pc[t] = "http", ReleaseUpstream, ReleasePage(t),
         Wire' = Wire \ {t}, PageHolders' = PageHolders \ {t}
  PROVE  /\ upstream' \in Nat /\ pageSem' \in Nat
         /\ upstream' + Cardinality(Wire') = UpstreamConcurrency
         /\ pageSem' + Cardinality(PageHolders') = PageConcurrency
<1>1. Wire \in SUBSET Tasks /\ PageHolders \in SUBSET Tasks
  BY DEF Wire, PageHolders
<1>2. t \in Wire /\ (t \in PageHolders <=> IsPageTask(t))
  BY DEF Wire, PageHolders, Busy
<1>3. /\ Cardinality(Wire') = Cardinality(Wire) - 1 /\ Cardinality(Wire) \in Nat
      /\ Cardinality(PageHolders) \in Nat
  BY <1>1, <1>2, PermitMoves
<1>4. /\ upstream \in Nat /\ pageSem \in Nat
      /\ upstream + Cardinality(Wire) = UpstreamConcurrency
      /\ pageSem + Cardinality(PageHolders) = PageConcurrency
  BY DEF IInv, Kinds
<1>5. CASE IsPageTask(t)
  <2>1. Cardinality(PageHolders') = Cardinality(PageHolders) - 1
    BY <1>1, <1>2, <1>5, PermitMoves
  <2> QED BY <1>3, <1>4, <1>5, <2>1 DEF ReleaseUpstream, ReleasePage
<1>6. CASE ~IsPageTask(t)
  <2>1. Cardinality(PageHolders') = Cardinality(PageHolders)
    <3>1. PageHolders' = PageHolders
      BY <1>2, <1>6
    <3> QED BY <3>1
  <2>2. pageSem' = pageSem /\ upstream' = upstream + 1
    BY <1>6 DEF ReleaseUpstream, ReleasePage
  <2> QED BY <1>3, <1>4, <2>1, <2>2
<1> QED BY <1>5, <1>6

\* The statuses of failures, none of which is a success.
Failures == {"500", "limited", "other", "5xx", "503"}

LEMMA FailKeeps ==
  ASSUME IInv, NEW t \in Tasks, NEW status \in Failures, pc[t] = "http",
         ReleaseUpstream, blocked' \in Nat, UNCHANGED up, Fail(t, status)
  PROVE  IInv'
<1>1. Goto(t, "failed") /\ ReleasePage(t) /\ UNCHANGED <<attempt, page>>
  BY DEF Fail
<1>2. pc' \in [Tasks -> PcLabels] /\ pc'[t] = "failed" /\ \A u \in Tasks : u # t => pc'[u] = pc[u]
  BY <1>1 DEF Goto, IInv, Kinds, PcLabels
<1>3. Wire' = Wire \ {t} /\ PageHolders' = PageHolders \ {t}
  BY <1>2 DEF Wire, PageHolders, Busy
<1>4. CASE IsPageTask(t)
  <2>1. UNCHANGED callVars
    BY <1>4 DEF Fail
  <2>2. Kinds'
    BY <1>1, <1>2, <1>3, <2>1, ReleaseKeeps DEF IInv, Kinds, callVars
  <2>3. /\ \A f \in Fetches : Phases(f)' /\ Complete(f)'
        /\ \A u \in Tasks : Fits(u)'
    BY <1>1, <1>4, <2>1, StandingKept DEF Busy
  <2> QED BY <1>1, <1>3, <2>2, <2>3, ReleaseKeeps DEF IInv
<1>5. CASE ~IsPageTask(t)
  <2> DEFINE g == t[1]
             r == [status |-> status]
  <2>1. /\ call' = [call EXCEPT ![g] = "returned"] /\ result' = [result EXCEPT ![g] = r]
        /\ UNCHANGED total
    BY <1>5 DEF Fail, Return
  <2>2. g \in Fetches /\ t = First(g)
    BY <1>5, TaskPair
  <2>3. r \in Results /\ r # None /\ r.status # "200"
    BY NoneAssumption DEF Results, Failures
  <2> HIDE DEF r, g
  <2>4. Kinds'
    BY <1>1, <1>2, <1>3, <2>1, <2>2, <2>3, ReleaseKeeps DEF IInv, Kinds
  <2>5. call'[g] = "returned" /\ result'[g] = r
        /\ \A f \in Fetches \ {g} : call'[f] = call[f] /\ result'[f] = result[f]
    BY <2>1, <2>2 DEF IInv, Kinds
  <2>6. ASSUME NEW f \in Fetches PROVE Phases(f)' /\ Complete(f)'
    <3>1. CASE f = g
      BY <1>2, <2>2, <2>3, <2>5, <3>1 DEF Phases, Complete, Busy
    <3>2. CASE f # g
      <4>1. First(f) \in Tasks /\ First(f) # t
        BY <2>2, <3>2, TaskPair
      <4>2. \A u \in Tasks : IsPageTask(u) => pc'[u] = pc[u]
        BY <1>2, <1>5
      <4> QED BY <1>2, <2>1, <2>5, <3>2, <4>1, <4>2 DEF IInv, Phases, Complete
    <3> QED BY <3>1, <3>2
  <2>7. \A u \in Tasks : Fits(u)'
    BY <1>1, <1>2, <2>1 DEF IInv, Fits
  <2> QED BY <1>1, <1>3, <2>4, <2>6, <2>7, ReleaseKeeps DEF IInv
<1> QED BY <1>4, <1>5

LEMMA RetryKeeps ==
  ASSUME IInv, NEW t \in Tasks, NEW status \in Failures, pc[t] = "http",
         ReleaseUpstream, blocked' \in Nat, UNCHANGED up, RetryOrFail(t, status)
  PROVE  IInv'
<1>1. CASE attempt[t] < MaxRetries
  <2>1. /\ attempt' = [attempt EXCEPT ![t] = @ + 1] /\ Goto(t, "backoff")
        /\ UNCHANGED <<page, pageSem, callVars>>
    BY <1>1 DEF RetryOrFail
  <2>2. pc' \in [Tasks -> PcLabels]
    BY <2>1 DEF Goto, IInv, Kinds, PcLabels, Busy
  <2>3. attempt' \in [Tasks -> 0..MaxRetries]
    BY <1>1, <2>1, ClientAssumption DEF IInv, Kinds
  <2>4. Kinds'
    BY <2>1, <2>2, <2>3 DEF IInv, Kinds, callVars, ReleaseUpstream
  <2>5. /\ \A f \in Fetches : Phases(f)' /\ Complete(f)'
        /\ \A u \in Tasks : Fits(u)'
    BY <2>1, StandingKept DEF Busy
  <2>6. /\ Cardinality(Wire) \in Nat /\ Cardinality(PageHolders) \in Nat
        /\ Cardinality(Wire') \in Nat /\ Cardinality(PageHolders') \in Nat
        /\ Cardinality(Wire') + 1 = Cardinality(Wire)
        /\ Cardinality(PageHolders') = Cardinality(PageHolders)
    <3>1. Kinds /\ "backoff" \in PcLabels /\ Goto(t, "backoff")
      BY <2>1 DEF IInv, PcLabels, Busy
    <3>2. pc[t] \in Busy /\ "backoff" \in Busy
      BY DEF Busy
    <3> QED BY <3>1, <3>2, Counts
  <2>7. /\ upstream' + Cardinality(Wire') = UpstreamConcurrency
        /\ pageSem' + Cardinality(PageHolders') = PageConcurrency
    BY <2>1, <2>6 DEF IInv, Kinds, ReleaseUpstream
  <2> QED BY <2>4, <2>5, <2>7 DEF IInv
<1>2. CASE ~(attempt[t] < MaxRetries)
  BY <1>2, FailKeeps DEF RetryOrFail
<1> QED BY <1>1, <1>2

LEMMA BudgetKind == IInv /\ (NoteBudget(TRUE) \/ NoteBudget(FALSE)) => blocked' \in Nat
BY ClientAssumption DEF IInv, Kinds, NoteBudget

LEMMA PageKeeps ==
  ASSUME IInv, NEW t \in Tasks, ReceivePage(t)
  PROVE  IInv'
<1>1. pc[t] = "http" /\ ReleaseUpstream /\ blocked' \in Nat /\ UNCHANGED up
  BY BudgetKind DEF ReceivePage
<1>2. CASE ~Consistent(t)
  BY <1>1, <1>2, FailKeeps DEF ReceivePage, Failures
<1>3. CASE Consistent(t)
  <2> DEFINE g == t[1]
             n == PageCount[up]
             Starts(u) == ~IsPageTask(t) /\ u[1] = g /\ u[2] \in 2..n
  <2>1. /\ pc' = [u \in Tasks |-> IF u = t THEN "ok" ELSE IF Starts(u) THEN "page_sem" ELSE pc[u]]
        /\ page' = [page EXCEPT ![t] = up]
        /\ ReleasePage(t) /\ UNCHANGED attempt
    BY <1>3 DEF ReceivePage
  <2>2. g \in Fetches /\ up \in Versions /\ n \in Pages /\ (~IsPageTask(t) => t = First(g))
    BY TaskPair, ClientAssumption DEF IInv, Kinds
  <2>3. \A u \in Tasks : Starts(u) => u # t /\ IsPageTask(u) /\ pc[u] = "off"
    <3> SUFFICES ASSUME NEW u \in Tasks, Starts(u) PROVE u # t /\ IsPageTask(u) /\ pc[u] = "off"
      OBVIOUS
    <3>1. IsPageTask(u)
      BY <2>2, ClientAssumption DEF IsPageTask, Pages
    <3>2. call[g] = "first"
      BY <1>1, <2>2 DEF IInv, Phases, Busy
    <3> QED BY <2>2, <3>1, <3>2 DEF IInv, Phases
  <2> HIDE DEF Starts
  <2>4. /\ pc' \in [Tasks -> PcLabels] /\ pc'[t] = "ok"
        /\ \A u \in Tasks : Starts(u) => pc'[u] = "page_sem"
        /\ \A u \in Tasks : u # t /\ ~Starts(u) => pc'[u] = pc[u]
    BY <2>1, <2>3 DEF IInv, Kinds, PcLabels
  <2>5. Wire' = Wire \ {t}
    BY <2>3, <2>4 DEF Wire
  <2>6. PageHolders' = PageHolders \ {t}
    BY <2>3, <2>4 DEF PageHolders, Busy
  <2>7. page' \in [Tasks -> Versions \cup {None}] /\ page'[t] = up
        /\ \A u \in Tasks : u # t => page'[u] = page[u]
    BY <2>1, <2>2 DEF IInv, Kinds
  <2> HIDE DEF n, g
  <2>8. CASE IsPageTask(t)
    <3>1. UNCHANGED <<call, total, result>> /\ n = total[g]
      BY <1>3, <2>8 DEF ReceivePage, callVars, Consistent, n, g
    <3>2. \A u \in Tasks : ~Starts(u)
      BY <2>8 DEF Starts
    <3>3. Kinds'
      BY <1>1, <2>1, <2>4, <2>5, <2>6, <2>7, <3>1, ReleaseKeeps DEF IInv, Kinds
    <3>4. ASSUME NEW f \in Fetches PROVE Phases(f)' /\ Complete(f)'
      <4>1. First(f) \in Tasks /\ First(f) # t
        BY <2>8, TaskPair
      <4>2. pc'[First(f)] = pc[First(f)]
        BY <2>4, <3>2, <4>1
      <4>3. call[f] \in {"new", "first"} => \A u \in Tasks : u[1] = f /\ IsPageTask(u) => u # t
        BY <1>1 DEF IInv, Phases
      <4> QED BY <2>4, <3>1, <3>2, <4>2, <4>3 DEF IInv, Phases, Complete
    <3>5. ASSUME NEW u \in Tasks PROVE Fits(u)'
      <4>1. CASE u = t
        BY <2>2, <2>7, <3>1, <4>1 DEF Fits, n, g
      <4>2. CASE u # t
        BY <2>4, <2>7, <3>1, <3>2, <4>2 DEF IInv, Fits
      <4> QED BY <4>1, <4>2
    <3> QED BY <1>1, <2>1, <2>5, <2>6, <3>3, <3>4, <3>5, ReleaseKeeps DEF IInv
  <2>9. CASE ~IsPageTask(t)
    <3>1. /\ total' = [total EXCEPT ![g] = n] /\ call' = [call EXCEPT ![g] = "fanout"]
          /\ UNCHANGED result
      BY <1>3, <2>9 DEF ReceivePage, n, g
    <3>2. t = First(g) /\ call[g] = "first"
      BY <1>1, <2>2, <2>9 DEF IInv, Phases, Busy
    <3>3. Kinds'
      BY <1>1, <2>1, <2>2, <2>4, <2>5, <2>6, <2>7, <3>1, ReleaseKeeps DEF IInv, Kinds
    <3>4. total'[g] = n /\ call'[g] = "fanout"
          /\ \A f \in Fetches \ {g} : total'[f] = total[f] /\ call'[f] = call[f]
      BY <2>2, <3>1 DEF IInv, Kinds
    <3>5. ASSUME NEW f \in Fetches PROVE Phases(f)' /\ Complete(f)'
      <4>1. Complete(f)'
        BY <3>1 DEF IInv, Complete
      <4>2. CASE f = g
        <5>1. result[f] = None
          BY <3>2, <4>2 DEF IInv, Phases
        <5> QED BY <2>2, <2>4, <3>1, <3>2, <3>4, <4>1, <4>2, <5>1 DEF Phases, Busy
      <4>3. CASE f # g
        <5>1. First(f) \in Tasks /\ First(f)[1] = f /\ ~IsPageTask(First(f)) /\ First(f) # t
          BY <2>2, <3>2, <4>3, TaskPair
        <5>2. pc'[First(f)] = pc[First(f)]
          BY <2>3, <2>4, <5>1
        <5>3. \A u \in Tasks : u[1] = f => u # t /\ ~Starts(u)
          BY <4>3 DEF Starts, g
        <5>4. \A u \in Tasks : u[1] = f => pc'[u] = pc[u]
          BY <2>4, <5>3
        <5>5. call'[f] = call[f] /\ total'[f] = total[f] /\ result'[f] = result[f]
          BY <3>1, <3>4, <4>3
        <5> QED BY <4>1, <5>2, <5>4, <5>5 DEF IInv, Phases
      <4> QED BY <4>2, <4>3
    <3>6. ASSUME NEW u \in Tasks PROVE Fits(u)'
      <4>1. CASE u = t
        BY <2>2, <2>7, <3>4, <4>1 DEF Fits, n, g
      <4>2. CASE u # t
        <5>1. u[1] \in Fetches
          BY TaskPair
        <5>2. CASE u[1] = g
          <6>1. IsPageTask(u)
            BY <3>2, <4>2, <5>2, TaskPair
          <6>2. pc[u] = "off"
            BY <2>2, <3>2, <5>2, <6>1 DEF IInv, Phases
          <6> QED BY <2>4, <4>2, <6>2 DEF Fits
        <5>3. CASE u[1] # g
          <6>1. ~Starts(u)
            BY <5>3 DEF Starts
          <6> QED BY <2>4, <2>7, <3>4, <4>2, <5>1, <5>3, <6>1 DEF IInv, Fits
        <5> QED BY <5>2, <5>3
      <4> QED BY <4>1, <4>2
    <3> QED BY <1>1, <2>1, <2>5, <2>6, <3>3, <3>5, <3>6, ReleaseKeeps DEF IInv
  <2> QED BY <2>8, <2>9
<1> QED BY <1>2, <1>3

LEMMA ReceiveKeeps ==
  ASSUME IInv, NEW t \in Tasks, Receive(t)
  PROVE  IInv'
<1>1. CASE ReceivePage(t)
  BY <1>1, PageKeeps
<1>2. CASE ReceiveLimited(t)
  BY <1>2, BudgetKind, FailKeeps DEF ReceiveLimited, Failures
<1>3. CASE ReceiveOther(t)
  BY <1>3, BudgetKind, FailKeeps DEF ReceiveOther, Failures
<1>4. CASE ReceiveRetriable(t)
  BY <1>4, BudgetKind, RetryKeeps DEF ReceiveRetriable, Failures
<1>5. CASE TransportError(t)
  <2>1. blocked' \in Nat
    BY <1>5 DEF TransportError, IInv, Kinds
  <2> QED BY <1>5, <2>1, RetryKeeps DEF TransportError, Failures
<1> QED BY <1>1, <1>2, <1>3, <1>4, <1>5 DEF Receive

\* The clock, ESI and stuttering touch no task and no fetch.
LEMMA OthersKeep ==
  ASSUME IInv, Tick \/ Publish \/ UNCHANGED vars
  PROVE  IInv'
<1>1. UNCHANGED <<pc, attempt, page, upstream, pageSem, call, total, result>>
  BY DEF Tick, Publish, vars, taskVars, callVars
<1>2. up' \in Versions /\ blocked' \in Nat
  BY DEF Tick, Publish, vars, IInv, Kinds
<1>3. Kinds'
  BY <1>1, <1>2 DEF IInv, Kinds
<1>4. Wire' = Wire /\ PageHolders' = PageHolders
  BY <1>1 DEF Wire, PageHolders
<1>5. ASSUME NEW f \in Fetches PROVE Phases(f)' /\ Complete(f)'
  BY <1>1 DEF IInv, Phases, Complete
<1>6. ASSUME NEW t \in Tasks PROVE Fits(t)'
  BY <1>1 DEF IInv, Fits
<1> QED BY <1>1, <1>3, <1>4, <1>5, <1>6 DEF IInv

\* The invariant of every step.
THEOREM Invariance == Spec => []IInv
<1>1. IInv /\ [Next]_vars => IInv'
  <2> SUFFICES ASSUME IInv, [Next]_vars PROVE IInv'
    OBVIOUS
  <2>1. CASE \E f \in Fetches : Refuse(f) \/ Begin(f) \/ Conclude(f)
    BY <2>1, CallKeeps DEF Conclude
  <2>2. CASE \E t \in Tasks : Run(t)
    BY <2>2, StepKeeps, ReceiveKeeps DEF Run
  <2>3. CASE Tick \/ Publish \/ UNCHANGED vars
    BY <2>3, OthersKeep
  <2> QED BY <2>1, <2>2, <2>3 DEF Next
<1> QED BY <1>1, InitIInv, PTL DEF Spec

\* Type correctness of app/esi_client.py's model: attempts stay within
\* esi_max_retries, permits within the semaphores' sizes.
THEOREM TypeCorrect == Spec => []TypeOK
<1>1. IInv => TypeOK
  <2> SUFFICES ASSUME IInv PROVE TypeOK
    OBVIOUS
  <2>1. Wire \in SUBSET Tasks /\ PageHolders \in SUBSET Tasks
    BY DEF Wire, PageHolders
  <2>2. Cardinality(Wire) \in Nat /\ Cardinality(PageHolders) \in Nat
    BY <2>1, TasksAreFinite
  <2>3. upstream \in 0..UpstreamConcurrency /\ pageSem \in 0..PageConcurrency
    BY <2>2, ClientAssumption DEF IInv, Kinds
  <2>4. pc \in [Tasks -> {"off", "page_sem", "pace", "upstream_sem", "http", "backoff", "ok", "failed"}]
    BY DEF IInv, Kinds, PcLabels, Busy
  <2>5. \A f \in Fetches : result[f] = None <=> call[f] # "returned"
    BY DEF IInv, Phases
  <2> QED BY <2>3, <2>4, <2>5 DEF IInv, Kinds, TypeOK
<1> QED BY <1>1, Invariance, PTL

\* No permit of _upstream_sem or _page_sem is lost or made up, by however many
\* tasks that answer, fail, retry or outlive their fetch.
THEOREM PermitsKept == Spec => []PermitsAddUp
<1>1. IInv => PermitsAddUp
  BY DEF IInv, PermitsAddUp, Wire, PageHolders, Busy
<1> QED BY <1>1, Invariance, PTL

\* A merged listing has every page of a listing of its length, whatever ESI
\* publishes while the pages are read.
THEOREM SuccessWhole == Spec => []SuccessIsComplete
<1>1. IInv => SuccessIsComplete
  <2> SUFFICES ASSUME IInv, NEW f \in Fetches, call[f] = "returned", result[f].status = "200"
               PROVE  \A p \in DOMAIN result[f].body :
                        /\ result[f].body[p] # None
                        /\ PageCount[result[f].body[p]] = Cardinality(DOMAIN result[f].body)
    BY DEF SuccessIsComplete
  <2>1. PICK n \in Pages : /\ result[f].body \in [1..n -> Versions]
                           /\ \A p \in 1..n : PageCount[result[f].body[p]] = n
    BY DEF IInv, Phases, Complete
  <2>2. Cardinality(1..n) = n
    BY FS_Interval, ClientAssumption DEF Pages
  <2> QED BY <2>1, <2>2, ClientAssumption
<1> QED BY <1>1, Invariance, PTL
=============================================================================
