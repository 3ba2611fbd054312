--------------------------- MODULE AtomicArchive ----------------------------
(***************************************************************************)
(* What the archive of one endpoint promises, without tables, transactions *)
(* and locks: a write is stored in one step or not at all, and the payload *)
(* to fall back to is that of a stored write, chosen by the endpoint's     *)
(* policy.  Archive.tla, the model of app/archive.py, is shown to          *)
(* implement it; Proxy.tla takes an archive write as such a step.          *)
(***************************************************************************)
EXTENDS Naturals

CONSTANTS
  NumWrites,  \* the writes, numbered in the order in which they were made
  Contents    \* the payloads they may write

Writes == 1..NumWrites

VARIABLES
  policy,   \* which of the stored payloads counts
  content,  \* the payload of each write
  stage,    \* where each write stands
  latest,   \* the payload to fall back to, if any
  since     \* under the policy "newest": the write it is from, or 0

vars == <<policy, content, stage, latest, since>>

Init ==
  /\ policy \in {"newest", "last", "first"}
  /\ content \in [Writes -> Contents]
  /\ stage = [w \in Writes |-> "open"]
  /\ latest = {}
  /\ since = 0

Advance(w, s) ==
  /\ stage[w] = "open"
  /\ stage' = [stage EXCEPT ![w] = s]
  /\ UNCHANGED <<policy, content>>

\* The newest write counts, whenever it gets there ...
StoreNewer(w) ==
  /\ policy = "newest" /\ w > since
  /\ Advance(w, "stored")
  /\ latest' = {content[w]} /\ since' = w

\* ... so a write that is late changes nothing, nor may one of a payload that
\* was stored before.
StoreOlder(w) ==
  /\ policy = "newest" /\ since # 0
  /\ since > w \/ \E u \in Writes : stage[u] = "stored" /\ content[u] = content[w]
  /\ Advance(w, "stored")
  /\ UNCHANGED <<latest, since>>

\* The write that is stored last counts.
StoreLast(w) ==
  /\ policy = "last"
  /\ Advance(w, "stored")
  /\ latest' = {content[w]} /\ UNCHANGED since

\* The write that is stored first counts, for good.
StoreFirst(w) ==
  /\ policy = "first"
  /\ Advance(w, "stored")
  /\ latest' = IF latest = {} THEN {content[w]} ELSE latest
  /\ UNCHANGED since

\* A write that fails leaves nothing.
Fail(w) == Advance(w, "failed") /\ UNCHANGED <<latest, since>>

Next ==
  \E w \in Writes : StoreNewer(w) \/ StoreOlder(w) \/ StoreLast(w) \/ StoreFirst(w) \/ Fail(w)

Spec == Init /\ [][Next]_vars
=============================================================================
