------------------------------ MODULE MCProxy -------------------------------
(* Two concurrent requests and a collector job over two versions of the    *)
(* endpoint's content.                                                     *)
EXTENDS Proxy, TLC

Symmetry == Permutations(Requests) \cup Permutations(Versions)

\* `assured` is written and never read: only ArchivedNeverErrors is about it.  Of
\* the one row of a reference or an event all that is read is whether it is there.
View == <<redis, up, archiveType, IF archiveType = "time_series" THEN archived ELSE archived # {},
          pc, etag, reply, copy, answer, flightVars, job>>
=============================================================================
