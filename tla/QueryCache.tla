----------------------------- MODULE QueryCache -----------------------------
(***************************************************************************)
(* The dashboard's query cache (TanStack Query, configured by               *)
(* frontend/src/lib/query-client.ts) as a value per query key and operators *)
(* on it. A fetch is answered in two steps: the server reads (Served), the  *)
(* answer reaches the tab (Settled, Failed); what is written in between is  *)
(* missing from the answer.                                                 *)
(***************************************************************************)

CONSTANT None  \* null, undefined

QueryOf(Values) ==
  [data : Values \cup {None}, fresh : BOOLEAN,  \* not invalidated
   at : {"idle", "sent", "served", "failed"}, answer : Values \cup {None}]

NoQuery == [data |-> None, fresh |-> FALSE, at |-> "idle", answer |-> None]

Fetching(e) == e.at \in {"sent", "served"}

\* isLoading, isFetched
Loading(e) == e.data = None /\ Fetching(e)
Fetched(e) == e.data # None \/ e.at = "failed"

\* A fetch in flight is joined, not repeated.
Fetch(e) == IF Fetching(e) THEN e ELSE [e EXCEPT !.at = "sent"]

\* refetch() gives up a fetch in flight, but joins the very first one.
Refetch(e) ==
  IF e.data = None THEN Fetch(e) ELSE [e EXCEPT !.at = "sent", !.answer = None]

\* A component mounts or the window is focused: what is fresh is used as it is,
\* unless it is older than staleTime. Time is not modelled: it may be, or not.
Refresh(e, old) == IF e.fresh /\ ~old THEN e ELSE Fetch(e)

\* invalidateQueries refetches what is watched, the rest when it is next used.
Invalidate(e, watched) ==
  LET stale == [e EXCEPT !.fresh = FALSE] IN
  IF watched THEN Refetch(stale) ELSE stale

Served(e, v) == [e EXCEPT !.at = "served", !.answer = v]

\* setQueryData, and the arrival of an answer. The time of arrival counts, not
\* the time of reading.
WithData(e, v) == [e EXCEPT !.data = v, !.fresh = TRUE]
Settled(e) == [WithData(e, e.answer) EXCEPT !.at = "idle", !.answer = None]

\* The second failure in a row (retry: 1). The data are kept.
Failed(e) == [e EXCEPT !.at = "failed", !.answer = None]
=============================================================================
