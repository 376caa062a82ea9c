----------------------------- MODULE CachedQuery ----------------------------
(***************************************************************************)
(* A fetch of a query of TanStack Query: none, asked for, or answered by   *)
(* the server and on its way back.                                         *)
(***************************************************************************)
NoFetch == [state |-> "none", got |-> {}]
Asked == [state |-> "asked", got |-> {}]
Got(data) == [state |-> "read", got |-> {data}]

Fetches(Data) == [state : {"none", "asked", "read"}, got : SUBSET Data]

(* What the server answered.                                               *)
Answer(fetch) == CHOOSE data \in fetch.got : TRUE

(* invalidateQueries and refetchQueries of a query on screen: a fetch      *)
(* under way is replaced, but for the first one of the query, which has no *)
(* data yet.                                                               *)
Restart(loaded, fetch) == IF loaded \/ fetch.state = "none" THEN Asked ELSE fetch
=============================================================================
