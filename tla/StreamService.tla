---------------------------- MODULE StreamService ----------------------------
(***************************************************************************)
(* What a caller of /rest/stream and the owner reading the activity page   *)
(* may rely on, whatever walk over sources, circuit breaker, row ids and   *)
(* retention lie underneath: a request is answered once, and the log says  *)
(* of it what really happened, once.                                       *)
(***************************************************************************)
CONSTANTS Stream, Source, None

VARIABLES
  answer,  \* answer[r]: None, the source that serves r, "refused" or "dropped"
  entry    \* entry[r]: "none", "open", "closed" or "forgotten" in the log

vars == <<answer, entry>>

Init == answer = [r \in Stream |-> None] /\ entry = [r \in Stream |-> "none"]

\* Retention forgets closed entries at any write, never an open one.
Trims(e) ==
  \A r \in Stream : entry'[r] = e[r] \/ (e[r] = "closed" /\ entry'[r] = "forgotten")

Serve(r, s) ==
  /\ answer[r] = None
  /\ answer' = [answer EXCEPT ![r] = s]
  /\ \/ entry' = [entry EXCEPT ![r] = "open"]
     \/ UNCHANGED entry

Refuse(r) ==
  /\ answer[r] = None
  /\ answer' = [answer EXCEPT ![r] = "refused"]
  /\ \/ Trims([entry EXCEPT ![r] = "closed"])
     \/ UNCHANGED entry

Drop(r) ==
  /\ answer[r] = None
  /\ answer' = [answer EXCEPT ![r] = "dropped"]
  /\ UNCHANGED entry

End(r) ==
  /\ answer[r] \in Source
  /\ entry[r] = "open"
  /\ Trims([entry EXCEPT ![r] = "closed"])
  /\ UNCHANGED answer

Trim == Trims(entry) /\ UNCHANGED answer

\* The owner clears the log.
Clear ==
  /\ entry' = [r \in Stream |-> IF entry[r] = "none" THEN "none" ELSE "forgotten"]
  /\ UNCHANGED answer

\* A crash closes what was open and answers nobody.
Crash ==
  /\ Trims([r \in Stream |-> IF entry[r] = "open" THEN "closed" ELSE entry[r]])
  /\ \A r \in Stream : answer'[r] = answer[r] \/ (answer[r] = None /\ answer'[r] = "dropped")

Next ==
  \/ \E r \in Stream : (\E s \in Source : Serve(r, s)) \/ Refuse(r) \/ Drop(r) \/ End(r)
  \/ Trim
  \/ Clear
  \/ Crash

Spec == Init /\ [][Next]_vars
=============================================================================
