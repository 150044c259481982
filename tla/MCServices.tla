------------------------------- MODULE MCServices -------------------------------
(***************************************************************************)
(* Module Services for model checking: small constants, and one initial    *)
(* state for each service that is not looked at.                           *)
(***************************************************************************)
EXTENDS Services

MCBytes == [c \in {"b", "s", "p", "torn"} |-> IF c = "b" THEN 2 ELSE 1]

MCConfigs == {None, "root"}

MCCandidates == {<<>>, <<FALSE, TRUE>>}

MCGroups == {[s \in {"a", "b"} |-> s]} \cup [{"a", "b"} -> {"a"}]

\* The queue is played in order, and its end is the end of it or the start.
MCModes == {[repeat |-> r, shuffle |-> FALSE] : r \in {"none", "all"}}

Resting(f) ==
  /\ f # "accounts" =>
       configured = None /\ owner = "1" /\ ~users["1"].admin
  /\ f # "art" => cap = 0 /\ \A k \in DOMAIN rows : rows[k] = None
  /\ f # "monitor" => navidrome = "well"
  /\ f # "sonos" => on = {} /\ leader["a"] = "a" /\ leader["b"] = "b"
  /\ f # "log" => maxRows = 0

\* Repeat is off, as the store has it first, until the user sets it.
MCInit == Init /\ Resting(focus) /\ ui.mode.repeat = "none"

MCSpec == MCInit /\ [][Next]_all /\ Fairness
=============================================================================
