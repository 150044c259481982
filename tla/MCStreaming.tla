----------------------------- MODULE MCStreaming -----------------------------
(***************************************************************************)
(* Two clients and a peer ask at once, for tracks held here, on one peer   *)
(* or on two; the log keeps one row or all of them.                        *)
(***************************************************************************)
EXTENDS Streaming

CONSTANTS p1

Rankings == {<<>>, <<p1, Local>>}
=============================================================================
