--------------------------- MODULE MCCodexRunner ---------------------------
(***************************************************************************)
(* Two turns of one Agent and two calls of cancel().                       *)
(***************************************************************************)
EXTENDS CodexRunner

CONSTANTS t1, t2, c1, c2

MCTurns == {t1, t2}
MCCancels == {c1, c2}
=============================================================================
