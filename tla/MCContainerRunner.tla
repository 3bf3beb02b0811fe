------------------------- MODULE MCContainerRunner -------------------------
(***************************************************************************)
(* Turns of one Agent and calls of cancel().                               *)
(***************************************************************************)
EXTENDS ContainerRunner

CONSTANTS t1, t2, c1, c2

MCTurns == {t1, t2}
MCCancels == {c1, c2}

MCOneTurn == {t1}
MCOneCancel == {c1}
=============================================================================
