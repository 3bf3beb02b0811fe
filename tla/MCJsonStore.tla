---------------------------- MODULE MCJsonStore ----------------------------
(***************************************************************************)
(* Three mutations, two of which exclude each other as two Sends do.       *)
(***************************************************************************)
EXTENDS JsonStore

CONSTANTS send1, send2, other

MCOps == {send1, send2, other}

MCExcludes ==
    [o \in MCOps |-> CASE o = send1 -> {send2}
                       [] o = send2 -> {send1}
                       [] OTHER     -> {}]

=============================================================================
