---------------------------- MODULE MCWebClient ----------------------------
(***************************************************************************)
(* An instance of WebClient: the owner sees two Agents, a friend may only  *)
(* send to one of them.                                                    *)
(***************************************************************************)
EXTENDS WebClient

CONSTANTS alice, bob, a1, a2, r1, r2

MCTarget == [r \in Runs |-> a1]
MCLists == [u \in Principals |-> IF u = alice THEN {a1, a2} ELSE {a1}]
MCScenarios ==
    { [does |-> {"select", "send", "others send"}, runs |-> {r1}, gestures |-> 3, faults |-> 0],
      [does |-> {"select", "others send"}, runs |-> {r1}, gestures |-> 2, faults |-> 1],
      [does |-> {"send", "select"}, runs |-> {r1, r2}, gestures |-> 2, faults |-> 1],
      [does |-> {"choose", "sign out", "others send"}, runs |-> {r1}, gestures |-> 2, faults |-> 0],
      [does |-> {"choose", "send"}, runs |-> {r1}, gestures |-> 2, faults |-> 0],
      [does |-> {"send", "start", "stop", "save", "delete"}, runs |-> {r1}, gestures |-> 2,
       faults |-> 1],
      [does |-> {"create", "select", "choose"}, runs |-> {}, gestures |-> 2, faults |-> 1] }

MCViews == [u \in Principals |-> IF u = alice THEN {a1, a2} ELSE {}]
=============================================================================
