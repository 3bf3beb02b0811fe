----------------------------- MODULE WebClient -----------------------------
(***************************************************************************)
(* The web client (App.tsx, api.ts) in one browser tab: who uses it, the   *)
(* Agent he looks at, the Run and the messages on the screen, and the      *)
(* loops that follow Runs - over a network that answers in any order.      *)
(*                                                                         *)
(* A request is a member of net; the server acts on it (Answered), and     *)
(* later its continuation runs (the actions named ...Arrives).  An effect  *)
(* that a change of the principal or of the selection triggers is a part   *)
(* of the step that changes it (Show).  The requests of one effect count   *)
(* as one, and so do the two refreshes at the end of a loop; both end when *)
(* the last of their answers is in.  The server is what the client sees of *)
(* it.  Texts, forms, panels, banners and the sign-in gates are left out:  *)
(* reported holds the Runs and Agents whose failure a banner or the notice *)
(* of a restricted view has told of.  The status error counts as ready.    *)
(***************************************************************************)
EXTENDS Naturals, FiniteSets

CONSTANTS
    Principals, Agents, Runs,
    Target,            \* [Runs -> Agents]
    Lists,             \* [Principals -> SUBSET Agents]: may see the Agent
    Views,             \* [Principals -> SUBSET Agents]: has view_runs
    None,
    Scenarios          \* bounds: [does, runs, gestures, faults], what the user does,
                       \* which Runs there may be, how many gestures and failing answers

Statuses == {"ready", "busy", "stopped"}

\* What the server answers: a Run, or a list of Agents with their statuses.
AgentLists == UNION {[S -> Statuses] : S \in SUBSET Agents}
Data == {None} \cup AgentLists \cup [run : Runs, active : BOOLEAN]
Reply == [kind : {"ok", "failed", "forbidden"}, data : Data]

ASSUME WebClientAssumption ==
    /\ None \notin Reply
    /\ Target \in [Runs -> Agents]
    /\ Lists \in [Principals -> SUBSET Agents] /\ Views \in [Principals -> SUBSET Agents]
    /\ \A s \in Scenarios : s.gestures \in Nat /\ s.faults \in Nat

VARIABLES
    status, run, latest,         \* server: Agents, Runs, the newest Run of each Agent
    net,                         \* requests under way
    user,                        \* currentUser, and who the requests are made as
    agents,                      \* the Agents in the sidebar, with their statuses
    selectedId,
    messages,                    \* the Agent whose messages are shown
    activeRun,                   \* [run, active], as last heard
    busy,                        \* a lifecycle action is under way
    poll,                        \* where the loop that follows each Run is
    sending,                     \* the loops that a sendMessage waits for
    reported,                    \* history: what the user was told he cannot follow
    scenario,                    \* one of Scenarios, chosen at first
    gestures, faults             \* history: counters for the bounds

server == <<status, run, latest>>
loops == <<poll, sending>>
vars == <<server, net, user, agents, selectedId, messages, activeRun, busy, loops,
          reported, scenario, gestures, faults>>

Reads == {"list", "relist", "created", "refresh"}
Acts == {"start", "stop", "save", "delete"}
Ops == Reads \cup Acts \cup {"load", "send", "create"}

Active(a) == latest[a] # None /\ run[latest[a]] = "active"

TypeOK ==
    /\ status \in [Agents -> Statuses \cup {"absent"}]
    /\ run \in [Runs -> {"none", "active", "over", "deleted"}]
    /\ latest \in [Agents -> Runs \cup {None}]
    /\ net \subseteq [n : Nat, op : Ops, about : Agents \cup Runs \cup {None},
                      by : Principals \cup {None}, answer : Reply \cup {None}]
    /\ \A c, d \in net : c.n = d.n => c = d
    /\ user \in Principals \cup {None}
    /\ DOMAIN agents \subseteq Agents /\ \A a \in DOMAIN agents : agents[a] \in Statuses
    /\ selectedId \in Agents \cup {None} /\ messages \in Agents \cup {None}
    /\ activeRun # None => activeRun.run \in Runs /\ activeRun.active \in BOOLEAN
    /\ busy \in BOOLEAN
    /\ poll \in [Runs -> {"off", "sleeping", "active", "over", "forbidden", "failed",
                          "refreshing"}]
    /\ sending \subseteq Runs /\ reported \subseteq Runs \cup Agents
    /\ scenario \in Scenarios
    /\ gestures \in 0..scenario.gestures /\ faults \in 0..scenario.faults

\* A request is made as the principal of the moment it is made at.
Fresh(N) == CHOOSE n \in 0..Cardinality(N) : \A c \in N : c.n # n

With(N, op, about, by) ==
    N \cup {[n |-> Fresh(N), op |-> op, about |-> about, by |-> by, answer |-> None]}

NoAgents == [a \in {} |-> "ready"]

\* The Agents are there, or one is to be created; the user has chosen who he is.
Init ==
    /\ scenario \in Scenarios
    /\ status \in [Agents -> {"ready", "absent"}]
    /\ \A a \in Agents : status[a] = "ready" \/ "create" \in scenario.does
    /\ run = [r \in Runs |-> "none"] /\ latest = [a \in Agents |-> None]
    /\ user \in Principals
    /\ net = With({}, "list", None, user)
    /\ agents = NoAgents /\ selectedId = None
    /\ messages = None /\ activeRun = None /\ busy = FALSE
    /\ poll = [r \in Runs |-> "off"] /\ sending = {}
    /\ reported = {}
    /\ gestures = 0 /\ faults = 0

-----------------------------------------------------------------------------
(* The principal and the selection become u and s.  The effect clears the   *)
(* Run, and loads the messages and Runs of the Agent that is shown.         *)
Show(u, s, shown, N) ==
    /\ user' = u /\ selectedId' = s
    /\ IF u = None \/ (u = user /\ s = selectedId)
       THEN messages' = shown /\ net' = N /\ UNCHANGED activeRun
       ELSE /\ activeRun' = None
            /\ messages' = IF s = None THEN None ELSE shown
            /\ net' = IF s = None THEN N ELSE With(N, "load", s, u)

Gesture(what) ==
    /\ what \in scenario.does /\ gestures < scenario.gestures
    /\ gestures' = gestures + 1
    /\ UNCHANGED <<server, reported, scenario, faults>>

\* chooseUser, and switchUser, which empties the sidebar first.
ChooseUser(u) ==
    /\ Gesture("choose") /\ u # user
    /\ Show(u, None, None, With(net, "list", None, u))
    /\ agents' = IF user = None THEN agents ELSE NoAgents
    /\ UNCHANGED <<busy, loops>>

SignOut ==
    /\ Gesture("sign out") /\ user # None
    /\ Show(None, None, None, net)
    /\ agents' = NoAgents
    /\ UNCHANGED <<busy, loops>>

Select(a) ==
    /\ Gesture("select") /\ user # None /\ a \in DOMAIN agents
    /\ Show(user, a, messages, net)
    /\ UNCHANGED <<agents, busy, loops>>

\* What the buttons and the composer allow.
Shown == user # None /\ selectedId \in DOMAIN agents
Idle == agents[selectedId] # "busy"
Sendable == /\ agents[selectedId] = "ready"
            /\ activeRun # None => ~activeRun.active

Request(op, about) ==
    /\ net' = With(net, op, about, user)
    /\ UNCHANGED <<user, agents, selectedId, messages, activeRun, loops>>

Send(r) ==
    /\ r \in scenario.runs /\ Gesture("send") /\ Shown /\ Sendable
    /\ Target[r] = selectedId /\ run[r] = "none"
    /\ \A c \in net : c.about # r
    /\ Request("send", r)
    /\ UNCHANGED busy

\* toggleAgent, saveAgent, deleteAgent.  The settings that are open stay so when the
\* Agent gets busy, and can be saved: the server refuses that.
Act(op) ==
    /\ Gesture(op) /\ Shown /\ ~busy
    /\ op = "start" => agents[selectedId] = "stopped"
    /\ op = "stop" => agents[selectedId] # "stopped"
    /\ op = "delete" => Idle
    /\ busy' = TRUE
    /\ Request(op, selectedId)

CreateAgent(a) ==
    /\ Gesture("create") /\ user # None /\ ~busy /\ status[a] = "absent"
    /\ busy' = TRUE
    /\ Request("create", a)

-----------------------------------------------------------------------------
(* The server: what it answers and does, unless it refuses.  The scopes     *)
(* that starting, stopping, saving and deleting need are in Authorization.  *)
Visible(u) == {a \in Agents : u # None /\ status[a] # "absent" /\ a \in Lists[u]}
MaySee(u, a) == a \in Visible(u) /\ a \in Views[u]

Serves(c) ==
    /\ c.by # None
    /\ c.op = "send" => Target[c.about] \in Visible(c.by) /\ status[Target[c.about]] = "ready"
    /\ c.op \in Acts => c.about \in Visible(c.by)
    /\ c.op \in {"start", "save"} => status[c.about] # "busy"

MayRefuse(c) == ~Serves(c) \/ c.op \in Acts

Ok(data) == [kind |-> "ok", data |-> data]
Failed == [kind |-> "failed", data |-> None]
Forbidden(data) == [kind |-> "forbidden", data |-> data]

\* Bug: the first of no Runs is taken for a Run.
FirstOfRuns(a) == [run |-> latest[a], active |-> Active(a)]

Newest(a) == IF latest[a] = None THEN None ELSE [run |-> latest[a], active |-> Active(a)]

Listed(u) == [a \in Visible(u) |-> status[a]]

\* Messages and Runs: 404, 403, or what was asked for.
ViewOf(u, a, data) ==
    CASE status[a] = "absent" -> Failed
      [] status[a] # "absent" /\ ~MaySee(u, a) -> Forbidden(data)
      [] status[a] # "absent" /\ MaySee(u, a) -> Ok(data)

Answer(c) ==
    CASE c.op = "load" -> ViewOf(c.by, c.about, Newest(c.about))
      [] c.op = "refresh" -> ViewOf(c.by, Target[c.about], Listed(c.by))
      [] c.op \in Reads \ {"refresh"} -> Ok(Listed(c.by))
      [] c.op \notin Reads \cup {"load"} -> Ok(None)

Started(r) ==
    /\ run' = [run EXCEPT ![r] = "active"]
    /\ latest' = [latest EXCEPT ![Target[r]] = r]
    /\ status' = [status EXCEPT ![Target[r]] = "busy"]

Becomes(a, next) == status' = [status EXCEPT ![a] = next]

Served(c) ==
    \/ c.op \in Reads \cup {"load", "save"} /\ UNCHANGED server
    \/ c.op = "send" /\ Started(c.about)
    \/ /\ c.op \in {"start", "create"}
       /\ Becomes(c.about, "ready")
       /\ UNCHANGED <<run, latest>>
    \/ /\ c.op = "stop"
       /\ Becomes(c.about, "stopped")
       /\ run' = IF Active(c.about) THEN [run EXCEPT ![latest[c.about]] = "over"] ELSE run
       /\ UNCHANGED latest
    \/ /\ c.op = "delete"
       /\ Becomes(c.about, "absent")
       /\ run' = [r \in Runs |-> IF Target[r] = c.about /\ run[r] # "none"
                                 THEN "deleted" ELSE run[r]]
       /\ latest' = [latest EXCEPT ![c.about] = None]

Replied(c, answer) == net' = (net \ {c}) \cup {[c EXCEPT !.answer = answer]}

\* An answer may also fail to come, whether or not the server did its part.
Fault ==
    /\ faults < scenario.faults
    /\ faults' = faults + 1

screen == <<user, agents, selectedId, messages, activeRun, busy, loops, reported,
            scenario, gestures>>

Answered(c) ==
    /\ c.answer = None
    /\ \/ Serves(c) /\ Served(c) /\ Replied(c, Answer(c)) /\ UNCHANGED faults
       \/ Serves(c) /\ Served(c) /\ Replied(c, Failed) /\ Fault
       \/ MayRefuse(c) /\ Replied(c, Failed) /\ UNCHANGED <<server, faults>>
       \/ Replied(c, Failed) /\ Fault /\ UNCHANGED server
    /\ UNCHANGED screen

RunEnds(r) ==
    /\ run[r] = "active"
    /\ run' = [run EXCEPT ![r] = "over"]
    /\ status' = [status EXCEPT ![Target[r]] = IF @ = "busy" THEN "ready" ELSE @]
    /\ UNCHANGED <<latest, net, screen, faults>>

\* Another principal, or another tab.
OthersSend(r) ==
    /\ r \in scenario.runs /\ "others send" \in scenario.does
    /\ \A c \in net : c.about # r
    /\ status[Target[r]] = "ready" /\ run[r] = "none"
    /\ Started(r)
    /\ UNCHANGED <<net, screen, faults>>

-----------------------------------------------------------------------------
\* Bug: only the Run that was just sent is followed.
FollowSent(r, forSend) ==
    IF poll[r] # "off" \/ ~forSend THEN UNCHANGED loops
    ELSE poll' = [poll EXCEPT ![r] = "sleeping"] /\ sending' = sending \cup {r}

\* pollRun returns at once when the Run is followed already.
Follow(r, forSend) ==
    IF poll[r] # "off" THEN UNCHANGED loops
    ELSE /\ poll' = [poll EXCEPT ![r] = "sleeping"]
         /\ sending' = IF forSend THEN sending \cup {r} ELSE sending

Selected(a) == selectedId = a

\* The first of the Agents is selected when the selected one is gone.
Reselected(listed) ==
    IF selectedId \in DOMAIN listed THEN selectedId
    ELSE IF DOMAIN listed = {} THEN None ELSE CHOOSE a \in DOMAIN listed : TRUE

\* refreshAgents, with what its caller does next.
AgentsArrive(c) ==
    /\ c.op \in {"list", "relist", "created"}
    /\ busy' = IF c.op = "list" THEN busy ELSE FALSE
    /\ \/ /\ c.answer.kind = "ok"
          /\ agents' = c.answer.data
          /\ Show(user, IF c.op = "created" THEN c.about ELSE Reselected(c.answer.data),
                  messages, net \ {c})
       \/ /\ c.answer.kind # "ok"
          /\ net' = net \ {c}
          /\ UNCHANGED <<user, agents, selectedId, messages, activeRun>>
    /\ UNCHANGED <<loops, reported>>

\* The effect's continuation: a refusal empties the messages, whatever is shown.
ViewArrives(c) ==
    LET newest == c.answer.data IN
    /\ c.op = "load"
    /\ \/ /\ c.answer.kind = "ok" /\ Selected(c.about)
          /\ messages' = c.about
          /\ activeRun' = newest
          /\ IF newest # None /\ newest.active THEN Follow(newest.run, FALSE)
             ELSE UNCHANGED loops
          /\ UNCHANGED reported
       \/ /\ c.answer.kind = "ok" /\ ~Selected(c.about)
          /\ UNCHANGED <<messages, activeRun, loops, reported>>
       \/ /\ c.answer.kind = "forbidden"
          /\ messages' = None
          /\ reported' = reported \cup {c.about}
          /\ UNCHANGED <<activeRun, loops>>
       \/ /\ c.answer.kind = "failed"
          /\ reported' = reported \cup {c.about}
          /\ UNCHANGED <<messages, activeRun, loops>>
    /\ net' = net \ {c}
    /\ UNCHANGED <<user, agents, selectedId, busy>>

\* sendMessage after its POST, until it follows the Run.
SendArrives(c) ==
    LET a == Target[c.about] IN
    /\ c.op = "send"
    /\ \/ /\ c.answer.kind = "ok"
          /\ activeRun' = IF Selected(a) THEN [run |-> c.about, active |-> TRUE] ELSE activeRun
          /\ agents' = [b \in DOMAIN agents |-> IF b = a THEN "busy" ELSE agents[b]]
          /\ Follow(c.about, TRUE)
          /\ net' = net \ {c}
          /\ UNCHANGED reported
       \/ /\ c.answer.kind # "ok"
          /\ activeRun' = None
          /\ net' = With(net \ {c}, "list", None, user)
          /\ reported' = reported \cup {c.about}
          /\ UNCHANGED <<agents, loops>>
    /\ UNCHANGED <<user, selectedId, messages, busy>>

\* The lists are refreshed before the buttons come back.
ActArrives(c) ==
    /\ c.op \in Acts \cup {"create"}
    /\ \/ /\ c.answer.kind = "ok"
          /\ net' = With(net \ {c}, IF c.op = "create" THEN "created" ELSE "relist",
                         c.about, user)
          /\ UNCHANGED busy
       \/ /\ c.answer.kind # "ok"
          /\ net' = net \ {c}
          /\ busy' = FALSE
    /\ UNCHANGED <<user, agents, selectedId, messages, activeRun, loops, reported>>

-----------------------------------------------------------------------------
\* The loop of pollRun: wait and ask, show, and refresh the lists at the end.
Asks(r) ==
    /\ poll[r] = "sleeping"
    /\ \/ /\ poll' = [poll EXCEPT ![r] =
                CASE user = None \/ run[r] = "deleted" -> "failed"
                  [] user # None /\ run[r] # "deleted" /\ ~MaySee(user, Target[r]) -> "forbidden"
                  [] user # None /\ run[r] # "deleted" /\ MaySee(user, Target[r]) -> run[r]]
          /\ UNCHANGED faults
       \/ poll' = [poll EXCEPT ![r] = "failed"] /\ Fault
    /\ UNCHANGED <<server, net, user, agents, selectedId, messages, activeRun, busy,
                   sending, reported, scenario, gestures>>

\* Bug: shown whatever is selected by now.
ShowsAnyway(r, active) == activeRun' = [run |-> r, active |-> active]

\* Bug: only while the Run is active.
ShowsProgress(r, active) ==
    activeRun' = IF Selected(Target[r]) /\ active THEN [run |-> r, active |-> TRUE]
                 ELSE activeRun

ShowsRun(r, active) ==
    activeRun' = IF Selected(Target[r]) THEN [run |-> r, active |-> active] ELSE activeRun

\* The loop ends badly: the effect only reports, sendMessage also clears the Run.
LoopFails(r, N) ==
    /\ poll' = [poll EXCEPT ![r] = "off"]
    /\ sending' = sending \ {r}
    /\ reported' = reported \cup {r}
    /\ activeRun' = IF r \in sending THEN None ELSE activeRun
    /\ net' = IF r \in sending THEN With(N, "list", None, user) ELSE N

RunArrives(r) ==
    /\ \/ /\ poll[r] = "active" /\ ShowsRun(r, TRUE)
          /\ poll' = [poll EXCEPT ![r] = "sleeping"]
          /\ UNCHANGED <<net, sending, reported>>
       \/ /\ poll[r] = "over" /\ ShowsRun(r, FALSE)
          /\ poll' = [poll EXCEPT ![r] = "refreshing"]
          /\ net' = With(net, "refresh", r, user)
          /\ UNCHANGED <<sending, reported>>
       \/ /\ poll[r] = "forbidden"
          /\ poll' = [poll EXCEPT ![r] = "off"]
          /\ sending' = sending \ {r}
          /\ reported' = IF Selected(Target[r]) THEN reported \cup {r} ELSE reported
          /\ UNCHANGED <<net, activeRun>>
       \/ poll[r] = "failed" /\ LoopFails(r, net)
    /\ UNCHANGED <<server, user, agents, selectedId, messages, busy, scenario,
                   gestures, faults>>

\* The list is in even when the messages are refused.
LoopEnds(c) ==
    LET r == c.about
        shown == Selected(Target[r])
    IN
    /\ c.op = "refresh"
    /\ \/ /\ c.answer.kind # "failed"
          /\ agents' = c.answer.data
          /\ Show(user, Reselected(c.answer.data),
                  IF c.answer.kind = "ok" /\ shown THEN Target[r] ELSE messages, net \ {c})
          /\ poll' = [poll EXCEPT ![r] = "off"]
          /\ sending' = sending \ {r}
          /\ reported' = IF c.answer.kind = "forbidden" /\ shown THEN reported \cup {r}
                         ELSE reported
       \/ /\ c.answer.kind = "failed"
          /\ LoopFails(r, net \ {c})
          /\ UNCHANGED <<user, agents, selectedId, messages>>
    /\ UNCHANGED busy

Arrives(c) ==
    /\ c.answer # None
    /\ AgentsArrive(c) \/ ViewArrives(c) \/ SendArrives(c) \/ ActArrives(c) \/ LoopEnds(c)
    /\ UNCHANGED <<server, scenario, gestures, faults>>

-----------------------------------------------------------------------------
UserActs ==
    \/ \E u \in Principals : ChooseUser(u)
    \/ SignOut
    \/ \E a \in Agents : Select(a) \/ CreateAgent(a)
    \/ \E r \in Runs : Send(r)
    \/ \E op \in Acts : Act(op)

NetworkStep == \E c \in net : Answered(c) \/ Arrives(c)
LoopStep(r) == Asks(r) \/ RunArrives(r)

Next ==
    \/ UserActs \/ NetworkStep
    \/ \E r \in Runs : LoopStep(r) \/ RunEnds(r) \/ OthersSend(r)

Fairness ==
    /\ WF_vars(NetworkStep)
    /\ \A r \in Runs : WF_vars(LoopStep(r)) /\ WF_vars(RunEnds(r))

Spec == Init /\ [][Next]_vars /\ Fairness

-----------------------------------------------------------------------------
(* What is shown belongs to the Agent that is selected, however late the    *)
(* answers about another one come: the Run always, and the messages unless  *)
(* those of the selected Agent are being loaded or could not be.            *)
ShownIsSelected ==
    user # None =>
        /\ activeRun # None => Target[activeRun.run] = selectedId
        /\ messages \notin {None, selectedId} =>
              selectedId \in reported \/ \E c \in net : c.op = "load" /\ c.about = selectedId

(* A Run that is active and shown as active is followed by a loop, whatever *)
(* the user selected or whoever he became meanwhile, unless he was told     *)
(* that following it failed: no screen waits for a Run that nobody asks for.*)
ActiveRunIsFollowed ==
    user # None /\ activeRun # None =>
        (activeRun.active /\ run[activeRun.run] = "active"
            => poll[activeRun.run] # "off" \/ activeRun.run \in reported)

(* A loop that follows a Run comes to its end, and if the user still looks  *)
(* at its Agent then, the end is what he sees, or that it cannot be had.    *)
FollowedToTheEnd ==
    \A r \in Runs :
        poll[r] = "sleeping" ~> \/ activeRun # None /\ activeRun = [run |-> r, active |-> FALSE]
                                \/ selectedId # Target[r]
                                \/ r \in reported
=============================================================================
