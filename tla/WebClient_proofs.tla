-------------------------- MODULE WebClient_proofs --------------------------
(***************************************************************************)
(* Proofs about WebClient: what is shown belongs to the selected Agent, and*)
(* an active Run on the screen is followed - for any principals, Agents,   *)
(* Runs, gestures and failures, and whatever the order of the answers.     *)
(***************************************************************************)
EXTENDS WebClient, FiniteSetTheorems, TLAPS

-----------------------------------------------------------------------------
(* The inductive invariant.                                                 *)

AboutAgents == {"load", "created", "create"} \cup Acts
IsCall(c) ==
    /\ c = [n |-> c.n, op |-> c.op, about |-> c.about, by |-> c.by, answer |-> c.answer]
    /\ c.op \in Ops /\ c.answer \in Reply \cup {None}
    /\ c.op \in AboutAgents => c.about \in Agents
    /\ c.op \in {"send", "refresh"} => c.about \in Runs

Shape ==
    /\ status \in [Agents -> Statuses \cup {"absent"}]
    /\ run \in [Runs -> {"none", "active", "over", "deleted"}]
    /\ latest \in [Agents -> Runs \cup {None}]
    /\ poll \in [Runs -> {"off", "sleeping", "active", "over", "forbidden", "failed",
                          "refreshing"}]
    /\ DOMAIN agents \subseteq Agents /\ selectedId \in Agents \cup {None}

\* A Run that somebody heard of was started once.
IsRun(data, a) ==
    /\ data.run \in Runs /\ data.active \in BOOLEAN
    /\ Target[data.run] = a /\ run[data.run] # "none"

\* What an answer that is under way says of the server stays true.
CallOK(c) ==
    /\ IsCall(c)
    /\ c.op = "load" /\ c.answer # None /\ c.answer.kind = "ok" /\ c.answer.data # None
          => IsRun(c.answer.data, c.about)
    /\ c.op \in Reads /\ c.answer # None /\ (c.answer.kind = "ok" \/
          (c.op = "refresh" /\ c.answer.kind # "failed"))
          => DOMAIN c.answer.data \subseteq Agents
    /\ c.op = "send" /\ c.answer = None => run[c.about] = "none"
    /\ c.op = "send" /\ c.answer # None /\ c.answer.kind = "ok" => run[c.about] # "none"
    /\ c.op = "refresh" => poll[c.about] = "refreshing"

\* A Run is sent once, and its loop refreshes once.
Single(N) ==
    \A c, d \in N : c.op = d.op /\ c.op \in {"send", "refresh"} /\ c.about = d.about => c = d

CallsOK == (\A c \in net : CallOK(c)) /\ Single(net)

RunsOK ==
    /\ \A a \in Agents : latest[a] # None => Target[latest[a]] = a /\ run[latest[a]] # "none"
    /\ \A r \in Runs : /\ poll[r] # "off" => run[r] # "none"
                       /\ poll[r] \in {"over", "refreshing"} => run[r] \in {"over", "deleted"}
    /\ activeRun # None => activeRun.run \in Runs /\ run[activeRun.run] # "none"

Inv == Shape /\ CallsOK /\ RunsOK /\ ShownIsSelected /\ ActiveRunIsFollowed

\* The invariant holds before the first render.
LEMMA InitOK == Init => Inv
<1> SUFFICES ASSUME Init PROVE Inv
  OBVIOUS
<1>1. Shape /\ RunsOK /\ ShownIsSelected /\ ActiveRunIsFollowed
  <2>1. status \in [Agents -> Statuses \cup {"absent"}] /\ DOMAIN agents \subseteq Agents
    BY DEF Init, NoAgents, Statuses
  <2>2. Shape
    BY <2>1 DEF Init, Shape
  <2> QED
    BY <2>2 DEF Init, RunsOK, ShownIsSelected, ActiveRunIsFollowed
<1>2. CallsOK
  <2>1. \A c \in net : IsCall(c) /\ c.op = "list" /\ c.answer = None
    BY DEF Init, With, IsCall, Ops, Reads, AboutAgents, Acts
  <2> QED
    BY <2>1 DEF CallsOK, CallOK, Single
<1> QED
  BY <1>1, <1>2 DEF Inv

-----------------------------------------------------------------------------
(* New requests.                                                            *)

\* A request without an answer, which is neither a message nor a last refresh.
IsPlain(c) == IsCall(c) /\ c.answer = None /\ c.op \notin {"send", "refresh"}

\* New requests that carry no Run cannot break what is said of the ones under way.
LEMMA PlainCalls ==
    ASSUME Inv, run' = run,
           \A c \in net' : c \in net \/ IsPlain(c),
           \A c \in net : c \in net' /\ c.op = "refresh" => poll'[c.about] = "refreshing"
    PROVE  CallsOK'
<1>1. ASSUME NEW c \in net' PROVE CallOK(c)'
  BY DEF Inv, CallsOK, CallOK, IsRun, IsPlain, IsCall
<1>2. Single(net')
  BY DEF Inv, CallsOK, Single, IsPlain
<1> QED
  BY <1>1, <1>2 DEF CallsOK, Single

\* A request that is added carries no answer yet.
LEMMA WithPlain ==
    ASSUME NEW N, NEW op, NEW about, NEW by, op \in Ops \ {"send", "refresh"},
           op \in AboutAgents => about \in Agents
    PROVE  /\ \A c \in With(N, op, about, by) :
                 c \in N \/ (IsPlain(c) /\ c.op = op /\ c.about = about)
           /\ N \subseteq With(N, op, about, by)
           /\ \E c \in With(N, op, about, by) : c.op = op /\ c.about = about
<1> DEFINE x == [n |-> Fresh(N), op |-> op, about |-> about, by |-> by, answer |-> None]
<1>1. With(N, op, about, by) = N \cup {x}
  BY DEF With
<1>2. IsPlain(x) /\ x.op = op /\ x.about = about
  BY DEF IsPlain, IsCall
<1> HIDE DEF x
<1> QED
  BY <1>1, <1>2

(* A change of the principal or of the selection empties the Run and loads  *)
(* what is selected now.                                                    *)
LEMMA ShowOK ==
    ASSUME NEW u, NEW s \in Agents \cup {None}, NEW shown, NEW N, Show(u, s, shown, N)
    PROVE  /\ \A c \in net' : c \in N \/ (IsPlain(c) /\ c.op = "load")
           /\ N \subseteq net'
           /\ user' = u /\ selectedId' = s
           /\ user' = None \/ (user' = user /\ s = selectedId) => activeRun' = activeRun
           /\ ~(user' = None \/ (user' = user /\ s = selectedId)) => activeRun' = None
           /\ messages' \in {None, shown}
           /\ user' # None /\ messages' # None =>
                 \/ user' = user /\ s = selectedId
                 \/ \E c \in net' : c.op = "load" /\ c.about = s
<1>1. CASE u = None \/ (u = user /\ s = selectedId)
  BY <1>1 DEF Show
<1>2. CASE ~(u = None \/ (u = user /\ s = selectedId)) /\ s = None
  BY <1>2 DEF Show
<1>3. CASE ~(u = None \/ (u = user /\ s = selectedId)) /\ s # None
  <2>1. /\ \A c \in With(N, "load", s, u) : c \in N \/ (IsPlain(c) /\ c.op = "load")
        /\ N \subseteq With(N, "load", s, u)
        /\ \E c \in With(N, "load", s, u) : c.op = "load" /\ c.about = s
    BY <1>3, WithPlain DEF Ops, AboutAgents
  <2>2. user' = u /\ selectedId' = s /\ activeRun' = None /\ messages' = shown
        /\ net' = With(N, "load", s, u)
    BY <1>3 DEF Show
  <2> QED
    BY <1>3, <2>1, <2>2
<1> QED
  BY <1>1, <1>2, <1>3

(* What the two properties need of a step that changes the screen by Show.  *)
LEMMA ShownOK ==
    ASSUME Inv, NEW u, NEW s \in Agents \cup {None}, NEW shown, NEW N, Show(u, s, shown, N),
           run' = run, reported \subseteq reported',
           \A c \in net : c.op = "load" => c \in N,
           user = u => shown \in {messages, None, selectedId},
           u # None /\ user # u => shown = None,
           \A r \in Runs : poll[r] # "off" => poll'[r] # "off" \/ run[r] # "active" \/ r \in reported'
    PROVE  /\ activeRun' # None => activeRun'.run \in Runs /\ run'[activeRun'.run] # "none"
           /\ ShownIsSelected' /\ ActiveRunIsFollowed'
<1>1. activeRun' \in {None, activeRun}
  BY ShowOK
<1>2. user' # None /\ activeRun' # None =>
          activeRun' = activeRun /\ user' = user /\ selectedId' = selectedId
  BY ShowOK
<1>3. ShownIsSelected'
  <2> SUFFICES ASSUME user' # None
               PROVE  /\ activeRun' # None => Target[activeRun'.run] = selectedId'
                      /\ messages' \notin {None, selectedId'} =>
                            \/ selectedId' \in reported'
                            \/ \E c \in net' : c.op = "load" /\ c.about = selectedId'
    BY DEF ShownIsSelected
  <2>1. activeRun' # None => Target[activeRun'.run] = selectedId'
    BY <1>2 DEF Inv, ShownIsSelected
  <2>2. ASSUME messages' \notin {None, selectedId'}
        PROVE  \/ selectedId' \in reported'
               \/ \E c \in net' : c.op = "load" /\ c.about = selectedId'
    <3>1. CASE user' = user /\ s = selectedId
      <4>1. messages' = messages /\ selectedId' = selectedId /\ N \subseteq net'
        BY <2>2, <3>1, ShowOK
      <4> QED
        BY <2>2, <3>1, <4>1 DEF Inv, ShownIsSelected
    <3>2. CASE ~(user' = user /\ s = selectedId)
      BY <2>2, <3>2, ShowOK
    <3> QED
      BY <3>1, <3>2
  <2> QED
    BY <2>1, <2>2
<1>4. ActiveRunIsFollowed'
  BY <1>2 DEF Inv, ActiveRunIsFollowed, RunsOK
<1> QED
  BY <1>1, <1>3, <1>4 DEF Inv, RunsOK

-----------------------------------------------------------------------------
(* What the user does.                                                      *)

\* A step that asks for something and changes nothing on the screen.
LEMMA RequestOK ==
    ASSUME Inv, NEW op \in Ops \ {"send", "refresh"}, NEW about, Request(op, about),
           op \in AboutAgents => about \in Agents,
           UNCHANGED <<server, reported>>
    PROVE  Inv'
<1>1. /\ net' = With(net, op, about, user)
      /\ UNCHANGED <<status, run, latest, reported, user, agents, selectedId, messages,
                     activeRun, poll>>
  BY DEF Request, server, loops
<1>2. Shape' /\ RunsOK' /\ ActiveRunIsFollowed'
  BY <1>1 DEF Inv, Shape, RunsOK, ActiveRunIsFollowed
<1>3. \A c \in net' : c \in net \/ IsPlain(c)
  BY <1>1, WithPlain
<1>4. net \subseteq net'
  BY <1>1, WithPlain
<1>5. CallsOK'
  BY <1>1, <1>3, PlainCalls DEF Inv, CallsOK, CallOK
<1>6. ShownIsSelected'
  BY <1>1, <1>4 DEF Inv, ShownIsSelected
<1> QED
  BY <1>2, <1>5, <1>6 DEF Inv

\* A step that changes the principal or the selection, and no Run or loop.
LEMMA SelectionOK ==
    ASSUME Inv, NEW u, NEW s \in Agents \cup {None}, NEW shown, NEW N, Show(u, s, shown, N),
           \A c \in N : c \in net \/ IsPlain(c),
           \A c \in net : c.op = "load" => c \in N,
           user = u => shown \in {messages, None, selectedId},
           u # None /\ user # u => shown = None,
           DOMAIN agents' \subseteq Agents,
           UNCHANGED <<server, loops, reported>>
    PROVE  Inv'
<1>1. UNCHANGED <<status, run, latest, poll, reported>>
  BY DEF server, loops
<1>2. \A c \in net' : c \in net \/ IsPlain(c)
  BY ShowOK
<1>3. CallsOK'
  BY <1>1, <1>2, PlainCalls DEF Inv, CallsOK, CallOK
<1>4. Shape'
  BY <1>1, ShowOK DEF Inv, Shape
<1>5. /\ activeRun' # None => activeRun'.run \in Runs /\ run'[activeRun'.run] # "none"
      /\ ShownIsSelected' /\ ActiveRunIsFollowed'
  BY <1>1, ShownOK
<1>6. RunsOK'
  BY <1>1, <1>5 DEF Inv, RunsOK
<1> QED
  BY <1>3, <1>4, <1>5, <1>6 DEF Inv

\* The gestures keep the invariant.
LEMMA UserActsOK ==
    ASSUME Inv, UserActs
    PROVE  Inv'
<1>1. Shape
  BY DEF Inv
<1>2. ASSUME NEW u \in Principals, ChooseUser(u) PROVE Inv'
  <2> DEFINE N == With(net, "list", None, u)
  <2>1. \A c \in N : c \in net \/ IsPlain(c)
    BY WithPlain DEF Ops, Reads, AboutAgents, Acts
  <2>2. net \subseteq N
    BY WithPlain DEF Ops, Reads, AboutAgents, Acts
  <2>3. DOMAIN agents' \subseteq Agents /\ Show(u, None, None, N)
        /\ UNCHANGED <<server, loops, reported>>
    BY <1>1, <1>2 DEF ChooseUser, Gesture, Shape, NoAgents
  <2> HIDE DEF N
  <2> QED
    BY <2>1, <2>2, <2>3, SelectionOK
<1>3. CASE SignOut
  <2>1. DOMAIN agents' \subseteq Agents /\ Show(None, None, None, net)
        /\ UNCHANGED <<server, loops, reported>>
    BY <1>3 DEF SignOut, Gesture, NoAgents
  <2> QED
    BY <2>1, SelectionOK
<1>4. ASSUME NEW a \in Agents, Select(a) PROVE Inv'
  <2>1. DOMAIN agents' \subseteq Agents /\ Show(user, a, messages, net)
        /\ UNCHANGED <<server, loops, reported>>
    BY <1>1, <1>4 DEF Select, Gesture, Shape
  <2> QED
    BY <2>1, SelectionOK
<1>5. ASSUME NEW a \in Agents, CreateAgent(a) PROVE Inv'
  <2>1. Request("create", a) /\ UNCHANGED <<server, reported>>
    BY <1>5 DEF CreateAgent, Gesture
  <2> QED
    BY <2>1, RequestOK DEF Ops
<1>6. ASSUME NEW op \in Acts, Act(op) PROVE Inv'
  <2>1. Request(op, selectedId) /\ selectedId \in Agents /\ UNCHANGED <<server, reported>>
    BY <1>1, <1>6 DEF Act, Gesture, Shown, Shape
  <2>2. op \in Ops \ {"send", "refresh"}
    BY DEF Ops, Acts
  <2> QED
    BY <2>1, <2>2, RequestOK
<1>7. ASSUME NEW r \in Runs, Send(r) PROVE Inv'
  <2> DEFINE x == [n |-> Fresh(net), op |-> "send", about |-> r, by |-> user, answer |-> None]
  <2>1. /\ net' = net \cup {x} /\ run[r] = "none" /\ \A c \in net : c.about # r
        /\ UNCHANGED <<status, run, latest, reported, user, agents, selectedId, messages,
                       activeRun, poll>>
    BY <1>7 DEF Send, Gesture, Request, With, server, loops
  <2>2. IsCall(x) /\ x.op = "send" /\ x.about = r /\ x.answer = None
    BY DEF IsCall, Ops, AboutAgents, Acts
  <2> HIDE DEF x
  <2>3. CallsOK'
    <3>1. ASSUME NEW c \in net' PROVE CallOK(c)'
      BY <2>1, <2>2 DEF Inv, CallsOK, CallOK, IsRun, IsCall, Reads
    <3>2. Single(net')
      BY <2>1, <2>2 DEF Inv, CallsOK, Single
    <3> QED
      BY <3>1, <3>2 DEF CallsOK, Single
  <2> QED
    BY <2>1, <2>3 DEF Inv, Shape, RunsOK, ShownIsSelected, ActiveRunIsFollowed
<1> QED
  BY <1>2, <1>3, <1>4, <1>5, <1>6, <1>7 DEF UserActs

-----------------------------------------------------------------------------
(* The server.                                                              *)

\* How a Run may go on at the server.
RunsGoOn ==
    \A r \in Runs : \/ run'[r] = run[r]
                    \/ run[r] = "none" /\ run'[r] = "active"
                    \/ run[r] = "active" /\ run'[r] = "over"
                    \/ run[r] # "none" /\ run'[r] = "deleted"

LatestOK ==
    \A a \in Agents : latest'[a] \in {None, latest[a]}
                      \/ (Target[latest'[a]] = a /\ run'[latest'[a]] = "active")

\* The screen and the loops stay true of a server that goes on.
LEMMA ServerOK ==
    ASSUME Inv, RunsGoOn, LatestOK, Shape', CallsOK',
           UNCHANGED <<user, selectedId, messages, activeRun, poll, reported>>,
           \A c \in net : c.op = "load" =>
              \E d \in net' : d.op = "load" /\ d.about = c.about
    PROVE  Inv'
<1>1. ShownIsSelected'
  BY DEF Inv, ShownIsSelected
<1>2. ActiveRunIsFollowed'
  <2> SUFFICES ASSUME user # None, activeRun # None, activeRun.active,
                      run'[activeRun.run] = "active"
               PROVE  poll[activeRun.run] # "off" \/ activeRun.run \in reported
    BY DEF ActiveRunIsFollowed
  <2>1. run[activeRun.run] = "active"
    BY DEF Inv, RunsOK, RunsGoOn
  <2> QED
    BY <2>1 DEF Inv, ActiveRunIsFollowed
<1>3. RunsOK'
  <2>1. \A a \in Agents : latest'[a] # None =>
           Target[latest'[a]] = a /\ run'[latest'[a]] # "none"
    BY DEF Inv, RunsOK, RunsGoOn, LatestOK, Shape
  <2>2. \A r \in Runs : /\ poll'[r] # "off" => run'[r] # "none"
                        /\ poll'[r] \in {"over", "refreshing"} => run'[r] \in {"over", "deleted"}
    BY DEF Inv, RunsOK, RunsGoOn
  <2>3. activeRun' # None => activeRun'.run \in Runs /\ run'[activeRun'.run] # "none"
    BY DEF Inv, RunsOK, RunsGoOn
  <2> QED
    BY <2>1, <2>2, <2>3 DEF RunsOK
<1> QED
  BY <1>1, <1>2, <1>3 DEF Inv

\* What a Run that starts changes on the server.
LEMMA StartedOK ==
    ASSUME Inv, NEW r \in Runs, Started(r), run[r] = "none"
    PROVE  /\ RunsGoOn /\ LatestOK
           /\ \A q \in Runs : q # r => run'[q] = run[q]
           /\ status' \in [Agents -> Statuses \cup {"absent"}]
           /\ run' \in [Runs -> {"none", "active", "over", "deleted"}]
           /\ latest' \in [Agents -> Runs \cup {None}]
BY WebClientAssumption DEF Inv, Shape, Started, RunsGoOn, LatestOK, Statuses

\* The end of a Run keeps the invariant.
LEMMA RunEndsOK ==
    ASSUME Inv, NEW r \in Runs, RunEnds(r)
    PROVE  Inv'
<1>1. /\ run[r] = "active" /\ run' = [run EXCEPT ![r] = "over"]
      /\ UNCHANGED <<latest, net, user, agents, selectedId, messages, activeRun, poll, reported>>
  BY DEF RunEnds, screen, loops
<1>2. RunsGoOn /\ LatestOK
  BY <1>1 DEF Inv, Shape, RunsGoOn, LatestOK
<1>3. Shape'
  <2>1. status' \in [Agents -> Statuses \cup {"absent"}]
    BY WebClientAssumption DEF Inv, Shape, RunEnds, Statuses
  <2> QED
    BY <1>1, <2>1 DEF Inv, Shape
<1>4. CallsOK'
  <2>1. ASSUME NEW c \in net PROVE CallOK(c)'
    BY <1>1 DEF Inv, Shape, CallsOK, CallOK, IsRun, IsCall
  <2> QED
    BY <1>1, <2>1 DEF Inv, CallsOK, Single
<1> QED
  BY <1>1, <1>2, <1>3, <1>4, ServerOK

\* A Run that somebody else starts keeps the invariant.
LEMMA OthersSendOK ==
    ASSUME Inv, NEW r \in Runs, OthersSend(r)
    PROVE  Inv'
<1>1. /\ run[r] = "none" /\ Started(r) /\ \A c \in net : c.about # r
      /\ UNCHANGED <<net, user, agents, selectedId, messages, activeRun, poll, reported>>
  BY DEF OthersSend, screen, loops
<1>2. /\ RunsGoOn /\ LatestOK
      /\ \A q \in Runs : q # r => run'[q] = run[q]
  BY <1>1, StartedOK
<1>3. Shape'
  BY <1>1, StartedOK DEF Inv, Shape
<1>4. CallsOK'
  <2>1. ASSUME NEW c \in net PROVE CallOK(c)'
    BY <1>1, <1>2 DEF Inv, CallsOK, CallOK, IsRun, IsCall, RunsGoOn
  <2> QED
    BY <1>1, <2>1 DEF Inv, CallsOK, Single
<1> QED
  BY <1>1, <1>2, <1>3, <1>4, ServerOK

\* What the server does for a request lets every Run go on.
LEMMA ServedOK ==
    ASSUME Inv, NEW c \in net, c.answer = None, Served(c)
    PROVE  /\ RunsGoOn /\ LatestOK
           /\ c.op = "send" => run'[c.about] # "none"
           /\ \A r \in Runs : run[r] = "none" /\ run'[r] # "none" => c.op = "send" /\ c.about = r
           /\ c.op \in Reads \cup {"load"} => UNCHANGED <<status, run, latest>>
           /\ status' \in [Agents -> Statuses \cup {"absent"}]
           /\ run' \in [Runs -> {"none", "active", "over", "deleted"}]
           /\ latest' \in [Agents -> Runs \cup {None}]
<1>1. Shape /\ CallOK(c) /\ IsCall(c) /\ RunsOK
  BY DEF Inv, CallsOK, CallOK
<1>2. CASE c.op \in Reads \cup {"load", "save"} /\ UNCHANGED server
  BY <1>1, <1>2 DEF server, Shape, RunsGoOn, LatestOK, Reads
<1>3. CASE c.op = "send" /\ Started(c.about)
  <2>1. c.about \in Runs /\ run[c.about] = "none"
    BY <1>1, <1>3 DEF IsCall, CallOK
  <2>2. run'[c.about] = "active"
    BY <1>1, <1>3, <2>1 DEF Started, Shape
  <2>3. c.op \notin Reads \cup {"load"}
    BY <1>3 DEF Reads
  <2> QED
    BY <1>3, <2>1, <2>2, <2>3, StartedOK
<1>4. CASE /\ c.op \in {"start", "create"}
           /\ Becomes(c.about, "ready")
           /\ UNCHANGED <<run, latest>>
  BY <1>1, <1>4 DEF Becomes, Shape, RunsGoOn, LatestOK, Reads, Statuses
<1>5. CASE /\ c.op = "stop"
           /\ Becomes(c.about, "stopped")
           /\ run' = IF Active(c.about) THEN [run EXCEPT ![latest[c.about]] = "over"] ELSE run
           /\ UNCHANGED latest
  <2>1. status' \in [Agents -> Statuses \cup {"absent"}]
    BY <1>1, <1>5 DEF Becomes, Shape, Statuses
  <2>2. /\ \A r \in Runs : run'[r] = run[r] \/ (run[r] = "active" /\ run'[r] = "over")
        /\ run' \in [Runs -> {"none", "active", "over", "deleted"}]
    BY <1>1, <1>5 DEF Active, Shape
  <2> QED
    BY <1>1, <1>5, <2>1, <2>2 DEF Shape, RunsGoOn, LatestOK, Reads
<1>6. CASE /\ c.op = "delete"
           /\ Becomes(c.about, "absent")
           /\ run' = [r \in Runs |-> IF Target[r] = c.about /\ run[r] # "none"
                                     THEN "deleted" ELSE run[r]]
           /\ latest' = [latest EXCEPT ![c.about] = None]
  <2>1. status' \in [Agents -> Statuses \cup {"absent"}]
    BY <1>1, <1>6 DEF Becomes, Shape
  <2>2. /\ \A r \in Runs : run'[r] = run[r] \/ (run[r] # "none" /\ run'[r] = "deleted")
        /\ run' \in [Runs -> {"none", "active", "over", "deleted"}]
    BY <1>1, <1>6 DEF Shape
  <2>3. /\ \A a \in Agents : latest'[a] \in {None, latest[a]}
        /\ latest' \in [Agents -> Runs \cup {None}]
    BY <1>1, <1>6 DEF Shape
  <2> QED
    BY <1>6, <2>1, <2>2, <2>3 DEF RunsGoOn, LatestOK, Reads
<1> QED
  BY <1>2, <1>3, <1>4, <1>5, <1>6 DEF Served

\* The answer to a request says what the server is.
LEMMA AnswerOK ==
    ASSUME Inv, NEW c \in net, c.answer = None
    PROVE  /\ Answer(c) \in Reply
           /\ c.op = "load" /\ Answer(c).kind = "ok" /\ Answer(c).data # None
                 => IsRun(Answer(c).data, c.about)
           /\ c.op \in Reads /\ (Answer(c).kind = "ok" \/
                (c.op = "refresh" /\ Answer(c).kind # "failed"))
                 => DOMAIN Answer(c).data \subseteq Agents
<1>1. Shape /\ IsCall(c) /\ RunsOK
  BY DEF Inv, CallsOK, CallOK
<1>2. Listed(c.by) \in Data /\ DOMAIN Listed(c.by) \subseteq Agents
  <2>1. Visible(c.by) \in SUBSET Agents /\ \A a \in Visible(c.by) : status[a] \in Statuses
    BY <1>1 DEF Visible, Shape
  <2>2. Listed(c.by) \in [Visible(c.by) -> Statuses]
    BY <2>1 DEF Listed
  <2> QED
    BY <2>1, <2>2 DEF Data, AgentLists
<1>3. None \in Data
  BY DEF Data
<1>4. CASE c.op = "load"
  <2> DEFINE a == c.about
  <2>1. a \in Agents
    BY <1>1, <1>4 DEF IsCall, AboutAgents
  <2>2. Newest(a) \in Data /\ (Newest(a) # None => IsRun(Newest(a), a))
    <3>1. CASE latest[a] = None
      BY <1>3, <3>1 DEF Newest
    <3>2. CASE latest[a] # None
      <4>1. latest[a] \in Runs /\ Target[latest[a]] = a /\ run[latest[a]] # "none"
        BY <1>1, <2>1, <3>2 DEF Shape, RunsOK
      <4>2. Active(a) \in BOOLEAN
        BY DEF Active
      <4>3. Newest(a) = [run |-> latest[a], active |-> Active(a)]
        BY <3>2 DEF Newest
      <4>4. Newest(a) \in [run : Runs, active : BOOLEAN]
        BY <4>1, <4>2, <4>3
      <4>5. Newest(a).run = latest[a] /\ Newest(a).active \in BOOLEAN
        BY <4>2, <4>3
      <4>6. Newest(a) \in Data
        BY <4>4 DEF Data
      <4>7. IsRun(Newest(a), a)
        BY <4>1, <4>5 DEF IsRun
      <4> QED
        BY <4>6, <4>7
    <3> QED
      BY <3>1, <3>2
  <2>3. Answer(c) = ViewOf(c.by, a, Newest(a))
    BY <1>4 DEF Answer, Reads
  <2>4. \/ Answer(c) = Failed \/ Answer(c) = Forbidden(Newest(a)) \/ Answer(c) = Ok(Newest(a))
    BY <2>3 DEF ViewOf
  <2>5. c.op \notin Reads
    BY <1>4 DEF Reads
  <2> HIDE DEF a
  <2>6. CASE Answer(c) = Failed
    BY <1>3, <2>5, <2>6 DEF Failed, Reply
  <2>7. CASE Answer(c) = Forbidden(Newest(a))
    BY <2>2, <2>5, <2>7 DEF Forbidden, Reply
  <2>8. CASE Answer(c) = Ok(Newest(a))
    BY <2>2, <2>5, <2>8 DEF Ok, Reply, a
  <2> QED
    BY <2>4, <2>6, <2>7, <2>8
<1>5. CASE c.op = "refresh"
  <2>1. Answer(c) = ViewOf(c.by, Target[c.about], Listed(c.by))
    BY <1>5 DEF Answer, Reads
  <2>2. \/ Answer(c) = Failed \/ Answer(c) = Forbidden(Listed(c.by)) \/ Answer(c) = Ok(Listed(c.by))
    <3>1. \/ status[Target[c.about]] = "absent"
          \/ status[Target[c.about]] # "absent" /\ ~MaySee(c.by, Target[c.about])
          \/ status[Target[c.about]] # "absent" /\ MaySee(c.by, Target[c.about])
      OBVIOUS
    <3> QED
      BY <2>1, <3>1 DEF ViewOf
  <2>3. CASE Answer(c) = Failed
    BY <1>3, <1>5, <2>3 DEF Failed, Reply
  <2>4. CASE Answer(c) = Forbidden(Listed(c.by))
    BY <1>2, <1>5, <2>4 DEF Forbidden, Reply
  <2>5. CASE Answer(c) = Ok(Listed(c.by))
    BY <1>2, <1>5, <2>5 DEF Ok, Reply
  <2> QED
    BY <2>2, <2>3, <2>4, <2>5
<1>6. CASE c.op \in Reads \ {"refresh"}
  <2>1. Answer(c) = Ok(Listed(c.by)) /\ c.op # "load"
    BY <1>6 DEF Answer, Reads
  <2> QED
    BY <1>2, <2>1 DEF Ok, Reply
<1>7. CASE c.op \notin Reads \cup {"load"}
  <2>1. Answer(c) = Ok(None)
    BY <1>7 DEF Answer, Reads
  <2> QED
    BY <1>3, <1>7, <2>1 DEF Ok, Reply
<1> QED
  BY <1>4, <1>5, <1>6, <1>7

\* The server's answer to a request is true when it is given.
LEMMA AnsweredOK ==
    ASSUME Inv, NEW c \in net, Answered(c)
    PROVE  Inv'
<1>1. /\ c.answer = None /\ IsCall(c) /\ CallOK(c)
      /\ UNCHANGED <<user, agents, selectedId, messages, activeRun, poll, reported>>
  BY DEF Answered, screen, loops, Inv, CallsOK, CallOK
<1>2. PICK ans : /\ Replied(c, ans)
                 /\ \/ Served(c) /\ ans \in {Answer(c), Failed}
                    \/ UNCHANGED server /\ ans = Failed
  BY DEF Answered
<1>3. Failed \in Reply /\ Failed.kind = "failed"
  BY DEF Failed, Reply, Data
<1>4. ans \in Reply /\ ans # None
  BY <1>1, <1>2, <1>3, AnswerOK, WebClientAssumption
<1>5. /\ RunsGoOn /\ LatestOK
      /\ c.op = "send" /\ ans.kind = "ok" => run'[c.about] # "none"
      /\ \A r \in Runs : run[r] = "none" /\ run'[r] # "none" => c.op = "send" /\ c.about = r
      /\ c.op \in Reads \cup {"load"} => UNCHANGED <<status, run, latest>>
      /\ status' \in [Agents -> Statuses \cup {"absent"}]
      /\ run' \in [Runs -> {"none", "active", "over", "deleted"}]
      /\ latest' \in [Agents -> Runs \cup {None}]
  <2>1. CASE Served(c)
    BY <1>1, <2>1, ServedOK
  <2>2. CASE UNCHANGED server /\ ans = Failed
    BY <1>3, <2>2 DEF server, RunsGoOn, LatestOK, Inv, Shape
  <2> QED
    BY <1>2, <2>1, <2>2
<1> DEFINE e == [c EXCEPT !.answer = ans]
<1>6. /\ net' = (net \ {c}) \cup {e}
      /\ e.op = c.op /\ e.about = c.about /\ e.answer = ans /\ IsCall(e)
  <2>1. e = [n |-> c.n, op |-> c.op, about |-> c.about, by |-> c.by, answer |-> ans]
    BY <1>1 DEF IsCall
  <2> QED
    BY <1>1, <1>2, <1>4, <2>1 DEF Replied, IsCall
<1> HIDE DEF e
<1>7. Shape'
  BY <1>1, <1>5 DEF Inv, Shape
<1>8. CallsOK'
  <2>1. ASSUME NEW d \in net, d # c PROVE CallOK(d)'
    <3>1. CallOK(d) /\ ~(c.op = "send" /\ d.op = "send" /\ c.about = d.about)
      BY <2>1 DEF Inv, CallsOK, Single
    <3>2. \A r \in Runs : run[r] # "none" => run'[r] # "none"
      BY <1>5 DEF RunsGoOn
    <3>3. d.op = "send" /\ run[d.about] = "none" => run'[d.about] = "none"
      BY <1>5, <3>1 DEF CallOK, IsCall
    <3> QED
      BY <1>1, <3>1, <3>2, <3>3 DEF CallOK, IsRun, IsCall
  <2>2. CallOK(e)'
    <3>1. c.op = "load" /\ ans.kind = "ok" /\ ans.data # None => IsRun(ans.data, c.about)
      BY <1>1, <1>2, <1>3, AnswerOK
    <3>2. c.op \in Reads /\ (ans.kind = "ok" \/ (c.op = "refresh" /\ ans.kind # "failed"))
             => DOMAIN ans.data \subseteq Agents
      BY <1>1, <1>2, <1>3, AnswerOK
    <3>3. c.op = "load" => run' = run
      BY <1>5
    <3> QED
      BY <1>1, <1>4, <1>5, <1>6, <3>1, <3>2, <3>3 DEF CallOK, IsRun
  <2>3. Single(net')
    BY <1>6 DEF Inv, CallsOK, Single
  <2> QED
    BY <1>6, <2>1, <2>2, <2>3 DEF CallsOK, Single
<1>9. \A b \in net : b.op = "load" => \E d \in net' : d.op = "load" /\ d.about = b.about
  BY <1>6
<1> QED
  BY <1>1, <1>5, <1>7, <1>8, <1>9, ServerOK

-----------------------------------------------------------------------------
(* The answers and the loops.                                               *)

\* A step of the client that changes no Run, and shows nothing else.
LEMMA ScreenOK ==
    ASSUME Inv, UNCHANGED <<server, user, selectedId>>,
           reported \subseteq reported',
           poll' \in [Runs -> {"off", "sleeping", "active", "over", "forbidden", "failed",
                               "refreshing"}],
           DOMAIN agents' \subseteq Agents,
           CallsOK',
           \A r \in Runs : /\ poll'[r] # "off" => poll[r] # "off" \/ run[r] # "none"
                           /\ poll'[r] \in {"over", "refreshing"}
                                 => poll[r] = poll'[r] \/ run[r] \in {"over", "deleted"}
                           /\ poll'[r] = "off" => \/ poll[r] = "off" \/ run[r] # "active"
                                                  \/ r \in reported'
                                                  \/ user # None /\ Target[r] # selectedId
                                                  \/ user = None,
           activeRun' \notin {None, activeRun} =>
              /\ activeRun'.run \in Runs /\ run[activeRun'.run] # "none"
              /\ Target[activeRun'.run] = selectedId
              /\ activeRun'.active => poll'[activeRun'.run] # "off" \/ run[activeRun'.run] # "active",
           messages' \in {None, messages, selectedId},
           \A c \in net : c.op = "load" /\ c.about = selectedId /\ messages' \notin {None, selectedId}
              => c \in net' \/ selectedId \in reported'
    PROVE  Inv'
<1>1. UNCHANGED <<status, run, latest>>
  BY DEF server
<1>2. Shape'
  BY <1>1 DEF Inv, Shape
<1>3. RunsOK'
  <2>1. \A r \in Runs : /\ poll'[r] # "off" => run'[r] # "none"
                        /\ poll'[r] \in {"over", "refreshing"} => run'[r] \in {"over", "deleted"}
    BY <1>1 DEF Inv, RunsOK
  <2>2. activeRun' # None => activeRun'.run \in Runs /\ run'[activeRun'.run] # "none"
    BY <1>1 DEF Inv, RunsOK
  <2> QED
    BY <1>1, <2>1, <2>2 DEF Inv, RunsOK
<1>4. ShownIsSelected'
  <2> SUFFICES ASSUME user # None
               PROVE  /\ activeRun' # None => Target[activeRun'.run] = selectedId
                      /\ messages' \notin {None, selectedId} =>
                            \/ selectedId \in reported'
                            \/ \E c \in net' : c.op = "load" /\ c.about = selectedId
    BY DEF ShownIsSelected
  <2>1. activeRun' # None => Target[activeRun'.run] = selectedId
    BY DEF Inv, ShownIsSelected
  <2>2. messages' \notin {None, selectedId} => messages' = messages
    OBVIOUS
  <2> QED
    BY <2>1, <2>2 DEF Inv, ShownIsSelected
<1>5. ActiveRunIsFollowed'
  <2> SUFFICES ASSUME user # None, activeRun' # None, activeRun'.active,
                      run[activeRun'.run] = "active"
               PROVE  poll'[activeRun'.run] # "off" \/ activeRun'.run \in reported'
    BY <1>1 DEF ActiveRunIsFollowed
  <2>1. CASE activeRun' = activeRun
    <3>1. activeRun.run \in Runs /\ Target[activeRun.run] = selectedId
          /\ (poll[activeRun.run] # "off" \/ activeRun.run \in reported)
      BY <2>1 DEF Inv, RunsOK, ShownIsSelected, ActiveRunIsFollowed
    <3> QED
      BY <2>1, <3>1
  <2>2. CASE activeRun' # activeRun
    BY <2>2
  <2> QED
    BY <2>1, <2>2
<1> QED
  BY <1>2, <1>3, <1>4, <1>5 DEF Inv

\* A loop that asks keeps the invariant.
LEMMA AsksOK ==
    ASSUME Inv, NEW r \in Runs, Asks(r)
    PROVE  Inv'
<1>1. /\ poll[r] = "sleeping"
      /\ UNCHANGED <<server, net, user, agents, selectedId, messages, activeRun, reported>>
  BY DEF Asks
<1>2. PICK next : poll' = [poll EXCEPT ![r] = next]
                  /\ next \in {"failed", "forbidden", "active", "over"}
                  /\ (next = "over" => run[r] = "over")
  <2>1. run[r] # "none" /\ run[r] \in {"none", "active", "over", "deleted"}
    BY <1>1 DEF Inv, RunsOK, Shape
  <2>2. \/ user = None \/ run[r] = "deleted"
        \/ user # None /\ run[r] # "deleted" /\ ~MaySee(user, Target[r])
        \/ user # None /\ run[r] # "deleted" /\ MaySee(user, Target[r])
    OBVIOUS
  <2> QED
    BY <2>1, <2>2 DEF Asks
<1>3. \A q \in Runs : poll'[q] = IF q = r THEN next ELSE poll[q]
  BY <1>2 DEF Inv, Shape
<1>4. CallsOK'
  BY <1>1, <1>3, PlainCalls DEF server, Inv, CallsOK, CallOK, IsCall
<1>5. poll' \in [Runs -> {"off", "sleeping", "active", "over", "forbidden", "failed", "refreshing"}]
  BY <1>2 DEF Inv, Shape
<1>6. DOMAIN agents' \subseteq Agents
  BY <1>1 DEF Inv, Shape
<1> QED
  BY <1>1, <1>2, <1>3, <1>4, <1>5, <1>6, ScreenOK

\* A loop that ends badly tells the user so.
LEMMA LoopFailsOK ==
    ASSUME Inv, NEW r \in Runs, NEW N, LoopFails(r, N),
           UNCHANGED <<server, user, agents, selectedId, messages>>,
           N \subseteq net, \A c \in net : c.op = "load" => c \in N,
           \A c \in N : c.op = "refresh" => c.about # r
    PROVE  Inv'
<1>1. \A q \in Runs : poll'[q] = IF q = r THEN "off" ELSE poll[q]
  BY DEF LoopFails, Inv, Shape
<1>2. /\ \A c \in net' : c \in N \/ (IsPlain(c) /\ c.op = "list")
      /\ N \subseteq net'
  <2>1. /\ \A c \in With(N, "list", None, user) : c \in N \/ (IsPlain(c) /\ c.op = "list")
        /\ N \subseteq With(N, "list", None, user)
    BY WithPlain DEF Ops, Reads, AboutAgents, Acts
  <2> QED
    BY <2>1 DEF LoopFails
<1>3. CallsOK'
  <2>1. \A c \in net' : c \in net \/ IsPlain(c)
    BY <1>2
  <2>2. ASSUME NEW c \in net, c \in net', c.op = "refresh" PROVE poll'[c.about] = "refreshing"
    <3>1. c \in N
      BY <1>2, <2>2
    <3> QED
      BY <1>1, <2>2, <3>1 DEF Inv, CallsOK, CallOK, IsCall
  <2> QED
    BY <2>1, <2>2, PlainCalls DEF server
<1>4. poll' \in [Runs -> {"off", "sleeping", "active", "over", "forbidden", "failed", "refreshing"}]
  BY DEF LoopFails, Inv, Shape
<1>5. DOMAIN agents' \subseteq Agents
  BY DEF Inv, Shape
<1>6. r \in reported' /\ reported \subseteq reported' /\ activeRun' \in {None, activeRun}
  BY DEF LoopFails
<1> QED
  BY <1>1, <1>2, <1>3, <1>4, <1>5, <1>6, ScreenOK

\* The answer to a loop keeps the invariant.
LEMMA RunArrivesOK ==
    ASSUME Inv, NEW r \in Runs, RunArrives(r)
    PROVE  Inv'
<1> USE DEF ShowsRun
<1>1. /\ UNCHANGED <<server, user, agents, selectedId, messages>>
      /\ DOMAIN agents' \subseteq Agents
  BY DEF RunArrives, Inv, Shape
<1>2. run[r] # "none" \/ poll[r] = "off"
  BY DEF Inv, RunsOK
<1>3. CASE /\ poll[r] = "active" /\ ShowsRun(r, TRUE)
           /\ poll' = [poll EXCEPT ![r] = "sleeping"]
           /\ UNCHANGED <<net, sending, reported>>
  <2>1. /\ \A q \in Runs : poll'[q] = IF q = r THEN "sleeping" ELSE poll[q]
        /\ poll' \in [Runs -> {"off", "sleeping", "active", "over", "forbidden", "failed",
                               "refreshing"}]
    BY <1>3 DEF Inv, Shape
  <2>2. CallsOK'
    BY <1>1, <1>3, <2>1, PlainCalls DEF server, Inv, CallsOK, CallOK, IsCall
  <2> QED
    BY <1>1, <1>2, <1>3, <2>1, <2>2, ScreenOK DEF Selected
<1>4. CASE /\ poll[r] = "over" /\ ShowsRun(r, FALSE)
           /\ poll' = [poll EXCEPT ![r] = "refreshing"]
           /\ net' = With(net, "refresh", r, user)
           /\ UNCHANGED <<sending, reported>>
  <2> DEFINE x == [n |-> Fresh(net), op |-> "refresh", about |-> r, by |-> user, answer |-> None]
  <2>1. /\ \A q \in Runs : poll'[q] = IF q = r THEN "refreshing" ELSE poll[q]
        /\ poll' \in [Runs -> {"off", "sleeping", "active", "over", "forbidden", "failed",
                               "refreshing"}]
    BY <1>4 DEF Inv, Shape
  <2>2. net' = net \cup {x} /\ \A c \in net : c.op = "refresh" => c.about # r
    BY <1>4 DEF With, Inv, CallsOK, CallOK
  <2>3. IsCall(x) /\ x.op = "refresh" /\ x.about = r /\ x.answer = None
    BY DEF IsCall, Ops, Reads, AboutAgents, Acts
  <2> HIDE DEF x
  <2>4. CallsOK'
    <3>1. ASSUME NEW c \in net' PROVE CallOK(c)'
      BY <1>1, <2>1, <2>2, <2>3 DEF server, Inv, CallsOK, CallOK, IsRun, IsCall
    <3>2. Single(net')
      BY <2>2, <2>3 DEF Inv, CallsOK, Single
    <3> QED
      BY <3>1, <3>2 DEF CallsOK, Single
  <2>5. run[r] \in {"over", "deleted"} /\ net \subseteq net'
    BY <1>4, <2>2 DEF Inv, RunsOK
  <2> QED
    BY <1>1, <1>2, <1>4, <2>1, <2>4, <2>5, ScreenOK DEF Selected
<1>5. CASE /\ poll[r] = "forbidden"
           /\ poll' = [poll EXCEPT ![r] = "off"]
           /\ sending' = sending \ {r}
           /\ reported' = IF Selected(Target[r]) THEN reported \cup {r} ELSE reported
           /\ UNCHANGED <<net, activeRun>>
  <2>1. /\ \A q \in Runs : poll'[q] = IF q = r THEN "off" ELSE poll[q]
        /\ poll' \in [Runs -> {"off", "sleeping", "active", "over", "forbidden", "failed",
                               "refreshing"}]
    BY <1>5 DEF Inv, Shape
  <2>2. CallsOK'
    BY <1>1, <1>5, <2>1, PlainCalls DEF server, Inv, CallsOK, CallOK, IsCall
  <2> QED
    BY <1>1, <1>2, <1>5, <2>1, <2>2, ScreenOK DEF Selected
<1>6. CASE poll[r] = "failed" /\ LoopFails(r, net)
  <2>1. \A c \in net : c.op = "refresh" => c.about # r
    BY <1>6 DEF Inv, CallsOK, CallOK
  <2> QED
    BY <1>1, <1>6, <2>1, LoopFailsOK
<1> QED
  BY <1>3, <1>4, <1>5, <1>6 DEF RunArrives

\* A list of Agents keeps the invariant.
LEMMA AgentsArriveOK ==
    ASSUME Inv, NEW c \in net, c.answer # None, AgentsArrive(c), UNCHANGED server
    PROVE  Inv'
<1>1. /\ c.op \in {"list", "relist", "created"} /\ CallOK(c)
      /\ UNCHANGED <<loops, reported>> /\ UNCHANGED <<poll, run>>
  BY DEF AgentsArrive, Inv, CallsOK, loops, server
<1>2. CASE /\ c.answer.kind = "ok"
           /\ agents' = c.answer.data
           /\ Show(user, IF c.op = "created" THEN c.about ELSE Reselected(c.answer.data),
                   messages, net \ {c})
  <2> DEFINE s == IF c.op = "created" THEN c.about ELSE Reselected(c.answer.data)
  <2>1. DOMAIN c.answer.data \subseteq Agents /\ (c.op = "created" => c.about \in Agents)
    BY <1>1, <1>2 DEF CallOK, IsCall, Reads, AboutAgents
  <2>2. Reselected(c.answer.data) \in Agents \cup {None}
    BY <2>1 DEF Reselected
  <2>3. s \in Agents \cup {None}
    BY <2>1, <2>2
  <2> HIDE DEF s
  <2>4. Show(user, s, messages, net \ {c}) /\ DOMAIN agents' \subseteq Agents
    BY <1>2, <2>1 DEF s
  <2>5. \A d \in net : d.op = "load" => d \in net \ {c}
    BY <1>1
  <2> QED
    BY <1>1, <2>3, <2>4, <2>5, SelectionOK
<1>3. CASE /\ c.answer.kind # "ok"
           /\ net' = net \ {c}
           /\ UNCHANGED <<user, agents, selectedId, messages, activeRun>>
  <2>1. CallsOK'
    BY <1>1, <1>3, PlainCalls DEF Inv, CallsOK, CallOK
  <2>2. /\ poll' \in [Runs -> {"off", "sleeping", "active", "over", "forbidden", "failed",
                               "refreshing"}]
        /\ DOMAIN agents' \subseteq Agents
    BY <1>1, <1>3 DEF Inv, Shape
  <2> QED
    BY <1>1, <1>3, <2>1, <2>2, ScreenOK
<1> QED
  BY <1>2, <1>3 DEF AgentsArrive

\* The answer to a lifecycle button keeps the invariant.
LEMMA ActArrivesOK ==
    ASSUME Inv, NEW c \in net, c.answer # None, ActArrives(c), UNCHANGED server
    PROVE  Inv'
<1>1. /\ c.op \in Acts \cup {"create"} /\ CallOK(c) /\ c.about \in Agents /\ c.op # "load"
      /\ UNCHANGED <<user, agents, selectedId, messages, activeRun, poll, run, reported>>
  BY DEF ActArrives, Inv, CallsOK, CallOK, IsCall, AboutAgents, Acts, loops, server
<1> DEFINE op == IF c.op = "create" THEN "created" ELSE "relist"
<1>2. /\ \A d \in With(net \ {c}, op, c.about, user) :
            d \in net \ {c} \/ (IsPlain(d) /\ d.op = op /\ d.about = c.about)
      /\ net \ {c} \subseteq With(net \ {c}, op, c.about, user)
  BY <1>1, WithPlain DEF Ops, Reads, AboutAgents, Acts
<1>3. /\ net \ {c} \subseteq net' /\ \A d \in net' : d \in net \/ IsPlain(d)
  BY <1>2 DEF ActArrives
<1>4. CallsOK'
  BY <1>1, <1>3, PlainCalls DEF Inv, CallsOK, CallOK
<1>5. /\ poll' \in [Runs -> {"off", "sleeping", "active", "over", "forbidden", "failed",
                             "refreshing"}]
      /\ DOMAIN agents' \subseteq Agents
  BY <1>1 DEF Inv, Shape
<1>6. \A d \in net : d.op = "load" => d \in net'
  BY <1>1, <1>3
<1> QED
  BY <1>1, <1>4, <1>5, <1>6, ScreenOK

\* A loop that is started, unless there is one.
LEMMA FollowOK ==
    ASSUME Inv, NEW r \in Runs, NEW forSend, Follow(r, forSend)
    PROVE  /\ \A q \in Runs : poll'[q] = IF q = r /\ poll[r] = "off" THEN "sleeping" ELSE poll[q]
           /\ poll' \in [Runs -> {"off", "sleeping", "active", "over", "forbidden", "failed",
                                  "refreshing"}]
BY DEF Inv, Shape, Follow, loops

\* The answer to the selection effect keeps the invariant.
LEMMA ViewArrivesOK ==
    ASSUME Inv, NEW c \in net, c.answer # None, ViewArrives(c), UNCHANGED server
    PROVE  Inv'
<1>1. /\ c.op = "load" /\ CallOK(c) /\ c.about \in Agents
      /\ net' = net \ {c} /\ UNCHANGED <<user, agents, selectedId, run>>
  BY DEF ViewArrives, Inv, CallsOK, CallOK, IsCall, AboutAgents, server
<1>2. DOMAIN agents' \subseteq Agents
  BY <1>1 DEF Inv, Shape
<1> DEFINE newest == c.answer.data
<1>3. CASE /\ c.answer.kind = "ok" /\ Selected(c.about)
           /\ messages' = c.about
           /\ activeRun' = newest
           /\ IF newest # None /\ newest.active THEN Follow(newest.run, FALSE)
              ELSE UNCHANGED loops
           /\ UNCHANGED reported
  <2>1. newest # None => IsRun(newest, c.about)
    BY <1>1, <1>3 DEF CallOK
  <2>2. /\ \A q \in Runs : poll'[q] = poll[q] \/ (poll[q] = "off" /\ poll'[q] = "sleeping"
                                                  /\ newest # None /\ q = newest.run)
        /\ newest # None /\ newest.active => poll'[newest.run] # "off"
        /\ poll' \in [Runs -> {"off", "sleeping", "active", "over", "forbidden", "failed",
                               "refreshing"}]
    <3>1. CASE newest # None /\ newest.active
      <4>1. Follow(newest.run, FALSE) /\ newest.run \in Runs
        BY <1>3, <2>1, <3>1 DEF IsRun
      <4> HIDE DEF newest
      <4> QED
        BY <3>1, <4>1, FollowOK
    <3>2. CASE ~(newest # None /\ newest.active)
      <4>1. poll' = poll
        BY <1>3, <3>2 DEF loops
      <4> QED
        BY <3>2, <4>1 DEF Inv, Shape
    <3> QED
      BY <3>1, <3>2
  <2> HIDE DEF newest
  <2>3. CallsOK'
    BY <1>1, <2>2, PlainCalls DEF Inv, CallsOK, CallOK, IsCall
  <2>4. \A q \in Runs : /\ poll'[q] # "off" => poll[q] # "off" \/ run[q] # "none"
                        /\ poll'[q] \in {"over", "refreshing"} => poll[q] = poll'[q]
                        /\ poll'[q] = "off" => poll[q] = "off"
    BY <2>1, <2>2 DEF IsRun
  <2>5. activeRun' # None =>
              /\ activeRun'.run \in Runs /\ run[activeRun'.run] # "none"
              /\ Target[activeRun'.run] = selectedId
              /\ activeRun'.active => poll'[activeRun'.run] # "off"
    BY <1>3, <2>1, <2>2 DEF IsRun, Selected
  <2>6. messages' = selectedId
    BY <1>3 DEF Selected
  <2> QED
    BY <1>1, <1>2, <1>3, <2>2, <2>3, <2>4, <2>5, <2>6, ScreenOK
<1>4. ASSUME UNCHANGED loops, activeRun' = activeRun, reported \subseteq reported',
             messages' \in {messages, None},
             messages' # None => c.about # selectedId \/ c.about \in reported'
      PROVE  Inv'
  <2>1. poll' = poll /\ poll' \in [Runs -> {"off", "sleeping", "active", "over", "forbidden",
                                            "failed", "refreshing"}]
    BY <1>4 DEF loops, Inv, Shape
  <2>2. CallsOK'
    BY <1>1, <2>1, PlainCalls DEF Inv, CallsOK, CallOK
  <2> HIDE DEF newest
  <2> QED
    BY <1>1, <1>2, <1>4, <2>1, <2>2, ScreenOK
<1> QED
  BY <1>3, <1>4 DEF ViewArrives, Selected

\* The answer to a Send keeps the invariant.
LEMMA SendArrivesOK ==
    ASSUME Inv, NEW c \in net, c.answer # None, SendArrives(c), UNCHANGED server
    PROVE  Inv'
<1>1. /\ c.op = "send" /\ CallOK(c) /\ c.about \in Runs
      /\ UNCHANGED <<user, selectedId, messages, run>>
  BY DEF SendArrives, Inv, CallsOK, CallOK, IsCall, server
<1> DEFINE r == c.about
           a == Target[r]
<1>2. CASE /\ c.answer.kind = "ok"
           /\ activeRun' = IF Selected(a) THEN [run |-> r, active |-> TRUE] ELSE activeRun
           /\ agents' = [b \in DOMAIN agents |-> IF b = a THEN "busy" ELSE agents[b]]
           /\ Follow(r, TRUE)
           /\ net' = net \ {c}
           /\ UNCHANGED reported
  <2>1. run[r] # "none"
    BY <1>1, <1>2 DEF CallOK
  <2>2. /\ \A q \in Runs : poll'[q] = IF q = r /\ poll[r] = "off" THEN "sleeping" ELSE poll[q]
        /\ poll' \in [Runs -> {"off", "sleeping", "active", "over", "forbidden", "failed",
                               "refreshing"}]
    BY <1>1, <1>2, FollowOK
  <2>3. DOMAIN agents' \subseteq Agents
    BY <1>2 DEF Inv, Shape
  <2>4. CallsOK'
    BY <1>1, <1>2, <2>2, PlainCalls DEF Inv, CallsOK, CallOK, IsCall
  <2>5. activeRun' # activeRun =>
              /\ activeRun'.run = r /\ Target[r] = selectedId
    BY <1>2 DEF Selected
  <2>6. r \in Runs
    BY <1>1
  <2> HIDE DEF r, a
  <2>7. poll'[r] # "off" /\ \A d \in net : d.op = "load" => d \in net'
    BY <1>1, <1>2, <2>2, <2>6
  <2> QED
    BY <1>1, <1>2, <2>1, <2>2, <2>3, <2>4, <2>5, <2>6, <2>7, ScreenOK
<1>3. CASE /\ c.answer.kind # "ok"
           /\ activeRun' = None
           /\ net' = With(net \ {c}, "list", None, user)
           /\ reported' = reported \cup {r}
           /\ UNCHANGED <<agents, loops>>
  <2>1. poll' = poll /\ DOMAIN agents' \subseteq Agents
        /\ poll' \in [Runs -> {"off", "sleeping", "active", "over", "forbidden", "failed",
                               "refreshing"}]
    BY <1>3 DEF loops, Inv, Shape
  <2>2. /\ \A d \in net' : d \in net \ {c} \/ (IsPlain(d) /\ d.op = "list")
        /\ net \ {c} \subseteq net'
    BY <1>3, WithPlain DEF Ops, Reads, AboutAgents, Acts
  <2>3. CallsOK'
    BY <1>1, <2>1, <2>2, PlainCalls DEF Inv, CallsOK, CallOK
  <2> HIDE DEF r, a
  <2> QED
    BY <1>1, <1>3, <2>1, <2>2, <2>3, ScreenOK
<1> QED
  BY <1>2, <1>3 DEF SendArrives

\* The last refresh of a loop keeps the invariant.
LEMMA LoopEndsOK ==
    ASSUME Inv, NEW c \in net, c.answer # None, LoopEnds(c), UNCHANGED server
    PROVE  Inv'
<1> DEFINE r == c.about
           shown == Selected(Target[r])
<1>1. /\ c.op = "refresh" /\ CallOK(c) /\ r \in Runs /\ poll[r] = "refreshing"
      /\ UNCHANGED <<status, run, latest>>
  BY DEF LoopEnds, Inv, CallsOK, CallOK, IsCall, server
<1>2. \A d \in net \ {c} : d.op = "refresh" => d.about # r
  BY <1>1 DEF Inv, CallsOK, Single
<1>3. CASE /\ c.answer.kind # "failed"
           /\ agents' = c.answer.data
           /\ Show(user, Reselected(c.answer.data),
                   IF c.answer.kind = "ok" /\ shown THEN Target[r] ELSE messages, net \ {c})
           /\ poll' = [poll EXCEPT ![r] = "off"]
           /\ sending' = sending \ {r}
           /\ reported' = IF c.answer.kind = "forbidden" /\ shown THEN reported \cup {r}
                          ELSE reported
  <2> DEFINE s == Reselected(c.answer.data)
             text == IF c.answer.kind = "ok" /\ shown THEN Target[r] ELSE messages
             N == net \ {c}
  <2>1. DOMAIN c.answer.data \subseteq Agents
    BY <1>1, <1>3 DEF CallOK, Reads
  <2>2. s \in Agents \cup {None}
    BY <2>1 DEF Reselected
  <2>3. text \in {messages, selectedId}
    BY DEF Selected
  <2>4. reported \subseteq reported' /\ DOMAIN agents' \subseteq Agents
    BY <1>3, <2>1
  <2>5. /\ \A q \in Runs : poll'[q] = IF q = r THEN "off" ELSE poll[q]
        /\ poll' \in [Runs -> {"off", "sleeping", "active", "over", "forbidden", "failed",
                               "refreshing"}]
    BY <1>1, <1>3 DEF Inv, Shape
  <2>6. run[r] \in {"over", "deleted"}
    BY <1>1 DEF Inv, RunsOK
  <2>7. Show(user, s, text, N) /\ \A d \in net : d.op = "load" => d \in N
    BY <1>1, <1>3
  <2>8. \A d \in N : d \in net /\ (d.op = "refresh" => d.about # r)
    BY <1>2
  <2> HIDE DEF s, text, N, r, shown
  <2>9. \A d \in net' : d \in N \/ (IsPlain(d) /\ d.op = "load")
    BY <2>2, <2>7, ShowOK
  <2>10. selectedId' \in Agents \cup {None}
    BY <2>2, <2>7, ShowOK
  <2>11. CallsOK'
    <3>1. \A d \in net' : d \in net \/ IsPlain(d)
      BY <2>8, <2>9
    <3>2. ASSUME NEW d \in net, d \in net', d.op = "refresh" PROVE poll'[d.about] = "refreshing"
      <4>1. d \in N /\ d.about \in Runs /\ poll[d.about] = "refreshing"
        BY <2>9, <3>2 DEF Inv, CallsOK, CallOK, IsCall
      <4> QED
        BY <2>5, <2>8, <3>2, <4>1
    <3> QED
      BY <1>1, <3>1, <3>2, PlainCalls
  <2>12. /\ activeRun' # None => activeRun'.run \in Runs /\ run'[activeRun'.run] # "none"
         /\ ShownIsSelected' /\ ActiveRunIsFollowed'
    BY <1>1, <2>2, <2>3, <2>4, <2>5, <2>6, <2>7, ShownOK
  <2>13. Shape'
    BY <1>1, <2>4, <2>5, <2>10 DEF Inv, Shape
  <2>14. RunsOK'
    BY <1>1, <2>5, <2>12 DEF Inv, RunsOK
  <2> QED
    BY <2>11, <2>12, <2>13, <2>14 DEF Inv
<1>4. CASE /\ c.answer.kind = "failed"
           /\ LoopFails(r, net \ {c})
           /\ UNCHANGED <<user, agents, selectedId, messages>>
  <2>1. /\ UNCHANGED <<server, user, agents, selectedId, messages>>
        /\ net \ {c} \subseteq net /\ \A d \in net : d.op = "load" => d \in net \ {c}
    BY <1>1, <1>4
  <2> HIDE DEF r, shown
  <2> QED
    BY <1>1, <1>2, <1>4, <2>1, LoopFailsOK
<1> QED
  BY <1>3, <1>4 DEF LoopEnds

\* Inv is inductive.
LEMMA NextOK == Inv /\ [Next]_vars => Inv'
<1> SUFFICES ASSUME Inv, [Next]_vars PROVE Inv'
  OBVIOUS
<1>1. CASE UserActs
  BY <1>1, UserActsOK
<1>2. ASSUME NEW c \in net, Answered(c) PROVE Inv'
  BY <1>2, AnsweredOK
<1>3. ASSUME NEW c \in net, Arrives(c) PROVE Inv'
  BY <1>3, AgentsArriveOK, ViewArrivesOK, SendArrivesOK, ActArrivesOK, LoopEndsOK
     DEF Arrives
<1>4. ASSUME NEW r \in Runs, LoopStep(r) \/ RunEnds(r) \/ OthersSend(r) PROVE Inv'
  BY <1>4, AsksOK, RunArrivesOK, RunEndsOK, OthersSendOK DEF LoopStep
<1>5. CASE UNCHANGED vars
  <2>1. UNCHANGED <<status, run, latest, net, user, agents, selectedId, messages, activeRun,
                    poll, reported>>
    BY <1>5 DEF vars, server, loops
  <2>2. Shape' /\ RunsOK' /\ ShownIsSelected' /\ ActiveRunIsFollowed'
    BY <2>1 DEF Inv, Shape, RunsOK, ShownIsSelected, ActiveRunIsFollowed
  <2>3. CallsOK'
    BY <2>1, PlainCalls DEF Inv, CallsOK, CallOK
  <2> QED
    BY <2>2, <2>3 DEF Inv
<1> QED
  BY <1>1, <1>2, <1>3, <1>4, <1>5 DEF Next, NetworkStep

\* Inv holds in every behaviour.
LEMMA Invariance == Spec => []Inv
<1> QED
  BY InitOK, NextOK, PTL DEF Spec

(* However late an answer about another Agent comes, the Run on the screen  *)
(* is one of the Agent that is selected, and so are the messages unless its *)
(* own are awaited (the guards on selectedIdRef in App.tsx).                *)
THEOREM ShownBelongs == Spec => []ShownIsSelected
<1>1. Inv => ShownIsSelected
  BY DEF Inv
<1> QED
  BY <1>1, Invariance, PTL

(* A Run that is active, and shown as active, is followed by a loop unless  *)
(* the user was told that it cannot be (pollRun in App.tsx).                *)
THEOREM Followed == Spec => []ActiveRunIsFollowed
<1>1. Inv => ActiveRunIsFollowed
  BY DEF Inv
<1> QED
  BY <1>1, Invariance, PTL

-----------------------------------------------------------------------------
(* Types.  A list that is under way holds statuses the sidebar can show, and*)
(* a request finds a number that no other has.                              *)

ListOK(c) ==
    c.op \in Reads /\ c.answer # None /\ (c.answer.kind = "ok" \/
          (c.op = "refresh" /\ c.answer.kind # "failed"))
          => \A a \in DOMAIN c.answer.data : c.answer.data[a] \in Statuses

Numbered(c) ==
    /\ c.n \in Nat
    /\ c.about \in Agents \cup Runs \cup {None} /\ c.by \in Principals \cup {None}
    /\ ListOK(c)

NetOK(N) ==
    /\ IsFiniteSet(N)
    /\ \A c \in N : Numbered(c)
    /\ \A c, d \in N : c.n = d.n => c = d

ScreenTypes ==
    /\ user \in Principals \cup {None} /\ messages \in Agents \cup {None}
    /\ \A a \in DOMAIN agents : agents[a] \in Statuses
    /\ activeRun # None => activeRun.active \in BOOLEAN
    /\ busy \in BOOLEAN
    /\ sending \subseteq Runs /\ reported \subseteq Runs \cup Agents

Counters ==
    /\ scenario \in Scenarios
    /\ gestures \in 0..scenario.gestures /\ faults \in 0..scenario.faults

Types == NetOK(net) /\ ScreenTypes /\ Counters

\* Of the numbers 0..Cardinality(N), the requests in N cannot have them all.
LEMMA FreshNumber ==
    ASSUME NEW N, IsFiniteSet(N)
    PROVE  Fresh(N) \in Nat /\ \A c \in N : c.n # Fresh(N)
<1> DEFINE k == Cardinality(N)
           T == 0..k
<1>1. k \in Nat
  BY FS_CardinalityType
<1>2. IsFiniteSet(T) /\ Cardinality(T) = k + 1
  BY <1>1, FS_Interval
<1>3. \E n \in T : \A c \in N : c.n # n
  <2> SUFFICES ASSUME \A n \in T : \E c \in N : c.n = n PROVE FALSE
    OBVIOUS
  <2> DEFINE f == [n \in T |-> CHOOSE c \in N : c.n = n]
  <2>1. \A n \in T : f[n] \in N /\ f[n].n = n
    OBVIOUS
  <2>2. f \in [T -> N]
    BY <2>1
  <2>3. Cardinality(N) < Cardinality(T)
    BY <1>1, <1>2
  <2> HIDE DEF f, T
  <2>4. \E x, y \in T : x # y /\ f[x] = f[y]
    BY <1>2, <2>2, <2>3, FS_PigeonHole
  <2> QED
    BY <2>1, <2>4
<1>4. Fresh(N) \in T /\ \A c \in N : c.n # Fresh(N)
  BY <1>3 DEF Fresh
<1> QED
  BY <1>1, <1>4

\* A request that is added gets a number of its own.
LEMMA WithTyped ==
    ASSUME NEW N, NetOK(N), NEW op, NEW about \in Agents \cup Runs \cup {None},
           NEW by \in Principals \cup {None}
    PROVE  NetOK(With(N, op, about, by))
<1> DEFINE x == [n |-> Fresh(N), op |-> op, about |-> about, by |-> by, answer |-> None]
<1>1. With(N, op, about, by) = N \cup {x}
  BY DEF With
<1>2. Fresh(N) \in Nat /\ \A c \in N : c.n # Fresh(N)
  BY FreshNumber DEF NetOK
<1>3. Numbered(x) /\ \A c \in N : c.n # x.n
  BY <1>2 DEF Numbered, ListOK
<1> HIDE DEF x
<1>4. IsFiniteSet(N \cup {x})
  BY FS_AddElement DEF NetOK
<1> QED
  BY <1>1, <1>3, <1>4 DEF NetOK

\* A request that is settled leaves the others as they were.
LEMMA WithoutTyped ==
    ASSUME NEW N, NetOK(N), NEW c
    PROVE  NetOK(N \ {c})
<1>1. IsFiniteSet(N \ {c})
  BY FS_RemoveElement DEF NetOK
<1> QED
  BY <1>1 DEF NetOK

\* An answer keeps the number of its request.
LEMMA RepliedTyped ==
    ASSUME NetOK(net), NEW c \in net, IsCall(c), NEW answer, Replied(c, answer),
           ListOK([c EXCEPT !.answer = answer])
    PROVE  NetOK(net')
<1> DEFINE d == [c EXCEPT !.answer = answer]
           N == net \ {c}
<1>1. net' = N \cup {d}
  BY DEF Replied
<1>2. NetOK(N)
  BY WithoutTyped
<1>3. Numbered(c)
  BY DEF NetOK
<1>4. d.n = c.n /\ d.about = c.about /\ d.by = c.by
  BY DEF IsCall
<1>5. Numbered(d)
  BY <1>3, <1>4 DEF Numbered
<1>6. \A e \in N : e.n # d.n
  BY <1>4 DEF NetOK
<1> HIDE DEF d, N
<1>7. IsFiniteSet(N \cup {d})
  BY <1>2, FS_AddElement DEF NetOK
<1> QED
  BY <1>1, <1>2, <1>5, <1>6, <1>7 DEF NetOK

\* The effect of a selection keeps the types.
LEMMA ShowTyped ==
    ASSUME NEW u \in Principals \cup {None}, NEW s \in Agents \cup {None},
           NEW shown \in Agents \cup {None}, NEW N, NetOK(N), Show(u, s, shown, N)
    PROVE  /\ NetOK(net') /\ user' \in Principals \cup {None}
           /\ messages' \in Agents \cup {None}
           /\ activeRun' \in {None, activeRun}
<1>1. CASE u = None \/ (u = user /\ s = selectedId)
  BY <1>1 DEF Show
<1>2. CASE ~(u = None \/ (u = user /\ s = selectedId)) /\ s = None
  BY <1>2 DEF Show
<1>3. CASE ~(u = None \/ (u = user /\ s = selectedId)) /\ s # None
  <2>1. NetOK(With(N, "load", s, u))
    BY WithTyped
  <2> QED
    BY <1>3, <2>1 DEF Show
<1> QED
  BY <1>1, <1>2, <1>3

\* The types hold before the first render.
LEMMA TypesInit == Init => Types
<1> SUFFICES ASSUME Init PROVE Types
  OBVIOUS
<1>1. NetOK({})
  BY FS_EmptySet DEF NetOK
<1>2. NetOK(net)
  BY <1>1, WithTyped DEF Init
<1>3. ScreenTypes
  BY DEF Init, ScreenTypes, NoAgents
<1>4. Counters
  BY WebClientAssumption DEF Init, Counters
<1> QED
  BY <1>2, <1>3, <1>4 DEF Types

\* Gestures are counted.
LEMMA GestureTyped ==
    ASSUME Counters, \E what : Gesture(what)
    PROVE  Counters' /\ reported' = reported
BY WebClientAssumption DEF Gesture, Counters

\* Failing answers are counted.
LEMMA FaultTyped ==
    ASSUME Counters, Fault, UNCHANGED <<scenario, gestures>>
    PROVE  Counters'
BY WebClientAssumption DEF Fault, Counters

\* The gestures keep the types.
LEMMA UserTyped ==
    ASSUME Types, Inv, UserActs
    PROVE  Types'
<1>1. NetOK(net) /\ ScreenTypes /\ Counters
      /\ user \in Principals \cup {None} /\ messages \in Agents \cup {None}
      /\ selectedId \in Agents \cup {None} /\ DOMAIN agents \subseteq Agents
  BY DEF Types, ScreenTypes, Inv, Shape
<1>2. ASSUME NEW u \in Principals, ChooseUser(u) PROVE Types'
  <2>1. NetOK(With(net, "list", None, u))
    BY <1>1, WithTyped
  <2>2. Show(u, None, None, With(net, "list", None, u))
        /\ Gesture("choose") /\ agents' \in {agents, NoAgents} /\ UNCHANGED <<busy, loops>>
    BY <1>2 DEF ChooseUser
  <2>3. /\ NetOK(net') /\ user' \in Principals \cup {None}
        /\ messages' \in Agents \cup {None} /\ activeRun' \in {None, activeRun}
    BY <2>1, <2>2, ShowTyped
  <2>4. Counters' /\ reported' = reported
    BY <1>1, <2>2, GestureTyped
  <2>5. ScreenTypes'
    BY <1>1, <2>2, <2>3, <2>4 DEF ScreenTypes, loops, NoAgents
  <2> QED
    BY <2>3, <2>4, <2>5 DEF Types
<1>3. CASE SignOut
  <2>1. Show(None, None, None, net) /\ (\E what : Gesture(what)) /\ agents' = NoAgents
        /\ UNCHANGED <<busy, loops>>
    BY <1>3, Zenon DEF SignOut
  <2>2. /\ NetOK(net') /\ user' \in Principals \cup {None}
        /\ messages' \in Agents \cup {None} /\ activeRun' \in {None, activeRun}
    BY <1>1, <2>1, ShowTyped
  <2>3. Counters' /\ reported' = reported
    BY <1>1, <2>1, GestureTyped
  <2>4. ScreenTypes'
    BY <1>1, <2>1, <2>2, <2>3 DEF ScreenTypes, loops, NoAgents
  <2> QED
    BY <2>2, <2>3, <2>4 DEF Types
<1>4. ASSUME NEW a \in Agents, Select(a) PROVE Types'
  <2>1. Show(user, a, messages, net) /\ Gesture("select") /\ UNCHANGED <<agents, busy, loops>>
    BY <1>4 DEF Select
  <2>2. /\ NetOK(net') /\ user' \in Principals \cup {None}
        /\ messages' \in Agents \cup {None} /\ activeRun' \in {None, activeRun}
    BY <1>1, <2>1, ShowTyped
  <2>3. Counters' /\ reported' = reported
    BY <1>1, <2>1, GestureTyped
  <2>4. ScreenTypes'
    BY <1>1, <2>1, <2>2, <2>3 DEF ScreenTypes, loops
  <2> QED
    BY <2>2, <2>3, <2>4 DEF Types
<1>5. ASSUME NEW op, NEW about \in Agents \cup Runs \cup {None}, Request(op, about),
             busy' \in {busy, TRUE}, \E what : Gesture(what)
      PROVE  Types'
  <2>1. NetOK(net')
    BY <1>1, <1>5, WithTyped DEF Request
  <2>2. Counters' /\ reported' = reported
    BY <1>1, <1>5, GestureTyped
  <2>3. ScreenTypes'
    BY <1>1, <1>5, <2>2 DEF ScreenTypes, loops, Request
  <2> QED
    BY <2>1, <2>2, <2>3 DEF Types
<1>6. ASSUME NEW a \in Agents, CreateAgent(a) PROVE Types'
  BY <1>5, <1>6 DEF CreateAgent
<1>7. ASSUME NEW op \in Acts, Act(op) PROVE Types'
  BY <1>1, <1>5, <1>7 DEF Act
<1>8. ASSUME NEW r \in Runs, Send(r) PROVE Types'
  BY <1>5, <1>8 DEF Send
<1> QED
  BY <1>2, <1>3, <1>4, <1>6, <1>7, <1>8 DEF UserActs

\* A list is made of statuses of Agents that are there.
LEMMA AnswerListed ==
    ASSUME Inv, NEW c, IsCall(c)
    PROVE  ListOK([c EXCEPT !.answer = Answer(c)]) /\ ListOK([c EXCEPT !.answer = Failed])
<1> DEFINE d == [c EXCEPT !.answer = Answer(c)]
           e == [c EXCEPT !.answer = Failed]
<1>1. d.op = c.op /\ d.answer = Answer(c) /\ e.op = c.op /\ e.answer = Failed
  BY DEF IsCall
<1>2. \A u : \A a \in DOMAIN Listed(u) : Listed(u)[a] \in Statuses
  BY DEF Listed, Visible, Inv, Shape, Statuses
<1>3. ASSUME c.op \in Reads \ {"refresh"} PROVE Answer(c).data = Listed(c.by)
  BY <1>3 DEF Answer, Reads, Ok
<1>4. ASSUME c.op = "refresh", Answer(c).kind # "failed" PROVE Answer(c).data = Listed(c.by)
  <2>1. Answer(c) = ViewOf(c.by, Target[c.about], Listed(c.by))
    BY <1>4 DEF Answer, Reads
  <2> QED
    BY <1>4, <2>1 DEF ViewOf, Ok, Failed, Forbidden
<1>5. ListOK(d)
  BY <1>1, <1>2, <1>3, <1>4 DEF ListOK
<1>6. ListOK(e)
  BY <1>1 DEF ListOK, Failed
<1> QED
  BY <1>5, <1>6

\* The server's answers keep the types.
LEMMA AnsweredTyped ==
    ASSUME Types, Inv, NEW c \in net, Answered(c)
    PROVE  Types'
<1>1. IsCall(c) /\ UNCHANGED screen
  BY DEF Inv, CallsOK, CallOK, Answered
<1>2. Replied(c, Answer(c)) \/ Replied(c, Failed)
  BY DEF Answered
<1>3. NetOK(net')
  BY <1>1, <1>2, AnswerListed, RepliedTyped DEF Types
<1>4. ScreenTypes'
  BY <1>1 DEF Types, ScreenTypes, screen, loops
<1>5. Counters'
  <2>1. UNCHANGED faults \/ Fault
    BY DEF Answered
  <2> QED
    BY <1>1, <2>1, FaultTyped DEF Types, Counters, screen
<1> QED
  BY <1>3, <1>4, <1>5 DEF Types

\* A Send that waits for a loop waits for one of a Run.
LEMMA FollowTyped ==
    ASSUME ScreenTypes, NEW r \in Runs, NEW forSend, Follow(r, forSend)
    PROVE  sending' \subseteq Runs
BY DEF ScreenTypes, Follow, loops

\* A loop that fails keeps the types.
LEMMA LoopFailsTyped ==
    ASSUME Types, NEW r \in Runs, NEW N, NetOK(N), LoopFails(r, N),
           UNCHANGED <<user, agents, messages, busy>>
    PROVE  NetOK(net') /\ ScreenTypes'
<1>1. user \in Principals \cup {None}
  BY DEF Types, ScreenTypes
<1>2. NetOK(With(N, "list", None, user))
  BY <1>1, WithTyped
<1>3. NetOK(net')
  BY <1>2 DEF LoopFails
<1>4. ScreenTypes'
  BY DEF Types, ScreenTypes, LoopFails
<1> QED
  BY <1>3, <1>4

\* The continuations keep the types.
LEMMA ArrivesTyped ==
    ASSUME Types, Inv, NEW c \in net, Arrives(c)
    PROVE  Types'
<1>1. /\ NetOK(net) /\ ScreenTypes /\ Counters' /\ CallOK(c) /\ ListOK(c) /\ c.answer # None
      /\ NetOK(net \ {c})
      /\ user \in Principals \cup {None} /\ messages \in Agents \cup {None}
      /\ selectedId \in Agents \cup {None}
      /\ c.about \in Agents \cup Runs \cup {None}
  BY WithoutTyped
     DEF Types, ScreenTypes, Inv, Shape, CallsOK, NetOK, Numbered, Arrives, Counters
<1>2. CASE AgentsArrive(c)
  <2>1. CASE /\ c.answer.kind = "ok"
             /\ agents' = c.answer.data
             /\ Show(user, IF c.op = "created" THEN c.about ELSE Reselected(c.answer.data),
                     messages, net \ {c})
    <3> DEFINE s == IF c.op = "created" THEN c.about ELSE Reselected(c.answer.data)
    <3>1. DOMAIN c.answer.data \subseteq Agents /\ (c.op = "created" => c.about \in Agents)
      BY <1>1, <1>2, <2>1 DEF CallOK, IsCall, Reads, AboutAgents, AgentsArrive
    <3>2. Reselected(c.answer.data) \in Agents \cup {None}
      BY <3>1 DEF Reselected
    <3>3. s \in Agents \cup {None}
      BY <3>1, <3>2
    <3>4. Show(user, s, messages, net \ {c})
      BY <2>1
    <3> HIDE DEF s
    <3>5. /\ NetOK(net') /\ user' \in Principals \cup {None}
          /\ messages' \in Agents \cup {None} /\ activeRun' \in {None, activeRun}
      BY <1>1, <3>3, <3>4, ShowTyped
    <3>6. \A a \in DOMAIN agents' : agents'[a] \in Statuses
      BY <1>1, <1>2, <2>1 DEF ListOK, Reads, AgentsArrive
    <3>7. busy' \in BOOLEAN /\ UNCHANGED <<sending, reported>>
      BY <1>1, <1>2 DEF AgentsArrive, loops, ScreenTypes
    <3>8. ScreenTypes'
      BY <1>1, <3>5, <3>6, <3>7 DEF ScreenTypes
    <3> QED
      BY <1>1, <3>5, <3>8 DEF Types
  <2>2. CASE /\ c.answer.kind # "ok"
             /\ net' = net \ {c}
             /\ UNCHANGED <<user, agents, selectedId, messages, activeRun>>
    <3>1. ScreenTypes'
      BY <1>1, <1>2, <2>2 DEF ScreenTypes, AgentsArrive, loops
    <3> QED
      BY <1>1, <2>2, <3>1 DEF Types
  <2> QED
    BY <1>2, <2>1, <2>2 DEF AgentsArrive
<1>3. CASE ViewArrives(c)
  <2>1. /\ c.op = "load" /\ c.about \in Agents /\ net' = net \ {c}
        /\ UNCHANGED <<user, agents, busy>>
    BY <1>1, <1>3 DEF ViewArrives, CallOK, IsCall, AboutAgents
  <2> DEFINE newest == c.answer.data
  <2>2. CASE /\ c.answer.kind = "ok" /\ messages' = c.about /\ activeRun' = newest
             /\ IF newest # None /\ newest.active THEN Follow(newest.run, FALSE)
                ELSE UNCHANGED loops
             /\ UNCHANGED reported
    <3>1. newest # None => newest.run \in Runs /\ newest.active \in BOOLEAN
      BY <1>1, <2>1, <2>2 DEF CallOK, IsRun
    <3>2. sending' \subseteq Runs
      <4>1. CASE newest # None /\ newest.active
        <5>1. newest.run \in Runs /\ Follow(newest.run, FALSE)
          BY <2>2, <3>1, <4>1
        <5> HIDE DEF newest
        <5> QED
          BY <1>1, <5>1, FollowTyped
      <4>2. CASE ~(newest # None /\ newest.active)
        BY <1>1, <2>2, <4>2 DEF loops, ScreenTypes
      <4> QED
        BY <4>1, <4>2
    <3>3. ScreenTypes'
      BY <1>1, <2>1, <2>2, <3>1, <3>2 DEF ScreenTypes
    <3> QED
      BY <1>1, <2>1, <3>3 DEF Types
  <2>3. ASSUME messages' \in {messages, None}, reported' \subseteq reported \cup {c.about},
               UNCHANGED <<activeRun, loops>>
        PROVE  Types'
    <3>1. ScreenTypes'
      BY <1>1, <2>1, <2>3 DEF ScreenTypes, loops
    <3> QED
      BY <1>1, <2>1, <3>1 DEF Types
  <2> QED
    BY <1>3, <2>2, <2>3 DEF ViewArrives
<1>4. CASE SendArrives(c)
  <2>1. c.about \in Runs /\ UNCHANGED <<user, messages, busy>>
    BY <1>1, <1>4 DEF SendArrives, CallOK, IsCall
  <2>2. CASE c.answer.kind = "ok"
    <3>1. /\ activeRun' \in {activeRun, [run |-> c.about, active |-> TRUE]}
          /\ agents' = [b \in DOMAIN agents |-> IF b = Target[c.about] THEN "busy" ELSE agents[b]]
          /\ Follow(c.about, TRUE) /\ net' = net \ {c} /\ UNCHANGED reported
      BY <1>4, <2>2 DEF SendArrives
    <3>2. sending' \subseteq Runs
      BY <1>1, <2>1, <3>1, FollowTyped
    <3>3. \A a \in DOMAIN agents' : agents'[a] \in Statuses
      BY <1>1, <3>1 DEF ScreenTypes, Statuses
    <3>4. activeRun' # None => activeRun'.active \in BOOLEAN
      <4>1. CASE activeRun' = activeRun
        BY <1>1, <4>1 DEF ScreenTypes
      <4>2. CASE activeRun' = [run |-> c.about, active |-> TRUE]
        BY <4>2
      <4> QED
        BY <3>1, <4>1, <4>2
    <3>5. ScreenTypes'
      BY <1>1, <2>1, <3>1, <3>2, <3>3, <3>4 DEF ScreenTypes
    <3> QED
      BY <1>1, <3>1, <3>5 DEF Types
  <2>3. CASE c.answer.kind # "ok"
    <3>1. /\ activeRun' = None /\ net' = With(net \ {c}, "list", None, user)
          /\ reported' = reported \cup {c.about} /\ UNCHANGED <<agents, loops>>
      BY <1>4, <2>3 DEF SendArrives
    <3>2. NetOK(net')
      BY <1>1, <3>1, WithTyped
    <3>3. ScreenTypes'
      BY <1>1, <2>1, <3>1 DEF ScreenTypes, loops
    <3> QED
      BY <1>1, <3>2, <3>3 DEF Types
  <2> QED
    BY <2>2, <2>3
<1>5. CASE ActArrives(c)
  <2>1. UNCHANGED <<user, agents, messages, activeRun, sending, reported>> /\ busy' \in {busy, FALSE}
    BY <1>5 DEF ActArrives, loops
  <2>2. NetOK(net')
    BY <1>1, <1>5, WithTyped DEF ActArrives
  <2>3. ScreenTypes'
    BY <1>1, <2>1 DEF ScreenTypes
  <2> QED
    BY <1>1, <2>2, <2>3 DEF Types
<1>6. CASE LoopEnds(c)
  <2> DEFINE r == c.about
             shown == Selected(Target[r])
  <2>1. c.op = "refresh" /\ r \in Runs /\ UNCHANGED busy
    BY <1>1, <1>6 DEF LoopEnds, CallOK, IsCall
  <2>2. CASE c.answer.kind # "failed"
    <3> DEFINE s == Reselected(c.answer.data)
               text == IF c.answer.kind = "ok" /\ shown THEN Target[r] ELSE messages
    <3>1. /\ agents' = c.answer.data
          /\ Show(user, s, text, net \ {c})
          /\ sending' = sending \ {r}
          /\ reported' \subseteq reported \cup {r}
      BY <1>6, <2>2 DEF LoopEnds
    <3>2. DOMAIN c.answer.data \subseteq Agents
          /\ \A a \in DOMAIN c.answer.data : c.answer.data[a] \in Statuses
      BY <1>1, <2>1, <2>2 DEF CallOK, ListOK, Reads
    <3>3. s \in Agents \cup {None}
      BY <3>2 DEF Reselected
    <3>4. text \in Agents \cup {None}
      BY <1>1, <2>1, WebClientAssumption
    <3> HIDE DEF s, text, r, shown
    <3>5. /\ NetOK(net') /\ user' \in Principals \cup {None}
          /\ messages' \in Agents \cup {None} /\ activeRun' \in {None, activeRun}
      BY <1>1, <3>1, <3>3, <3>4, ShowTyped
    <3>6. ScreenTypes'
      BY <1>1, <2>1, <3>1, <3>2, <3>5 DEF ScreenTypes
    <3> QED
      BY <1>1, <3>5, <3>6 DEF Types
  <2>3. CASE c.answer.kind = "failed"
    <3>1. LoopFails(r, net \ {c}) /\ UNCHANGED <<user, agents, messages, busy>>
      BY <1>6, <2>1, <2>3 DEF LoopEnds
    <3> HIDE DEF r, shown
    <3>2. NetOK(net') /\ ScreenTypes'
      BY <1>1, <2>1, <3>1, LoopFailsTyped
    <3> QED
      BY <1>1, <3>2 DEF Types
  <2> QED
    BY <2>2, <2>3
<1> QED
  BY <1>2, <1>3, <1>4, <1>5, <1>6 DEF Arrives

\* The steps of loops keep the types.
LEMMA LoopTyped ==
    ASSUME Types, Inv, NEW r \in Runs, LoopStep(r)
    PROVE  Types'
<1>1. NetOK(net) /\ ScreenTypes /\ Counters /\ user \in Principals \cup {None}
  BY DEF Types, ScreenTypes
<1>2. CASE Asks(r)
  <2>1. UNCHANGED faults \/ Fault
    BY <1>2 DEF Asks
  <2>2. UNCHANGED <<net, user, agents, messages, activeRun, busy, sending, reported,
                    scenario, gestures>>
    BY <1>2 DEF Asks
  <2>3. Counters'
    BY <1>1, <2>1, <2>2, FaultTyped DEF Counters
  <2>4. ScreenTypes'
    BY <1>1, <2>2 DEF ScreenTypes
  <2> QED
    BY <1>1, <2>2, <2>3, <2>4 DEF Types
<1>3. CASE RunArrives(r)
  <2>1. UNCHANGED <<user, agents, messages, busy>> /\ Counters'
    BY <1>1, <1>3 DEF RunArrives, Counters
  <2>2. ASSUME NetOK(net'), sending' \subseteq sending, reported' \subseteq reported \cup {r},
               activeRun' # None => activeRun' = activeRun \/ activeRun'.active \in BOOLEAN
        PROVE  Types'
    <3>1. ScreenTypes'
      BY <1>1, <2>1, <2>2 DEF ScreenTypes
    <3> QED
      BY <2>1, <2>2, <3>1 DEF Types
  <2>3. ASSUME NEW active \in BOOLEAN, ShowsRun(r, active)
        PROVE  activeRun' # None => activeRun' = activeRun \/ activeRun'.active \in BOOLEAN
    BY <2>3 DEF ShowsRun
  <2>4. CASE ShowsRun(r, TRUE) /\ UNCHANGED <<net, sending, reported>>
    BY <1>1, <2>2, <2>3, <2>4
  <2>5. CASE ShowsRun(r, FALSE) /\ net' = With(net, "refresh", r, user)
             /\ UNCHANGED <<sending, reported>>
    <3>1. NetOK(With(net, "refresh", r, user))
      BY <1>1, WithTyped
    <3> QED
      BY <2>2, <2>3, <2>5, <3>1
  <2>6. CASE sending' = sending \ {r} /\ reported' \subseteq reported \cup {r}
             /\ UNCHANGED <<net, activeRun>>
    BY <1>1, <2>2, <2>6
  <2>7. CASE LoopFails(r, net)
    <3>1. NetOK(net') /\ ScreenTypes'
      BY <1>1, <2>1, <2>7, LoopFailsTyped
    <3> QED
      BY <2>1, <3>1 DEF Types
  <2> QED
    BY <1>3, <2>4, <2>5, <2>6, <2>7 DEF RunArrives
<1> QED
  BY <1>2, <1>3 DEF LoopStep

\* Types is kept by every step.
LEMMA TypesNext == Types /\ Inv /\ [Next]_vars => Types'
<1> SUFFICES ASSUME Types, Inv, [Next]_vars PROVE Types'
  OBVIOUS
<1>1. ASSUME UNCHANGED <<net, user, agents, messages, activeRun, busy, sending, reported,
                         scenario, gestures, faults>>
      PROVE  Types'
  BY <1>1 DEF Types, ScreenTypes, Counters
<1>2. CASE UserActs
  BY <1>2, UserTyped
<1>3. CASE NetworkStep
  BY <1>3, AnsweredTyped, ArrivesTyped DEF NetworkStep
<1>4. ASSUME NEW r \in Runs, LoopStep(r) \/ RunEnds(r) \/ OthersSend(r) PROVE Types'
  BY <1>1, <1>4, LoopTyped DEF RunEnds, OthersSend, screen, loops
<1>5. CASE UNCHANGED vars
  BY <1>1, <1>5 DEF vars, loops
<1> QED
  BY <1>2, <1>3, <1>4, <1>5 DEF Next

(* Every variable keeps its type and no two requests share a number,        *)
(* whatever the answers that arrive (refreshAgents and the effects of       *)
(* App.tsx): a list that fills the sidebar is one the server gave.          *)
THEOREM WebClientTypes == Spec => []TypeOK
<1>1. Types /\ Inv => TypeOK
  <2> SUFFICES ASSUME Types, Inv PROVE TypeOK
    OBVIOUS
  <2>1. ASSUME NEW c \in net
        PROVE  c \in [n : Nat, op : Ops, about : Agents \cup Runs \cup {None},
                      by : Principals \cup {None}, answer : Reply \cup {None}]
    <3>1. IsCall(c) /\ Numbered(c)
      BY DEF Types, NetOK, Inv, CallsOK, CallOK
    <3> QED
      BY <3>1 DEF IsCall, Numbered
  <2> QED
    BY <2>1 DEF Types, NetOK, ScreenTypes, Counters, Inv, Shape, RunsOK, TypeOK
<1>2. Init => Types
  BY TypesInit
<1> QED
  BY <1>1, <1>2, TypesNext, Invariance, PTL DEF Spec
=============================================================================
