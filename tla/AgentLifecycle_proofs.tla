----------------------- MODULE AgentLifecycle_proofs -----------------------
(***************************************************************************)
(* Proofs about AgentLifecycle, for any Agents and requests and any number *)
(* of crashes, faults and changes of the grants.                           *)
(***************************************************************************)
EXTENDS AgentLifecycle, SequenceTheorems, TLAPS

USE DEF Active, Finished, InExecution, Settled, Waiting, Answered

-----------------------------------------------------------------------------
(* Types                                                                   *)

LEMMA TypeInit == Init => TypeOK
    BY LifecycleAssumption, EmptySeq DEF Init, TypeOK, OrNone

\* The mutation at the head of the queue leaves it, or is replaced by the next
\* one of its handler; a handler queues one.
LEMMA QueueTypes ==
    ASSUME queue \in Seq(Requests), NEW r \in Requests
    PROVE  /\ Append(queue, r) \in Seq(Requests)
           /\ queue # <<>> => /\ Tail(queue) \in Seq(Requests)
                              /\ Append(Tail(queue), r) \in Seq(Requests)
    BY AppendProperties, HeadTailProperties, EmptySeq

\* What the actions of a request do to the types.
LEMMA TypeStep == TypeOK /\ [Next]_vars => TypeOK'
<1> SUFFICES ASSUME TypeOK, [Next]_vars
             PROVE  TypeOK'
    OBVIOUS
<1> USE DEF OrNone, rows, settings, runRows, memory, handlers, execution, cancels, files,
            counters, Goto, Enqueue, Dequeue, AtHead, Answers, Queues, Proceed
<1>1. ASSUME NEW r \in Requests, Arrive(r)
      PROVE  TypeOK'
  <2> USE DEF TypeOK
  <2>1. Append(queue, r) \in Seq(Requests)
      BY QueueTypes
  <2>2. CASE RefusedOnArrival(r)
      BY <2>2 DEF RefusedOnArrival
  <2>3. CASE CreateArrives(r)
      BY <2>3 DEF CreateArrives
  <2>4. CASE MutationArrives(r)
      BY <2>1, <2>4 DEF MutationArrives
  <2>5. CASE StopKills(r)
    <3>1. PICK u \in Requests : /\ killed' = killed \cup {u}
                                /\ awaited' = [awaited EXCEPT ![r] = u]
        BY <2>5 DEF StopKills, Processes
    <3>2. Target[r] \in Agents /\ running' \in [Requests -> SUBSET Requests]
        BY <2>5, LifecycleAssumption DEF StopKills, CancelArrives
    <3> QED
        BY <2>5, <3>1, <3>2, ZenonT(60) DEF StopKills
  <2>6. CASE StopAwaits(r)
      BY <2>6, LifecycleAssumption, ZenonT(60) DEF StopAwaits, CancelArrives, Execution
  <2>7. CASE StopFindsNothing(r)
    <3>1. running' \in [Requests -> SUBSET Requests]
        BY <2>7 DEF StopFindsNothing, CancelArrives
    <3>2. /\ queue' \in Seq(Requests)
          /\ \/ pc' = [pc EXCEPT ![r] = "queued"]
             \/ pc' = [pc EXCEPT ![r] = "archiving"]
        BY <2>1, <2>7 DEF StopFindsNothing
    <3> QED
        BY <2>7, <3>1, <3>2 DEF StopFindsNothing
  <2> HIDE DEF TypeOK
  <2> QED
      BY <1>1, <2>2, <2>3, <2>4, <2>5, <2>6, <2>7 DEF Arrive
<1>2. ASSUME NEW r \in Requests, Commit(r)
      PROVE  TypeOK'
  <2> USE DEF TypeOK, Commits
  <2>1. /\ Tail(queue) \in Seq(Requests)
        /\ Append(Tail(queue), r) \in Seq(Requests)
        /\ Target[r] \in Agents
      BY <1>2, QueueTypes, LifecycleAssumption
         DEF Commit, CommitCreate, CommitUpdate, CommitGuardrail, CommitStart,
             CommitRefused, CommitSend, CommitStop, CommitDelete
  <2>2. CASE CommitCreate(r)
      BY <2>1, <2>2 DEF CommitCreate
  <2>3. CASE CommitUpdate(r)
      BY <2>1, <2>3 DEF CommitUpdate
  <2>4. CASE CommitGuardrail(r)
      BY <2>1, <2>4 DEF CommitGuardrail
  <2>5. CASE CommitStart(r)
      BY <2>1, <2>5 DEF CommitStart
  <2>6. CASE CommitRefused(r)
      BY <2>1, <2>6 DEF CommitRefused
  <2>7. CASE CommitSend(r)
      BY <2>1, <2>7 DEF CommitSend
  <2>8. CASE CommitStop(r)
      BY <2>1, <2>8 DEF CommitStop
  <2>9. CASE CommitDelete(r)
      BY <2>1, <2>9 DEF CommitDelete, Purged
  <2> HIDE DEF TypeOK
  <2> QED
      BY <1>2, <2>2, <2>3, <2>4, <2>5, <2>6, <2>7, <2>8, <2>9 DEF Commit
<1>3. ASSUME NEW r \in Requests, Execute(r)
      PROVE  TypeOK'
  <2> USE DEF TypeOK, CommitRunning, WriteRun, Ends, Unregister
  <2>1. /\ Append(queue, r) \in Seq(Requests)
        /\ queue # <<>> => /\ Tail(queue) \in Seq(Requests)
                           /\ Append(Tail(queue), r) \in Seq(Requests)
        /\ Target[r] \in Agents
      BY QueueTypes, LifecycleAssumption
  <2>2. CASE RunCancelledEarly(r)
      BY <2>1, <2>2 DEF RunCancelledEarly
  <2>3. CASE RunForbidden(r)
      BY <2>1, <2>3 DEF RunForbidden
  <2>4. CASE PromptBlocked(r)
      BY <2>1, <2>4 DEF PromptBlocked
  <2>5. CASE RunnerBusy(r)
      BY <2>1, <2>5 DEF RunnerBusy
  <2>6. CASE SpawnProcess(r)
      BY <2>1, <2>6 DEF SpawnProcess
  <2>7. CASE ProcessExits(r)
      BY <2>1, <2>7 DEF ProcessExits, OutcomesOf
  <2>8. CASE CommitCompleted(r)
    <3>1. (status \in [Agents -> {"absent", "ready", "busy", "stopped", "error"}])'
        BY <2>1, <2>8 DEF CommitCompleted
    <3>2. (run \in [Requests -> Active \cup Finished \cup {"none", "deleted"}])'
        BY <2>1, <2>8 DEF CommitCompleted
    <3>3. (messages \subseteq Requests \X {"user", "assistant"})'
        BY <2>1, <2>8 DEF CommitCompleted
    <3> QED
        BY <2>1, <2>8, <3>1, <3>2, <3>3, ZenonT(60) DEF CommitCompleted
  <2>9. CASE CommitUnfinished(r)
      BY <2>1, <2>9 DEF CommitUnfinished
  <2> HIDE DEF TypeOK
  <2> QED
      BY <1>3, <2>2, <2>3, <2>4, <2>5, <2>6, <2>7, <2>8, <2>9 DEF Execute
<1>4. ASSUME NEW r \in Requests, FileIO(r) \/ Resume(r)
      PROVE  TypeOK'
  <2> USE DEF TypeOK
  <2>1. Append(queue, r) \in Seq(Requests) /\ Target[r] \in Agents
      BY QueueTypes, LifecycleAssumption
  <2>2. CASE WorkspaceCreated(r)
      BY <2>1, <2>2 DEF WorkspaceCreated
  <2>3. CASE InstructionsWritten(r)
    <3>1. agentsFile' = [agentsFile EXCEPT ![Target[r]] = r] \/ UNCHANGED agentsFile
        BY <2>3 DEF InstructionsWritten
    <3>2. PICK place \in {"answered", "error"} : pc' = [pc EXCEPT ![r] = place]
        BY <2>3 DEF InstructionsWritten
    <3> QED
        BY <2>1, <2>3, <3>1, <3>2 DEF InstructionsWritten
  <2>4. CASE Archive(r)
    <3>1. /\ queue' = Append(queue, r) \/ UNCHANGED queue
          /\ \/ workspace' = [workspace EXCEPT ![Target[r]] = "archived"]
             \/ UNCHANGED workspace
        BY <2>4 DEF Archive
    <3>2. PICK place \in {"queued", "error"} : pc' = [pc EXCEPT ![r] = place]
        BY <2>4 DEF Archive
    <3> QED
        BY <2>1, <2>4, <3>1, <3>2, ZenonT(60) DEF Archive
  <2>5. CASE KillReturns(r)
    <3>1. awaited' = [awaited EXCEPT ![r] = activeExecutions[Target[r]]]
        BY <2>5 DEF KillReturns, Execution
    <3>2. /\ queue' \in Seq(Requests)
          /\ cancellationRequests' \subseteq Agents
        BY <2>1, <2>5 DEF KillReturns
    <3>3. \/ /\ pc' = [pc EXCEPT ![r] = "awaiting"]
             /\ activeExecutions[Target[r]] \in Requests
          \/ pc' = [pc EXCEPT ![r] = "queued"]
          \/ pc' = [pc EXCEPT ![r] = "archiving"]
        BY <2>1, <2>5 DEF KillReturns, Execution
    <3> QED
        BY <2>1, <2>5, <3>1, <3>2, <3>3 DEF KillReturns
  <2>6. CASE ExecutionReturns(r)
    <3>1. queue' \in Seq(Requests)
        BY <2>1, <2>6 DEF ExecutionReturns
    <3>2. PICK place \in {"queued", "archiving", "error"} :
             pc' = [pc EXCEPT ![r] = place]
        BY <2>6 DEF ExecutionReturns
    <3> QED
        BY <2>6, <3>1, <3>2 DEF ExecutionReturns
  <2> HIDE DEF TypeOK
  <2> QED
      BY <1>4, <2>2, <2>3, <2>4, <2>5, <2>6 DEF FileIO, Resume
<1>5. ASSUME NEW r \in Requests, PersistFails(r)
      PROVE  TypeOK'
  <2>1. Tail(queue) \in Seq(Requests) /\ Append(Tail(queue), r) \in Seq(Requests)
      BY <1>5, QueueTypes DEF PersistFails, TypeOK
  <2>2. (queue \in Seq(Requests))'
      BY <1>5, <2>1 DEF PersistFails, Ends
  <2>3. PICK place \in {"error", "finishing", "rejected"} : pc' = [pc EXCEPT ![r] = place]
      BY <1>5 DEF PersistFails, Ends
  <2>4. verdict' = [verdict EXCEPT ![r] = "failed"] \/ UNCHANGED verdict
      BY <1>5 DEF PersistFails, Ends
  <2>5. (activeExecutions \in [Agents -> OrNone])'
      BY <1>5 DEF PersistFails, Unregister, TypeOK
  <2>6. UNCHANGED <<rows, cancellationRequests, killed, agentAtStart, cancels, files,
                    crashes, grantChanges>>
      BY <1>5 DEF PersistFails
  <2>7. faults' \in Nat
      BY <1>5 DEF PersistFails, TypeOK
  <2> QED
      BY <2>2, <2>3, <2>4, <2>5, <2>6, <2>7 DEF TypeOK
<1>6. ASSUME NEW r \in Requests, WorkspaceFails(r)
      PROVE  TypeOK'
    BY <1>6, SMTT(30) DEF WorkspaceFails, TypeOK
<1>7. ASSUME NEW a \in Agents, GrantChanges(a)
      PROVE  TypeOK'
    BY <1>7 DEF GrantChanges, TypeOK
<1>8. CASE Restart
    BY <1>8, EmptySeq DEF Restart, Interrupted, Recovered, TypeOK
<1>9. CASE UNCHANGED vars
    BY <1>9 DEF vars, TypeOK
<1> QED
    BY <1>1, <1>2, <1>3, <1>4, <1>5, <1>6, <1>7, <1>8, <1>9 DEF Next

-----------------------------------------------------------------------------
(* What a step does to Runs                                                *)

\* A Send that has been admitted is one of these.
Begun == InExecution \cup Settled \cup {"lost"}
Places == {"idle"} \cup InExecution \cup Settled \cup Waiting \cup Answered

\* A handler gets on, without an effect on Runs.
Handles(r) ==
    /\ pc[r] \notin Begun
    /\ \E place \in Places \ Begun : pc' = [pc EXCEPT ![r] = place]
    /\ \/ UNCHANGED status
       \/ \E s \in {"ready", "stopped"} : status' = [status EXCEPT ![Target[r]] = s]
    /\ UNCHANGED <<runRows, verdict>>

\* A Run is marked as running, and has a process, for which it is asked whether
\* the sender may still invoke the Agent, or has ended.
RunBegins(r) ==
    /\ pc[r] = "starting"
    /\ WriteRun(r, "running")
    /\ \/ /\ pc' = [pc EXCEPT ![r] = "process"]
          /\ NoProcess(Target[r]) /\ MayInvoke(r)
          /\ UNCHANGED verdict
       \/ /\ pc' = [pc EXCEPT ![r] = "finishing"]
          /\ \E how \in Finished : verdict' = [verdict EXCEPT ![r] = how]
    /\ UNCHANGED <<status, messages>>

\* A Run has ended, or has another end than the one that could not be stored.
RunStops(r) ==
    /\ pc[r] \in {"process", "finishing"}
    /\ pc' = [pc EXCEPT ![r] = "finishing"]
    /\ \E how \in Finished : verdict' = [verdict EXCEPT ![r] = how]
    /\ UNCHANGED <<status, runRows>>

\* An execution is given up.
RunIsStuck(r) ==
    /\ pc[r] \in {"starting", "finishing"}
    /\ pc' = [pc EXCEPT ![r] = "rejected"]
    /\ UNCHANGED <<status, runRows, verdict>>

\* Every step, by what it does to Runs, their places and the busy Agents.
LEMMA Effects ==
    [Next]_vars =>
        \/ \E r \in Requests :
              \/ Handles(r) \/ RunBegins(r) \/ RunStops(r) \/ RunIsStuck(r)
              \/ CommitSend(r) \/ CommitDelete(r)
              \/ CommitCompleted(r) \/ CommitUnfinished(r)
        \/ Restart
        \/ UNCHANGED <<status, runRows, verdict, pc>>
<1> USE DEF rows, runRows, handlers, execution, Goto, Answers, Queues, Proceed, Begun, Places
<1>1. ASSUME NEW r \in Requests, Arrive(r)
      PROVE  Handles(r)
  <2>1. CASE RefusedOnArrival(r)
      BY <2>1 DEF RefusedOnArrival, Handles
  <2>2. CASE CreateArrives(r)
      BY <2>2 DEF CreateArrives, Arrives, Handles
  <2>3. CASE MutationArrives(r)
      BY <2>3 DEF MutationArrives, Arrives, Handles
  <2>4. CASE StopKills(r)
      BY <2>4 DEF StopKills, CancelArrives, Arrives, Handles
  <2>5. CASE StopAwaits(r)
      BY <2>5 DEF StopAwaits, CancelArrives, Arrives, Handles
  <2>6. CASE StopFindsNothing(r)
      BY <2>6 DEF StopFindsNothing, CancelArrives, Arrives, Handles
  <2> QED
      BY <1>1, <2>1, <2>2, <2>3, <2>4, <2>5, <2>6 DEF Arrive
<1>2. ASSUME NEW r \in Requests, Commit(r)
      PROVE  Handles(r) \/ CommitSend(r) \/ CommitDelete(r)
    BY <1>2 DEF Commit, Commits, CommitCreate, CommitUpdate, CommitGuardrail, CommitStart,
                CommitRefused, CommitStop, Handles
<1>3. ASSUME NEW r \in Requests, Execute(r)
      PROVE  RunBegins(r) \/ RunStops(r) \/ CommitCompleted(r) \/ CommitUnfinished(r)
    BY <1>3 DEF Execute, CommitRunning, RunCancelledEarly, RunForbidden, PromptBlocked,
                RunnerBusy, SpawnProcess, ProcessExits, OutcomesOf, Ends, RunBegins, RunStops
<1>4. ASSUME NEW r \in Requests, FileIO(r) \/ Resume(r) \/ WorkspaceFails(r)
      PROVE  Handles(r)
    BY <1>4 DEF FileIO, Resume, WorkspaceCreated, InstructionsWritten, Archive, KillReturns,
                ExecutionReturns, WorkspaceFails, Resumable, Handles
<1>5. ASSUME NEW r \in Requests, PersistFails(r)
      PROVE  Handles(r) \/ RunStops(r) \/ RunIsStuck(r)
    BY <1>5 DEF PersistFails, Ends, Handles, RunStops, RunIsStuck
<1>6. ASSUME NEW a \in Agents, GrantChanges(a)
      PROVE  UNCHANGED <<status, runRows, verdict, pc>>
    BY <1>6 DEF GrantChanges
<1>7. CASE UNCHANGED vars
    BY <1>7 DEF vars
<1> QED
    BY <1>1, <1>2, <1>3, <1>4, <1>5, <1>6, <1>7 DEF Next

-----------------------------------------------------------------------------
(* Runs and their executions                                               *)

\* The row of a Run follows its execution.
Follows ==
    \A u \in Requests :
        /\ pc[u] \notin Begun => run[u] = "none"
        /\ pc[u] = "starting" => run[u] \in {"queued", "deleted"}
        /\ pc[u] \in {"process", "finishing"} => run[u] \in {"running", "deleted"}
        /\ pc[u] \in {"settled", "lost"} => run[u] \notin Active
        /\ pc[u] = "finishing" => verdict[u] \in Finished

RunInv ==
    /\ TypeOK
    /\ Follows
    /\ NoOrphanRows
    /\ BusyHasExecution
    /\ OneProcessPerAgent

\* The server starts without Runs.
LEMMA RunInit == Init => RunInv
<1>1. Init => Follows /\ NoOrphanRows /\ BusyHasExecution /\ OneProcessPerAgent
    BY DEF Init, Follows, Begun, NoOrphanRows, BusyHasExecution, OneProcessPerAgent
<1> QED
    BY <1>1, TypeInit DEF RunInv

\* The row of a Run keeps up with its execution.
LEMMA FollowsStep == RunInv /\ [Next]_vars => Follows'
<1> SUFFICES ASSUME RunInv, [Next]_vars
             PROVE  Follows'
    OBVIOUS
<1> USE DEF RunInv, TypeOK, Follows, Begun, Goto, runRows
<1>1. ASSUME NEW r \in Requests, Handles(r)
      PROVE  Follows'
    BY <1>1 DEF Handles, Places
<1>2. ASSUME NEW r \in Requests, RunBegins(r)
      PROVE  Follows'
    BY <1>2 DEF RunBegins, WriteRun
<1>3. ASSUME NEW r \in Requests, RunStops(r)
      PROVE  Follows'
    BY <1>3 DEF RunStops
<1>4. ASSUME NEW r \in Requests, RunIsStuck(r)
      PROVE  Follows'
    BY <1>4 DEF RunIsStuck
<1>5. ASSUME NEW r \in Requests, CommitSend(r)
      PROVE  Follows'
    BY <1>5 DEF CommitSend
<1>6. ASSUME NEW r \in Requests, CommitDelete(r)
      PROVE  Follows'
    BY <1>6 DEF CommitDelete, Purged, Answers, Commits, handlers, execution
<1>7. ASSUME NEW r \in Requests, CommitCompleted(r)
      PROVE  Follows'
    BY <1>7 DEF CommitCompleted, StillThere, NoOrphanRows, handlers, execution
<1>8. ASSUME NEW r \in Requests, CommitUnfinished(r)
      PROVE  Follows'
    BY <1>8 DEF CommitUnfinished, WriteRun, handlers, execution
<1>9. CASE Restart
    BY <1>9 DEF Restart, Interrupted, handlers, execution
<1>10. CASE UNCHANGED <<status, runRows, verdict, pc>>
    BY <1>10
<1> HIDE DEF RunInv, Follows
<1> QED
    BY <1>1, <1>2, <1>3, <1>4, <1>5, <1>6, <1>7, <1>8, <1>9, <1>10, Effects

\* No step leaves the row of a Run, or of its messages, without its Agent.
LEMMA OrphansStep == RunInv /\ [Next]_vars => NoOrphanRows'
<1> SUFFICES ASSUME RunInv, [Next]_vars
             PROVE  NoOrphanRows'
    OBVIOUS
<1> USE DEF RunInv, TypeOK, NoOrphanRows, runRows
<1>1. ASSUME NEW r \in Requests, Handles(r)
      PROVE  NoOrphanRows'
  <2>1. \A a \in Agents : status[a] # "absent" => status'[a] # "absent"
      BY <1>1 DEF Handles
  <2> QED
      BY <1>1, <2>1, LifecycleAssumption DEF Handles
<1>2. ASSUME NEW r \in Requests, RunBegins(r)
      PROVE  NoOrphanRows'
    BY <1>2 DEF RunBegins, WriteRun, Follows
<1>3. ASSUME NEW r \in Requests, RunStops(r) \/ RunIsStuck(r)
      PROVE  NoOrphanRows'
    BY <1>3 DEF RunStops, RunIsStuck
<1>4. ASSUME NEW r \in Requests, CommitSend(r)
      PROVE  NoOrphanRows'
    BY <1>4, LifecycleAssumption DEF CommitSend
<1>5. ASSUME NEW r \in Requests, CommitDelete(r)
      PROVE  NoOrphanRows'
    BY <1>5, LifecycleAssumption DEF CommitDelete, Purged
<1>6. ASSUME NEW r \in Requests, CommitCompleted(r)
      PROVE  NoOrphanRows'
  <2>1. CASE StillThere(r)
    <3>1. /\ run' = [run EXCEPT ![r] = "completed"]
          /\ messages' = messages \cup {<<r, "assistant">>}
          /\ status' = [status EXCEPT ![Target[r]] = "ready"]
        BY <1>6, <2>1 DEF CommitCompleted
    <3> QED
        BY <2>1, <3>1, LifecycleAssumption DEF StillThere
  <2>2. CASE ~StillThere(r)
      BY <1>6, <2>2 DEF CommitCompleted
  <2> QED
      BY <2>1, <2>2
<1>7. ASSUME NEW r \in Requests, CommitUnfinished(r)
      PROVE  NoOrphanRows'
    BY <1>7, LifecycleAssumption, ZenonT(60) DEF CommitUnfinished, WriteRun, Follows
<1>8. CASE Restart
  <2>1. /\ \A a \in Agents : status[a] # "absent" => status'[a] # "absent"
        /\ \A u \in Requests : run'[u] \in {"none", "deleted"} <=> run[u] \in {"none", "deleted"}
        /\ UNCHANGED messages
      BY <1>8 DEF Restart, Interrupted, Recovered
  <2> QED
      BY <2>1, LifecycleAssumption
<1>9. CASE UNCHANGED <<status, runRows, verdict, pc>>
    BY <1>9
<1> HIDE DEF RunInv, NoOrphanRows
<1> QED
    BY <1>1, <1>2, <1>3, <1>4, <1>5, <1>6, <1>7, <1>8, <1>9, Effects

\* No step leaves an Agent busy that nothing executes for.
LEMMA BusyStep == RunInv /\ [Next]_vars => BusyHasExecution'
<1> SUFFICES ASSUME RunInv, [Next]_vars
             PROVE  BusyHasExecution'
    OBVIOUS
<1> USE DEF RunInv, TypeOK, BusyHasExecution, runRows
<1>1. ASSUME NEW r \in Requests, Handles(r)
      PROVE  BusyHasExecution'
    BY <1>1 DEF Handles, Begun
<1>2. ASSUME NEW r \in Requests, RunBegins(r)
      PROVE  BusyHasExecution'
    BY <1>2, SMTT(60) DEF RunBegins, WriteRun
<1>3. ASSUME NEW r \in Requests, RunStops(r) \/ RunIsStuck(r)
      PROVE  BusyHasExecution'
  <2>1. /\ UNCHANGED <<status, run>>
        /\ \A u \in Requests : pc[u] \in InExecution \cup {"rejected"} =>
                               pc'[u] \in InExecution \cup {"rejected"}
      BY <1>3 DEF RunStops, RunIsStuck
  <2> QED
      BY <2>1
<1>4. ASSUME NEW r \in Requests, CommitSend(r)
      PROVE  BusyHasExecution'
    BY <1>4, LifecycleAssumption, SMTT(60) DEF CommitSend, Commits, Goto
<1>5. ASSUME NEW r \in Requests, CommitDelete(r)
      PROVE  BusyHasExecution'
    BY <1>5, SMTT(60) DEF CommitDelete, Purged, Commits, Answers, Goto
<1>6. ASSUME NEW r \in Requests, CommitCompleted(r)
      PROVE  BusyHasExecution'
  <2>1. \A u \in Requests \ {r} : run'[u] = run[u] /\ pc'[u] = pc[u]
      BY <1>6 DEF CommitCompleted, Goto
  <2>2. CASE StillThere(r)
    <3>1. status' = [status EXCEPT ![Target[r]] = "ready"]
        BY <1>6, <2>2 DEF CommitCompleted
    <3> QED
        BY <2>1, <3>1, SMTT(60)
  <2>3. CASE ~StillThere(r)
    <3>1. UNCHANGED status
        BY <1>6, <2>3 DEF CommitCompleted
    <3> QED
        BY <2>1, <2>3, <3>1, SMTT(60) DEF StillThere
  <2> QED
      BY <2>2, <2>3
<1>7. ASSUME NEW r \in Requests, CommitUnfinished(r)
      PROVE  BusyHasExecution'
    BY <1>7 DEF CommitUnfinished, WriteRun, Goto
<1>8. CASE Restart
    BY <1>8 DEF Restart, Recovered
<1>9. CASE UNCHANGED <<status, runRows, verdict, pc>>
    BY <1>9
<1> HIDE DEF RunInv, BusyHasExecution
<1> QED
    BY <1>1, <1>2, <1>3, <1>4, <1>5, <1>6, <1>7, <1>8, <1>9, Effects

\* The runner looks for a process before it starts one.
LEMMA ProcessStep == RunInv /\ [Next]_vars => OneProcessPerAgent'
<1> SUFFICES ASSUME RunInv, [Next]_vars
             PROVE  OneProcessPerAgent'
    OBVIOUS
<1> USE DEF RunInv, TypeOK, OneProcessPerAgent, Goto
<1>1. ASSUME NEW r \in Requests, RunBegins(r)
      PROVE  OneProcessPerAgent'
  <2>1. CASE pc' = [pc EXCEPT ![r] = "process"] /\ NoProcess(Target[r])
      BY <2>1 DEF NoProcess, Processes
  <2>2. CASE pc' = [pc EXCEPT ![r] = "finishing"]
      BY <2>2
  <2> QED
      BY <1>1, <2>1, <2>2 DEF RunBegins
<1>2. ASSUME \A u \in Requests : pc'[u] = "process" => pc[u] = "process"
      PROVE  OneProcessPerAgent'
    BY <1>2
<1>3. ASSUME NEW r \in Requests,
             \/ Handles(r) \/ RunStops(r) \/ RunIsStuck(r)
             \/ CommitSend(r) \/ CommitDelete(r)
             \/ CommitCompleted(r) \/ CommitUnfinished(r)
      PROVE  \A u \in Requests : pc'[u] = "process" => pc[u] = "process"
    BY <1>3 DEF Handles, RunStops, RunIsStuck, CommitSend, CommitDelete, CommitCompleted,
                CommitUnfinished, Answers, Begun
<1>4. Restart => \A u \in Requests : pc'[u] = "process" => pc[u] = "process"
    BY DEF Restart
<1> HIDE DEF RunInv, OneProcessPerAgent
<1> QED
    BY <1>1, <1>2, <1>3, <1>4, Effects

\* RunInv is inductive.
LEMMA RunStep == RunInv /\ [Next]_vars => RunInv'
    BY TypeStep, FollowsStep, OrphansStep, BusyStep, ProcessStep DEF RunInv

\* The inductive invariant holds in every reachable state.
THEOREM RunInvariance == Spec => []RunInv
    BY RunInit, RunStep, PTL DEF Spec

\* The rows, the maps of the service and the queue are always well-formed: a
\* Run or an Agent never gets a status its readers do not know (agent-service.ts:27).
THEOREM TypeCorrect == Spec => []TypeOK
<1>1. RunInv => TypeOK
    BY DEF RunInv
<1> QED
    BY <1>1, RunInvariance, PTL

\* Whatever overlaps, an Agent has one Codex process at most: the check of the
\* runner is enough (codex-runner.ts:182).
THEOREM OneProcess == Spec => []OneProcessPerAgent
<1>1. RunInv => OneProcessPerAgent
    BY DEF RunInv
<1> QED
    BY <1>1, RunInvariance, PTL

\* A busy Agent has a Run that will release it, also after a restart, unless the
\* end of that Run could not be stored (agent-service.ts:60-65, 256, 429, 451).
THEOREM BusyAgents == Spec => []BusyHasExecution
<1>1. RunInv => BusyHasExecution
    BY DEF RunInv
<1> QED
    BY <1>1, RunInvariance, PTL

\* A Run that is shown as active is being executed, also after a restart, unless
\* a write of it failed (agent-service.ts:53-59, 293-457).
THEOREM ActiveRuns == Spec => []ActiveRunIsExecuting
<1>1. RunInv => ActiveRunIsExecuting
    BY DEF RunInv, TypeOK, Follows, Begun, ActiveRunIsExecuting
<1> QED
    BY <1>1, RunInvariance, PTL

\* A Delete never leaves a Run or a message behind, nor does a Run it overtakes
\* bring them back (agent-service.ts:166-170, 416).
THEOREM NoOrphans == Spec => []NoOrphanRows
<1>1. RunInv => NoOrphanRows
    BY DEF RunInv
<1> QED
    BY <1>1, RunInvariance, PTL

-----------------------------------------------------------------------------
(* What clients see                                                        *)

LEMMA LedgerStep == RunInv /\ [Next]_vars => [RunLedger!Next]_(RunLedger!vars)
<1> SUFFICES ASSUME RunInv, [Next]_vars
             PROVE  [RunLedger!Next]_(RunLedger!vars)
    OBVIOUS
<1> USE DEF RunLedger!Next, RunLedger!vars, runRows
<1>1. run \in [Requests -> Active \cup Finished \cup {"none", "deleted"}]
    BY DEF RunInv, TypeOK
<1>2. ASSUME NEW r \in Requests, RunBegins(r)
      PROVE  RunLedger!Begin(r) \/ UNCHANGED <<run, messages>>
    BY <1>1, <1>2 DEF RunBegins, WriteRun, RunInv, Follows, RunLedger!Begin
<1>3. ASSUME NEW r \in Requests, CommitSend(r)
      PROVE  RunLedger!Admit(r)
    BY <1>3 DEF CommitSend, Commits, RunInv, Follows, Begun, RunLedger!Admit
<1>4. ASSUME NEW r \in Requests, CommitCompleted(r)
      PROVE  RunLedger!Complete(r) \/ UNCHANGED <<run, messages>>
    BY <1>4 DEF CommitCompleted, StillThere, RunInv, Follows, RunLedger!Complete
<1>5. ASSUME NEW r \in Requests, CommitUnfinished(r)
      PROVE  RunLedger!End(r) \/ UNCHANGED <<run, messages>>
    BY <1>1, <1>5 DEF CommitUnfinished, WriteRun, RunInv, Follows, RunLedger!End,
                      RunLedger!Unfinished
<1>6. ASSUME NEW r \in Requests, CommitDelete(r)
      PROVE  Target[r] \in Agents /\ RunLedger!Purge(Target[r])
    BY <1>6, LifecycleAssumption DEF CommitDelete, Purged, RunLedger!Purge
<1>7. CASE Restart
    BY <1>7 DEF Restart, Interrupted, RunLedger!Interrupt, RunLedger!Active
<1>8. ASSUME NEW r \in Requests, Handles(r) \/ RunStops(r) \/ RunIsStuck(r)
      PROVE  UNCHANGED <<run, messages>>
    BY <1>8 DEF Handles, RunStops, RunIsStuck
<1> QED
    BY <1>2, <1>3, <1>4, <1>5, <1>6, <1>7, <1>8, Effects

\* A Run is admitted once with its message, moves forward, ends once, has an
\* answer exactly if it completed, and goes only with its Agent
\* (agent-service.ts:53-59, 162-172, 242-260, 293-457).
THEOREM Implements == Spec => Ledger
<1>1. Init => RunLedger!Init
    BY DEF Init, RunLedger!Init
<1> QED
    BY <1>1, LedgerStep, RunInvariance, PTL DEF Spec, Ledger, RunLedger!Spec

-----------------------------------------------------------------------------
(* The configuration of a busy Agent                                       *)

\* An execution is registered for its own Agent.
Registered ==
    \A a \in Agents : activeExecutions[a] # None => Target[activeExecutions[a]] = a

ConfigInv == TypeOK /\ Registered /\ BusyFreezesConfiguration

\* Neither the configuration nor what was read of it changes, and no Agent
\* becomes busy.
KeepsConfiguration ==
    /\ UNCHANGED <<instructions, guardrailPolicy, agentAtStart>>
    /\ \A a \in Agents : activeExecutions'[a] \in {activeExecutions[a], None}
    /\ \A a \in Agents : status'[a] = "busy" => status[a] = "busy"

\* An edit commits: its Agent is not busy.
Edits(r) ==
    /\ status[Target[r]] # "busy"
    /\ UNCHANGED <<status, agentAtStart, activeExecutions>>
    /\ \A a \in Agents \ {Target[r]} : /\ instructions'[a] = instructions[a]
                                        /\ guardrailPolicy'[a] = guardrailPolicy[a]

\* Every step, by what it does to the configuration and to the registered executions.
LEMMA ConfigEffects ==
    TypeOK /\ [Next]_vars =>
        \/ \E r \in Requests : CommitSend(r) \/ Edits(r)
        \/ KeepsConfiguration
<1> SUFFICES ASSUME TypeOK, [Next]_vars
             PROVE  \/ \E r \in Requests : CommitSend(r) \/ Edits(r)
                    \/ KeepsConfiguration
    OBVIOUS
<1> USE DEF TypeOK, rows, settings, memory, handlers, execution
<1>1. ASSUME NEW r \in Requests, Arrive(r) \/ FileIO(r) \/ Resume(r) \/ WorkspaceFails(r)
      PROVE  UNCHANGED <<status, instructions, guardrailPolicy, agentAtStart, activeExecutions>>
    BY <1>1 DEF Arrive, RefusedOnArrival, CreateArrives, MutationArrives, StopKills, StopAwaits,
                StopFindsNothing, FileIO, WorkspaceCreated, InstructionsWritten, Archive,
                Resume, KillReturns, ExecutionReturns, WorkspaceFails
<1>2. ASSUME NEW r \in Requests, CommitUpdate(r) \/ CommitGuardrail(r)
      PROVE  Edits(r)
    BY <1>2 DEF CommitUpdate, CommitGuardrail, Editable, Edits
<1>3. ASSUME NEW r \in Requests,
             \/ CommitCreate(r) \/ CommitStart(r) \/ CommitRefused(r)
             \/ CommitStop(r) \/ CommitDelete(r)
      PROVE  KeepsConfiguration
    BY <1>3 DEF CommitCreate, CommitStart, CommitRefused, CommitStop, CommitDelete,
                KeepsConfiguration
<1>4. ASSUME NEW r \in Requests,
             \/ RunCancelledEarly(r) \/ RunForbidden(r) \/ PromptBlocked(r)
             \/ RunnerBusy(r) \/ SpawnProcess(r) \/ ProcessExits(r)
      PROVE  KeepsConfiguration
    BY <1>4 DEF RunCancelledEarly, RunForbidden, PromptBlocked, RunnerBusy, SpawnProcess,
                ProcessExits, CommitRunning, KeepsConfiguration
<1>5. ASSUME NEW r \in Requests, CommitCompleted(r) \/ CommitUnfinished(r)
      PROVE  KeepsConfiguration
  <2>1. /\ UNCHANGED <<instructions, guardrailPolicy, agentAtStart>>
        /\ \A a \in Agents : activeExecutions'[a] \in {activeExecutions[a], None}
      BY <1>5 DEF CommitCompleted, CommitUnfinished, Unregister
  <2>2. \A a \in Agents : status'[a] = "busy" => status[a] = "busy"
      BY <1>5 DEF CommitCompleted, CommitUnfinished
  <2> QED
      BY <2>1, <2>2 DEF KeepsConfiguration
<1>6. ASSUME NEW r \in Requests, PersistFails(r)
      PROVE  KeepsConfiguration
  <2>1. UNCHANGED <<status, instructions, guardrailPolicy, agentAtStart>>
      BY <1>6 DEF PersistFails
  <2>2. UNCHANGED activeExecutions \/ Unregister(r)
      BY <1>6 DEF PersistFails
  <2> QED
      BY <2>1, <2>2 DEF KeepsConfiguration, Unregister
<1>7. ASSUME NEW a \in Agents, GrantChanges(a)
      PROVE  KeepsConfiguration
    BY <1>7 DEF GrantChanges, KeepsConfiguration
<1>8. CASE Restart
    BY <1>8 DEF Restart, Recovered, KeepsConfiguration
<1>9. CASE UNCHANGED vars
    BY <1>9 DEF vars, KeepsConfiguration
<1> HIDE DEF TypeOK
<1>10. ASSUME NEW r \in Requests, Commit(r) \/ Execute(r)
       PROVE  CommitSend(r) \/ Edits(r) \/ KeepsConfiguration
    BY <1>2, <1>3, <1>4, <1>5, <1>10 DEF Commit, Execute
<1>11. UNCHANGED <<status, instructions, guardrailPolicy, agentAtStart, activeExecutions>>
           => KeepsConfiguration
    BY DEF KeepsConfiguration
<1> QED
    BY <1>1, <1>6, <1>7, <1>8, <1>9, <1>10, <1>11 DEF Next

\* ConfigInv is inductive.
LEMMA ConfigStep == ConfigInv /\ [Next]_vars => ConfigInv'
<1> SUFFICES ASSUME ConfigInv, [Next]_vars
             PROVE  Registered' /\ BusyFreezesConfiguration'
    BY TypeStep DEF ConfigInv
<1> USE DEF ConfigInv, TypeOK, OrNone, Registered, BusyFreezesConfiguration
<1>1. ASSUME NEW r \in Requests, CommitSend(r)
      PROVE  Registered' /\ BusyFreezesConfiguration'
  <2> DEFINE a == Target[r]
  <2>1. /\ a \in Agents
        /\ activeExecutions' = [activeExecutions EXCEPT ![a] = r]
        /\ agentAtStart' = [agentAtStart EXCEPT ![r] =
               [instructions |-> instructions[a], policy |-> guardrailPolicy[a]]]
        /\ status' = [status EXCEPT ![a] = "busy"]
        /\ UNCHANGED <<instructions, guardrailPolicy>>
      BY <1>1, LifecycleAssumption DEF CommitSend, settings
  <2>2. \A b \in Agents \ {a} : activeExecutions[b] # r
      BY LifecycleAssumption
  <2> QED
      BY <2>1, <2>2
<1>2. ASSUME NEW r \in Requests, Edits(r)
      PROVE  Registered' /\ BusyFreezesConfiguration'
    BY <1>2 DEF Edits
<1>3. CASE KeepsConfiguration
    BY <1>3 DEF KeepsConfiguration
<1> HIDE DEF ConfigInv, Registered, BusyFreezesConfiguration
<1> QED
    BY <1>1, <1>2, <1>3, ConfigEffects DEF ConfigInv

\* A Run works with the configuration its busy Agent shows, although it was read
\* when the Run was admitted (agent-service.ts:114, 122, 146, 153, 254).
THEOREM BusyConfiguration == Spec => []BusyFreezesConfiguration
<1>1. Init => ConfigInv
    BY TypeInit DEF Init, ConfigInv, Registered, BusyFreezesConfiguration
<1>2. ConfigInv => BusyFreezesConfiguration
    BY DEF ConfigInv
<1> QED
    BY <1>1, <1>2, ConfigStep, PTL DEF Spec

-----------------------------------------------------------------------------
(* Rows and workspaces                                                     *)

\* The places only some operations come to.
Placed ==
    \A r \in Requests :
        /\ pc[r] = "creating" => Op[r] = "create"
        /\ pc[r] \in {"killing", "awaiting"} => Op[r] \in {"stop", "delete"}
        /\ pc[r] = "archiving" => Op[r] = "delete"

\* An Agent that is yet to be created has no row, nobody deletes it, and its
\* workspace is there before the mutation that inserts the row.
Unborn ==
    \A r \in Requests : Op[r] = "create" /\ pc[r] \in {"idle", "creating", "queued"} =>
        /\ status[Target[r]] = "absent"
        /\ pc[r] = "queued" => workspace[Target[r]] = "live"
        /\ \A d \in Requests : Op[d] = "delete" /\ Target[d] = Target[r] =>
               pc[d] \in {"idle", "error"}

WorkspaceInv == TypeOK /\ Placed /\ Unborn /\ RowHasWorkspace

\* A handler gets on, and neither a workspace nor a new row comes of it.
GetsTo(r, place) ==
    /\ pc' = [pc EXCEPT ![r] = place]
    /\ pc[r] \notin {"error", "lost"} /\ place # "idle"
    /\ place = "creating" => Op[r] = "create" /\ pc[r] = "idle"
    /\ place = "queued" => Op[r] \notin {"create", "delete"}
    /\ place \in {"killing", "awaiting"} => Op[r] \in {"stop", "delete"}
    /\ place = "archiving" => Op[r] = "delete"
    /\ Op[r] = "delete" /\ pc[r] = "idle" /\ place # "error" => status[Target[r]] # "absent"
    /\ Op[r] = "delete" /\ pc[r] = "queued" /\ place # "error" => status'[Target[r]] = "absent"
    /\ UNCHANGED workspace
    /\ \A a \in Agents : status[a] = "absent" => status'[a] = "absent"

\* Every step, by what it does to rows and directories.
LEMMA PlaceEffects ==
    WorkspaceInv /\ [Next]_vars =>
        \/ \E r \in Requests :
              \/ \E place \in Places : GetsTo(r, place)
              \/ CommitCreate(r) \/ WorkspaceCreated(r) \/ Archive(r) \/ WorkspaceFails(r)
        \/ Restart
        \/ UNCHANGED <<status, workspace, pc>>
<1> SUFFICES ASSUME WorkspaceInv, [Next]_vars
             PROVE  \/ \E r \in Requests :
                         \/ \E place \in Places : GetsTo(r, place)
                         \/ CommitCreate(r) \/ WorkspaceCreated(r)
                         \/ Archive(r) \/ WorkspaceFails(r)
                    \/ Restart
                    \/ UNCHANGED <<status, workspace, pc>>
    OBVIOUS
<1> USE DEF rows, files, Goto, Answers, Queues, Proceed, Places
<1>1. ASSUME NEW r \in Requests, Arrive(r)
      PROVE  \E place \in Places : GetsTo(r, place)
    BY <1>1 DEF Arrive, RefusedOnArrival, CreateArrives, MutationArrives, StopKills,
                StopAwaits, StopFindsNothing, CancelArrives, Arrives, GetsTo
<1>2. ASSUME NEW r \in Requests,
             \/ CommitUpdate(r) \/ CommitGuardrail(r) \/ CommitStart(r)
             \/ CommitRefused(r) \/ CommitSend(r) \/ CommitStop(r) \/ CommitDelete(r)
      PROVE  \E place \in Places : GetsTo(r, place)
    BY <1>2, LifecycleAssumption
       DEF WorkspaceInv, TypeOK, CommitUpdate, CommitGuardrail, CommitStart, CommitRefused,
           CommitSend, CommitStop, CommitDelete, Commits, Editable, GetsTo
<1>3. ASSUME NEW r \in Requests, Execute(r)
      PROVE  \E place \in Places : GetsTo(r, place)
    BY <1>3 DEF WorkspaceInv, TypeOK, Execute, CommitRunning, RunCancelledEarly, RunForbidden,
                PromptBlocked, RunnerBusy, SpawnProcess, ProcessExits, CommitCompleted,
                CommitUnfinished, StillThere, Ends, GetsTo
<1>4. ASSUME NEW r \in Requests, InstructionsWritten(r) \/ Resume(r) \/ PersistFails(r)
      PROVE  \E place \in Places : GetsTo(r, place)
    BY <1>4 DEF WorkspaceInv, Placed, InstructionsWritten, Resume, KillReturns,
                ExecutionReturns, PersistFails, Resumable, Ends, GetsTo
<1>5. ASSUME NEW a \in Agents, GrantChanges(a)
      PROVE  UNCHANGED <<status, workspace, pc>>
    BY <1>5 DEF GrantChanges
<1>6. CASE UNCHANGED vars
    BY <1>6 DEF vars
<1> QED
    BY <1>1, <1>2, <1>3, <1>4, <1>5, <1>6 DEF Next, Commit, FileIO

\* Creations and deletions keep their directories where they left them.
LEMMA PlacedStep == WorkspaceInv /\ [Next]_vars => Placed'
<1> SUFFICES ASSUME WorkspaceInv, [Next]_vars
             PROVE  Placed'
    OBVIOUS
<1> USE DEF WorkspaceInv, TypeOK, Placed
<1>1. ASSUME NEW r \in Requests, NEW place \in Places, GetsTo(r, place)
      PROVE  Placed'
    BY <1>1 DEF GetsTo
<1>2. ASSUME NEW r \in Requests,
             CommitCreate(r) \/ WorkspaceCreated(r) \/ Archive(r) \/ WorkspaceFails(r)
      PROVE  Placed'
  <2>1. \E place \in {"answered", "queued", "error"} : pc' = [pc EXCEPT ![r] = place]
      BY <1>2 DEF CommitCreate, WorkspaceCreated, Archive, WorkspaceFails, Answers, Queues, Goto
  <2> QED
      BY <2>1
<1>3. CASE Restart
    BY <1>3 DEF Restart
<1>4. CASE UNCHANGED <<status, workspace, pc>>
    BY <1>4
<1> HIDE DEF WorkspaceInv, Placed
<1> QED
    BY <1>1, <1>2, <1>3, <1>4, PlaceEffects

\* An Agent has no row before the mutation of its creation.
LEMMA UnbornStep == WorkspaceInv /\ [Next]_vars => Unborn'
<1> DEFINE Waits(s) == Op[s] = "create" /\ pc[s] \in {"idle", "creating", "queued"}
           Kept(s) == /\ status[Target[s]] = "absent"
                      /\ pc[s] = "queued" => workspace[Target[s]] = "live"
                      /\ \A d \in Requests : Op[d] = "delete" /\ Target[d] = Target[s] =>
                             pc[d] \in {"idle", "error"}
<1> SUFFICES ASSUME WorkspaceInv, [Next]_vars, NEW s \in Requests, Waits(s)'
             PROVE  Kept(s)'
    BY DEF Unborn
<1> USE DEF WorkspaceInv, TypeOK, Goto, Queues, rows, Commits
<1>1. Waits(s) => Kept(s)
    BY DEF Unborn
<1>2. Target[s] \in Agents
    BY LifecycleAssumption
<1>3. ASSUME NEW r \in Requests, NEW place \in Places, GetsTo(r, place)
      PROVE  Kept(s)'
  <2>1. Waits(s) /\ (pc'[s] = "queued" => pc[s] = "queued")
      BY <1>3 DEF GetsTo
  <2>2. ASSUME NEW d \in Requests, Op[d] = "delete", Target[d] = Target[s]
        PROVE  pc'[d] \in {"idle", "error"}
      BY <1>1, <1>3, <2>1, <2>2 DEF GetsTo
  <2> QED
      BY <1>1, <1>2, <1>3, <2>1, <2>2 DEF GetsTo
<1>4. ASSUME NEW r \in Requests, CommitCreate(r)
      PROVE  Kept(s)'
  <2>1. pc' = [pc EXCEPT ![r] = "answered"] /\ UNCHANGED workspace /\ Op[r] = "create"
      BY <1>4 DEF CommitCreate, Answers, files
  <2>2. s # r /\ Target[s] # Target[r] /\ Waits(s)
      BY <2>1, LifecycleAssumption
  <2>3. status'[Target[s]] = status[Target[s]]
      BY <1>2, <1>4, <2>2 DEF CommitCreate
  <2> QED
      BY <1>1, <2>1, <2>2, <2>3
<1>5. ASSUME NEW r \in Requests, WorkspaceCreated(r)
      PROVE  Kept(s)'
  <2>1. /\ pc' = [pc EXCEPT ![r] = "queued"] /\ UNCHANGED status /\ Op[r] = "create"
        /\ workspace' = [workspace EXCEPT ![Target[r]] = "live"]
      BY <1>5 DEF WorkspaceCreated, Placed
  <2>2. Waits(s)
      BY <1>5, <2>1 DEF WorkspaceCreated
  <2> QED
      BY <1>1, <1>2, <2>1, <2>2
<1>6. ASSUME NEW r \in Requests, Archive(r)
      PROVE  Kept(s)'
  <2>1. PICK place \in {"queued", "error"} : pc' = [pc EXCEPT ![r] = place]
      BY <1>6 DEF Archive
  <2>2. Op[r] = "delete" /\ pc[r] = "archiving" /\ UNCHANGED status
      BY <1>6 DEF Archive, Placed
  <2>3. Waits(s)
      BY <2>1, <2>2
  <2>4. Target[r] # Target[s]
      BY <1>1, <2>2, <2>3
  <2>5. workspace'[Target[s]] = workspace[Target[s]]
      BY <1>2, <1>6, <2>4 DEF Archive
  <2> QED
      BY <1>1, <2>1, <2>2, <2>3, <2>4, <2>5
<1>7. ASSUME NEW r \in Requests, WorkspaceFails(r)
      PROVE  Kept(s)'
  <2>1. pc' = [pc EXCEPT ![r] = "error"] /\ UNCHANGED status
      BY <1>7 DEF WorkspaceFails
  <2>2. workspace'[Target[s]] \in {workspace[Target[s]], "live"}
      BY <1>2, <1>7 DEF WorkspaceFails
  <2> QED
      BY <1>1, <2>1, <2>2
<1>8. CASE Restart
    BY <1>1, <1>2, <1>8 DEF Restart, Recovered, files
<1>9. CASE UNCHANGED <<status, workspace, pc>>
    BY <1>1, <1>9
<1> HIDE DEF WorkspaceInv, Waits, Kept
<1> QED
    BY <1>3, <1>4, <1>5, <1>6, <1>7, <1>8, <1>9, PlaceEffects

\* No step takes the directory of an Agent from its row.
LEMMA RowStep == WorkspaceInv /\ [Next]_vars => RowHasWorkspace'
<1> SUFFICES ASSUME WorkspaceInv, [Next]_vars
             PROVE  RowHasWorkspace'
    OBVIOUS
<1> USE DEF WorkspaceInv, TypeOK, RowHasWorkspace, Goto, Queues, rows, Commits
<1>1. ASSUME NEW r \in Requests, NEW place \in Places, GetsTo(r, place)
      PROVE  RowHasWorkspace'
    BY <1>1, LifecycleAssumption DEF GetsTo
<1>2. ASSUME NEW r \in Requests, CommitCreate(r)
      PROVE  RowHasWorkspace'
    BY <1>2, LifecycleAssumption DEF CommitCreate, Answers, files, Unborn
<1>3. ASSUME NEW r \in Requests, WorkspaceCreated(r)
      PROVE  RowHasWorkspace'
    BY <1>3, LifecycleAssumption DEF WorkspaceCreated
<1>4. ASSUME NEW r \in Requests, Archive(r)
      PROVE  RowHasWorkspace'
  <2>1. PICK place \in {"queued", "error"} : pc' = [pc EXCEPT ![r] = place]
      BY <1>4 DEF Archive
  <2>2. /\ Op[r] = "delete" /\ UNCHANGED status
        /\ \A a \in Agents \ {Target[r]} : workspace'[a] = workspace[a]
      BY <1>4 DEF Archive, Placed
  <2>3. pc[r] = "archiving"
      BY <1>4 DEF Archive
  <2> QED
      BY <2>1, <2>2, <2>3, SMTT(60)
<1>5. ASSUME NEW r \in Requests, WorkspaceFails(r)
      PROVE  RowHasWorkspace'
    BY <1>5, LifecycleAssumption DEF WorkspaceFails
<1>6. CASE Restart
    BY <1>6, LifecycleAssumption DEF Restart, Recovered, files
<1>7. CASE UNCHANGED <<status, workspace, pc>>
    BY <1>7
<1> HIDE DEF WorkspaceInv, RowHasWorkspace
<1> QED
    BY <1>1, <1>2, <1>3, <1>4, <1>5, <1>6, <1>7, PlaceEffects

\* An Agent keeps its workspace until a Delete of it takes both away, or takes
\* the workspace and then fails (agent-service.ts:107-109, 165-170).
THEOREM RowsHaveWorkspaces == Spec => []RowHasWorkspace
<1>1. Init => WorkspaceInv
    BY TypeInit, LifecycleAssumption DEF Init, WorkspaceInv, Placed, Unborn, RowHasWorkspace
<1>2. WorkspaceInv /\ [Next]_vars => WorkspaceInv'
    BY TypeStep, PlacedStep, UnbornStep, RowStep DEF WorkspaceInv
<1>3. WorkspaceInv => RowHasWorkspace
    BY DEF WorkspaceInv
<1> QED
    BY <1>1, <1>2, <1>3, PTL DEF Spec

-----------------------------------------------------------------------------
(* Revoked grants                                                          *)

\* The grants change below the bound, and nothing else changes them.
LEMMA GrantEffects ==
    [Next]_vars => \/ UNCHANGED <<invokers, grantChanges>>
                   \/ grantChanges < MaxGrantChanges /\ UNCHANGED <<run, pc>>
<1> SUFFICES ASSUME [Next]_vars
             PROVE  \/ UNCHANGED <<invokers, grantChanges>>
                    \/ grantChanges < MaxGrantChanges /\ UNCHANGED <<run, pc>>
    OBVIOUS
<1> USE DEF rows, settings, runRows, counters
<1>1. ASSUME NEW r \in Requests, Arrive(r) \/ Commit(r)
      PROVE  UNCHANGED <<invokers, grantChanges>>
    BY <1>1 DEF Arrive, RefusedOnArrival, CreateArrives, MutationArrives, StopKills,
                StopAwaits, StopFindsNothing, Commit, CommitCreate, CommitUpdate,
                CommitGuardrail, CommitStart, CommitRefused, CommitSend, CommitStop,
                CommitDelete
<1>2. ASSUME NEW r \in Requests, Execute(r)
      PROVE  UNCHANGED <<invokers, grantChanges>>
    BY <1>2 DEF Execute, CommitRunning, RunCancelledEarly, RunForbidden, PromptBlocked,
                RunnerBusy, SpawnProcess, ProcessExits, CommitCompleted, CommitUnfinished
<1>3. ASSUME NEW r \in Requests,
             FileIO(r) \/ Resume(r) \/ PersistFails(r) \/ WorkspaceFails(r)
      PROVE  UNCHANGED <<invokers, grantChanges>>
    BY <1>3 DEF FileIO, WorkspaceCreated, InstructionsWritten, Archive, Resume, KillReturns,
                ExecutionReturns, PersistFails, WorkspaceFails
<1>4. ASSUME NEW a \in Agents, GrantChanges(a)
      PROVE  grantChanges < MaxGrantChanges /\ UNCHANGED <<run, pc>>
    BY <1>4 DEF GrantChanges
<1>5. CASE Restart
    BY <1>5 DEF Restart
<1>6. CASE UNCHANGED vars
    BY <1>6 DEF vars
<1> QED
    BY <1>1, <1>2, <1>3, <1>4, <1>5, <1>6 DEF Next

\* The grant of the sender of u is gone for good, and u has no process.
Barred(u) ==
    Target[u] \notin invokers /\ grantChanges = MaxGrantChanges /\ pc[u] # "process"

\* Once barred, always barred.
LEMMA BarredStep ==
    ASSUME TypeOK, [Next]_vars, NEW u \in Requests, Barred(u)
    PROVE  Barred(u)'
<1>1. grantChanges = MaxGrantChanges /\ MaxGrantChanges \in Nat
    BY LifecycleAssumption DEF Barred
<1>2. UNCHANGED <<invokers, grantChanges>>
    BY <1>1, GrantEffects
<1>3. pc'[u] # "process"
  <2> USE DEF TypeOK, Barred, Goto
  <2>1. ASSUME NEW r \in Requests, RunBegins(r)
        PROVE  pc'[u] # "process"
      BY <2>1 DEF RunBegins, MayInvoke
  <2>2. ASSUME NEW r \in Requests,
               \/ Handles(r) \/ RunStops(r) \/ RunIsStuck(r) \/ CommitSend(r)
               \/ CommitDelete(r) \/ CommitCompleted(r) \/ CommitUnfinished(r)
        PROVE  pc'[u] # "process"
      BY <2>2 DEF Handles, RunStops, RunIsStuck, CommitSend, CommitDelete, CommitCompleted,
                  CommitUnfinished, Answers, Begun
  <2>3. Restart => pc'[u] # "process"
      BY DEF Restart
  <2> HIDE DEF TypeOK
  <2> QED
      BY <2>1, <2>2, <2>3, Effects DEF Barred
<1> QED
    BY <1>2, <1>3 DEF Barred

\* A Run that was not admitted when "invoke" was revoked for good never gets a
\* process, although its Send may have passed checkpoint 1 before and be admitted
\* afterwards: checkpoint 2 asks again (agent-service.ts:307-317).
THEOREM RevokedRuns == Spec => RevokedNeverRuns
<1>1. ASSUME NEW u \in Requests
      PROVE  Spec => []((run[u] = "none" /\ Target[u] \notin invokers
                             /\ grantChanges = MaxGrantChanges)
                           => [](pc[u] # "process"))
  <2>1. RunInv /\ run[u] = "none" /\ Target[u] \notin invokers
               /\ grantChanges = MaxGrantChanges
            => Barred(u)
      BY DEF RunInv, Follows, Barred
  <2>2. RunInv /\ Barred(u) /\ [Next]_vars => Barred(u)'
      BY BarredStep DEF RunInv
  <2>3. Barred(u) => pc[u] # "process"
      BY DEF Barred
  <2> QED
      BY <2>1, <2>2, <2>3, RunInvariance, PTL DEF Spec
<1> QED
    BY <1>1 DEF RevokedNeverRuns

-----------------------------------------------------------------------------
(* The queue of the store: first come, first served                        *)

InQueue(q, u) == \E i \in 1..Len(q) : q[i] = u
Distinct(q) == \A i, j \in 1..Len(q) : q[i] = q[j] => i = j

\* v does not stand before u.
Ahead(q, u, v) == \A i, j \in 1..Len(q) : q[i] = u /\ q[j] = v => i <= j

\* Who joins the queue comes last.
LEMMA Joining ==
    ASSUME NEW q \in Seq(Requests), NEW e \in Requests, Distinct(q), ~InQueue(q, e)
    PROVE  LET p == Append(q, e) IN
           /\ p \in Seq(Requests) /\ Distinct(p)
           /\ \A u \in Requests : InQueue(p, u) <=> InQueue(q, u) \/ u = e
           /\ \A u, v \in Requests : (Ahead(q, u, v) /\ u # e) \/ v = e => Ahead(p, u, v)
<1> DEFINE p == Append(q, e)
<1>1. /\ p \in Seq(Requests) /\ Len(p) = Len(q) + 1 /\ Len(q) \in Nat
      /\ \A i \in 1..Len(q) : p[i] = q[i]
      /\ p[Len(q) + 1] = e
    BY AppendProperties, LenProperties
<1> HIDE DEF p
<1>2. Distinct(p)
    BY <1>1 DEF Distinct, InQueue
<1>3. \A u \in Requests : InQueue(p, u) <=> InQueue(q, u) \/ u = e
    BY <1>1 DEF InQueue
<1>4. \A u, v \in Requests : (Ahead(q, u, v) /\ u # e) \/ v = e => Ahead(p, u, v)
    BY <1>1 DEF Ahead, InQueue
<1> QED
    BY <1>1, <1>2, <1>3, <1>4 DEF p

\* Who leaves the queue came first.
LEMMA Leaving ==
    ASSUME NEW q \in Seq(Requests), q # <<>>, Distinct(q)
    PROVE  LET p == Tail(q) IN
           /\ p \in Seq(Requests) /\ Distinct(p)
           /\ Head(q) \in Requests /\ InQueue(q, Head(q))
           /\ \A u \in Requests : InQueue(p, u) <=> InQueue(q, u) /\ u # Head(q)
           /\ \A u, v \in Requests : Ahead(q, u, v) => Ahead(p, u, v)
           /\ \A u \in Requests : InQueue(q, u) /\ Ahead(q, u, Head(q)) => u = Head(q)
<1> DEFINE p == Tail(q)
<1>1. /\ p \in Seq(Requests) /\ Len(p) = Len(q) - 1 /\ Len(q) \in Nat /\ Len(q) > 0
      /\ \A i \in 1..Len(p) : p[i] = q[i + 1]
      /\ Head(q) = q[1]
    BY HeadTailProperties, LenProperties, EmptySeq
<1> HIDE DEF p
<1>2. 1 \in 1..Len(q) /\ q[1] \in Requests
    BY <1>1, ElementOfSeq
<1>3. Distinct(p)
    BY <1>1 DEF Distinct
<1>4. ASSUME NEW u \in Requests
      PROVE  InQueue(p, u) <=> InQueue(q, u) /\ u # Head(q)
  <2>1. InQueue(p, u) => InQueue(q, u) /\ u # Head(q)
      BY <1>1, <1>2 DEF InQueue, Distinct
  <2>2. ASSUME InQueue(q, u), u # Head(q)
        PROVE  InQueue(p, u)
    <3>1. PICK i \in 1..Len(q) : q[i] = u
        BY <2>2 DEF InQueue
    <3>2. i - 1 \in 1..Len(p) /\ p[i - 1] = u
        BY <1>1, <2>2, <3>1
    <3> QED
        BY <3>2 DEF InQueue
  <2> QED
      BY <2>1, <2>2
<1>5. \A u, v \in Requests : Ahead(q, u, v) => Ahead(p, u, v)
    BY <1>1 DEF Ahead
<1>6. ASSUME NEW u \in Requests, InQueue(q, u), Ahead(q, u, Head(q))
      PROVE  u = Head(q)
    BY <1>1, <1>2, <1>6 DEF Ahead, InQueue
<1> QED
    BY <1>1, <1>2, <1>3, <1>4, <1>5, <1>6 DEF p, InQueue

InLine == {"queued", "starting", "finishing"}

\* Every handler that waits for its mutation is in the queue, once.
QueueInv ==
    /\ Distinct(queue)
    /\ \A u \in Requests : pc[u] \in InLine <=> InQueue(queue, u)

\* A handler queues a mutation, its mutation is done, or it queues another one,
\* and it moves on outside of the queue.
Joins(r) ==
    /\ pc[r] \notin InLine
    /\ \E place \in {"queued", "finishing"} : pc' = [pc EXCEPT ![r] = place]
    /\ queue' = Append(queue, r)
    /\ UNCHANGED activeExecutions
Leaves(r) ==
    /\ AtHead(r)
    /\ \E place \in Places \ InLine : pc' = [pc EXCEPT ![r] = place]
    /\ queue' = Tail(queue)
    /\ UNCHANGED activeExecutions \/ Unregister(r)
QueuesAgain(r) ==
    /\ AtHead(r)
    /\ pc' = [pc EXCEPT ![r] = "finishing"]
    /\ queue' = Append(Tail(queue), r)
    /\ UNCHANGED activeExecutions
MovesOn(r) ==
    /\ pc[r] \notin InLine
    /\ \E place \in Places \ InLine : pc' = [pc EXCEPT ![r] = place]
    /\ UNCHANGED <<queue, activeExecutions>>

\* Every step, by what it does to the queue.
LEMMA QueueEffects ==
    TypeOK /\ [Next]_vars =>
        \/ \E r \in Requests :
              \/ Joins(r) \/ Leaves(r) \/ QueuesAgain(r) \/ MovesOn(r) \/ CommitSend(r)
        \/ Restart
        \/ UNCHANGED <<queue, pc, activeExecutions>>
<1> SUFFICES ASSUME TypeOK, [Next]_vars
             PROVE  \/ \E r \in Requests :
                          \/ Joins(r) \/ Leaves(r) \/ QueuesAgain(r) \/ MovesOn(r)
                          \/ CommitSend(r)
                    \/ Restart
                    \/ UNCHANGED <<queue, pc, activeExecutions>>
    OBVIOUS
<1> USE DEF memory, Goto, Answers, Queues, Enqueue, Dequeue, Proceed, Places, InLine
<1>1. ASSUME NEW r \in Requests, Arrive(r)
      PROVE  Joins(r) \/ MovesOn(r)
  <2>1. CASE RefusedOnArrival(r) \/ CreateArrives(r) \/ MutationArrives(r)
      BY <2>1 DEF RefusedOnArrival, CreateArrives, MutationArrives, Arrives, Joins, MovesOn
  <2>2. CASE StopKills(r) \/ StopAwaits(r) \/ StopFindsNothing(r)
      BY <2>2 DEF StopKills, StopAwaits, StopFindsNothing, CancelArrives, Arrives, Joins, MovesOn
  <2> QED
      BY <1>1, <2>1, <2>2 DEF Arrive
<1>2. ASSUME NEW r \in Requests, Commit(r)
      PROVE  Leaves(r) \/ CommitSend(r)
    BY <1>2 DEF Commit, Commits, CommitCreate, CommitUpdate, CommitGuardrail, CommitStart,
                CommitRefused, CommitStop, CommitDelete, Leaves
<1>3. ASSUME NEW r \in Requests, Execute(r)
      PROVE  Joins(r) \/ Leaves(r) \/ QueuesAgain(r)
  <2>1. CASE \/ RunCancelledEarly(r) \/ RunForbidden(r) \/ PromptBlocked(r)
             \/ RunnerBusy(r) \/ SpawnProcess(r)
      BY <2>1 DEF CommitRunning, RunCancelledEarly, RunForbidden, PromptBlocked,
                  RunnerBusy, SpawnProcess, Ends, QueuesAgain, Leaves
  <2>2. CASE ProcessExits(r)
      BY <2>2 DEF ProcessExits, Joins
  <2>3. CASE CommitCompleted(r) \/ CommitUnfinished(r)
      BY <2>3 DEF CommitCompleted, CommitUnfinished, Leaves
  <2> QED
      BY <1>3, <2>1, <2>2, <2>3 DEF Execute
<1>4. ASSUME NEW r \in Requests, FileIO(r) \/ Resume(r) \/ WorkspaceFails(r)
      PROVE  Joins(r) \/ MovesOn(r)
  <2>1. CASE FileIO(r) \/ WorkspaceFails(r)
      BY <2>1 DEF FileIO, WorkspaceCreated, InstructionsWritten, Archive, WorkspaceFails,
                  Joins, MovesOn
  <2>2. CASE Resume(r)
      BY <2>2 DEF Resume, KillReturns, ExecutionReturns, Joins, MovesOn
  <2> QED
      BY <1>4, <2>1, <2>2
<1>5. ASSUME NEW r \in Requests, PersistFails(r)
      PROVE  Leaves(r) \/ QueuesAgain(r)
    BY <1>5 DEF PersistFails, Ends, Leaves, QueuesAgain
<1>6. ASSUME NEW a \in Agents, GrantChanges(a)
      PROVE  UNCHANGED <<queue, pc, activeExecutions>>
    BY <1>6 DEF GrantChanges
<1>7. CASE UNCHANGED vars
    BY <1>7 DEF vars
<1> QED
    BY <1>1, <1>2, <1>3, <1>4, <1>5, <1>6, <1>7 DEF Next

\* The queue keeps distinct entries, of handlers that wait in it.
LEMMA QueueStep == TypeOK /\ QueueInv /\ [Next]_vars => QueueInv'
<1> SUFFICES ASSUME TypeOK, QueueInv, [Next]_vars
             PROVE  QueueInv'
    OBVIOUS
<1> USE DEF QueueInv
<1>0. queue \in Seq(Requests) /\ pc \in [Requests -> Places]
    BY DEF TypeOK, Places
<1>1. ASSUME NEW r \in Requests, Joins(r)
      PROVE  QueueInv'
  <2>1. ~InQueue(queue, r)
      BY <1>1 DEF Joins
  <2>2. /\ Distinct(queue')
        /\ \A u \in Requests : InQueue(queue', u) <=> InQueue(queue, u) \/ u = r
      BY <1>0, <1>1, <2>1, Joining DEF Joins
  <2> QED
      BY <1>0, <1>1, <2>2 DEF Joins, InLine
<1>2. ASSUME NEW r \in Requests, Leaves(r)
      PROVE  QueueInv'
  <2>1. /\ Distinct(queue')
        /\ \A u \in Requests : InQueue(queue', u) <=> InQueue(queue, u) /\ u # r
      BY <1>0, <1>2, Leaving DEF Leaves, AtHead
  <2> QED
      BY <1>0, <1>2, <2>1 DEF Leaves
<1>3. ASSUME NEW r \in Requests, QueuesAgain(r) \/ CommitSend(r)
      PROVE  QueueInv'
  <2>1. /\ AtHead(r) /\ queue' = Append(Tail(queue), r)
        /\ \E place \in {"finishing", "starting"} : pc' = [pc EXCEPT ![r] = place]
      BY <1>3 DEF QueuesAgain, CommitSend, Commits, Goto
  <2>2. /\ Tail(queue) \in Seq(Requests) /\ Distinct(Tail(queue))
        /\ \A u \in Requests : InQueue(Tail(queue), u) <=> InQueue(queue, u) /\ u # r
        /\ InQueue(queue, r)
      BY <1>0, <2>1, Leaving DEF AtHead
  <2>3. /\ Distinct(queue')
        /\ \A u \in Requests : InQueue(queue', u) <=> InQueue(queue, u)
      BY <2>1, <2>2, Joining
  <2> QED
      BY <1>0, <2>1, <2>2, <2>3 DEF InLine
<1>4. ASSUME NEW r \in Requests, MovesOn(r)
      PROVE  QueueInv'
    BY <1>0, <1>4 DEF MovesOn
<1>5. CASE Restart
    BY <1>0, <1>5 DEF Restart, InLine, Distinct, InQueue, Places
<1>6. CASE UNCHANGED <<queue, pc, activeExecutions>>
    BY <1>6
<1> QED
    BY <1>1, <1>2, <1>3, <1>4, <1>5, <1>6, QueueEffects

\* Of two Runs that are about to start, the one that was admitted first starts
\* first.
LEMMA OrderStep ==
    ASSUME TypeOK, QueueInv, [Next]_vars, NEW u \in Requests, NEW v \in Requests,
           pc[u] = "starting", pc'[u] = "starting", pc[v] = "starting", Ahead(queue, u, v)
    PROVE  pc'[v] = "starting" /\ Ahead(queue', u, v)
<1>0. queue \in Seq(Requests) /\ pc \in [Requests -> Places]
    BY DEF TypeOK, Places
<1>1. InQueue(queue, u)
    BY DEF QueueInv, InLine
<1>2. ASSUME NEW r \in Requests, Joins(r)
      PROVE  pc'[v] = "starting" /\ Ahead(queue', u, v)
  <2>1. ~InQueue(queue, r) /\ u # r /\ v # r
      BY <1>2 DEF Joins, QueueInv, InLine
  <2> QED
      BY <1>0, <1>2, <2>1, Joining DEF Joins, QueueInv
<1>3. ASSUME NEW r \in Requests, AtHead(r), NEW place \in Places,
             pc' = [pc EXCEPT ![r] = place],
             \/ queue' = Tail(queue) /\ place \notin InLine
             \/ /\ queue' = Append(Tail(queue), r)
                /\ place = "finishing" \/ pc[r] = "queued"
      PROVE  pc'[v] = "starting" /\ Ahead(queue', u, v)
  <2>1. r # u
      BY <1>0, <1>3 DEF InLine
  <2>2. r # v
      BY <1>0, <1>1, <1>3, <2>1, Leaving DEF AtHead, QueueInv
  <2>3. /\ Tail(queue) \in Seq(Requests) /\ Distinct(Tail(queue))
        /\ ~InQueue(Tail(queue), r)
        /\ Ahead(Tail(queue), u, v)
      BY <1>0, <1>3, Leaving DEF AtHead, QueueInv
  <2>4. Ahead(Append(Tail(queue), r), u, v)
      BY <2>1, <2>3, Joining
  <2> QED
      BY <1>0, <1>3, <2>2, <2>3, <2>4
<1>4. ASSUME NEW r \in Requests, Leaves(r) \/ QueuesAgain(r) \/ CommitSend(r)
      PROVE  pc'[v] = "starting" /\ Ahead(queue', u, v)
  <2>1. CASE Leaves(r)
      BY <1>3, <2>1 DEF Leaves
  <2>2. CASE QueuesAgain(r)
      BY <1>3, <2>2 DEF QueuesAgain, Places
  <2>3. CASE CommitSend(r)
      BY <1>3, <2>3 DEF CommitSend, Commits, Goto, Places
  <2> QED
      BY <1>4, <2>1, <2>2, <2>3
<1>5. ASSUME NEW r \in Requests, MovesOn(r)
      PROVE  pc'[v] = "starting" /\ Ahead(queue', u, v)
    BY <1>0, <1>5 DEF MovesOn, InLine
<1>6. ~Restart
    BY <1>0 DEF Restart
<1>7. CASE UNCHANGED <<queue, pc, activeExecutions>>
    BY <1>7
<1> QED
    BY <1>2, <1>4, <1>5, <1>6, <1>7, QueueEffects

\* The execution that is registered for an Agent with Runs that are about to
\* start is the last of them (agent-service.ts:258 replaces the entry, 448
\* leaves the one of a later Run alone).
LastIsRegistered ==
    \A u \in Requests : pc[u] = "starting" =>
        LET v == activeExecutions[Target[u]]
        IN  v \in Requests /\ pc[v] = "starting" /\ Ahead(queue, u, v)

\* The execution that started last stays the registered one.
LEMMA RegisteredStep ==
    TypeOK /\ QueueInv /\ LastIsRegistered /\ [Next]_vars => LastIsRegistered'
<1> SUFFICES ASSUME TypeOK, QueueInv, LastIsRegistered, [Next]_vars,
                    NEW u \in Requests, pc'[u] = "starting"
             PROVE  LET v == activeExecutions'[Target[u]]
                    IN  v \in Requests /\ pc'[v] = "starting" /\ Ahead(queue', u, v)
    BY DEF LastIsRegistered
<1> DEFINE w == activeExecutions[Target[u]]
<1>0. /\ queue \in Seq(Requests) /\ pc \in [Requests -> Places]
      /\ activeExecutions \in [Agents -> OrNone] /\ Target[u] \in Agents
    BY LifecycleAssumption DEF TypeOK, Places
<1>1. pc[u] = "starting" => w \in Requests /\ pc[w] = "starting" /\ Ahead(queue, u, w)
    BY DEF LastIsRegistered
<1>2. pc[u] = "starting" => w \in Requests /\ pc'[w] = "starting" /\ Ahead(queue', u, w)
    BY <1>1, OrderStep
<1>3. ASSUME NEW r \in Requests, Joins(r) \/ QueuesAgain(r) \/ MovesOn(r)
      PROVE  pc[u] = "starting" /\ UNCHANGED activeExecutions
    BY <1>0, <1>3 DEF Joins, QueuesAgain, MovesOn, InLine
<1>4. ASSUME NEW r \in Requests, Leaves(r)
      PROVE  pc[u] = "starting" /\ activeExecutions'[Target[u]] = w
  <2>1. pc[u] = "starting" /\ pc'[r] # "starting"
      BY <1>0, <1>4 DEF Leaves, InLine
  <2>2. w # r
      BY <1>2, <2>1
  <2> QED
      BY <1>0, <1>4, <2>1, <2>2 DEF Leaves, Unregister
<1>5. ASSUME NEW r \in Requests, CommitSend(r), Target[u] = Target[r]
      PROVE  LET v == activeExecutions'[Target[u]]
             IN  v \in Requests /\ pc'[v] = "starting" /\ Ahead(queue', u, v)
  <2>1. /\ activeExecutions'[Target[u]] = r
        /\ pc'[r] = "starting" /\ AtHead(r) /\ queue' = Append(Tail(queue), r)
      BY <1>0, <1>5 DEF CommitSend, Commits, Goto
  <2>2. /\ Tail(queue) \in Seq(Requests) /\ Distinct(Tail(queue))
        /\ ~InQueue(Tail(queue), r)
      BY <1>0, <2>1, Leaving DEF AtHead, QueueInv
  <2>3. Ahead(queue', u, r)
      BY <2>1, <2>2, Joining
  <2> QED
      BY <2>1, <2>3
<1>6. ASSUME NEW r \in Requests, CommitSend(r), Target[u] # Target[r]
      PROVE  pc[u] = "starting" /\ activeExecutions'[Target[u]] = w
    BY <1>0, <1>6 DEF CommitSend, Goto
<1>7. ~Restart
    BY <1>0 DEF Restart
<1>8. CASE UNCHANGED <<queue, pc, activeExecutions>>
    BY <1>1, <1>8
<1> QED
    BY <1>2, <1>3, <1>4, <1>5, <1>6, <1>7, <1>8, QueueEffects

-----------------------------------------------------------------------------
(* Stop                                                                    *)

Cancelling(r) == pc[r] \in {"killing", "awaiting"}

\* The process of a Run is over, and it will have no other.
Past(u) == pc[u] \in {"finishing", "lost"} \cup Settled

\* A Stop or Delete has company when another one of its Agent waits as well.
Alone(r) ==
    \A s \in Requests : Cancelling(s) /\ Target[s] = Target[r] => s = r

\* What keeps the Runs that r found from starting while r waits: its flag, and
\* that none of them starts later than the execution r awaits.
Heeded(r) ==
    /\ Alone(r)
    /\ Target[r] \in cancellationRequests
    /\ pc[r] = "killing" => Processes(Target[r]) \subseteq {awaited[r]}
    /\ pc[r] = "awaiting" =>
         /\ Processes(Target[r]) = {}
         /\ \A u \in running[r] : pc[u] = "starting" =>
               pc[awaited[r]] = "starting" /\ Ahead(queue, u, awaited[r])

Watched(r) ==
    /\ \A u \in running[r] : pc[u] \in Begun /\ Target[u] = Target[r]
    /\ ~Cancelling(r) => \A u \in running[r] : Past(u)
    /\ Cancelling(r) /\ running[r] # {} => Heeded(r)

StopInv ==
    /\ RunInv
    /\ QueueInv
    /\ LastIsRegistered
    /\ \A r \in Requests : Watched(r)

\* A step that no Stop or Delete takes: it starts a process only if no Stop of
\* the Agent is waiting.
Others ==
    /\ UNCHANGED <<running, awaited, cancellationRequests>>
    /\ \A s \in Requests : Cancelling(s)' <=> Cancelling(s)
    /\ \A s \in Requests : Cancelling(s) => pc'[s] = pc[s]
    /\ \A u \in Requests : pc'[u] = "process" =>
           pc[u] = "process" \/ Target[u] \notin cancellationRequests

\* Every step, by whose it is: of a waiting Stop or Delete, or of somebody else.
LEMMA OtherEffects ==
    TypeOK /\ [Next]_vars =>
        \/ \E r \in Requests : StopKills(r) \/ StopAwaits(r) \/ StopFindsNothing(r)
        \/ \E r \in Requests : KillReturns(r) \/ ExecutionReturns(r)
        \/ Restart
        \/ Others
<1> SUFFICES ASSUME TypeOK, [Next]_vars,
                    ~ \E r \in Requests : \/ StopKills(r) \/ StopAwaits(r)
                                          \/ StopFindsNothing(r) \/ Resume(r),
                    ~Restart
             PROVE  Others
    BY DEF Resume
<1> USE DEF memory, handlers, cancels, Goto, Answers, Queues
<1>0. pc \in [Requests -> Places]
    BY DEF TypeOK, Places
<1>1. ASSUME UNCHANGED <<running, awaited, cancellationRequests>>, NEW r \in Requests,
             NEW place \in Places \ {"killing", "awaiting", "process"},
             ~Cancelling(r), pc' = [pc EXCEPT ![r] = place]
      PROVE  Others
    BY <1>0, <1>1 DEF Others, Cancelling
<1> USE DEF Places
<1>2. ASSUME NEW r \in Requests, Arrive(r)
      PROVE  Others
    BY <1>1, <1>2 DEF Arrive, RefusedOnArrival, CreateArrives, MutationArrives, Arrives,
                      Cancelling
<1>3. ASSUME NEW r \in Requests, Commit(r)
      PROVE  Others
    BY <1>1, <1>3 DEF Commit, Commits, CommitCreate, CommitUpdate, CommitGuardrail, CommitStart,
                      CommitRefused, CommitSend, CommitStop, CommitDelete, Cancelling
<1>4. ASSUME NEW r \in Requests, Execute(r)
      PROVE  Others
  <2>1. CASE SpawnProcess(r)
      BY <1>0, <2>1 DEF SpawnProcess, CommitRunning, Cancelled, Others, Cancelling
  <2>2. CASE RunCancelledEarly(r) \/ RunForbidden(r) \/ PromptBlocked(r) \/ RunnerBusy(r)
      BY <1>1, <2>2 DEF CommitRunning, RunCancelledEarly, RunForbidden, PromptBlocked,
                        RunnerBusy, Ends, Cancelling
  <2>3. CASE ProcessExits(r) \/ CommitCompleted(r) \/ CommitUnfinished(r)
      BY <1>1, <2>3 DEF ProcessExits, CommitCompleted, CommitUnfinished, Cancelling
  <2> QED
      BY <1>4, <2>1, <2>2, <2>3 DEF Execute
<1>5. ASSUME NEW r \in Requests, FileIO(r) \/ WorkspaceFails(r)
      PROVE  Others
    BY <1>1, <1>5 DEF FileIO, WorkspaceCreated, InstructionsWritten, Archive, WorkspaceFails,
                      Cancelling
<1>6. ASSUME NEW r \in Requests, PersistFails(r)
      PROVE  Others
    BY <1>1, <1>6 DEF PersistFails, Ends, Cancelling
<1>7. ASSUME NEW a \in Agents, GrantChanges(a)
      PROVE  Others
    BY <1>7 DEF GrantChanges, Others, Cancelling
<1>8. CASE UNCHANGED vars
    BY <1>8 DEF vars, Others, Cancelling
<1> QED
    BY <1>2, <1>3, <1>4, <1>5, <1>6, <1>7, <1>8 DEF Next

\* An execution does not go back.
LEMMA ForwardStep ==
    ASSUME TypeOK, [Next]_vars, NEW u \in Requests
    PROVE  /\ pc[u] \in Begun => pc'[u] \in Begun
           /\ Past(u) => Past(u)'
           /\ pc[u] \in Begun /\ pc'[u] = "starting" => pc[u] = "starting"
<1> USE DEF TypeOK, Begun, Past, Goto
<1>1. ASSUME NEW r \in Requests,
             \/ Handles(r) \/ RunBegins(r) \/ RunStops(r) \/ RunIsStuck(r)
             \/ CommitSend(r) \/ CommitDelete(r)
             \/ CommitCompleted(r) \/ CommitUnfinished(r)
      PROVE  \/ pc[r] \notin Begun /\ \A s \in Requests \ {r} : pc'[s] = pc[s]
             \/ \E place \in {"process", "finishing", "settled", "rejected"} :
                   /\ pc[r] \in {"starting", "process", "finishing"}
                   /\ pc[r] = "finishing" => place # "process"
                   /\ pc' = [pc EXCEPT ![r] = place]
    BY <1>1 DEF Handles, RunBegins, RunStops, RunIsStuck, CommitSend, CommitDelete,
                CommitCompleted, CommitUnfinished, Commits, Answers
<1>2. ASSUME NEW r \in Requests,
             pc[r] \notin Begun /\ \A s \in Requests \ {r} : pc'[s] = pc[s]
      PROVE  /\ pc[u] \in Begun => pc'[u] \in Begun
             /\ Past(u) => Past(u)'
             /\ pc[u] \in Begun /\ pc'[u] = "starting" => pc[u] = "starting"
    BY <1>2
<1>3. ASSUME NEW r \in Requests, NEW place \in {"process", "finishing", "settled", "rejected"},
             pc[r] \in {"starting", "process", "finishing"},
             pc[r] = "finishing" => place # "process",
             pc' = [pc EXCEPT ![r] = place]
      PROVE  /\ pc[u] \in Begun => pc'[u] \in Begun
             /\ Past(u) => Past(u)'
             /\ pc[u] \in Begun /\ pc'[u] = "starting" => pc[u] = "starting"
    BY <1>3
<1>4. CASE Restart
    BY <1>4 DEF Restart
<1>5. CASE UNCHANGED <<status, runRows, verdict, pc>>
    BY <1>5
<1> HIDE DEF TypeOK, Begun, Past
<1> QED
    BY <1>1, <1>2, <1>3, <1>4, <1>5, Effects

\* While no Stop acts, every Stop that waits keeps what it relies on.
LEMMA WatchOthers ==
    ASSUME StopInv, [Next]_vars, Others, NEW r \in Requests
    PROVE  Watched(r)'
<1> USE DEF StopInv, RunInv
<1>1. Watched(r) /\ running'[r] = running[r] /\ (Cancelling(r)' <=> Cancelling(r))
    BY DEF Others
<1>2. running[r] \subseteq Requests
    BY DEF TypeOK
<1>3. ASSUME Cancelling(r), running[r] # {}
      PROVE  Heeded(r)'
  <2>1. Heeded(r) /\ pc'[r] = pc[r] /\ awaited'[r] = awaited[r]
      BY <1>1, <1>3 DEF Watched, Others
  <2>2. Alone(r)'
      BY <2>1 DEF Heeded, Alone, Others
  <2>3. Processes(Target[r])' \subseteq Processes(Target[r])
      BY <2>1 DEF Heeded, Processes, Others
  <2>4. ASSUME NEW u \in running[r], pc[r] = "awaiting", pc'[u] = "starting"
        PROVE  pc'[awaited[r]] = "starting" /\ Ahead(queue', u, awaited[r])
    <3>1. u \in Requests /\ awaited[r] \in Requests
        BY <1>2, <2>4 DEF TypeOK
    <3>2. pc[u] = "starting"
        BY <1>1, <2>4, <3>1, ForwardStep DEF Watched
    <3>3. pc[awaited[r]] = "starting" /\ Ahead(queue, u, awaited[r])
        BY <2>1, <2>4, <3>2 DEF Heeded
    <3> QED
        BY <2>4, <3>1, <3>2, <3>3, OrderStep
  <2> QED
      BY <1>1, <2>1, <2>2, <2>3, <2>4 DEF Heeded, Others
<1>4. \A u \in running[r] : pc'[u] \in Begun /\ (Past(u) => Past(u)')
    BY <1>1, <1>2, ForwardStep DEF Watched
<1> QED
    BY <1>1, <1>3, <1>4 DEF Watched

\* No Run of an Agent without a registered execution is about to start.
LEMMA NothingStarts ==
    ASSUME StopInv, NEW u \in Requests, activeExecutions[Target[u]] = None
    PROVE  pc[u] # "starting"
    BY LifecycleAssumption DEF StopInv, LastIsRegistered

\* Another Stop or Delete acts: it is of another Agent, or r no longer waits alone
\* and the history forgets what it found.
LEMMA WatchAnother ==
    ASSUME StopInv, [Next]_vars, NEW r \in Requests, NEW x \in Requests, x # r,
           \/ StopKills(x) \/ StopAwaits(x) \/ StopFindsNothing(x)
           \/ KillReturns(x) \/ ExecutionReturns(x)
    PROVE  Watched(r)'
<1> USE DEF StopInv, RunInv
<1> DEFINE a == Target[x]
<1>0. /\ pc \in [Requests -> Places] /\ running[r] \subseteq Requests
      /\ awaited \in [Requests -> OrNone]
    BY DEF TypeOK, Places
<1>1. /\ pc[x] \notin Begun \cup {"queued"}
      /\ \E place \in {"killing", "awaiting", "queued", "archiving", "error"} :
            pc' = [pc EXCEPT ![x] = place]
      /\ awaited' = [awaited EXCEPT ![x] = awaited'[x]]
      /\ \/ cancellationRequests' = cancellationRequests \cup {a}
         \/ cancellationRequests' = cancellationRequests \ {a}
         \/ cancellationRequests' = cancellationRequests
  <2> USE DEF Proceed, Queues, Goto, Begun
  <2>1. CASE StopKills(x)
      BY <1>0, <2>1 DEF StopKills, CancelArrives, Arrives
  <2>2. CASE StopAwaits(x)
      BY <1>0, <2>2 DEF StopAwaits, CancelArrives, Arrives
  <2>3. CASE StopFindsNothing(x)
      BY <1>0, <2>3 DEF StopFindsNothing, CancelArrives, Arrives
  <2>4. CASE KillReturns(x)
      BY <1>0, <2>4 DEF KillReturns
  <2>5. CASE ExecutionReturns(x)
      BY <1>0, <2>5 DEF ExecutionReturns
  <2> QED
      BY <2>1, <2>2, <2>3, <2>4, <2>5
<1>2. \/ running'[r] = {}
      \/ running'[r] = running[r] /\ (Cancelling(r) /\ running[r] # {} => Target[r] # a)
  <2>1. CASE KillReturns(x) \/ ExecutionReturns(x)
      BY <2>1, <1>0 DEF KillReturns, ExecutionReturns, Watched, Heeded, Alone, Cancelling
  <2>2. CASE StopKills(x) \/ StopAwaits(x) \/ StopFindsNothing(x)
      BY <2>2 DEF StopKills, StopAwaits, StopFindsNothing, CancelArrives, Cancelling
  <2> QED
      BY <2>1, <2>2
<1>3. pc'[r] = pc[r] /\ awaited'[r] = awaited[r]
    BY <1>0, <1>1
<1>4. CASE running'[r] = {}
    BY <1>4 DEF Watched
<1>5. CASE /\ running'[r] = running[r]
           /\ Cancelling(r) /\ running[r] # {} => Target[r] # a
  <2>1. \A u \in running[r] : pc'[u] \in Begun /\ Target[u] = Target[r] /\ (Past(u) => Past(u)')
      BY <1>0, ForwardStep DEF Watched
  <2>2. ASSUME Cancelling(r), running[r] # {}
        PROVE  Heeded(r)'
    <3>1. Heeded(r) /\ Target[r] # a
        BY <1>5, <2>2 DEF Watched
    <3>2. Alone(r)'
        BY <1>0, <1>1, <3>1 DEF Alone, Heeded, Cancelling
    <3>3. Processes(Target[r])' = Processes(Target[r])
        BY <1>0, <1>1, <3>1 DEF Processes
    <3>4. ASSUME NEW u \in running[r], pc[r] = "awaiting", pc'[u] = "starting"
          PROVE  pc'[awaited[r]] = "starting" /\ Ahead(queue', u, awaited[r])
      <4>1. u \in Requests /\ awaited[r] \in Requests
          BY <1>0, <3>4 DEF TypeOK
      <4>2. pc[u] = "starting"
          BY <3>4, <4>1, ForwardStep DEF Watched
      <4>3. pc[awaited[r]] = "starting" /\ Ahead(queue, u, awaited[r])
          BY <3>1, <3>4, <4>2 DEF Heeded
      <4> QED
          BY <3>4, <4>1, <4>2, <4>3, OrderStep
    <3> QED
        BY <1>1, <1>3, <1>5, <3>1, <3>2, <3>3, <3>4 DEF Heeded
  <2>3. Cancelling(r)' <=> Cancelling(r)
      BY <1>3 DEF Cancelling
  <2> QED
      BY <1>5, <2>1, <2>2, <2>3 DEF Watched
<1> QED
    BY <1>2, <1>4, <1>5

\* A Stop or Delete arrives: it watches the Runs that are executing, unless others
\* wait already.
LEMMA ArrivalFinds ==
    ASSUME StopInv, NEW r \in Requests, CancelArrives(r),
           NEW place \in Places \ Begun, pc' = [pc EXCEPT ![r] = place]
    PROVE  /\ pc[r] = "idle"
           /\ running'[r] \subseteq {u \in Requests : Target[u] = Target[r] /\ Executing(u)}
           /\ running'[r] # {} => Alone(r)'
           /\ \A u \in Requests : Executing(u) => pc'[u] = pc[u]
           /\ Processes(Target[r])' = Processes(Target[r])
<1> USE DEF StopInv, RunInv, TypeOK
<1>1. pc[r] = "idle"
    BY DEF CancelArrives, Arrives
<1>2. \A u \in Requests : Executing(u) => pc'[u] = pc[u]
    BY <1>1 DEF Executing
<1>3. running'[r] \subseteq {u \in Requests : Target[u] = Target[r] /\ Executing(u)}
    BY DEF CancelArrives
<1>4. ASSUME running'[r] # {}
      PROVE  Alone(r)'
  <2>1. {s \in Requests : Target[s] = Target[r] /\ pc[s] \in {"killing", "awaiting"}} = {}
      BY <1>4 DEF CancelArrives
  <2> QED
      BY <2>1 DEF Alone, Cancelling
<1>5. Processes(Target[r])' = Processes(Target[r])
    BY <1>1 DEF Processes, Begun
<1> QED
    BY <1>1, <1>2, <1>3, <1>4, <1>5

\* A Stop that arrives finds, or waits for, all that may start.
LEMMA WatchArrival ==
    ASSUME StopInv, NEW r \in Requests,
           StopKills(r) \/ StopAwaits(r) \/ StopFindsNothing(r)
    PROVE  Watched(r)'
<1> USE DEF StopInv, RunInv
<1>1. CASE StopKills(r)
  <2>1. CancelArrives(r) /\ pc' = [pc EXCEPT ![r] = "killing"]
      BY <1>1 DEF StopKills, Goto
  <2>2. pc'[r] = "killing" /\ Target[r] \in cancellationRequests'
      BY <1>1, <2>1 DEF StopKills, TypeOK
  <2>3. Processes(Target[r]) \subseteq {awaited'[r]}
    <3>1. PICK u \in Processes(Target[r]) : awaited' = [awaited EXCEPT ![r] = u]
        BY <1>1 DEF StopKills
    <3>2. awaited'[r] = u
        BY <3>1 DEF TypeOK
    <3> QED
        BY <3>1, <3>2 DEF Processes, OneProcessPerAgent
  <2>4. /\ running'[r] \subseteq {u \in Requests : Target[u] = Target[r] /\ Executing(u)}
        /\ running'[r] # {} => Alone(r)'
        /\ \A u \in Requests : Executing(u) => pc'[u] = pc[u]
        /\ Processes(Target[r])' = Processes(Target[r])
      BY <2>1, ArrivalFinds DEF Places, Begun
  <2> QED
      BY <2>2, <2>3, <2>4 DEF Watched, Heeded, Cancelling, Executing, Begun
<1>2. CASE StopAwaits(r)
  <2>1. /\ CancelArrives(r) /\ pc' = [pc EXCEPT ![r] = "awaiting"]
        /\ Processes(Target[r]) = {}
        /\ UNCHANGED queue
      BY <1>2 DEF StopAwaits, Goto
  <2>2. /\ pc'[r] = "awaiting" /\ Target[r] \in cancellationRequests'
        /\ awaited'[r] = activeExecutions[Target[r]]
      BY <1>2, <2>1 DEF StopAwaits, Execution, TypeOK
  <2>3. /\ running'[r] \subseteq {u \in Requests : Target[u] = Target[r] /\ Executing(u)}
        /\ running'[r] # {} => Alone(r)'
        /\ \A u \in Requests : Executing(u) => pc'[u] = pc[u]
        /\ Processes(Target[r])' = Processes(Target[r])
      BY <2>1, ArrivalFinds DEF Places, Begun
  <2>4. ASSUME NEW u \in running'[r], pc'[u] = "starting"
        PROVE  pc'[awaited'[r]] = "starting" /\ Ahead(queue', u, awaited'[r])
    <3>1. u \in Requests /\ Target[u] = Target[r] /\ pc[u] = "starting"
        BY <2>3, <2>4
    <3>2. /\ awaited'[r] \in Requests /\ pc[awaited'[r]] = "starting"
          /\ Ahead(queue, u, awaited'[r])
        BY <2>2, <3>1 DEF LastIsRegistered
    <3> QED
        BY <2>1, <2>3, <3>2 DEF Executing
  <2> QED
      BY <2>1, <2>2, <2>3, <2>4 DEF Watched, Heeded, Cancelling, Executing, Begun
<1>3. CASE StopFindsNothing(r)
  <2>1. /\ CancelArrives(r)
        /\ \/ pc' = [pc EXCEPT ![r] = "queued"]
           \/ pc' = [pc EXCEPT ![r] = "archiving"]
        /\ Processes(Target[r]) = {}
        /\ activeExecutions[Target[r]] = None
      BY <1>3 DEF StopFindsNothing, Execution, Proceed, Queues, Goto
  <2>2. ~Cancelling(r)'
      BY <2>1 DEF Cancelling, TypeOK
  <2>3. /\ running'[r] \subseteq {u \in Requests : Target[u] = Target[r] /\ Executing(u)}
        /\ \A u \in Requests : Executing(u) => pc'[u] = pc[u]
      BY <2>1, ArrivalFinds DEF Places, Begun
  <2>4. ASSUME NEW u \in running'[r]
        PROVE  pc'[u] = "finishing" /\ Target[u] = Target[r]
      BY <2>1, <2>3, <2>4, NothingStarts DEF Processes, Executing
  <2> QED
      BY <2>2, <2>4 DEF Watched, Past, Begun
<1> QED
    BY <1>1, <1>2, <1>3

\* What a Stop awaited is over: then the Runs it found are.
LEMMA WatchReturn ==
    ASSUME StopInv, NEW r \in Requests, KillReturns(r) \/ ExecutionReturns(r)
    PROVE  Watched(r)'
<1> USE DEF StopInv, RunInv
<1>0. /\ pc \in [Requests -> Places] /\ running[r] \subseteq Requests
      /\ awaited \in [Requests -> OrNone]
    BY DEF TypeOK, Places
<1>1. Cancelling(r) /\ UNCHANGED running /\ pc[r] \notin Begun
    BY DEF KillReturns, ExecutionReturns, Cancelling, Begun
<1>2. \E place \in {"awaiting", "queued", "archiving", "error"} :
         pc' = [pc EXCEPT ![r] = place]
    BY DEF KillReturns, ExecutionReturns, Proceed, Queues, Goto
<1>3. \A u \in running[r] : /\ pc[u] \in Begun /\ Target[u] = Target[r]
                            /\ pc'[u] = pc[u]
    BY <1>0, <1>1, <1>2 DEF Watched
<1>4. CASE running[r] = {}
    BY <1>1, <1>4 DEF Watched
<1>5. CASE running[r] # {} /\ KillReturns(r)
  <2>1. Heeded(r) /\ pc[r] = "killing" /\ pc[awaited[r]] # "process"
      BY <1>1, <1>5 DEF Watched, KillReturns, Resumable
  <2>2. Processes(Target[r]) = {}
      BY <2>1 DEF Heeded, Processes
  <2>3. CASE activeExecutions[Target[r]] # None
    <3>1. /\ pc' = [pc EXCEPT ![r] = "awaiting"] /\ pc'[r] = "awaiting"
          /\ awaited'[r] = activeExecutions[Target[r]]
          /\ UNCHANGED <<queue, cancellationRequests>>
        BY <1>0, <1>5, <2>3 DEF KillReturns, Execution, Goto
    <3>2. ASSUME NEW u \in running[r], pc'[u] = "starting"
          PROVE  pc'[awaited'[r]] = "starting" /\ Ahead(queue', u, awaited'[r])
      <4>1. u \in Requests /\ pc[u] = "starting" /\ Target[u] = Target[r]
          BY <1>0, <1>3, <3>2
      <4>2. /\ awaited'[r] \in Requests /\ pc[awaited'[r]] = "starting"
            /\ Ahead(queue, u, awaited'[r])
          BY <3>1, <4>1 DEF LastIsRegistered
      <4> QED
          BY <1>0, <2>1, <3>1, <4>2
    <3>3. Processes(Target[r])' = {}
        BY <1>0, <2>2, <3>1 DEF Processes
    <3>4. Alone(r)'
        BY <1>0, <1>1, <2>1, <3>1 DEF Heeded, Alone, Cancelling
    <3>5. Heeded(r)'
        BY <1>1, <2>1, <3>1, <3>2, <3>3, <3>4 DEF Heeded
    <3>6. Cancelling(r)'
        BY <3>1 DEF Cancelling
    <3> QED
        BY <1>1, <1>3, <3>5, <3>6 DEF Watched
  <2>4. CASE activeExecutions[Target[r]] = None
    <3>1. \A u \in running[r] : pc[u] \notin {"starting", "process"}
        BY <1>0, <1>3, <2>2, <2>4, NothingStarts DEF Processes
    <3>2. \A u \in running[r] : Past(u)'
        BY <1>3, <3>1 DEF Past, Begun
    <3>3. ~Cancelling(r)'
        BY <1>0, <1>5, <2>4 DEF KillReturns, Execution, Proceed, Queues, Goto, Cancelling
    <3> QED
        BY <1>1, <1>3, <3>2, <3>3 DEF Watched
  <2> QED
      BY <2>3, <2>4
<1>6. CASE running[r] # {} /\ ExecutionReturns(r)
  <2>1. /\ Heeded(r) /\ pc[r] = "awaiting" /\ ~Executing(awaited[r])
        /\ \/ pc' = [pc EXCEPT ![r] = "queued"]
           \/ pc' = [pc EXCEPT ![r] = "archiving"]
           \/ pc' = [pc EXCEPT ![r] = "error"]
      BY <1>1, <1>6 DEF Watched, ExecutionReturns, Resumable, Proceed, Queues, Goto
  <2>2. \A u \in running[r] : pc[u] \notin {"starting", "process"}
      BY <1>0, <1>3, <2>1 DEF Heeded, Processes, Executing
  <2>3. \A u \in running[r] : Past(u)'
      BY <1>3, <2>2 DEF Past, Begun
  <2>4. ~Cancelling(r)'
      BY <1>0, <2>1 DEF Cancelling
  <2> QED
      BY <1>1, <1>3, <2>3, <2>4 DEF Watched
<1> QED
    BY <1>4, <1>5, <1>6

\* A restart ends whatever a Stop waited for.
LEMMA WatchRestart ==
    ASSUME StopInv, Restart, NEW r \in Requests
    PROVE  Watched(r)'
<1> USE DEF StopInv, RunInv
<1>1. /\ running'[r] = running[r] /\ running[r] \subseteq Requests
      /\ pc' = [u \in Requests |-> IF pc[u] \in InExecution \cup Waiting
                                     THEN "lost" ELSE pc[u]]
    BY DEF Restart, handlers, cancels, TypeOK
<1>2. \A u \in running[r] : /\ pc[u] \in Begun /\ Target[u] = Target[r] 
                            /\ pc'[u] \in {"lost"} \cup Settled
    BY <1>1 DEF Watched, Begun
<1> QED
    BY <1>1, <1>2 DEF Watched, Cancelling, Past, Begun

\* StopInv is inductive.
LEMMA StopStep == StopInv /\ [Next]_vars => StopInv'
<1> SUFFICES ASSUME StopInv, [Next]_vars
             PROVE  StopInv'
    OBVIOUS
<1>1. RunInv' /\ QueueInv' /\ LastIsRegistered'
    BY RunStep, QueueStep, RegisteredStep DEF StopInv, RunInv
<1>2. ASSUME NEW r \in Requests
      PROVE  Watched(r)'
    BY <1>2, WatchOthers, WatchAnother, WatchArrival, WatchReturn, WatchRestart, OtherEffects
       DEF StopInv, RunInv
<1> QED
    BY <1>1, <1>2 DEF StopInv

\* When a Stop answers 200, every Run that was executing when it arrived is past
\* its process and will not start one, whatever was admitted meanwhile, unless
\* two Stops of the Agent overlapped (agent-service.ts:293, 448, 466-511).
THEOREM StopsEndRuns == Spec => []StopEndsRuns
<1>1. Init => StopInv
  <2>1. Init => QueueInv /\ LastIsRegistered /\ \A r \in Requests : Watched(r)
      BY DEF Init, QueueInv, Distinct, InQueue, InLine, LastIsRegistered, Watched, Cancelling
  <2> QED
      BY <2>1, RunInit DEF StopInv
<1>2. StopInv => StopEndsRuns
    BY DEF StopInv, Watched, Past, Cancelling, StopEndsRuns
<1> QED
    BY <1>1, <1>2, StopStep, PTL DEF Spec

-----------------------------------------------------------------------------
(* What else is needed for a second active Run, and to leave "stopped"      *)

\* A Stop of the Agent has answered 200.
StopAnswered(a) ==
    \E r \in Requests : Op[r] = "stop" /\ Target[r] = a /\ pc[r] = "answered"

\* Active Runs beside each other.
SecondRunNeedsStop ==
    \A u, v \in Requests :
        run[u] \in Active /\ run[v] \in Active /\ Target[u] = Target[v] =>
            u = v \/ StopAnswered(Target[u])

\* An active Run whose Agent is not busy.
Unheld ==
    \A u \in Requests : run[u] \in Active =>
        status[Target[u]] = "busy" \/ StopAnswered(Target[u])

\* A Run is deleted with its Agent, which does not come back.
Gone ==
    \A u \in Requests : run[u] = "deleted" =>
        /\ status[Target[u]] = "absent"
        /\ \E d \in Requests : Op[d] = "delete" /\ Target[d] = Target[u] /\ pc[d] = "answered"

SingleInv == RunInv /\ WorkspaceInv /\ Gone /\ Unheld /\ SecondRunNeedsStop

\* A step that starts and deletes no Run, and takes no Agent from its Run
\* unless it answers a Stop.
Quietly ==
    /\ \A u \in Requests : run'[u] \in Active => run[u] \in Active
    /\ \A u \in Requests : run'[u] = "deleted" => run[u] = "deleted"
    /\ \A a \in Agents : status[a] = "busy" => status'[a] = "busy" \/ StopAnswered(a)'
    /\ \A a \in Agents : status[a] = "absent" => status'[a] = "absent"

\* An answer is final.
LEMMA AnswersStand ==
    ASSUME TypeOK, [Next]_vars
    PROVE  \A r \in Requests : pc[r] = "answered" => pc'[r] = "answered"
<1> USE DEF TypeOK, Goto, Answers, Queues, Proceed, Ends, Commits
<1>1. ASSUME NEW r \in Requests, NEW place, pc' = [pc EXCEPT ![r] = place], pc[r] # "answered"
      PROVE  \A q \in Requests : pc[q] = "answered" => pc'[q] = "answered"
    BY <1>1
<1>2. ASSUME NEW r \in Requests, Arrive(r) \/ Commit(r)
      PROVE  pc[r] # "answered" /\ \E place : pc' = [pc EXCEPT ![r] = place]
    BY <1>2 DEF Arrive, RefusedOnArrival, CreateArrives, MutationArrives, StopKills,
                StopAwaits, StopFindsNothing, CancelArrives, Arrives, Commit, CommitCreate,
                CommitUpdate, CommitGuardrail, CommitStart, CommitRefused, CommitSend,
                CommitStop, CommitDelete
<1>3. ASSUME NEW r \in Requests, Execute(r)
      PROVE  pc[r] # "answered" /\ \E place : pc' = [pc EXCEPT ![r] = place]
    BY <1>3 DEF Execute, CommitRunning, RunCancelledEarly, RunForbidden, PromptBlocked,
                RunnerBusy, SpawnProcess, ProcessExits, CommitCompleted, CommitUnfinished
<1>4. ASSUME NEW r \in Requests,
             FileIO(r) \/ Resume(r) \/ PersistFails(r) \/ WorkspaceFails(r)
      PROVE  pc[r] # "answered" /\ \E place : pc' = [pc EXCEPT ![r] = place]
    BY <1>4 DEF FileIO, WorkspaceCreated, InstructionsWritten, Archive, Resume, KillReturns,
                ExecutionReturns, PersistFails, WorkspaceFails
<1>5. ASSUME NEW a \in Agents, GrantChanges(a)
      PROVE  UNCHANGED pc
    BY <1>5 DEF GrantChanges
<1>6. CASE Restart
    BY <1>6 DEF Restart, InExecution, Waiting
<1>7. CASE UNCHANGED vars
    BY <1>7 DEF vars
<1> HIDE DEF TypeOK
<1> QED
    BY <1>1, <1>2, <1>3, <1>4, <1>5, <1>6, <1>7 DEF Next

\* Every step, by what it does to active Runs and to the Agents that hold them.
LEMMA SingleEffects ==
    RunInv /\ [Next]_vars =>
        \/ Quietly \/ Restart
        \/ \E r \in Requests : \/ CommitCreate(r) \/ CommitSend(r) \/ CommitDelete(r)
                               \/ CommitCompleted(r) \/ CommitUnfinished(r)
<1> SUFFICES ASSUME RunInv, [Next]_vars
             PROVE  \/ Quietly \/ Restart
                    \/ \E r \in Requests : \/ CommitCreate(r) \/ CommitSend(r)
                                           \/ CommitDelete(r) \/ CommitCompleted(r)
                                           \/ CommitUnfinished(r)
    OBVIOUS
<1>1. TypeOK /\ Follows
    BY DEF RunInv
<1> USE DEF rows, runRows
<1>2. CASE UNCHANGED <<status, run>>
    BY <1>2 DEF Quietly
<1>3. ASSUME NEW r \in Requests, Arrive(r)
      PROVE  UNCHANGED <<status, run>>
    BY <1>3 DEF Arrive, RefusedOnArrival, CreateArrives, MutationArrives, StopKills,
                StopAwaits, StopFindsNothing
<1>4. ASSUME NEW r \in Requests, CommitUpdate(r) \/ CommitGuardrail(r) \/ CommitRefused(r)
      PROVE  UNCHANGED <<status, run>>
    BY <1>4 DEF CommitUpdate, CommitGuardrail, CommitRefused
<1>5. ASSUME NEW r \in Requests, CommitStart(r)
      PROVE  Quietly
    BY <1>1, <1>5, LifecycleAssumption DEF CommitStart, Editable, Quietly, TypeOK
<1>6. ASSUME NEW r \in Requests, CommitStop(r)
      PROVE  Quietly
  <2>1. StopAnswered(Target[r])' /\ UNCHANGED run
        /\ status[Target[r]] # "absent" /\ status' = [status EXCEPT ![Target[r]] = "stopped"]
      BY <1>1, <1>6 DEF CommitStop, Commits, Answers, Goto, StopAnswered, TypeOK
  <2> QED
      BY <1>1, <2>1 DEF Quietly, TypeOK
<1>7. ASSUME NEW r \in Requests, CommitRunning(r)
      PROVE  Quietly
  <2>1. run[r] \in {"queued", "deleted"} /\ WriteRun(r, "running") /\ UNCHANGED status
      BY <1>1, <1>7 DEF CommitRunning, Follows
  <2> QED
      BY <1>1, <2>1 DEF WriteRun, Quietly, TypeOK, Active
<1>8. ASSUME NEW r \in Requests, Execute(r)
      PROVE  \/ CommitRunning(r) \/ UNCHANGED <<status, run>>
             \/ CommitCompleted(r) \/ CommitUnfinished(r)
    BY <1>8 DEF Execute, RunCancelledEarly, RunForbidden, PromptBlocked, RunnerBusy,
                SpawnProcess, ProcessExits
<1>9. ASSUME NEW r \in Requests,
             FileIO(r) \/ Resume(r) \/ PersistFails(r) \/ WorkspaceFails(r)
      PROVE  UNCHANGED <<status, run>>
    BY <1>9 DEF FileIO, WorkspaceCreated, InstructionsWritten, Archive, Resume, KillReturns,
                ExecutionReturns, PersistFails, WorkspaceFails
<1>10. ASSUME NEW a \in Agents, GrantChanges(a)
       PROVE  UNCHANGED <<status, run>>
    BY <1>10 DEF GrantChanges
<1>11. CASE UNCHANGED vars
    BY <1>2, <1>11 DEF vars
<1> QED
    BY <1>2, <1>3, <1>4, <1>5, <1>6, <1>7, <1>8, <1>9, <1>10, <1>11 DEF Next, Commit

\* The parts of SingleInv that are about a Stop are kept by every step.
LEMMA SingleStep == SingleInv /\ [Next]_vars => (Gone /\ Unheld /\ SecondRunNeedsStop)'
<1> SUFFICES ASSUME SingleInv, [Next]_vars
             PROVE  Gone' /\ Unheld' /\ SecondRunNeedsStop'
    OBVIOUS
<1>1. /\ TypeOK /\ Follows /\ NoOrphanRows /\ Unborn /\ RunInv
      /\ Gone /\ Unheld /\ SecondRunNeedsStop
    BY DEF SingleInv, RunInv, WorkspaceInv
<1>2. /\ \A a \in Agents : StopAnswered(a) => StopAnswered(a)'
      /\ \A d \in Requests : pc[d] = "answered" => pc'[d] = "answered"
    BY <1>1, AnswersStand DEF StopAnswered
<1>3. \A u \in Requests : Target[u] \in Agents
    BY LifecycleAssumption
\* The Runs that are active afterwards were so, and Agents stay with them.
<1>4. ASSUME \A u \in Requests : run'[u] \in Active =>
                 /\ run[u] \in Active
                 /\ \/ status[Target[u]] = "busy" => status'[Target[u]] = "busy"
                    \/ StopAnswered(Target[u])'
      PROVE  Unheld' /\ SecondRunNeedsStop'
    BY <1>1, <1>2, <1>3, <1>4 DEF Unheld, SecondRunNeedsStop
<1>5. ASSUME \A u \in Requests : run'[u] = "deleted" => run[u] = "deleted",
             \A u \in Requests : run[u] = "deleted" /\ status[Target[u]] = "absent"
                                    => status'[Target[u]] = "absent"
      PROVE  Gone'
    BY <1>1, <1>2, <1>5 DEF Gone
<1>6. CASE Quietly
    BY <1>3, <1>4, <1>5, <1>6 DEF Quietly
<1>7. CASE Restart
  <2>1. \A u \in Requests : run'[u] \notin Active /\ (run'[u] = "deleted" => run[u] = "deleted")
      BY <1>1, <1>7 DEF Restart, Interrupted, Active, TypeOK
  <2>2. \A a \in Agents : status[a] = "absent" => status'[a] = "absent"
      BY <1>1, <1>7 DEF Restart, Recovered, TypeOK
  <2> QED
      BY <1>3, <1>4, <1>5, <2>1, <2>2
<1>8. ASSUME NEW r \in Requests, CommitCreate(r)
      PROVE  Gone' /\ Unheld' /\ SecondRunNeedsStop'
  <2>1. /\ pc[r] = "queued" /\ Op[r] = "create" /\ UNCHANGED run
        /\ status' = [status EXCEPT ![Target[r]] = "ready"]
      BY <1>8 DEF CommitCreate, Commits, runRows
  <2>2. \A d \in Requests : Op[d] = "delete" /\ Target[d] = Target[r] => pc[d] # "answered"
      BY <1>1, <2>1 DEF Unborn
  <2>3. status[Target[r]] = "absent"
      BY <1>1, <2>1 DEF Unborn
  <2>4. \A u \in Requests : run[u] = "deleted" => Target[u] # Target[r]
      BY <1>1, <2>2 DEF Gone
  <2> QED
      BY <1>1, <1>3, <1>4, <1>5, <2>1, <2>3, <2>4 DEF TypeOK
<1>9. ASSUME NEW r \in Requests, CommitSend(r)
      PROVE  Gone' /\ Unheld' /\ SecondRunNeedsStop'
  <2>1. /\ status[Target[r]] \notin {"absent", "busy"}
        /\ run' = [run EXCEPT ![r] = "queued"]
        /\ status' = [status EXCEPT ![Target[r]] = "busy"]
      BY <1>9 DEF CommitSend
  <2>2. \A u \in Requests : run[u] \in Active /\ Target[u] = Target[r] => StopAnswered(Target[u])
      BY <1>1, <2>1 DEF Unheld
  <2>3. \A u \in Requests : run'[u] \in Active => u = r \/ run[u] \in Active
      BY <1>1, <2>1 DEF TypeOK
  <2>4. \A u \in Requests : status[Target[u]] = "busy" => status'[Target[u]] = "busy"
      BY <1>1, <1>3, <2>1 DEF TypeOK
  <2>5. status'[Target[r]] = "busy"
      BY <1>1, <1>3, <2>1 DEF TypeOK
  <2>6. Unheld'
      BY <1>1, <1>2, <1>3, <2>3, <2>4, <2>5 DEF Unheld
  <2>7. SecondRunNeedsStop'
      BY <1>1, <1>2, <1>3, <2>2, <2>3 DEF SecondRunNeedsStop
  <2>8. Gone'
    <3>1. \A u \in Requests : run'[u] = "deleted" => run[u] = "deleted"
        BY <1>1, <2>1 DEF TypeOK
    <3>2. \A u \in Requests : status[Target[u]] = "absent" => status'[Target[u]] = "absent"
        BY <1>1, <1>3, <2>1 DEF TypeOK
    <3> QED
        BY <1>5, <3>1, <3>2
  <2> QED
      BY <2>6, <2>7, <2>8
<1>10. ASSUME NEW r \in Requests, CommitDelete(r)
       PROVE  Gone' /\ Unheld' /\ SecondRunNeedsStop'
  <2>1. /\ Op[r] = "delete" /\ pc'[r] = "answered"
        /\ status' = [status EXCEPT ![Target[r]] = "absent"]
        /\ \A u \in Requests :
              run'[u] = IF Target[u] = Target[r] /\ run[u] # "none" THEN "deleted" ELSE run[u]
      BY <1>1, <1>10 DEF CommitDelete, Commits, Answers, Goto, Purged, TypeOK
  <2>2. \A u \in Requests : run'[u] \in Active => run[u] \in Active /\ Target[u] # Target[r]
      BY <2>1 DEF Active
  <2>3. \A u \in Requests : status'[Target[u]] = IF Target[u] = Target[r] THEN "absent"
                                                 ELSE status[Target[u]]
      BY <1>1, <1>3, <2>1 DEF TypeOK
  <2>4. Unheld' /\ SecondRunNeedsStop'
      BY <1>4, <2>2, <2>3
  <2>5. Gone'
      BY <1>1, <1>2, <2>1, <2>3 DEF Gone
  <2> QED
      BY <2>4, <2>5
\* The end of a Run: another one that is active beside it was let in by a Stop.
<1>11. ASSUME NEW r \in Requests, pc[r] = "finishing", NEW how \in Finished,
              run[r] # "deleted", run' = [run EXCEPT ![r] = how],
              NEW next, next # "absent",
              status' = [status EXCEPT ![Target[r]] = next], status[Target[r]] # "absent"
       PROVE  Gone' /\ Unheld' /\ SecondRunNeedsStop'
  <2>1. run[r] \in Active
      BY <1>1, <1>11 DEF Follows, Active
  <2>2. \A u \in Requests : run'[u] \in Active => u # r /\ run[u] \in Active
      BY <1>1, <1>11 DEF TypeOK, Active, Finished
  <2>3. \A u \in Requests : run'[u] \in Active /\ Target[u] = Target[r] => StopAnswered(Target[u])
      BY <1>1, <2>1, <2>2 DEF SecondRunNeedsStop
  <2>4. \A u \in Requests : Target[u] # Target[r] => status'[Target[u]] = status[Target[u]]
      BY <1>1, <1>3, <1>11 DEF TypeOK
  <2>5. Unheld' /\ SecondRunNeedsStop'
      BY <1>2, <1>3, <1>4, <2>2, <2>3, <2>4
  <2>6. \A u \in Requests : run'[u] = "deleted" => run[u] = "deleted"
      BY <1>1, <1>11 DEF TypeOK, Finished
  <2>7. Gone'
      BY <1>5, <1>11, <2>4, <2>6
  <2> QED
      BY <2>5, <2>7
<1>12. CASE UNCHANGED <<status, run>>
  BY <1>4, <1>5, <1>12
<1>13. ASSUME NEW r \in Requests, CommitCompleted(r)
       PROVE  Gone' /\ Unheld' /\ SecondRunNeedsStop'
    BY <1>11, <1>12, <1>13 DEF CommitCompleted, StillThere, Finished
<1>14. ASSUME NEW r \in Requests, CommitUnfinished(r)
       PROVE  Gone' /\ Unheld' /\ SecondRunNeedsStop'
  <2>1. /\ pc[r] = "finishing" /\ verdict[r] \in Finished /\ WriteRun(r, verdict[r])
        /\ status' = [status EXCEPT ![Target[r]] =
               IF @ \in {"absent", "stopped"} THEN @
               ELSE IF verdict[r] = "failed" THEN "error" ELSE "ready"]
      BY <1>1, <1>14 DEF CommitUnfinished, Follows
  <2>2. CASE run[r] = "deleted"
    <3>1. status[Target[r]] = "absent"
        BY <1>1, <2>2 DEF Gone
    <3>2. run' = run /\ status' = status
        BY <1>1, <2>1, <2>2, <3>1 DEF WriteRun, TypeOK
    <3> QED
        BY <1>12, <3>2
  <2>3. CASE run[r] # "deleted"
    <3>1. status[Target[r]] # "absent"
        BY <1>1, <2>1, <2>3 DEF NoOrphanRows, Follows
    <3>2. \E next : /\ next # "absent"
                    /\ status' = [status EXCEPT ![Target[r]] = next]
        BY <2>1, <3>1
    <3>3. run' = [run EXCEPT ![r] = verdict[r]]
        BY <2>1, <2>3 DEF WriteRun
    <3> QED
        BY <1>11, <2>1, <2>3, <3>1, <3>2, <3>3
  <2> QED
      BY <2>2, <2>3
<1> QED
    BY <1>1, <1>6, <1>7, <1>8, <1>9, <1>10, <1>13, <1>14, SingleEffects

\* The second active Run that OneActiveRun forbids needs a Stop that was answered:
\* a mutation of a Stop is the only one that takes "busy" from an Agent whose Run
\* goes on (agent-service.ts:494-512).
THEOREM StopLetsIn == Spec => []SecondRunNeedsStop
<1>1. Init => SingleInv
  <2>1. Init => WorkspaceInv
      BY TypeInit, LifecycleAssumption DEF Init, WorkspaceInv, Placed, Unborn, RowHasWorkspace
  <2>2. Init => Gone /\ Unheld /\ SecondRunNeedsStop
      BY DEF Init, Gone, Unheld, SecondRunNeedsStop, Active
  <2> QED
      BY <2>1, <2>2, RunInit DEF SingleInv
<1>2. SingleInv /\ [Next]_vars => SingleInv'
  <2>1. WorkspaceInv /\ [Next]_vars => WorkspaceInv'
      BY TypeStep, PlacedStep, UnbornStep, RowStep DEF WorkspaceInv
  <2> QED
      BY <2>1, RunStep, SingleStep DEF SingleInv
<1>3. SingleInv => SecondRunNeedsStop
    BY DEF SingleInv
<1> QED
    BY <1>1, <1>2, <1>3, PTL DEF Spec

\* What takes an Agent out of "stopped": its Start, or a Run of it that completes.
RunsAgain(a) ==
    \E r \in Requests :
        /\ Target[r] = a
        /\ \/ Op[r] = "start" /\ pc[r] = "queued" /\ pc'[r] = "answered"
           \/ /\ pc[r] = "finishing" /\ verdict[r] = "completed" /\ run[r] = "running"
              /\ pc'[r] = "settled"

StoppedUntilLeft ==
    [][\A a \in Agents : status[a] = "stopped" /\ status'[a] \notin {"stopped", "absent"}
          => RunsAgain(a)]_vars

\* Where StoppedUntilStarted expects a Start, an Agent is otherwise taken out of
\* "stopped" only by a Run that completes: no failure, block, restart or fault does
\* it, nor a Send, an edit or a new Agent (agent-service.ts:248, 429, 449).
THEOREM StoppedStays == Spec => StoppedUntilLeft
<1>1. ASSUME RunInv, Unborn, [Next]_vars, NEW a \in Agents,
             status[a] = "stopped", status'[a] \notin {"stopped", "absent"}
      PROVE  RunsAgain(a)
  <2>1. TypeOK /\ Follows
      BY <1>1 DEF RunInv
  <2> USE <2>1 DEF TypeOK, rows, Goto, Answers
  <2>2. status' # status
      BY <1>1
  <2>3. ASSUME NEW r \in Requests, Arrive(r) \/ FileIO(r) \/ Resume(r) \/ PersistFails(r)
                                   \/ WorkspaceFails(r)
        PROVE  UNCHANGED status
      BY <2>3 DEF Arrive, RefusedOnArrival, CreateArrives, MutationArrives, StopKills,
                  StopAwaits, StopFindsNothing, FileIO, WorkspaceCreated,
                  InstructionsWritten, Archive, Resume, KillReturns, ExecutionReturns,
                  PersistFails, WorkspaceFails
  <2>4. ASSUME NEW r \in Requests, Commit(r)
        PROVE  RunsAgain(a)
    <3>1. CASE CommitStart(r)
      <4>1. /\ Op[r] = "start" /\ pc[r] = "queued" /\ pc'[r] = "answered"
            /\ status' = [status EXCEPT ![Target[r]] = "ready"]
          BY <3>1 DEF CommitStart, Commits
      <4>2. Target[r] = a
          BY <1>1, <4>1
      <4> QED
          BY <4>1, <4>2 DEF RunsAgain
    <3>2. CASE CommitCreate(r)
      <4>1. /\ Op[r] = "create" /\ pc[r] = "queued"
            /\ status' = [status EXCEPT ![Target[r]] = "ready"]
          BY <3>2 DEF CommitCreate, Commits
      <4>2. status[Target[r]] = "absent"
          BY <1>1, <4>1 DEF Unborn
      <4> QED
          BY <1>1, <4>1, <4>2
    <3>3. CASE CommitSend(r)
      <4>1. status[Target[r]] # "stopped" /\ status' = [status EXCEPT ![Target[r]] = "busy"]
          BY <3>3 DEF CommitSend
      <4> QED
          BY <1>1, <4>1
    <3>4. CASE CommitStop(r) \/ CommitDelete(r)
      <4>1. \E next \in {"stopped", "absent"} : status' = [status EXCEPT ![Target[r]] = next]
          BY <3>4 DEF CommitStop, CommitDelete
      <4> QED
          BY <1>1, <4>1
    <3>5. CASE CommitUpdate(r) \/ CommitGuardrail(r) \/ CommitRefused(r)
        BY <2>2, <3>5 DEF CommitUpdate, CommitGuardrail, CommitRefused
    <3> QED
        BY <2>4, <3>1, <3>2, <3>3, <3>4, <3>5 DEF Commit
  <2>5. ASSUME NEW r \in Requests, Execute(r)
        PROVE  RunsAgain(a)
    <3>1. CASE CommitCompleted(r)
      <4>1. /\ pc[r] = "finishing" /\ verdict[r] = "completed" /\ pc'[r] = "settled"
            /\ StillThere(r) /\ status' = [status EXCEPT ![Target[r]] = "ready"]
          BY <2>2, <3>1 DEF CommitCompleted
      <4>2. run[r] = "running"
          BY <4>1 DEF Follows, StillThere
      <4>3. Target[r] = a
          BY <1>1, <4>1
      <4> QED
          BY <4>1, <4>2, <4>3 DEF RunsAgain
    <3>2. CASE CommitUnfinished(r)
      <4>1. Target[r] # a \/ status'[a] = status[a]
          BY <1>1, <3>2 DEF CommitUnfinished
      <4>2. Target[r] # a => status'[a] = status[a]
          BY <3>2 DEF CommitUnfinished
      <4> QED
          BY <1>1, <4>1, <4>2
    <3> QED
        BY <2>2, <2>5, <3>1, <3>2
           DEF Execute, CommitRunning, RunCancelledEarly, RunForbidden, PromptBlocked,
               RunnerBusy, SpawnProcess, ProcessExits
  <2>6. CASE Restart
      BY <1>1, <2>6 DEF Restart, Recovered
  <2>7. ASSUME NEW b \in Agents, GrantChanges(b)
        PROVE  UNCHANGED status
      BY <2>7 DEF GrantChanges
  <2>8. CASE UNCHANGED vars
      BY <2>2, <2>8 DEF vars
  <2> HIDE DEF TypeOK
  <2> QED
      BY <1>1, <2>2, <2>3, <2>4, <2>5, <2>6, <2>7, <2>8 DEF Next
<1>2. RunInv /\ Unborn /\ [Next]_vars =>
          [\A a \in Agents : status[a] = "stopped" /\ status'[a] \notin {"stopped", "absent"}
              => RunsAgain(a)]_vars
    BY <1>1
<1>3. Init => WorkspaceInv
    BY TypeInit, LifecycleAssumption DEF Init, WorkspaceInv, Placed, Unborn, RowHasWorkspace
<1>4. WorkspaceInv /\ [Next]_vars => WorkspaceInv'
    BY TypeStep, PlacedStep, UnbornStep, RowStep DEF WorkspaceInv
<1>5. WorkspaceInv => Unborn
    BY DEF WorkspaceInv
<1> QED
    BY <1>2, <1>3, <1>4, <1>5, RunInvariance, PTL DEF Spec, StoppedUntilLeft
=============================================================================
