----------------------- MODULE ContainerRunner_proofs -----------------------
(***************************************************************************)
(* Proofs about ContainerRunner: its type, that it implements              *)
(* RunnerContract, and the two invariants of its run, for any numbers of   *)
(* turns and of calls of cancel().                                         *)
(***************************************************************************)
EXTENDS ContainerRunner, TLAPS

\* The registered turn is the one that runs, and it has a client until its pipes
\* close.
Registered ==
    \A t \in Turns : /\ outcome[t] = "running" <=> active = t
                     /\ outcome[t] = "running" <=> client[t] \in {"running", "exited"}

\* A turn that was asked to stop has no other end.
CancelHolds == \A t \in cancelled : outcome[t] \in {"running", "cancelled"}

\* A call of cancel() that found a turn has asked it to stop, and has waited for the
\* command and the client.
Asked ==
    \A c \in Cancels :
        /\ call[c] \in {"waiting", "true"} => found[c] \in cancelled
        /\ call[c] = "true" =>
              client[found[c]] = "closed" /\ termination[found[c]] = "done"

\* The client is signalled after the command has failed, and is the only way a
\* container loses its client.
Signalled ==
    \A t \in Turns :
        /\ signal[t] # "none" => termination[t] = "done"
        /\ container[t] = "up" /\ client[t] # "running" => signal[t] # "none"

Inv == TypeOK /\ Registered /\ CancelHolds /\ Asked /\ Signalled

-----------------------------------------------------------------------------
\* What a turn may come to (container-codex-runner.ts:221-245).
LEMMA OutcomeType ==
    ASSUME NEW t, NEW blocked \in BOOLEAN, NEW hasText \in BOOLEAN
    PROVE  /\ t \in cancelled => OutcomeOf(t, blocked, hasText) = "cancelled"
           /\ t \notin cancelled =>
                 OutcomeOf(t, blocked, hasText) \in {"completed", "blocked", "failed"}
BY DEF OutcomeOf

\* The command is started once: what it has come to stays.
LEMMA RemoveOnce ==
    ASSUME TypeOK, NEW t \in Turns, Remove(t)
    PROVE  /\ termination' \in [Turns -> {"none", "removing", "done"}]
           /\ \A u \in Turns : termination[u] = "done" => termination'[u] = "done"
BY DEF Remove, TypeOK

\* Nothing runs at first.
LEMMA InitInv == Init => Inv
BY ContainerAssumption DEF Init, Inv, TypeOK, Registered, CancelHolds, Asked, Signalled

\* What run() returns, and that the turn is over with it.
LEMMA CloseInv ==
    ASSUME Inv, NEW t \in Turns, Close(t)
    PROVE  /\ Inv' /\ outcome[t] = "running"
           /\ \E how \in IF t \in cancelled THEN {"cancelled"}
                         ELSE {"completed", "blocked", "failed"} :
                 outcome' = [outcome EXCEPT ![t] = how]
<1>1. PICK blocked \in BOOLEAN, hasText \in BOOLEAN :
        /\ outcome' = [outcome EXCEPT ![t] = OutcomeOf(t, blocked, hasText)]
        /\ Remove(t) \/ UNCHANGED termination
  BY DEF Close, Becomes
<1> DEFINE how == OutcomeOf(t, blocked, hasText)
<1>2. how \in IF t \in cancelled THEN {"cancelled"} ELSE {"completed", "blocked", "failed"}
  BY OutcomeType
<1>3. outcome' = [outcome EXCEPT ![t] = how]
  BY <1>1
<1> HIDE DEF how
<1>4. /\ outcome[t] = "running" /\ active = t
      /\ outcome'[t] = how /\ \A u \in Turns \ {t} : outcome'[u] = outcome[u]
  BY <1>3 DEF Close, Inv, TypeOK, Registered
<1>5. /\ client[t] = "exited"
      /\ client' = [client EXCEPT ![t] = "closed"]
      /\ active' = None
      /\ UNCHANGED <<signal, cancelled, container, name, call, found>>
      /\ failed' \subseteq failed /\ timedOut' \subseteq timedOut
      /\ outputExceeded' \subseteq outputExceeded /\ guardrailBlock' \subseteq guardrailBlock
  BY DEF Close, Becomes, engine, calls
<1>6. /\ termination' \in [Turns -> {"none", "removing", "done"}]
      /\ \A u \in Turns : termination[u] = "done" => termination'[u] = "done"
  BY <1>1, RemoveOnce DEF Inv, TypeOK
<1>7. TypeOK'
  <2>1. outcome' \in [Turns -> {"idle", "running", "completed", "blocked", "failed",
                                "cancelled"}]
    BY <1>2, <1>3 DEF Inv, TypeOK
  <2> QED
    BY <1>5, <1>6, <2>1 DEF Inv, TypeOK
<1>8. Registered'
  BY <1>2, <1>4, <1>5, ContainerAssumption DEF Inv, TypeOK, Registered
<1>9. CancelHolds'
  BY <1>2, <1>4, <1>5 DEF Inv, TypeOK, CancelHolds
<1>10. Asked'
  BY <1>5, <1>6 DEF Inv, TypeOK, Asked
<1>11. Signalled'
  BY <1>5, <1>6 DEF Inv, TypeOK, Signalled
<1> QED
  BY <1>2, <1>3, <1>4, <1>7, <1>8, <1>9, <1>10, <1>11 DEF Inv

\* The command succeeds or fails, and whatever it takes away is gone.
LEMMA RemoveEndsInv ==
    ASSUME Inv, NEW t \in Turns, RemoveSucceeds(t) \/ RemoveFails(t)
    PROVE  Inv'
<1>1. /\ termination[t] = "removing"
      /\ termination' = [termination EXCEPT ![t] = "done"]
      /\ UNCHANGED <<active, outcome, client, cancelled, timedOut, outputExceeded,
                     guardrailBlock, call, found>>
  BY DEF RemoveSucceeds, RemoveFails, Becomes, flags, calls
<1>2. /\ failed' \subseteq Turns /\ name' \in Turns \cup {None}
      /\ signal' \in [Turns -> {"none", "term", "kill"}]
      /\ container' \in [Turns -> {"none", "up", "gone"}]
      /\ \A u \in Turns : container'[u] = "up" => container[u] = "up"
      /\ \A u \in Turns : signal[u] # "none" => signal'[u] # "none"
      /\ \A u \in Turns : u # t => signal'[u] = signal[u]
  BY DEF RemoveSucceeds, RemoveFails, Becomes, engine, Inv, TypeOK
<1>3. TypeOK' /\ Registered' /\ CancelHolds' /\ Asked'
  BY <1>1, <1>2, ZenonT(60) DEF Inv, TypeOK, Registered, CancelHolds, Asked
<1>4. Signalled'
  BY <1>1, <1>2 DEF Inv, TypeOK, Signalled
<1> QED
  BY <1>3, <1>4 DEF Inv

\* Inv is inductive.
LEMMA NextInv == Inv /\ [Next]_vars => Inv'
<1> SUFFICES ASSUME Inv, [Next]_vars PROVE Inv'
  OBVIOUS
<1> USE DEF Becomes, process, flags, engine, calls
<1>1. ASSUME NEW t \in Turns, Run(t) PROVE Inv'
  <2>1. TypeOK' /\ CancelHolds' /\ Signalled'
    BY <1>1 DEF Run, Inv, TypeOK, CancelHolds, Signalled
  <2>2. Registered'
    BY <1>1, ContainerAssumption DEF Run, Inv, TypeOK, Registered
  <2>3. Asked'
    <3> SUFFICES ASSUME NEW c \in Cancels, call[c] = "true"
                 PROVE  client'[found[c]] = "closed" /\ termination[found[c]] = "done"
      BY <1>1 DEF Run, Inv, Asked
    <3>1. /\ found[c] \in cancelled /\ client[found[c]] = "closed"
          /\ termination[found[c]] = "done"
      BY DEF Inv, Asked
    <3>2. found[c] # t
      BY <1>1, <3>1 DEF Run, Inv, CancelHolds
    <3> QED
      BY <1>1, <3>1, <3>2 DEF Run, Inv, TypeOK
  <2> QED
    BY <2>1, <2>2, <2>3 DEF Inv
<1>2. ASSUME NEW t \in Turns, RunRefused(t) PROVE Inv'
  BY <1>2 DEF RunRefused, Inv, TypeOK, Registered, CancelHolds, Asked, Signalled
<1>3. ASSUME NEW t \in Turns,
             ContainerStarts(t) \/ NameIsTaken(t) \/ ContainerEnds(t)
      PROVE  Inv'
  <2>1. CASE ContainerStarts(t)
    BY <2>1 DEF ContainerStarts, Inv, TypeOK, Registered, CancelHolds, Asked, Signalled
  <2>2. CASE NameIsTaken(t)
    BY <2>2 DEF NameIsTaken, Inv, TypeOK, Registered, CancelHolds, Asked, Signalled
  <2>3. CASE ContainerEnds(t)
    BY <2>3 DEF ContainerEnds, Inv, TypeOK, Registered, CancelHolds, Asked, Signalled
  <2> QED
    BY <1>3, <2>1, <2>2, <2>3
<1>4. ASSUME NEW t \in Turns, ClientFollows(t) \/ ClientIsKilled(t) PROVE Inv'
  <2>1. CASE ClientFollows(t)
    BY <2>1 DEF ClientFollows, Inv, TypeOK, Registered, CancelHolds, Asked, Signalled
  <2>2. CASE ClientIsKilled(t)
    BY <2>2 DEF ClientIsKilled, Inv, TypeOK, Registered, CancelHolds, Asked, Signalled
  <2> QED
    BY <1>4, <2>1, <2>2
<1>5. ASSUME NEW t \in Turns, RemoveSucceeds(t) \/ RemoveFails(t) PROVE Inv'
  BY <1>5, RemoveEndsInv
<1>6. ASSUME NEW t \in Turns, ForceKill(t) PROVE Inv'
  BY <1>6 DEF ForceKill, Inv, TypeOK, Registered, CancelHolds, Asked, Signalled
<1>7. ASSUME NEW t \in Turns, Denied(t) \/ TooMuchOutput(t) \/ Timeout(t) PROVE Inv'
  <2>1. /\ UNCHANGED <<active, outcome, client, signal, failed, cancelled, container, name,
                       call, found>>
        /\ timedOut' \subseteq Turns /\ outputExceeded' \subseteq Turns
        /\ guardrailBlock' \subseteq Turns
        /\ Remove(t)
    BY <1>7 DEF Denied, TooMuchOutput, Timeout, Inv, TypeOK
  <2> QED
    BY <2>1, RemoveOnce DEF Inv, TypeOK, Registered, CancelHolds, Asked, Signalled
<1>8. ASSUME NEW t \in Turns, Close(t) PROVE Inv'
  BY <1>8, CloseInv
<1>9. ASSUME NEW c \in Cancels, Cancel(c) PROVE Inv'
  <2>1. active \in Turns /\ outcome[active] = "running"
    BY <1>9 DEF Cancel, Inv, TypeOK, Registered
  <2>2. /\ termination' \in [Turns -> {"none", "removing", "done"}]
        /\ \A u \in Turns : termination[u] = "done" => termination'[u] = "done"
    BY <1>9, <2>1, RemoveOnce DEF Cancel, Inv
  <2> QED
    BY <1>9, <2>1, <2>2
    DEF Cancel, Inv, TypeOK, Registered, CancelHolds, Asked, Signalled
<1>10. ASSUME NEW c \in Cancels, CancelFindsNothing(c) PROVE Inv'
  BY <1>10 DEF CancelFindsNothing, Inv, TypeOK, Registered, CancelHolds, Asked, Signalled
<1>11. ASSUME NEW c \in Cancels, CancelReturns(c) PROVE Inv'
  BY <1>11 DEF CancelReturns, Settled, Inv, TypeOK, Registered, CancelHolds, Asked, Signalled
<1>12. CASE UNCHANGED vars
  BY <1>12 DEF vars, Inv, TypeOK, Registered, CancelHolds, Asked, Signalled
<1> QED
  BY <1>1, <1>2, <1>3, <1>4, <1>5, <1>6, <1>7, <1>8, <1>9, <1>10, <1>11, <1>12 DEF Next

\* The invariant that the other theorems follow from.
THEOREM Invariance == Spec => []Inv
BY InitInv, NextInv, PTL DEF Spec

\* The variables hold what the code lets them hold.
THEOREM TypeCorrect == Spec => []TypeOK
<1>1. Inv => TypeOK
  BY DEF Inv
<1> QED
  BY <1>1, Invariance, PTL

\* A container outlives its turn only after the command that was to remove it has
\* failed (container-codex-runner.ts:124-140).
THEOREM Leftovers == Spec => []LeftoverHasReason
<1>1. Inv => LeftoverHasReason
  BY DEF Inv, TypeOK, Registered, Signalled, LeftoverHasReason
<1> QED
  BY <1>1, Invariance, PTL

\* A Stop that found a turn is told when it is over, cancelled, and its command has
\* ended (container-codex-runner.ts:114-122).
THEOREM CancelledTurns == Spec => []CancelledIsOver
<1>1. Inv => CancelledIsOver
  BY DEF Inv, TypeOK, Registered, CancelHolds, Asked, CancelledIsOver
<1> QED
  BY <1>1, Invariance, PTL

\* ContainerCodexRunner implements what AgentService relies on
\* (container-codex-runner.ts:92-249).
THEOREM Implements == Spec => Contract
<1>1. Init => Runner!Init
  BY DEF Init, Runner!Init
<1>2. Inv /\ [Next]_vars => [Runner!Next]_(Runner!vars)
  <2> SUFFICES ASSUME Inv, [Next]_vars PROVE [Runner!Next]_(Runner!vars)
    OBVIOUS
  <2>1. ASSUME NEW t \in Turns, Run(t) PROVE Runner!Start(t)
    BY <2>1, ContainerAssumption DEF Run, Becomes, flags, Runner!Start, Inv, Registered
  <2>2. ASSUME NEW t \in Turns, RunRefused(t) PROVE Runner!Refuse(t)
    BY <2>2 DEF RunRefused, Becomes, flags, Runner!Refuse
  <2>3. ASSUME NEW t \in Turns, Close(t) PROVE Runner!End(t)
    <3>1. UNCHANGED cancelled
      BY <2>3 DEF Close
    <3> QED
      BY <2>3, <3>1, CloseInv DEF Runner!End, Runner!Own
  <2>4. ASSUME NEW c \in Cancels, Cancel(c) PROVE active \in Turns /\ Runner!Ask(active)
    BY <2>4 DEF Cancel, Runner!Ask, Inv, TypeOK, Registered
  <2>5. ASSUME NEW t \in Turns,
               \/ ContainerStarts(t) \/ NameIsTaken(t) \/ ContainerEnds(t)
               \/ ClientFollows(t) \/ ClientIsKilled(t)
               \/ RemoveSucceeds(t) \/ RemoveFails(t) \/ ForceKill(t)
               \/ Denied(t) \/ TooMuchOutput(t) \/ Timeout(t)
        PROVE  UNCHANGED <<outcome, cancelled>>
    BY <2>5 DEF ContainerStarts, NameIsTaken, ContainerEnds, ClientFollows, ClientIsKilled,
       RemoveSucceeds, RemoveFails, ForceKill, Denied, TooMuchOutput, Timeout, flags
  <2>6. ASSUME NEW c \in Cancels, CancelFindsNothing(c) \/ CancelReturns(c)
        PROVE  UNCHANGED <<outcome, cancelled>>
    BY <2>6 DEF CancelFindsNothing, CancelReturns, flags
  <2>7. CASE UNCHANGED vars
    BY <2>7 DEF vars, flags, Runner!vars
  <2> QED
    BY <2>1, <2>2, <2>3, <2>4, <2>5, <2>6, <2>7 DEF Next, Runner!Next, Runner!vars
<1> QED
  BY <1>1, <1>2, Invariance, PTL DEF Spec, Contract, Runner!Spec
=============================================================================
