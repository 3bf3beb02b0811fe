------------------------- MODULE CodexRunner_proofs -------------------------
(***************************************************************************)
(* Proofs about CodexRunner: its type, that it implements RunnerContract,  *)
(* and the two invariants of its run, for any numbers of turns, of calls   *)
(* of cancel() and of chunks.                                              *)
(***************************************************************************)
EXTENDS CodexRunner, TLAPS

\* The registered turn is the one that runs, and it has a process until its pipes
\* close.
Registered ==
    \A t \in Turns : /\ outcome[t] = "running" <=> active = t
                     /\ outcome[t] = "running" <=> child[t] \in {"running", "exited"}

\* A turn that was asked to stop has no other end.
CancelHolds == \A t \in cancelled : outcome[t] \in {"running", "cancelled"}

\* A call of cancel() that found a turn has asked it to stop.
Asked ==
    \A c \in Cancels :
        /\ call[c] \in {"waiting", "true"} => found[c] \in cancelled
        /\ call[c] = "true" => child[found[c]] = "closed"

\* A denied action that has come whole is recorded, or in the line that has no end yet,
\* until the turn has ended as it should.
Recorded ==
    \A t \in denied :
        \/ outcome[t] \in {"cancelled", "blocked"}
        \/ outcome[t] = "running" /\ (t \in guardrailBlock \/ rest[t] = "denied")

Inv == TypeOK /\ Registered /\ CancelHolds /\ Asked /\ Recorded

-----------------------------------------------------------------------------
\* What a turn may come to (codex-runner.ts:263-289).
LEMMA OutcomeType ==
    ASSUME NEW t, NEW blocked \in BOOLEAN, NEW hasText \in BOOLEAN
    PROVE  /\ t \in cancelled => OutcomeOf(t, blocked, hasText) = "cancelled"
           /\ t \notin cancelled =>
                 OutcomeOf(t, blocked, hasText) \in {"completed", "blocked", "failed"}
           /\ t \notin cancelled /\ blocked => OutcomeOf(t, blocked, hasText) = "blocked"
BY DEF OutcomeOf

\* Nothing runs at first.
LEMMA InitInv == Init => Inv
BY RunnerAssumption DEF Rests, Init, Inv, TypeOK, Registered, CancelHolds, Asked, Recorded

\* A new tail of a turn that runs loses no denied action that is recorded, or recorded
\* with it.
LEMMA Kept ==
    ASSUME Inv, NEW t \in Turns, NEW line, Becomes(rest, t, line), outcome[t] = "running",
           UNCHANGED outcome, guardrailBlock \subseteq guardrailBlock',
           denied' \subseteq denied \cup {t},
           t \in denied' => \/ t \in denied /\ rest[t] # "denied"
                            \/ t \in guardrailBlock' \/ line = "denied"
    PROVE  Recorded'
<1>1. rest'[t] = line /\ \A u \in Turns \ {t} : rest'[u] = rest[u]
  BY DEF Becomes, Inv, TypeOK
<1> QED
  BY <1>1 DEF Inv, TypeOK, Recorded

\* A chunk is one of the turn that runs.
LEMMA ChunkInv ==
    ASSUME Inv, NEW t \in Turns, ChunkBeyondLimit(t) \/ ChunkOfLine(t) \/ ChunkGoesOn(t)
    PROVE  Inv'
<1>1. /\ UNCHANGED <<active, outcome, child, failed, held, cancelled, timedOut, call, found>>
      /\ outcome[t] = "running"
      /\ chunks' \in [Turns -> 0..MaxChunks]
  BY RunnerAssumption DEF ChunkBeyondLimit, ChunkOfLine, ChunkGoesOn, Chunk, Becomes,
     process, calls, Inv, TypeOK, Registered
<1>2. signal' \in [Turns -> {"none", "term", "kill"}]
  BY DEF ChunkBeyondLimit, ChunkOfLine, ChunkGoesOn, Parses, Terminate, Inv, TypeOK
<1>3. /\ said' \subseteq Turns /\ guardrailBlock' \subseteq Turns
      /\ outputExceeded' \subseteq Turns /\ denied' \subseteq Turns
  BY DEF ChunkBeyondLimit, ChunkOfLine, ChunkGoesOn, Came, Parses, Says, Denies, Inv, TypeOK
<1>4. rest' \in [Turns -> Rests]
  BY DEF ChunkBeyondLimit, ChunkOfLine, ChunkGoesOn, Becomes, Lines, Decoded, Rests, Inv,
     TypeOK
<1>5. Recorded'
  <2>1. CASE ChunkBeyondLimit(t)
    BY <1>1, <2>1 DEF ChunkBeyondLimit, Inv, Recorded
  <2>2. CASE ChunkOfLine(t)
    <3>1. rest[t] = None
      BY <2>2 DEF ChunkOfLine
    <3>2. ASSUME NEW line \in Lines, Came(t, line), Parses(t, line), UNCHANGED rest
          PROVE  Recorded'
      BY <1>1, <3>2 DEF Came, Parses, Denies, Inv, Recorded
    <3>3. ASSUME NEW line \in Lines, Came(t, line), Becomes(rest, t, line),
                 UNCHANGED guardrailBlock
          PROVE  Recorded'
      BY <1>1, <3>1, <3>3, Kept, RunnerAssumption DEF Came
    <3>4. CASE Becomes(rest, t, "begun") /\ UNCHANGED <<guardrailBlock, denied>>
      BY <1>1, <3>1, <3>4, Kept, RunnerAssumption
    <3> QED
      BY <2>2, <3>2, <3>3, <3>4 DEF ChunkOfLine
  <2>3. CASE ChunkGoesOn(t)
    <3>1. ASSUME NEW line \in Lines, NEW read \in Decoded(line), rest[t] = "begun",
                 Came(t, read), Parses(t, read), Becomes(rest, t, None)
          PROVE  Recorded'
      <4>1. /\ denied' \subseteq denied \cup {t} /\ guardrailBlock \subseteq guardrailBlock'
            /\ t \in denied' => t \in denied \/ t \in guardrailBlock'
        BY <3>1 DEF Came, Parses, Denies
      <4> QED
        BY <1>1, <3>1, <4>1, Kept
    <3>2. ASSUME NEW line \in Lines, NEW read \in Decoded(line), rest[t] = "begun",
                 Came(t, read), Becomes(rest, t, read), UNCHANGED guardrailBlock
          PROVE  Recorded'
      BY <1>1, <3>2, Kept DEF Came
    <3>3. CASE /\ Parses(t, rest[t]) /\ Becomes(rest, t, None) /\ UNCHANGED denied
      <4>1. /\ guardrailBlock \subseteq guardrailBlock'
            /\ rest[t] = "denied" => t \in guardrailBlock'
        BY <3>3 DEF Parses, Denies
      <4> QED
        BY <1>1, <3>3, <4>1, Kept
    <3>4. CASE UNCHANGED <<guardrailBlock, rest, denied>>
      BY <1>1, <3>4 DEF Inv, Recorded
    <3> QED
      BY <2>3, <3>1, <3>2, <3>3, <3>4 DEF ChunkGoesOn
  <2> QED
    BY <2>1, <2>2, <2>3
<1> QED
  BY <1>1, <1>2, <1>3, <1>4, <1>5 DEF Inv, TypeOK, Registered, CancelHolds, Asked

\* What run() returns, and that the turn is over with it.
LEMMA CloseInv ==
    ASSUME Inv, NEW t \in Turns, Close(t)
    PROVE  /\ Inv' /\ outcome[t] = "running" /\ t = active
           /\ outcome' = [outcome EXCEPT ![t] = outcome'[t]]
           /\ outcome'[t] \in IF t \in cancelled THEN {"cancelled"}
                              ELSE {"completed", "blocked", "failed"}
<1> DEFINE blocked == t \in guardrailBlock \/ LastLine(t) = "denied"
           hasText == t \in said \/ LastLine(t) = "message"
           how == OutcomeOf(t, blocked, hasText)
<1>1. outcome' = [outcome EXCEPT ![t] = how]
  BY DEF Close, Becomes
<1>2. /\ t \in cancelled => how = "cancelled"
      /\ t \notin cancelled => how \in {"completed", "blocked", "failed"}
      /\ t \notin cancelled /\ blocked => how = "blocked"
  <2> HIDE DEF blocked, hasText
  <2>1. blocked \in BOOLEAN /\ hasText \in BOOLEAN
    BY DEF blocked, hasText
  <2> QED
    BY <2>1, OutcomeType
<1> HIDE DEF how
<1>3. /\ outcome[t] = "running" /\ active = t
      /\ outcome'[t] = how /\ \A u \in Turns \ {t} : outcome'[u] = outcome[u]
  BY <1>1 DEF Close, Inv, TypeOK, Registered
<1>4. /\ child' = [child EXCEPT ![t] = "closed"]
      /\ \A u \in Turns \ {t} : child'[u] = child[u]
      /\ child'[t] = "closed"
  BY DEF Close, Becomes, Inv, TypeOK
<1>5. /\ active' = None
      /\ UNCHANGED <<held, cancelled, outputExceeded, denied, call, found>>
  BY DEF Close, calls
<1>6. TypeOK'
  <2>1. outcome' \in [Turns -> {"idle", "running", "completed", "blocked", "failed",
                                "cancelled"}]
    BY <1>1, <1>2 DEF Inv, TypeOK
  <2>2. /\ child' \in [Turns -> {"none", "running", "exited", "closed"}]
        /\ signal' \in [Turns -> {"none", "term", "kill"}]
        /\ chunks' \in [Turns -> 0..MaxChunks]
        /\ rest' \in [Turns -> Rests]
    BY <1>4, RunnerAssumption DEF Rests, Close, Becomes, Inv, TypeOK
  <2>3. /\ failed' \subseteq Turns /\ timedOut' \subseteq Turns
        /\ guardrailBlock' \subseteq Turns /\ said' \subseteq Turns
    BY DEF Close, Inv, TypeOK
  <2> QED
    BY <1>5, <2>1, <2>2, <2>3 DEF Inv, TypeOK
<1>7. Registered'
  BY <1>2, <1>3, <1>4, <1>5, RunnerAssumption DEF Inv, TypeOK, Registered
<1>8. CancelHolds'
  BY <1>2, <1>3, <1>5 DEF Inv, TypeOK, CancelHolds
<1>9. Asked'
  BY <1>4, <1>5 DEF Inv, TypeOK, Asked
<1>10. Recorded'
  <2> SUFFICES ASSUME NEW u \in denied
               PROVE  \/ outcome'[u] \in {"cancelled", "blocked"}
                      \/ outcome'[u] = "running" /\ (u \in guardrailBlock' \/ rest'[u] = "denied")
    BY <1>5 DEF Recorded
  <2>1. CASE u = t
    <3>1. outcome[u] = "running"
      BY <1>3, <2>1
    <3>2. blocked
      BY <2>1, <3>1 DEF LastLine, Inv, Recorded
    <3> QED
      BY <1>2, <1>3, <2>1, <3>2
  <2>2. CASE u # t
    <3>1. u \in Turns /\ (u \in guardrailBlock => u \in guardrailBlock') /\ rest'[u] = rest[u]
      BY <2>2 DEF Close, Becomes, Inv, TypeOK
    <3> QED
      BY <1>3, <2>2, <3>1 DEF Inv, Recorded
  <2> QED
    BY <2>1, <2>2
<1>11. outcome' = [outcome EXCEPT ![t] = outcome'[t]]
  BY <1>1, <1>3
<1>12. outcome'[t] \in IF t \in cancelled THEN {"cancelled"}
                       ELSE {"completed", "blocked", "failed"}
  BY <1>2, <1>3
<1> QED
  BY <1>3, <1>6, <1>7, <1>8, <1>9, <1>10, <1>11, <1>12 DEF Inv

\* Inv is inductive.
LEMMA NextInv == Inv /\ [Next]_vars => Inv'
<1> SUFFICES ASSUME Inv, [Next]_vars PROVE Inv'
  OBVIOUS
<1>1. ASSUME NEW t \in Turns, Run(t) PROVE Inv'
  <2>1. /\ outcome[t] = "idle" /\ active = None /\ active' = t
        /\ outcome' = [outcome EXCEPT ![t] = "running"]
        /\ child' = [child EXCEPT ![t] = "running"]
        /\ UNCHANGED <<failed, held, signal, cancelled, timedOut, outputExceeded,
                       guardrailBlock, chunks, rest, said, denied, call, found>>
    BY <1>1 DEF Run, NoneActive, Becomes, flags, output, calls
  <2>2. TypeOK'
    BY <2>1 DEF Inv, TypeOK
  <2>3. Registered'
    BY <2>1, RunnerAssumption DEF Inv, TypeOK, Registered
  <2>4. CancelHolds' /\ Recorded'
    BY <2>1 DEF Inv, TypeOK, CancelHolds, Recorded
  <2>5. Asked'
    <3> SUFFICES ASSUME NEW c \in Cancels, call[c] = "true" PROVE child'[found[c]] = "closed"
      BY <2>1 DEF Inv, Asked
    <3>1. /\ found[c] \in cancelled /\ child[found[c]] = "closed"
      BY DEF Inv, Asked
    <3>2. found[c] # t
      BY <2>1, <3>1 DEF Inv, CancelHolds
    <3> QED
      BY <2>1, <3>1, <3>2 DEF Inv, TypeOK
  <2> QED
    BY <2>2, <2>3, <2>4, <2>5 DEF Inv
<1>2. ASSUME NEW t \in Turns, RunRefused(t) PROVE Inv'
  <2>1. /\ outcome[t] = "idle"
        /\ outcome' = [outcome EXCEPT ![t] = "failed"]
        /\ UNCHANGED <<active, child, failed, held, signal, cancelled, timedOut,
                       outputExceeded, guardrailBlock, chunks, rest, said, denied, call, found>>
    BY <1>2 DEF RunRefused, Becomes, process, flags, output, calls
  <2>2. TypeOK' /\ Asked'
    BY <2>1 DEF Inv, TypeOK, Asked
  <2>3. Registered'
    BY <2>1 DEF Inv, TypeOK, Registered
  <2>4. CancelHolds' /\ Recorded'
    BY <2>1 DEF Inv, TypeOK, CancelHolds, Recorded
  <2> QED
    BY <2>2, <2>3, <2>4 DEF Inv
<1>3. ASSUME NEW t \in Turns, ChunkBeyondLimit(t) \/ ChunkOfLine(t) \/ ChunkGoesOn(t)
      PROVE  Inv'
  BY <1>3, ChunkInv
<1>4. ASSUME NEW t \in Turns, Exit(t) PROVE Inv'
  <2>1. /\ child[t] = "running" /\ child' = [child EXCEPT ![t] = "exited"]
        /\ failed' \subseteq Turns /\ held' \subseteq Turns
        /\ UNCHANGED <<active, outcome, signal, cancelled, timedOut,
                       outputExceeded, guardrailBlock, chunks, rest, said, denied, call, found>>
    BY <1>4 DEF Exit, Becomes, flags, output, calls, Inv, TypeOK
  <2> QED
    BY <2>1 DEF Inv, TypeOK, Registered, CancelHolds, Asked, Recorded
<1>5. ASSUME NEW t \in Turns, Release(t) PROVE Inv'
  BY <1>5 DEF Release, flags, output, calls, Inv, TypeOK, Registered, CancelHolds, Asked,
     Recorded
<1>6. ASSUME NEW t \in Turns, Close(t) PROVE Inv'
  BY <1>6, CloseInv
<1>7. ASSUME NEW t \in Turns, Timeout(t) PROVE Inv'
  <2>1. /\ timedOut' \subseteq Turns
        /\ signal' \in [Turns -> {"none", "term", "kill"}]
        /\ UNCHANGED <<active, outcome, child, failed, held, cancelled,
                       outputExceeded, guardrailBlock, chunks, rest, said, denied, call, found>>
    BY <1>7 DEF Timeout, Terminate, process, output, calls, Inv, TypeOK
  <2> QED
    BY <2>1 DEF Inv, TypeOK, Registered, CancelHolds, Asked, Recorded
<1>8. ASSUME NEW t \in Turns, ForceKill(t) PROVE Inv'
  <2>1. /\ signal' \in [Turns -> {"none", "term", "kill"}]
        /\ UNCHANGED <<active, outcome, child, failed, held, cancelled, timedOut,
                       outputExceeded, guardrailBlock, chunks, rest, said, denied, call, found>>
    BY <1>8 DEF ForceKill, Becomes, process, flags, output, calls, Inv, TypeOK
  <2> QED
    BY <2>1 DEF Inv, TypeOK, Registered, CancelHolds, Asked, Recorded
<1>9. ASSUME NEW c \in Cancels, Cancel(c) PROVE Inv'
  <2>1. active \in Turns /\ outcome[active] = "running"
    BY <1>9 DEF Cancel, Inv, TypeOK, Registered
  <2>2. /\ cancelled' = cancelled \cup {active}
        /\ call' = [call EXCEPT ![c] = "waiting"]
        /\ found' = [found EXCEPT ![c] = active]
        /\ signal' \in [Turns -> {"none", "term", "kill"}]
        /\ UNCHANGED <<active, outcome, child, failed, held, timedOut,
                       outputExceeded, guardrailBlock, chunks, rest, said, denied>>
    BY <1>9 DEF Cancel, Becomes, Terminate, process, output, Inv, TypeOK
  <2> QED
    BY <2>1, <2>2 DEF Inv, TypeOK, Registered, CancelHolds, Asked, Recorded
<1>10. ASSUME NEW c \in Cancels, CancelFindsNothing(c) PROVE Inv'
  <2>1. /\ call' = [call EXCEPT ![c] = "false"]
        /\ UNCHANGED <<active, outcome, child, failed, held, signal, cancelled, timedOut,
                       outputExceeded, guardrailBlock, chunks, rest, said, denied, found>>
    BY <1>10 DEF CancelFindsNothing, Becomes, process, flags, output
  <2> QED
    BY <2>1 DEF Inv, TypeOK, Registered, CancelHolds, Asked, Recorded
<1>11. ASSUME NEW c \in Cancels, CancelReturns(c) PROVE Inv'
  <2>1. /\ call[c] = "waiting" /\ child[found[c]] = "closed"
        /\ call' = [call EXCEPT ![c] = "true"]
        /\ UNCHANGED <<active, outcome, child, failed, held, signal, cancelled, timedOut,
                       outputExceeded, guardrailBlock, chunks, rest, said, denied, found>>
    BY <1>11 DEF CancelReturns, Settled, Becomes, process, flags, output
  <2> QED
    BY <2>1 DEF Inv, TypeOK, Registered, CancelHolds, Asked, Recorded
<1>12. CASE UNCHANGED vars
  BY <1>12 DEF vars, process, flags, output, calls, Inv, TypeOK, Registered, CancelHolds,
     Asked, Recorded
<1> QED
  BY <1>1, <1>2, <1>3, <1>4, <1>5, <1>6, <1>7, <1>8, <1>9, <1>10, <1>11, <1>12 DEF Next

\* The invariant that the other theorems follow from.
THEOREM Invariance == Spec => []Inv
BY InitInv, NextInv, PTL DEF Spec

\* The variables hold what the code lets them hold.
THEOREM TypeCorrect == Spec => []TypeOK
<1>1. Inv => TypeOK
  BY DEF Inv
<1> QED
  BY <1>1, Invariance, PTL

\* Neither timeout, output limit nor exit code hides a denied action that has come with
\* its characters whole, in however many chunks (codex-runner.ts:224-245, 259-277).
THEOREM DeniedTurns == Spec => []DeniedIsBlocked
<1>1. Inv => DeniedIsBlocked
  BY DEF Inv, Recorded, DeniedIsBlocked
<1> QED
  BY <1>1, Invariance, PTL

\* A Stop that found a turn is told when it is over and cancelled
\* (codex-runner.ts:170-179).
THEOREM CancelledTurns == Spec => []CancelledIsOver
<1>1. Inv => CancelledIsOver
  BY DEF Inv, TypeOK, Registered, CancelHolds, Asked, CancelledIsOver
<1> QED
  BY <1>1, Invariance, PTL

\* CodexRunner implements what AgentService relies on (codex-runner.ts:142-308).
THEOREM Implements == Spec => Contract
<1>1. Init => Runner!Init
  BY DEF Init, Runner!Init
<1>2. Inv /\ [Next]_vars => [Runner!Next]_(Runner!vars)
  <2> SUFFICES ASSUME Inv, [Next]_vars PROVE [Runner!Next]_(Runner!vars)
    OBVIOUS
  <2>1. ASSUME NEW t \in Turns, Run(t) PROVE Runner!Start(t)
    BY <2>1, RunnerAssumption DEF Run, NoneActive, Becomes, flags, Runner!Start, Inv, Registered
  <2>2. ASSUME NEW t \in Turns, RunRefused(t) PROVE Runner!Refuse(t)
    BY <2>2 DEF RunRefused, Becomes, flags, Runner!Refuse
  <2>3. ASSUME NEW t \in Turns, Close(t) PROVE Runner!End(t)
    <3>1. UNCHANGED cancelled
      BY <2>3 DEF Close
    <3> QED
      BY <2>3, <3>1, CloseInv DEF Runner!End, Runner!Own
  <2>4. ASSUME NEW c \in Cancels, Cancel(c) PROVE active \in Turns /\ Runner!Ask(active)
    BY <2>4 DEF Cancel, Runner!Ask, Inv, TypeOK, Registered
  <2>5. ASSUME NEW t \in Turns,
               \/ ChunkBeyondLimit(t) \/ ChunkOfLine(t) \/ ChunkGoesOn(t)
               \/ Exit(t) \/ Release(t) \/ Timeout(t) \/ ForceKill(t)
        PROVE  UNCHANGED <<outcome, cancelled>>
    BY <2>5 DEF ChunkBeyondLimit, ChunkOfLine, ChunkGoesOn, Chunk, Exit, Release, Timeout,
       ForceKill, flags
  <2>6. ASSUME NEW c \in Cancels, CancelFindsNothing(c) \/ CancelReturns(c)
        PROVE  UNCHANGED <<outcome, cancelled>>
    BY <2>6 DEF CancelFindsNothing, CancelReturns, flags
  <2>7. CASE UNCHANGED vars
    BY <2>7 DEF vars, flags, Runner!vars
  <2> QED
    BY <2>1, <2>2, <2>3, <2>4, <2>5, <2>6, <2>7 DEF Next, Runner!Next, Runner!vars
<1> QED
  BY <1>1, <1>2, Invariance, PTL DEF Spec, Contract, Runner!Spec
=============================================================================
