-------------------------- MODULE JsonStore_proofs --------------------------
(***************************************************************************)
(* Proofs about JsonStore, for any set of calls, any relation of exclusion *)
(* and any number of crashes and faults.                                   *)
(*                                                                         *)
(* The invariant has six parts, each inductive relative to the ones      *)
(* before it.  TypeOK is inductive alone.  Shape says what the volatile    *)
(* state is at each stage of a write, in terms of the file.  Callers says   *)
(* that nobody waits twice or for nothing, Told relates what the callers   *)
(* know to what is in the file, Order compares the file and the queue with *)
(* the order of the calls, and Checks is about the file alone.             *)
(***************************************************************************)
EXTENDS JsonStore, SequenceTheorems, TLAPS

Shape ==
    /\ disk # Torn
    /\ mode = "down" => stage = "idle" /\ queue = <<>> /\ data = <<>>
    /\ mode = "booting" => stage # "idle" /\ queue = <<>> /\ data = Log /\ next = data
    /\ mode = "up" /\ stage # "renamed" => data = disk
    /\ mode = "up" /\ stage # "idle" => /\ queue # <<>>
                                        /\ next = Append(data, Head(queue))
                                        /\ ~Throws(Head(queue), data)
    /\ stage = "written" => tmp = next
    /\ stage = "renamed" => disk = next

Callers ==
    /\ \A i \in 1..Len(queue) : outcome[queue[i]] = "pending"
    /\ \A i, j \in 1..Len(queue) : queue[i] = queue[j] => i = j

Told ==
    /\ Range(data) \subseteq Range(Log)
    /\ \A o \in Ops : outcome[o] = "done" => o \in Range(Log)
    /\ \A o \in Ops : outcome[o] \in {"idle", "failed"} => o \notin Range(Log)
    /\ \A o \in Ops : outcome[o] = "pending" /\ o \in Range(Log) =>
           mode = "up" /\ stage = "renamed" /\ o = Head(queue)

\* The call x was made before the call y.
Before(x, y) == \E k, l \in 1..Len(calls) : k < l /\ calls[k] = x /\ calls[l] = y

Called(x) == \E k \in 1..Len(calls) : calls[k] = x

Order ==
    /\ \A i \in 1..Len(queue) : Called(queue[i])
    /\ \A i \in 1..Len(Log) : Called(Log[i])
    /\ \A i, j \in 1..Len(queue) : i < j => Before(queue[i], queue[j])
    /\ \A i \in 1..Len(Log), j \in 1..Len(queue) :
           Log[i] # queue[j] => Before(Log[i], queue[j])
    /\ \A i, j \in 1..Len(Log) : i < j => Before(Log[i], Log[j])

\* ChecksHoldAtCommit, about Log.
Checks == \A i, j \in 1..Len(Log) : i < j => Log[i] \notin Excludes[Log[j]]

IInv == TypeOK /\ Shape /\ Callers /\ Told /\ Order /\ Checks

-----------------------------------------------------------------------------
(* Sequences                                                               *)

LEMMA RangeAppend ==
    ASSUME NEW S, NEW s \in Seq(S), NEW e \in S
    PROVE  Range(Append(s, e)) = Range(s) \cup {e}
<1>1. /\ Append(s, e) \in Seq(S)
      /\ Len(Append(s, e)) = Len(s) + 1
      /\ \A i \in 1..Len(s) : Append(s, e)[i] = s[i]
      /\ Append(s, e)[Len(s) + 1] = e
    BY AppendProperties
<1>2. /\ Range(s) = {s[i] : i \in 1..Len(s)}
      /\ Range(Append(s, e)) = {Append(s, e)[i] : i \in 1..Len(s) + 1}
    BY <1>1, RangeEquality
<1>3. Len(s) \in Nat
    BY LenProperties
<1> QED
    BY <1>1, <1>2, <1>3

\* A sequence appended to is not forgotten.
LEMMA AppendExtends ==
    ASSUME NEW S, NEW s \in Seq(S), NEW e \in S
    PROVE  /\ Len(s) <= Len(Append(s, e))
           /\ SubSeq(Append(s, e), 1, Len(s)) = s
<1>1. Len(s) \in Nat /\ Append(s, e) \in Seq(S) /\ Len(Append(s, e)) = Len(s) + 1
    BY AppendProperties, LenProperties
<1>2. \A i \in 1..Len(s) : Append(s, e)[i] = s[i]
    BY AppendProperties
<1> DEFINE t == SubSeq(Append(s, e), 1, Len(s))
<1>3. t \in Seq(S) /\ Len(t) = Len(s) /\ \A i \in 1..Len(s) : t[i] = s[i]
    BY <1>1, <1>2
<1> QED
    BY <1>1, <1>3, SeqEqual

\* The head and the rest of the chain.
LEMMA HeadIsFirst ==
    ASSUME NEW S, NEW s \in Seq(S), s # <<>>
    PROVE  /\ Head(s) \in S
           /\ Head(s) = s[1]
           /\ 1 \in 1..Len(s)
           /\ Tail(s) \in Seq(S)
           /\ Len(Tail(s)) = Len(s) - 1
           /\ \A i \in 1..Len(s) - 1 : Tail(s)[i] = s[i + 1] /\ i + 1 \in 1..Len(s)
<1>1. Len(s) \in Nat /\ Len(s) # 0
    BY EmptySeq, LenProperties
<1> QED
    BY <1>1, HeadTailProperties

-----------------------------------------------------------------------------
(* Types                                                                   *)

LEMMA TypeInit == Init => TypeOK
<1> SUFFICES ASSUME Init
             PROVE  TypeOK
    OBVIOUS
<1>1. <<>> \in Seq(Ops)
    BY EmptySeq
<1>2. disk \in Seq(Ops) \cup {Absent, Torn} /\ legacy \in BOOLEAN
    BY <1>1 DEF Init
<1>3. outcome \in [Ops -> {"idle", "pending", "done", "failed", "lost"}]
    BY DEF Init
<1> QED
    BY <1>1, <1>2, <1>3 DEF Init, TypeOK, Stages

\* The call being written is at the head of the queue.
LEMMA TypeStep == TypeOK /\ Shape /\ [Next]_vars => TypeOK'
<1> SUFFICES ASSUME TypeOK, Shape, [Next]_vars
             PROVE  TypeOK'
    OBVIOUS
<1> USE DEF TypeOK, Stages
<1>0. mode = "up" /\ stage # "idle" => queue # <<>>
    BY DEF Shape
<1>1. queue # <<>> => Head(queue) \in Ops /\ Tail(queue) \in Seq(Ops)
    BY HeadIsFirst
<1>2. CASE Initialize
    BY <1>2, StoreAssumption DEF Initialize, Parsed, files, history
<1>3. CASE Apply
    BY <1>1, <1>3, AppendProperties DEF Apply, Turn, files, history
<1>4. CASE Reject
    BY <1>1, <1>4 DEF Reject, Turn, ChainGoesOn, Tell, files, history
<1>5. CASE OpenTmp
    BY <1>5 DEF OpenTmp, history
<1>6. CASE WriteTmp
    BY <1>6 DEF WriteTmp, history
<1>7. CASE Rename
    BY <1>7 DEF Rename, history
<1>8. CASE Publish
    BY <1>0, <1>1, <1>8 DEF Publish, Persisted, NewData, Tell, ChainGoesOn, files, history
<1>9. CASE Booted
    BY <1>9 DEF Booted, files, history
<1>10. CASE PersistFails
    BY <1>0, <1>1, <1>10
       DEF PersistFails, Persisting, DataOnFailure, Tell, ChainGoesOn, files
<1>11. CASE Crash
    BY <1>11 DEF Crash, Die, files
<1>12. CASE BootFails
    BY <1>12 DEF BootFails, Die, files
<1>13. ASSUME NEW o \in Ops, Mutate(o)
       PROVE  TypeOK'
    BY <1>13, AppendProperties DEF Mutate, Chained, files
<1>14. CASE UNCHANGED vars
    BY <1>14 DEF vars, files, chain, history
<1> QED
    BY <1>2, <1>3, <1>4, <1>5, <1>6, <1>7, <1>8, <1>9, <1>10, <1>11, <1>12, <1>13,
       <1>14 DEF Next, Step

-----------------------------------------------------------------------------
(* The stages of a write                                                   *)

LEMMA ShapeInit == Init => Shape
    BY StoreAssumption, EmptySeq DEF Init, Shape

\* Head and the check see the same queue and data until the write is over.
LEMMA ShapeStep == TypeOK /\ Shape /\ [Next]_vars => Shape'
<1> SUFFICES ASSUME TypeOK, Shape, [Next]_vars
             PROVE  Shape'
    OBVIOUS
<1> USE DEF Shape, Log, Throws
<1>1. data \in Seq(Ops) /\ next \in Seq(Ops) /\ stage \in Stages
    BY DEF TypeOK
<1>2. CASE Initialize
    BY <1>2, StoreAssumption DEF Initialize, Parsed, files, history
<1>3. CASE Apply
    BY <1>3 DEF Apply, Turn, files, history
<1>4. CASE Reject
    BY <1>4 DEF Reject, Turn, ChainGoesOn, files, history
<1>5. CASE OpenTmp
    BY <1>5 DEF OpenTmp, history
<1>6. CASE WriteTmp
    BY <1>6 DEF WriteTmp, history
<1>7. CASE Rename
    BY <1>1, <1>7, StoreAssumption DEF Rename, history
<1>8. CASE Publish
    BY <1>8 DEF Publish, Persisted, NewData, ChainGoesOn, files, history
<1>9. CASE Booted
    BY <1>1, <1>9, StoreAssumption DEF Booted, Persisted, files, history
<1>10. CASE PersistFails
    BY <1>10 DEF PersistFails, Persisting, DataOnFailure, ChainGoesOn, files
<1>11. CASE Crash
    BY <1>11 DEF Crash, Die, files
<1>12. CASE BootFails
    BY <1>12 DEF BootFails, Die, files
<1>13. ASSUME NEW o \in Ops, Mutate(o)
       PROVE  Shape'
  <2>1. queue \in Seq(Ops) /\ queue' = Append(queue, o)
      BY <1>13 DEF Mutate, Chained, TypeOK
  <2>2. queue' # <<>> /\ (queue # <<>> => Head(queue') = Head(queue))
      BY <2>1, HeadTailAppend, AppendProperties, EmptySeq
  <2> QED
      BY <1>13, <2>2 DEF Mutate, files
<1>14. CASE UNCHANGED vars
    BY <1>14 DEF vars, files, chain, history
<1> QED
    BY <1>2, <1>3, <1>4, <1>5, <1>6, <1>7, <1>8, <1>9, <1>10, <1>11, <1>12, <1>13,
       <1>14 DEF Next, Step

-----------------------------------------------------------------------------
(* What the callers know                                                   *)

LEMMA ToldInit == Init => Callers /\ Told
<1> SUFFICES ASSUME Init
             PROVE  Callers /\ Told
    OBVIOUS
<1>1. Len(<<>>) = 0 /\ Range(<<>>) = {}
    BY DEF Range
<1>2. Log = <<>>
    BY StoreAssumption, EmptySeq DEF Init, Log
<1> QED
    BY <1>1, <1>2 DEF Init, Callers, Told

\* A caller is answered and leaves the queue.
LEMMA Answered ==
    ASSUME TypeOK, Callers, queue # <<>>, NEW answer \in {"done", "failed"},
           Tell(answer), queue' = Tail(queue)
    PROVE  /\ Callers'
           /\ Head(queue) \in Ops
           /\ outcome[Head(queue)] = "pending"
           /\ outcome'[Head(queue)] = answer
           /\ \A o \in Ops : o # Head(queue) => outcome'[o] = outcome[o]
<1>1. queue \in Seq(Ops) /\ Len(queue) \in Nat
    BY LenProperties DEF TypeOK
<1>2. /\ Head(queue) \in Ops
      /\ Head(queue) = queue[1]
      /\ 1 \in 1..Len(queue)
      /\ Len(queue') = Len(queue) - 1
      /\ \A i \in 1..Len(queue) - 1 : queue'[i] = queue[i + 1] /\ i + 1 \in 1..Len(queue)
    BY <1>1, HeadIsFirst
<1>3. \A i \in 1..Len(queue) : queue[i] \in Ops
    BY <1>1, ElementOfSeq
<1>4. \A o \in Ops : outcome'[o] = IF o = Head(queue) THEN answer ELSE outcome[o]
    BY <1>2 DEF Tell, TypeOK
<1>5. \A i \in 1..Len(queue') : queue'[i] # Head(queue)
    BY <1>1, <1>2 DEF Callers
<1> QED
    BY <1>1, <1>2, <1>3, <1>4, <1>5 DEF Callers

\* The chain goes on holding pending calls, each once.
LEMMA CallersStep == TypeOK /\ Shape /\ Callers /\ [Next]_vars => Callers'
<1> SUFFICES ASSUME TypeOK, Shape, Callers, [Next]_vars
             PROVE  Callers'
    OBVIOUS
<1>1. mode = "up" /\ stage # "idle" => queue # <<>>
    BY DEF Shape
<1>2. CASE UNCHANGED <<queue, outcome>>
    BY <1>2 DEF Callers
<1>3. CASE Reject
    BY <1>3, Answered DEF Reject, Turn, ChainGoesOn
<1>4. CASE Publish
    BY <1>1, <1>4, Answered DEF Publish, Persisted, ChainGoesOn
<1>5. CASE PersistFails
    BY <1>1, <1>5, Answered DEF PersistFails, Persisting, ChainGoesOn
<1>6. CASE Crash \/ BootFails
  <2>1. Len(queue') = 0
      BY <1>6 DEF Crash, BootFails, Die
  <2> QED
      BY <2>1 DEF Callers
<1>7. ASSUME NEW o \in Ops, Mutate(o)
      PROVE  Callers'
  <2>1. queue \in Seq(Ops) /\ Len(queue) \in Nat /\ \A i \in 1..Len(queue) : queue[i] \in Ops
      BY LenProperties, ElementOfSeq DEF TypeOK
  <2>2. /\ Len(queue') = Len(queue) + 1
        /\ \A i \in 1..Len(queue) : queue'[i] = queue[i]
        /\ queue'[Len(queue) + 1] = o
      BY <1>7, <2>1, AppendProperties DEF Mutate, Chained
  <2>3. \A p \in Ops : outcome'[p] = IF p = o THEN "pending" ELSE outcome[p]
      BY <1>7 DEF Mutate, TypeOK
  <2>4. \A i \in 1..Len(queue) : queue[i] # o
      BY <1>7 DEF Mutate, Callers
  <2> QED
      BY <2>1, <2>2, <2>3, <2>4 DEF Callers
<1> QED
    BY <1>2, <1>3, <1>4, <1>5, <1>6, <1>7
       DEF Next, Step, Initialize, Apply, OpenTmp, WriteTmp, Rename, Booted, vars, chain

\* Only the rename changes the file, and it adds the head of the queue or nothing.
LEMMA FileStep ==
    ASSUME TypeOK, Shape, [Next]_vars
    PROVE  \/ Log' = Log
           \/ /\ Rename
              /\ mode = "up" /\ queue # <<>> /\ Head(queue) \in Ops
              /\ Log \in Seq(Ops)
              /\ ~Throws(Head(queue), Log)
              /\ Log' = Append(Log, Head(queue))
<1>1. CASE Rename
  <2>1. disk' = next /\ next \in Seq(Ops) /\ Log' = next
      BY <1>1, StoreAssumption DEF Rename, Shape, TypeOK, Log
  <2>2. CASE mode = "booting"
      BY <2>1, <2>2 DEF Shape
  <2>3. CASE mode = "up"
    <3>1. data = disk /\ queue # <<>> /\ next = Append(data, Head(queue))
          /\ ~Throws(Head(queue), data)
        BY <1>1, <2>3 DEF Rename, Shape
    <3>2. Log = data /\ data \in Seq(Ops)
        BY <3>1, StoreAssumption DEF TypeOK, Log
    <3>3. Head(queue) \in Ops
        BY <3>1, HeadIsFirst DEF TypeOK
    <3> QED
        BY <1>1, <2>1, <2>3, <3>1, <3>2, <3>3
  <2> QED
      BY <1>1, <2>2, <2>3 DEF Rename, Shape, TypeOK
<1>2. CASE UNCHANGED disk
    BY <1>2 DEF Log
<1> QED
    BY <1>1, <1>2
       DEF Next, Step, Initialize, Apply, Reject, OpenTmp, WriteTmp, Publish, Booted,
           PersistFails, Crash, BootFails, Die, Mutate, vars, files

\* While a call waits for its turn or its write, it is not in the file.
LEMMA ToldStep == TypeOK /\ Shape /\ Callers /\ Told /\ [Next]_vars => Told'
<1> SUFFICES ASSUME TypeOK, Shape, Callers, Told, [Next]_vars
             PROVE  Told'
    OBVIOUS
<1> USE DEF Told
<1>1. mode = "up" /\ stage # "idle" => queue # <<>>
    BY DEF Shape
<1>2. CASE Rename
  <2>1. UNCHANGED <<mode, data, queue, outcome>> /\ stage = "written" /\ stage' = "renamed"
      BY <1>2 DEF Rename
  <2>2. CASE Log' = Log
      BY <2>1, <2>2
  <2>3. CASE /\ mode = "up" /\ queue # <<>> /\ Head(queue) \in Ops
             /\ Log \in Seq(Ops)
             /\ Log' = Append(Log, Head(queue))
    <3>1. Range(Log') = Range(Log) \cup {Head(queue)}
        BY <2>3, RangeAppend
    <3>2. outcome[Head(queue)] = "pending"
        BY <2>3, HeadIsFirst DEF Callers, TypeOK
    <3> QED
        BY <2>1, <2>3, <3>1, <3>2
  <2> QED
      BY <2>2, <2>3, FileStep
<1>3. CASE Initialize
  <2>1. Log' = Log /\ data' = Log /\ UNCHANGED outcome /\ mode = "down"
      BY <1>3 DEF Initialize, Parsed, Log, files
  <2> QED
      BY <2>1
<1>4. CASE Apply \/ OpenTmp \/ WriteTmp
  <2>1. /\ UNCHANGED <<mode, data, queue, outcome>> /\ stage # "renamed"
        /\ Log' = Log
      BY <1>4 DEF Apply, Turn, OpenTmp, WriteTmp, files, Log
  <2> QED
      BY <2>1
<1>5. CASE Reject \/ PersistFails
  <2>1. /\ queue # <<>> /\ queue' = Tail(queue) /\ Tell("failed") /\ stage # "renamed"
        /\ UNCHANGED data /\ Log' = Log
      BY <1>1, <1>5
         DEF Reject, Turn, PersistFails, Persisting, DataOnFailure, ChainGoesOn, files, Log
  <2> QED
      BY <2>1, Answered
<1>6. CASE Publish
  <2>1. /\ queue # <<>> /\ queue' = Tail(queue) /\ Tell("done")
        /\ Log' = Log /\ Log = next /\ data' = next
        /\ next = Append(data, Head(queue)) /\ data \in Seq(Ops)
      BY <1>1, <1>6, StoreAssumption
         DEF Publish, Persisted, NewData, ChainGoesOn, files, Log, Shape, TypeOK
  <2>2. Range(Log) = Range(data) \cup {Head(queue)}
      BY <2>1, HeadIsFirst, RangeAppend DEF TypeOK
  <2> QED
      BY <2>1, <2>2, Answered
<1>7. CASE Booted
  <2>1. mode = "booting" /\ UNCHANGED <<data, outcome>> /\ Log' = Log
      BY <1>7 DEF Booted, files, Log
  <2> QED
      BY <2>1
<1>8. CASE Crash \/ BootFails
  <2>1. /\ Log' = Log
        /\ Range(data') = {}
        /\ \A o \in Ops : outcome'[o] = IF outcome[o] = "pending" THEN "lost" ELSE outcome[o]
      BY <1>8 DEF Crash, BootFails, Die, files, Log, Range
  <2> QED
      BY <2>1
<1>9. ASSUME NEW o \in Ops, Mutate(o)
      PROVE  Told'
  <2>1. /\ Log' = Log /\ UNCHANGED <<mode, data, stage>>
        /\ outcome[o] = "idle"
        /\ \A p \in Ops : outcome'[p] = IF p = o THEN "pending" ELSE outcome[p]
      BY <1>9 DEF Mutate, TypeOK, files, Log
  <2>2. stage = "renamed" /\ mode = "up" => Head(queue') = Head(queue)
      BY <1>1, <1>9, HeadTailAppend DEF Mutate, Chained, TypeOK
  <2> QED
      BY <2>1, <2>2
<1>10. CASE UNCHANGED vars
  <2>1. Log' = Log /\ UNCHANGED <<mode, data, queue, stage, outcome>>
      BY <1>10 DEF vars, files, chain, Log
  <2> QED
      BY <2>1
<1> QED
    BY <1>2, <1>3, <1>4, <1>5, <1>6, <1>7, <1>8, <1>9, <1>10 DEF Next, Step

-----------------------------------------------------------------------------
(* The order of the commits, and what they were checked against            *)

LEMMA LogIsSequence == TypeOK /\ Shape => Log \in Seq(Ops) /\ InFile = Log
    BY EmptySeq, StoreAssumption DEF TypeOK, Shape, Log, InFile

\* No mutation lands beside one that excludes it.
LEMMA ChecksStep == TypeOK /\ Shape /\ Checks /\ [Next]_vars => Checks'
<1> SUFFICES ASSUME TypeOK, Shape, Checks, [Next]_vars
             PROVE  Checks'
    OBVIOUS
<1>1. CASE Log' = Log
    BY <1>1 DEF Checks
<1>2. CASE /\ Head(queue) \in Ops
           /\ Log \in Seq(Ops)
           /\ ~Throws(Head(queue), Log)
           /\ Log' = Append(Log, Head(queue))
  <2>1. /\ Len(Log) \in Nat
        /\ Len(Log') = Len(Log) + 1
        /\ \A i \in 1..Len(Log) : Log'[i] = Log[i]
        /\ Log'[Len(Log) + 1] = Head(queue)
      BY <1>2, AppendProperties, LenProperties
  <2>2. \A i \in 1..Len(Log) : Log[i] \notin Excludes[Head(queue)]
      BY <1>2, RangeEquality DEF Throws
  <2> QED
      BY <2>1, <2>2 DEF Checks
<1> QED
    BY <1>1, <1>2, FileStep

\* What follows from the calls being appended to, or left as they are.
LEMMA CallsGrow ==
    ASSUME TypeOK, [Next]_vars
    PROVE  /\ \A x : Called(x) => Called(x)'
           /\ \A x, y : Before(x, y) => Before(x, y)'
           /\ \A o \in Ops : Mutate(o) =>
                 /\ Called(o)'
                 /\ \A x : Called(x) => Before(x, o)'
<1>1. CASE UNCHANGED calls /\ \A o \in Ops : ~Mutate(o)
    BY <1>1 DEF Called, Before
<1>2. ASSUME NEW o \in Ops, calls' = Append(calls, o), \A p \in Ops : Mutate(p) => p = o
      PROVE  /\ \A x : Called(x) => Called(x)'
             /\ \A x, y : Before(x, y) => Before(x, y)'
             /\ \A p \in Ops : Mutate(p) =>
                   /\ Called(p)'
                   /\ \A x : Called(x) => Before(x, p)'
  <2>1. calls \in Seq(Ops)
      BY DEF TypeOK
  <2>2. /\ Len(calls) \in Nat
        /\ Len(calls') = Len(calls) + 1
        /\ \A i \in 1..Len(calls) : calls'[i] = calls[i]
        /\ calls'[Len(calls) + 1] = o
      BY <1>2, <2>1, AppendProperties, LenProperties
  <2> QED
      BY <1>2, <2>2 DEF Called, Before
<1>3. \A o, p \in Ops : Mutate(o) /\ Mutate(p) => o = p
  <2> SUFFICES ASSUME NEW o \in Ops, NEW p \in Ops, Mutate(o), Mutate(p)
               PROVE  o = p
      OBVIOUS
  <2>1. outcome[o] = "idle" /\ outcome'[o] = "pending" /\ (o # p => outcome'[o] = outcome[o])
      BY DEF Mutate, TypeOK
  <2> QED
      BY <2>1
<1>4. ASSUME NEW o \in Ops, Mutate(o)
      PROVE  calls' = Append(calls, o)
    BY <1>4 DEF Mutate
<1>5. (\A o \in Ops : ~Mutate(o)) => UNCHANGED calls
    BY DEF Next, Step, Initialize, Apply, Reject, OpenTmp, WriteTmp, Rename, Publish,
           Booted, PersistFails, Crash, BootFails, Die, vars, history
<1> QED
    BY <1>1, <1>2, <1>3, <1>4, <1>5

\* The queue is in the order of the calls, and behind the file.
LEMMA OrderStep == TypeOK /\ Shape /\ Callers /\ Told /\ Order /\ [Next]_vars => Order'
<1> SUFFICES ASSUME TypeOK, Shape, Callers, Told, Order, [Next]_vars
             PROVE  Order'
    OBVIOUS
<1>1. queue \in Seq(Ops) /\ Len(queue) \in Nat /\ Len(Log) \in Nat
    BY LogIsSequence, LenProperties DEF TypeOK
<1>2. /\ \A x : Called(x) => Called(x)'
      /\ \A x, y : Before(x, y) => Before(x, y)'
    BY CallsGrow
<1>3. CASE UNCHANGED <<queue, Log>>
    BY <1>2, <1>3 DEF Order
<1>4. CASE Log' = Log /\ queue # <<>> /\ queue' = Tail(queue)
  <2>1. /\ Len(queue') = Len(queue) - 1
        /\ \A i \in 1..Len(queue) - 1 : queue'[i] = queue[i + 1] /\ i + 1 \in 1..Len(queue)
      BY <1>1, <1>4, HeadIsFirst
  <2> QED
      BY <1>1, <1>2, <1>4, <2>1 DEF Order
<1>5. CASE Log' = Log /\ queue' = <<>>
  <2>1. Len(queue') = 0
      BY <1>5
  <2> QED
      BY <1>2, <1>5, <2>1 DEF Order
<1>6. ASSUME NEW o \in Ops, Mutate(o)
      PROVE  Order'
  <2>1. Log' = Log /\ queue' = Append(queue, o)
      BY <1>6 DEF Mutate, Chained, files, Log
  <2>2. /\ Len(queue') = Len(queue) + 1
        /\ \A i \in 1..Len(queue) : queue'[i] = queue[i]
        /\ queue'[Len(queue) + 1] = o
      BY <1>1, <2>1, AppendProperties
  <2>3. Called(o)' /\ \A x : Called(x) => Before(x, o)'
      BY <1>6, CallsGrow
  <2> QED
      BY <1>1, <1>2, <2>1, <2>2, <2>3 DEF Order
<1>7. CASE /\ Rename
           /\ mode = "up" /\ queue # <<>> /\ Head(queue) \in Ops
           /\ Log \in Seq(Ops)
           /\ Log' = Append(Log, Head(queue))
  <2>1. /\ Len(Log') = Len(Log) + 1
        /\ \A i \in 1..Len(Log) : Log'[i] = Log[i]
        /\ Log'[Len(Log) + 1] = Head(queue)
      BY <1>7, AppendProperties
  <2>2. queue' = queue /\ stage # "renamed"
      BY <1>7 DEF Rename
  <2>3. Head(queue) = queue[1] /\ 1 \in 1..Len(queue)
      BY <1>1, <1>7, HeadIsFirst
  <2>4. outcome[Head(queue)] = "pending"
      BY <2>3 DEF Callers
  <2>5. \A i \in 1..Len(Log) : Log[i] # queue[1]
      BY <1>7, <2>2, <2>3, <2>4, RangeEquality DEF Told
  <2> QED
      BY <1>1, <1>2, <2>1, <2>2, <2>3, <2>5, SMTT(60) DEF Order
<1>8. Log' = Log =>
        \/ UNCHANGED queue
        \/ queue # <<>> /\ queue' = Tail(queue)
        \/ queue' = <<>>
        \/ \E o \in Ops : Mutate(o)
  <2>1. mode = "up" /\ stage # "idle" => queue # <<>>
      BY DEF Shape
  <2> QED
      BY <2>1 DEF Next, Step, Initialize, Apply, Reject, Turn, OpenTmp, WriteTmp, Rename,
                  Publish, Persisted, Persisting, Booted, PersistFails, Crash, BootFails,
                  Die, ChainGoesOn, vars, chain
<1> QED
    BY <1>3, <1>4, <1>5, <1>6, <1>7, <1>8, FileStep

-----------------------------------------------------------------------------
(* Theorems                                                                *)

LEMMA InvInit == Init => IInv
<1> SUFFICES ASSUME Init
             PROVE  IInv
    OBVIOUS
<1>1. TypeOK /\ Shape /\ Callers /\ Told
    BY TypeInit, ShapeInit, ToldInit
<1>2. Log = <<>> /\ queue = <<>>
    BY StoreAssumption, EmptySeq DEF Init, Log
<1>3. Len(<<>>) = 0
    OBVIOUS
<1>4. Order /\ Checks
    BY <1>2, <1>3 DEF Order, Checks
<1> QED
    BY <1>1, <1>4 DEF IInv

\* IInv is inductive.
LEMMA InvStep == IInv /\ [Next]_vars => IInv'
    BY TypeStep, ShapeStep, CallersStep, ToldStep, OrderStep, ChecksStep DEF IInv

\* The inductive invariant holds in every reachable state.
THEOREM Invariance == Spec => []IInv
    BY InvInit, InvStep, PTL DEF Spec

\* The state of the store is always well-formed (store.ts:62-64): in particular
\* this.data and the file it can read are databases, never a missing or torn one.
THEOREM TypeCorrect == Spec => []TypeOK
<1>1. IInv => TypeOK
    BY DEF IInv
<1> QED
    BY <1>1, Invariance, PTL

\* A caller of mutate() that was told "done" finds its mutation in the file
\* whatever fails or crashes afterwards (store.ts:94-102).
THEOREM Durability == Spec => []AcknowledgedIsDurable
<1>1. IInv => AcknowledgedIsDurable
    BY LogIsSequence DEF IInv, Told, AcknowledgedIsDurable
<1> QED
    BY <1>1, Invariance, PTL

\* A caller that was told "failed" is neither in memory nor in the file
\* (store.ts:97-101).
THEOREM NoTrace == Spec => []FailedLeavesNoTrace
<1>1. IInv => FailedLeavesNoTrace
    BY LogIsSequence DEF IInv, Told, FailedLeavesNoTrace
<1> QED
    BY <1>1, Invariance, PTL

\* snapshot() shows the contents of the file, but for the window between the
\* rename and the publication (store.ts:98-99, 112).
THEOREM Snapshots == Spec => []MemoryIsDurable
<1>1. IInv => MemoryIsDurable
    BY DEF IInv, Shape, MemoryIsDurable
<1> QED
    BY <1>1, Invariance, PTL

\* What a mutation checked on its clone holds when its write lands, so that of
\* two Sends to an Agent one is refused (store.ts:94-102).
THEOREM ChecksHold == Spec => []ChecksHoldAtCommit
<1>1. IInv => ChecksHoldAtCommit
  <2> SUFFICES ASSUME IInv
               PROVE  ChecksHoldAtCommit
      OBVIOUS
  <2>1. Log \in Seq(Ops) /\ InFile = Log
      BY LogIsSequence DEF IInv
  <2>2. DOMAIN Log = 1..Len(Log)
      BY <2>1, LenProperties
  <2> QED
      BY <2>1, <2>2 DEF IInv, Checks, ChecksHoldAtCommit
<1> QED
    BY <1>1, Invariance, PTL

\* Mutations are in the file in the order mutate() was called (store.ts:92-103).
THEOREM CallOrder == Spec => []CommitsInCallOrder
<1>1. IInv => CommitsInCallOrder
  <2> SUFFICES ASSUME IInv
               PROVE  CommitsInCallOrder
      OBVIOUS
  <2>1. Log \in Seq(Ops) /\ InFile = Log /\ calls \in Seq(Ops)
      BY LogIsSequence DEF IInv, TypeOK
  <2>2. DOMAIN Log = 1..Len(Log) /\ DOMAIN calls = 1..Len(calls)
      BY <2>1, LenProperties
  <2>3. \A i, j \in 1..Len(Log) : i < j => Before(Log[i], Log[j])
      BY DEF IInv, Order
  <2>4. \A i, j \in 1..Len(Log) : i < j =>
           \E k, l \in 1..Len(calls) : k < l /\ calls[k] = Log[i] /\ calls[l] = Log[j]
      BY <2>3, Zenon DEF Before
  <2> SUFFICES ASSUME NEW i \in DOMAIN InFile, NEW j \in DOMAIN InFile, i < j
               PROVE  \E k, l \in DOMAIN calls :
                          k < l /\ calls[k] = InFile[i] /\ calls[l] = InFile[j]
      BY DEF CommitsInCallOrder
  <2>5. i \in 1..Len(Log) /\ j \in 1..Len(Log)
      BY <2>1, <2>2
  <2>6. PICK k \in 1..Len(calls), l \in 1..Len(calls) :
            k < l /\ calls[k] = Log[i] /\ calls[l] = Log[j]
      BY <2>4, <2>5
  <2> QED
      BY <2>1, <2>2, <2>6
<1> QED
    BY <1>1, Invariance, PTL

\* The file is only ever replaced by one that has everything it had
\* (store.ts:105-112).
THEOREM FileGrows == Spec => FileOnlyGrows
<1>1. IInv /\ [Next]_vars =>
        [disk # Absent => /\ disk' \notin {Absent, Torn}
                          /\ Len(disk) <= Len(disk')
                          /\ SubSeq(disk', 1, Len(disk)) = disk]_disk
  <2> SUFFICES ASSUME IInv, [Next]_vars, disk # Absent, disk' # disk
               PROVE  /\ disk' \notin {Absent, Torn}
                      /\ Len(disk) <= Len(disk')
                      /\ SubSeq(disk', 1, Len(disk)) = disk
      OBVIOUS
  <2>1. TypeOK /\ Shape /\ disk \in Seq(Ops) /\ Log = disk
      BY DEF IInv, Shape, TypeOK, Log
  <2>2. Rename
      BY DEF Next, Step, Initialize, Apply, Reject, OpenTmp, WriteTmp, Publish, Booted,
             PersistFails, Crash, BootFails, Die, Mutate, vars, files
  <2>3. disk' = next /\ next \in Seq(Ops) /\ Log' = disk'
      BY <2>1, <2>2, StoreAssumption DEF Rename, Shape, TypeOK, Log
  <2>4. disk' = Append(disk, Head(queue)) /\ Head(queue) \in Ops
      BY <2>1, <2>3, FileStep
  <2> QED
      BY <2>1, <2>3, <2>4, AppendExtends, StoreAssumption
<1> QED
    BY <1>1, Invariance, PTL DEF Spec, FileOnlyGrows

\* The store implements AtomicStore: the rename is the commit, and publication,
\* refusal and failure are what the caller sees of it (store.ts:92-113).
LEMMA StepImplements == IInv /\ [Next]_vars => [Atomic!Next]_(Atomic!vars)
<1> SUFFICES ASSUME IInv, [Next]_vars
             PROVE  [Atomic!Next]_(Atomic!vars)
    OBVIOUS
<1> USE DEF Atomic!Next, Atomic!vars
<1>1. TypeOK /\ Shape /\ Callers /\ Told /\ Log \in Seq(Ops)
    BY LogIsSequence DEF IInv
<1>2. mode = "up" /\ stage # "idle" => queue # <<>>
    BY <1>1 DEF Shape
<1>3. \A o : Atomic!Committed(o) <=> o \in Range(Log)
    BY DEF Atomic!Committed, Range
<1>4. queue # <<>> => Head(queue) \in Ops /\ outcome[Head(queue)] = "pending"
    BY <1>1, HeadIsFirst DEF Callers, TypeOK
<1>5. CASE Rename
  <2>1. UNCHANGED <<queue, outcome>> /\ stage = "written"
      BY <1>5 DEF Rename
  <2>2. CASE Log' = Log
      BY <2>1, <2>2
  <2>3. CASE queue # <<>> /\ Log' = Append(Log, Head(queue))
    <3>1. Head(queue) \notin Range(Log)
        BY <1>1, <1>4, <2>1, <2>3 DEF Told
    <3>2. Atomic!Commit(Head(queue))
        BY <1>3, <1>4, <2>1, <2>3, <3>1 DEF Atomic!Commit
    <3> QED
        BY <1>4, <2>3, <3>2
  <2> QED
      BY <1>1, <2>2, <2>3, FileStep
<1>6. CASE Reject \/ PersistFails
  <2>1. queue # <<>> /\ Tell("failed") /\ stage # "renamed" /\ Log' = Log
      BY <1>2, <1>6
         DEF Reject, Turn, PersistFails, Persisting, files, Log
  <2>2. Head(queue) \notin Range(Log)
      BY <1>1, <1>4, <2>1 DEF Told
  <2>3. Atomic!Refuse(Head(queue))
      BY <1>3, <1>4, <2>1, <2>2 DEF Atomic!Refuse, Tell
  <2> QED
      BY <1>4, <2>1, <2>3
<1>7. CASE Publish
  <2>1. /\ queue # <<>> /\ Tell("done") /\ Log' = Log
        /\ Log = Append(data, Head(queue)) /\ data \in Seq(Ops)
      BY <1>1, <1>2, <1>7, StoreAssumption DEF Publish, Persisted, files, Log, Shape, TypeOK
  <2>2. Head(queue) \in Range(Log)
      BY <1>4, <2>1, RangeAppend
  <2>3. Atomic!Acknowledge(Head(queue))
      BY <1>3, <1>4, <2>1, <2>2 DEF Atomic!Acknowledge, Tell
  <2> QED
      BY <1>4, <2>1, <2>3
<1>8. CASE Crash \/ BootFails
  <2>1. Atomic!Crash
      BY <1>8 DEF Crash, BootFails, Die, files, Log, Atomic!Crash
  <2> QED
      BY <2>1
<1>9. ASSUME NEW o \in Ops, Mutate(o)
      PROVE  Atomic!Next
  <2>1. Atomic!Request(o)
      BY <1>9 DEF Mutate, files, Log, Atomic!Request
  <2> QED
      BY <2>1
<1>10. CASE UNCHANGED <<Log, outcome>>
    BY <1>10
<1> QED
    BY <1>5, <1>6, <1>7, <1>8, <1>9, <1>10
       DEF Next, Step, Initialize, Apply, OpenTmp, WriteTmp, Booted, vars, chain, files, Log

\* Every write of the file that is renamed is one commit of AtomicStore, and what a
\* caller is told is its acknowledgement (persist and mutate, store.ts).
THEOREM Implements == Spec => Abstract
<1>1. Init => Atomic!Init
    BY StoreAssumption, EmptySeq DEF Init, Log, Atomic!Init
<1> QED
    BY <1>1, StepImplements, Invariance, PTL DEF Spec, Abstract, Atomic!Spec
=============================================================================
