----------------------------- MODULE JsonStore -----------------------------
(***************************************************************************)
(* The JSON database (store.ts): an in-memory copy, one file that is       *)
(* replaced by writing FILE.tmp and renaming it, and a promise chain that  *)
(* runs the mutations one after the other.                                 *)
(*                                                                         *)
(* The contents of the database are the sequence of the mutations applied  *)
(* to it.  That is enough to tell apart a lost, a repeated, a reordered    *)
(* and a half-written update, which is all this component can get wrong.   *)
(* A mutation is a function that may throw: Excludes[o] are the mutations  *)
(* whose presence makes o throw, as a Send throws when another Send has    *)
(* made the Agent busy.                                                    *)
(*                                                                         *)
(* One action is what the event loop runs between two completions of file  *)
(* I/O, so a crash can fall between any two of them.                       *)
(***************************************************************************)
EXTENDS Sequences, Naturals, Functions

CONSTANTS
    Ops,               \* the calls of mutate()
    Excludes,          \* [Ops -> SUBSET Ops]
    Absent,            \* a file that does not exist
    Torn,              \* a file whose writing was not finished
    MaxCrashes,        \* bound: times the process dies
    MaxFaults          \* bound: times mkdir, writeFile or rename fails

ASSUME StoreAssumption ==
    /\ Excludes \in [Ops -> SUBSET Ops]
    /\ Absent \notin Seq(Ops)
    /\ Torn \notin Seq(Ops)
    /\ Absent # Torn
    /\ MaxCrashes \in Nat
    /\ MaxFaults \in Nat

VARIABLES
    mode,              \* "down", "booting" (in initialize), "up"
    data,              \* this.data
    disk,              \* the database file
    legacy,            \* the file has an older schema version
    tmp,               \* the .tmp file
    queue,             \* calls of mutate() not settled, the running one first
    stage,             \* how far the running mutation or boot has got
    next,              \* the clone the running mutation works on
    outcome,           \* what the caller of each mutation knows
    calls,             \* history: the calls in the order they were made
    crashes, faults    \* history: counters for the bounds

files == <<disk, legacy, tmp>>
chain == <<queue, stage, next, outcome>>
history == <<calls, crashes, faults>>
vars == <<mode, data, files, chain, history>>

Stages == {"idle", "cloned", "writing", "written", "renamed"}

TypeOK ==
    /\ mode \in {"down", "booting", "up"}
    /\ data \in Seq(Ops)
    /\ disk \in Seq(Ops) \cup {Absent, Torn}
    /\ legacy \in BOOLEAN
    /\ tmp \in Seq(Ops) \cup {Absent, Torn}
    /\ queue \in Seq(Ops)
    /\ stage \in Stages
    /\ next \in Seq(Ops)
    /\ outcome \in [Ops -> {"idle", "pending", "done", "failed", "lost"}]
    /\ calls \in Seq(Ops)
    /\ crashes \in Nat
    /\ faults \in Nat

\* The contents of the file, where it can be read.
InFile == IF disk \in {Absent, Torn} THEN <<>> ELSE disk

-----------------------------------------------------------------------------
\* A first start finds no file, or one an earlier version left behind.
Init ==
    /\ mode = "down"
    /\ data = <<>>
    /\ \/ disk = Absent /\ legacy = FALSE
       \/ disk = <<>> /\ legacy = TRUE
    /\ tmp = Absent
    /\ queue = <<>>
    /\ stage = "idle"
    /\ next = <<>>
    /\ outcome = [o \in Ops |-> "idle"]
    /\ calls = <<>>
    /\ crashes = 0
    /\ faults = 0

\* Bug: a missing file is not told from an empty one.
ParsedBlindly == disk

Parsed == IF disk = Absent THEN <<>> ELSE disk

\* initialize() reads the file.  A current one is loaded as it is; a missing
\* one starts the empty database and an older one is migrated, and either is
\* persisted before initialize() returns.  A torn file throws: no action.
Initialize ==
    /\ mode = "down"
    /\ disk # Torn
    /\ data' = Parsed
    /\ next' = Parsed
    /\ IF disk = Absent \/ legacy
         THEN mode' = "booting" /\ stage' = "cloned"
         ELSE mode' = "up" /\ stage' = "idle"
    /\ UNCHANGED <<files, queue, outcome, history>>

\* Bug: a new call is chained right behind the running one.
ChainedFirst(o) == IF queue = <<>> THEN <<o>> ELSE <<Head(queue), o>> \o Tail(queue)

Chained(o) == Append(queue, o)

\* mutate(o) chains the mutation behind the ones already called.
Mutate(o) ==
    /\ mode = "up"
    /\ outcome[o] = "idle"
    /\ outcome' = [outcome EXCEPT ![o] = "pending"]
    /\ queue' = Chained(o)
    /\ calls' = Append(calls, o)
    /\ UNCHANGED <<mode, data, files, stage, next, crashes, faults>>

\* Bug: what the mutation checks was checked when it was called.
NeverThrows(o, contents) == FALSE

Throws(o, contents) == Excludes[o] \cap Range(contents) # {}

\* The chain reaches a call.
Turn == mode = "up" /\ stage = "idle" /\ queue # <<>>

\* Clone the published data and run the mutation on the clone.
Apply ==
    /\ Turn
    /\ ~Throws(Head(queue), data)
    /\ next' = Append(data, Head(queue))
    /\ stage' = "cloned"
    /\ UNCHANGED <<mode, data, files, queue, outcome, history>>

\* Bug: nobody starts the next call.
ChainStops == stage' = "stopped" /\ queue' = Tail(queue)

ChainGoesOn == stage' = "idle" /\ queue' = Tail(queue)

Tell(answer) == outcome' = [outcome EXCEPT ![Head(queue)] = answer]

\* The mutation throws: its caller is told and the chain goes on.
Reject ==
    /\ Turn
    /\ Throws(Head(queue), data)
    /\ Tell("failed")
    /\ ChainGoesOn
    /\ UNCHANGED <<mode, data, files, next, history>>

-----------------------------------------------------------------------------
\* persist(): mkdir and open FILE.tmp for writing, which truncates it.
OpenTmp ==
    /\ stage = "cloned"
    /\ tmp' = Torn
    /\ stage' = "writing"
    /\ UNCHANGED <<mode, data, disk, legacy, queue, next, outcome, history>>

WriteTmp ==
    /\ stage = "writing"
    /\ tmp' = next
    /\ stage' = "written"
    /\ UNCHANGED <<mode, data, disk, legacy, queue, next, outcome, history>>

\* rename(FILE.tmp, FILE): the mutation is durable, nobody knows it yet.
Rename ==
    /\ stage = "written"
    /\ disk' = tmp
    /\ legacy' = FALSE
    /\ tmp' = Absent
    /\ stage' = "renamed"
    /\ UNCHANGED <<mode, data, queue, next, outcome, history>>

\* Bugs: the promise of persist() resolves before the rename has happened, or
\* rejects after it.
PersistedEarly == stage \in {"written", "renamed"}
PersistingLate == stage \in {"cloned", "writing", "written", "renamed"}

Persisted == stage = "renamed"
Persisting == stage \in {"cloned", "writing", "written"}
NewData == next

\* this.data = next and the caller's promise resolves.
Publish ==
    /\ mode = "up"
    /\ Persisted
    /\ data' = NewData
    /\ Tell("done")
    /\ ChainGoesOn
    /\ UNCHANGED <<mode, files, next, history>>

Booted ==
    /\ mode = "booting"
    /\ Persisted
    /\ mode' = "up"
    /\ stage' = "idle"
    /\ UNCHANGED <<data, files, queue, next, outcome, history>>

\* Bug: this.data is assigned before the file is written.
NewDataOnFailure == next

DataOnFailure == data

\* mkdir, writeFile or rename throws while a mutation is being persisted:
\* nothing is published, its caller is told and the chain goes on.
PersistFails ==
    /\ mode = "up"
    /\ Persisting
    /\ faults < MaxFaults
    /\ faults' = faults + 1
    /\ data' = DataOnFailure
    /\ Tell("failed")
    /\ ChainGoesOn
    /\ UNCHANGED <<mode, files, next, calls, crashes>>

-----------------------------------------------------------------------------
\* The process dies: every promise of the chain is gone, the files stay.
Die ==
    /\ mode' = "down"
    /\ data' = <<>>
    /\ next' = <<>>
    /\ queue' = <<>>
    /\ stage' = "idle"
    /\ outcome' = [o \in Ops |-> IF outcome[o] = "pending" THEN "lost"
                                                           ELSE outcome[o]]
    /\ UNCHANGED <<files, calls>>

Crash ==
    /\ mode # "down"
    /\ crashes < MaxCrashes
    /\ crashes' = crashes + 1
    /\ Die
    /\ UNCHANGED faults

\* persist() fails inside initialize(): the start-up fails and the process
\* exits.
BootFails ==
    /\ mode = "booting"
    /\ Persisting
    /\ faults < MaxFaults
    /\ faults' = faults + 1
    /\ Die
    /\ UNCHANGED crashes

\* What the event loop does when the disk answers.
Step ==
    \/ Initialize \/ Apply \/ Reject
    \/ OpenTmp \/ WriteTmp \/ Rename
    \/ Publish \/ Booted

Next == Step \/ PersistFails \/ Crash \/ BootFails \/ \E o \in Ops : Mutate(o)

Spec == Init /\ [][Next]_vars

\* Node runs a ready callback and file I/O completes; an operator restarts a
\* dead server.
FairSpec == Spec /\ WF_vars(Step)

-----------------------------------------------------------------------------
(* Properties                                                              *)

\* A caller that was told its mutation is done never loses it, whatever
\* crashes follow: mutate() resolves only after the rename (store.ts:94-102).
AcknowledgedIsDurable ==
    \A o \in Ops : outcome[o] = "done" => o \in Range(InFile)

\* A caller that was told its mutation failed never sees it, in memory or on
\* disk, although a failed rename leaves it whole in FILE.tmp
\* (store.test.ts:65).
FailedLeavesNoTrace ==
    \A o \in Ops : outcome[o] = "failed" =>
        o \notin Range(data) \cup Range(InFile)

\* What snapshot() shows is what a crash at this instant would bring back,
\* except in the window between the rename and the publication.
MemoryIsDurable ==
    mode = "up" /\ stage # "renamed" => data = disk

\* A check a mutation made on the data it was given still holds when its
\* write lands: of two mutations that exclude each other, at most one is in
\* the file.  It is what makes "one Send admitted" true (agent-service.ts:250).
ChecksHoldAtCommit ==
    \A i, j \in DOMAIN InFile : i < j => InFile[i] \notin Excludes[InFile[j]]

\* Mutations commit in the order of the calls, across failures and restarts.
CommitsInCallOrder ==
    \A i, j \in DOMAIN InFile : i < j =>
        \E k, l \in DOMAIN calls :
            k < l /\ calls[k] = InFile[i] /\ calls[l] = InFile[j]

\* The file is never replaced by one that forgets a commit: "atomically
\* replaces one JSON file" (docs/ARCHITECTURE.md:53).
FileOnlyGrows ==
    [][disk # Absent => /\ disk' \notin {Absent, Torn}
                        /\ Len(disk) <= Len(disk')
                        /\ SubSeq(disk', 1, Len(disk)) = disk]_disk

\* Every call of mutate() is answered unless the process dies: a mutation
\* that throws or cannot be persisted does not block the ones behind it
\* (store.test.ts:65, "queue recovered").
EveryCallSettles ==
    \A o \in Ops : outcome[o] = "pending" ~> outcome[o] # "pending"

\* The specification of a store that commits atomically.
Log == IF disk = Absent THEN <<>> ELSE disk
Atomic == INSTANCE AtomicStore WITH log <- Log
Abstract == Atomic!Spec
=============================================================================
