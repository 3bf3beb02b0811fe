------------------------- MODULE AuditTrail_proofs -------------------------
(***************************************************************************)
(* Proofs about the audit log of ControlPlane: that it misses at most two  *)
(* entries per crash or refused write and has no other (AuditTrail), that  *)
(* its pages show each entry once (PagesShowEachOnce), that the whole      *)
(* state keeps its types (TypeOK), and which decisions are silent although *)
(* nothing fails (SilentIsRefused) - for any requests, crashes and faults  *)
(* of the disk, and any page size.                                         *)
(***************************************************************************)
EXTENDS ControlPlane_proofs, AuditLog_proofs

-----------------------------------------------------------------------------
(* The invariants                                                          *)

\* A request is decided once, and its mutation is committed once.
Deciding ==
    \A r \in Requests :
        /\ pc[r] = "idle" => decided[r] = None
        /\ r \in committed => pc[r] \in {"done", "lost"}
        /\ pc[r] \in {"files", "queued"} => actor[r] \in Users

\* How many entries the last line may still cost.
Owed == IF lastLine = "unended" THEN 2 ELSE IF lastLine = "torn" THEN 1 ELSE 0

Counted ==
    /\ crashes \in 0..MaxCrashes /\ faults \in 0..MaxFaults
    /\ IsFiniteSet(Due \ Recorded)
    /\ Cardinality(Due \ Recorded) + Owed <= 2 * (crashes + faults)

Trail == AuditTypeOK(Entry) /\ OwnIds(log) /\ Recorded \subseteq Due /\ Counted

-----------------------------------------------------------------------------
(* What a step does to the log and to what is due in it                    *)

\* The log grows by an entry, loses its last one, or stays.
Grown(e) == log' = Append(log, e) /\ lastLine' \in {"ended", "unended"}
Shrunk == /\ log # <<>> /\ log' = Front(log)
          /\ lastLine = "unended" /\ lastLine' \in {"ended", "torn"}
Same == log' = log

\* Nothing is due and nothing is written.
Still == UNCHANGED <<auditVars, crashes, faults>> /\ Due' = Due

\* An entry becomes due, and is written or not.
Audited(e) ==
    /\ e \in Entry /\ e.id \notin Due /\ Due' = Due \cup {e.id}
    /\ crashes' = crashes
    /\ \/ Record(e) /\ faults' = faults
       \/ faults < MaxFaults /\ RecordFails(e) /\ faults' = faults + 1

\* The process dies, and what its last mutation owes the log is lost.
Died ==
    /\ crashes < MaxCrashes /\ crashes' = crashes + 1 /\ faults' = faults
    /\ \/ UNCHANGED auditVars
       \/ PartlyWritten
    /\ \/ Due' = Due
       \/ \E x : Due' = Due \cup {x}

\* The removal of the last entry, as an operation on a sequence.
LEMMA FrontOf ==
    ASSUME NEW E, NEW s \in Seq(E), s # <<>>
    PROVE  /\ Front(s) \in Seq(E) /\ Len(s) \in Nat \ {0} /\ Len(Front(s)) = Len(s) - 1
           /\ \A i \in 1..(Len(s) - 1) : Front(s)[i] = s[i]
<1>1. Len(s) \in Nat \ {0} /\ \A i \in 1..Len(s) : s[i] \in E
  BY LenProperties, EmptySeq, ElementOfSeq
<1>2. \A i \in 1..(Len(s) - 1) : s[i] \in E
  BY <1>1
<1>3. 1 \in Int /\ Len(s) - 1 \in Int
  BY <1>1
<1> DEFINE f == SubSeq(s, 1, Len(s) - 1)
<1>4. /\ f \in Seq(E) /\ Len(f) = IF 1 <= Len(s) - 1 THEN (Len(s) - 1) - 1 + 1 ELSE 0
      /\ \A i \in 1..((Len(s) - 1) - 1 + 1) : f[i] = s[1 + i - 1]
  <2> HIDE DEF f
  <2> QED
    BY <1>2, <1>3, SubSeqProperties DEF f
<1> HIDE DEF f
<1>5. (Len(s) - 1) - 1 + 1 = Len(s) - 1 /\ \A i \in 1..(Len(s) - 1) : 1 + i - 1 = i
  BY <1>1
<1>6. Len(f) = Len(s) - 1
  <2>1. Len(f) = IF 1 <= Len(s) - 1 THEN (Len(s) - 1) - 1 + 1 ELSE 0
    BY <1>4
  <2>2. CASE Len(s) = 1
    BY <2>1, <2>2
  <2>3. CASE Len(s) # 1
    <3>1. \A n \in Nat \ {0} : n # 1 => 1 <= n - 1
      OBVIOUS
    <3>2. 1 <= Len(s) - 1
      BY <1>1, <2>3, <3>1
    <3> QED
      BY <1>5, <2>1, <3>2
  <2> QED
    BY <2>2, <2>3
<1> QED
  BY <1>1, <1>4, <1>5, <1>6 DEF Front, f

\* What the three kinds of steps do to the log.
LEMMA LogMoves ==
    ASSUME AuditTypeOK(Entry), NEW e, Still \/ Audited(e) \/ Died
    PROVE  /\ Same \/ Shrunk \/ (Audited(e) /\ Grown(e))
           /\ lastLine' \in {"ended", "torn", "unended"}
           /\ lastLine' = "unended" => (Same /\ lastLine = "unended")
                                       \/ (Audited(e) /\ Grown(e))
BY DEF AuditTypeOK, Still, Audited, Died, Record, RecordFails, PartlyWritten, Spoilt,
       Same, Shrunk, Grown, auditVars

\* The log keeps its type, and its entries their own ids.
LEMMA LogOK ==
    ASSUME Trail, NEW e, Still \/ Audited(e) \/ Died
    PROVE  /\ AuditTypeOK(Entry)' /\ OwnIds(log)' /\ (Recorded \subseteq Due)'
           /\ Same => Recorded' = Recorded
           /\ Audited(e) /\ Grown(e) => Recorded' = Recorded \cup {e.id}
           /\ Shrunk => Recorded' = Recorded \ {log[Len(log)].id}
<1>1. log \in Seq(Entry) /\ OwnIds(log) /\ Recorded \subseteq Due /\ Due \subseteq Due'
  BY DEF Trail, AuditTypeOK, Still, Audited, Died
<1>2. Recorded = {log[i].id : i \in 1..Len(log)}
  BY <1>1, LenProperties DEF Recorded
<1>3. CASE Same
  <2>1. Recorded' = Recorded
    BY <1>3 DEF Same, Recorded
  <2>2. ~Shrunk \/ Recorded \ {log[Len(log)].id} = Recorded'
    <3>1. Shrunk => Len(log') = Len(log) - 1 /\ Len(log) \in Nat \ {0}
      BY <1>1, FrontOf DEF Shrunk
    <3> QED
      BY <1>3, <3>1 DEF Same
  <2>3. ~(Audited(e) /\ Grown(e))
    <3>1. Audited(e) /\ Grown(e) => Len(log') = Len(log) + 1 /\ Len(log) \in Nat
      BY <1>1, AppendProperties, LenProperties DEF Grown, Audited
    <3> QED
      BY <1>3, <3>1 DEF Same
  <2>4. AuditTypeOK(Entry)'
    BY <1>1, <1>3, LogMoves, <2>3 DEF Trail, AuditTypeOK, Same
  <2> QED
    BY <1>1, <1>3, <2>1, <2>2, <2>3, <2>4 DEF Same, OwnIds
<1>4. CASE Audited(e) /\ Grown(e)
  <2>1. e \in Entry /\ e.id \notin Due /\ Due' = Due \cup {e.id} /\ log' = Append(log, e)
    BY <1>4 DEF Audited, Grown
  <2>2. /\ log' \in Seq(Entry) /\ log' # <<>> /\ Len(log') = Len(log) + 1
        /\ \A i \in 1..Len(log) : log'[i] = log[i]
        /\ log'[Len(log) + 1] = e /\ Len(log) \in Nat
    BY <1>1, <2>1, AppendProperties, LenProperties
  <2>3. Recorded' = {log'[i].id : i \in 1..Len(log')}
    BY <2>2, LenProperties DEF Recorded
  <2>4. \A i \in 1..Len(log') : i \in 1..Len(log) \/ i = Len(log) + 1
    BY <2>2
  <2>5. \A i \in 1..Len(log) : i \in 1..Len(log') /\ log[i].id \in Due
    BY <1>1, <1>2, <2>2
  <2>6. Recorded' = Recorded \cup {e.id}
    <3>1. Len(log) + 1 \in 1..Len(log')
      BY <2>2
    <3> QED
      BY <1>2, <2>2, <2>3, <2>4, <2>5, <3>1
  <2>7. OwnIds(log)'
    BY <1>1, <2>1, <2>2, <2>4, <2>5 DEF OwnIds
  <2>8. AuditTypeOK(Entry)'
    BY <2>2, LogMoves DEF Trail, AuditTypeOK
  <2>9. ~Same /\ ~Shrunk
    <3>1. Shrunk => Len(log') = Len(log) - 1
      BY <1>1, FrontOf DEF Shrunk
    <3> QED
      BY <2>2, <3>1 DEF Same
  <2> QED
    BY <1>1, <2>1, <2>6, <2>7, <2>8, <2>9
<1>5. CASE Shrunk
  <2>1. /\ log' \in Seq(Entry) /\ Len(log) \in Nat \ {0} /\ Len(log') = Len(log) - 1
        /\ \A i \in 1..Len(log') : log'[i] = log[i]
    BY <1>1, <1>5, FrontOf DEF Shrunk
  <2>2. Recorded' = {log'[i].id : i \in 1..Len(log')}
    BY <2>1, LenProperties DEF Recorded
  <2>3. \A i \in 1..Len(log') : i \in 1..Len(log) /\ i # Len(log)
    BY <2>1
  <2>4. \A i \in 1..Len(log) : i \in 1..Len(log') \/ i = Len(log)
    BY <2>1
  <2>5. Len(log) \in 1..Len(log)
    BY <2>1
  <2>6. Recorded' = Recorded \ {log[Len(log)].id}
    <3>1. \A i \in 1..Len(log') : log'[i].id # log[Len(log)].id
      BY <1>1, <2>1, <2>3, <2>5 DEF OwnIds
    <3> QED
      BY <1>2, <2>1, <2>2, <2>3, <2>4, <3>1, SMTT(60)
  <2>7. OwnIds(log)'
    BY <1>1, <2>1, <2>3 DEF OwnIds
  <2>8. ~Same /\ ~(Audited(e) /\ Grown(e))
    <3>1. e \in Entry \/ ~Audited(e)
      BY DEF Audited
    <3>2. Same => Len(log') = Len(log)
      BY DEF Same
    <3>3. lastLine' \in {"ended", "torn"}
      BY <1>5 DEF Shrunk
    <3>4. Grown(e) /\ Audited(e) => Len(log') = Len(log) + 1
      BY <1>1, <3>1, AppendProperties DEF Grown
    <3> QED
      BY <2>1, <3>2, <3>4
  <2>9. AuditTypeOK(Entry)'
    BY <1>5, <2>1 DEF AuditTypeOK, Shrunk
  <2> QED
    BY <1>1, <2>6, <2>7, <2>8, <2>9
<1> QED
  BY <1>3, <1>4, <1>5, LogMoves DEF Trail

-----------------------------------------------------------------------------
(* Which entries become due                                                *)

\* The decision on a request, the first there is.
LEMMA DueByDecision ==
    ASSUME Types, NEW r \in Requests, decided[r] = None, NEW x \in {"allow", "deny"},
           decided' = [decided EXCEPT ![r] = x], committed' = committed
    PROVE  /\ <<r, "decision">> \notin Due
           /\ Due' = IF x = "allow" /\ HandlerAudits(Ask[r].op) THEN Due
                     ELSE Due \cup {<<r, "decision">>}
<1> DEFINE A(d) == {q \in Requests : \/ d[q] = "deny"
                                     \/ d[q] = "allow" /\ ~HandlerAudits(Ask[q].op)}
           B == {<<q, "effect">> : q \in {q \in committed : AuditsEffect(q)}}
<1>1. /\ Due = {<<q, "decision">> : q \in A(decided)} \cup B
      /\ Due' = {<<q, "decision">> : q \in A(decided')} \cup B
  BY DEF Due, AuditsEffect
<1>2. r \notin A(decided)
  BY ControlPlaneAssumption
<1>3. \A q \in Requests : decided'[q] = IF q = r THEN x ELSE decided[q]
  BY DEF Types
<1>4. A(decided') = IF x = "allow" /\ HandlerAudits(Ask[r].op) THEN A(decided)
                    ELSE A(decided) \cup {r}
  BY <1>2, <1>3
<1>5. <<r, "decision">> \notin B
  OBVIOUS
<1> HIDE DEF A, B
<1> QED
  BY <1>1, <1>2, <1>4, <1>5

\* The commit of a mutation, which there is one of per request.
LEMMA DueByCommit ==
    ASSUME NEW h, h \notin committed,
           committed' = committed \cup {h}, decided' = decided
    PROVE  /\ <<h, "effect">> \notin Due
           /\ Due' = IF AuditsEffect(h) THEN Due \cup {<<h, "effect">>} ELSE Due
<1> DEFINE A == {<<q, "decision">> : q \in {q \in Requests :
                     \/ decided[q] = "deny"
                     \/ decided[q] = "allow" /\ ~HandlerAudits(Ask[q].op)}}
           B(c) == {<<q, "effect">> : q \in {q \in c : AuditsEffect(q)}}
<1>1. Due = A \cup B(committed) /\ Due' = A \cup B(committed')
  BY DEF Due, AuditsEffect
<1>2. B(committed') = IF AuditsEffect(h) THEN B(committed) \cup {<<h, "effect">>}
                      ELSE B(committed)
  OBVIOUS
<1>3. <<h, "effect">> \notin A \cup B(committed)
  OBVIOUS
<1> HIDE DEF A, B
<1> QED
  BY <1>1, <1>2, <1>3

-----------------------------------------------------------------------------
(* The requests                                                            *)

\* An entry of a request for an Agent has the type of an entry.
LEMMA EntryTyped ==
    ASSUME NEW r \in Requests, Ask[r].op # "audit", NEW u \in Users,
           NEW stage \in {"decision", "effect"}
    PROVE  [id |-> <<r, stage>>, actor |-> u, target |-> Ask[r].agent] \in Entry
<1>1. Ask[r].agent \in Agents
  BY ControlPlaneAssumption DEF AskIsTyped
<1>2. <<r, stage>> \in EntryIds
  BY DEF EntryIds
<1> QED
  BY <1>1, <1>2 DEF Entry

\* The decision at the boundary is the first that becomes due of a request.
LEMMA EnforceAudits ==
    ASSUME Inv, Deciding, NEW r \in Requests, Enforce(r)
    PROVE  (\E e : Still \/ Audited(e)) /\ Deciding'
<1> USE ControlPlaneAssumption
<1>1. /\ pc[r] = "idle" /\ decided[r] = None
      /\ Ask[r].op \in {"view", "viewRuns", "send", "guardrail", "delete", "listGrants",
                        "grant", "revoke"}
      /\ UNCHANGED <<committed, crashes>>
  BY DEF Enforce, Arrives, Action, Deciding, fixed
<1>2. PICK u \in Users, busy \in BOOLEAN :
        LET ok == HasScope(db, u, Ask[r].agent, Action[Ask[r].op]) IN
        /\ actor' = [actor EXCEPT ![r] = u]
        /\ decided' = [decided EXCEPT ![r] = IF ok THEN "allow" ELSE "deny"]
        /\ IF ok /\ HandlerAudits(Ask[r].op) THEN UNCHANGED <<auditVars, faults>>
           ELSE Audit(r, u, "decision")
        /\ Goes(r, IF ok THEN Handler(r, busy) ELSE "refused")
  BY DEF Enforce
<1> DEFINE ok == HasScope(db, u, Ask[r].agent, Action[Ask[r].op])
           x == IF ok THEN "allow" ELSE "deny"
           next == IF ok THEN Handler(r, busy) ELSE "refused"
           e == [id |-> <<r, "decision">>, actor |-> u, target |-> Ask[r].agent]
<1>3. \E y : Still \/ Audited(y)
  <2>1. x \in {"allow", "deny"} /\ (ok <=> x = "allow")
    OBVIOUS
  <2>2. decided' = [decided EXCEPT ![r] = x]
    BY <1>2
  <2>3. e \in Entry /\ e.id = <<r, "decision">>
    BY <1>1, EntryTyped
  <2>4. IF ok /\ HandlerAudits(Ask[r].op) THEN UNCHANGED <<auditVars, faults>>
        ELSE \/ Record(e) /\ UNCHANGED faults
             \/ faults < MaxFaults /\ RecordFails(e) /\ faults' = faults + 1
    BY <1>2 DEF Audit
  <2> HIDE DEF x, ok, e
  <2>5. /\ <<r, "decision">> \notin Due
        /\ Due' = IF x = "allow" /\ HandlerAudits(Ask[r].op) THEN Due
                  ELSE Due \cup {<<r, "decision">>}
    BY <1>1, <2>1, <2>2, DueByDecision DEF Inv
  <2>6. CASE ok /\ HandlerAudits(Ask[r].op)
    BY <1>1, <2>1, <2>4, <2>5, <2>6 DEF Still
  <2>7. CASE ~(ok /\ HandlerAudits(Ask[r].op))
    BY <1>1, <2>1, <2>3, <2>4, <2>5, <2>7 DEF Audited
  <2> QED
    BY <2>6, <2>7
<1>4. Deciding'
  <2>1. next \in {"done", "files", "queued", "refused"} /\ pc' = [pc EXCEPT ![r] = next]
    BY <1>1, <1>2 DEF Goes, Handler
  <2>2. r \notin committed
    BY <1>1 DEF Deciding
  <2> HIDE DEF next
  <2>3. \A q \in Requests : /\ pc'[q] = IF q = r THEN next ELSE pc[q]
                            /\ q # r => decided'[q] = decided[q]
                            /\ actor'[q] = IF q = r THEN u ELSE actor[q]
    BY <1>2, <2>1 DEF Inv, Types
  <2> QED
    BY <1>1, <2>1, <2>2, <2>3 DEF Deciding
<1> QED
  BY <1>3, <1>4

\* The other actions of requests leave the log alone.
LEMMA OthersStill ==
    ASSUME Inv, Deciding, NEW r \in Requests,
           Unidentified(r) \/ Create(r) \/ FilesDone(r) \/ AuditPage(r)
    PROVE  Still /\ Deciding'
<1> USE ControlPlaneAssumption
<1>1. UNCHANGED <<committed, decided, log, lastLine, crashes, faults>>
  BY DEF Unidentified, Create, FilesDone, AuditPage, auditVars, fixed
<1>2. Still
  BY <1>1 DEF Still, Due, auditVars
<1>3. PICK next \in Stages \ {"idle"} :
        /\ pc' = [pc EXCEPT ![r] = next]
        /\ pc[r] \in {"idle", "files", "paging"}
        /\ next \in {"files", "queued"} => actor'[r] \in Users
        /\ \A q \in Requests : q # r => actor'[q] = actor[q]
  <2>1. CASE Unidentified(r)
    BY <2>1 DEF Unidentified, Arrives, Stages
  <2>2. CASE Create(r)
    BY <2>2 DEF Create, Arrives, Goes, Stages, Inv, Types
  <2>3. CASE FilesDone(r)
    BY <2>3 DEF FilesDone, Goes, Stages, Deciding
  <2>4. CASE AuditPage(r)
    <3>1. PICK next \in {"done", "paging", "refused"} : pc' = [pc EXCEPT ![r] = next]
      BY <2>4 DEF AuditPage, ReadPage
    <3> QED
      BY <2>4, <3>1 DEF AuditPage, Stages
  <2> QED
    BY <2>1, <2>2, <2>3, <2>4
<1>4. \A q \in Requests : pc'[q] = IF q = r THEN next ELSE pc[q]
  BY <1>3 DEF Inv, Types
<1>5. Deciding'
  BY <1>1, <1>3, <1>4 DEF Deciding
<1> QED
  BY <1>2, <1>5

\* A commit records its mutation, unless the mutation has no entry or throws.
LEMMA CommitAudits ==
    ASSUME Inv, Deciding, NEW h \in Requests \cup Callbacks, Commit(h)
    PROVE  (\E e : Still \/ Audited(e)) /\ Deciding'
<1> USE ControlPlaneAssumption
<1>1. /\ queue # <<>> /\ h = Head(queue)
      /\ UNCHANGED <<decided, actor, crashes>>
      /\ IF AuditsEffect(h) THEN Audit(h, actor[h], "effect")
         ELSE UNCHANGED <<auditVars, faults>>
  BY DEF Commit, AtHead, fixed
<1>2. h \in Requests => /\ pc[h] = "queued" /\ Ask[h].op \in MutOps /\ h \notin Callbacks
                        /\ h \notin committed /\ actor[h] \in Users
  BY <1>1, HeadWaits DEF Deciding
<1>3. CASE h \in Callbacks
  <2>1. h \notin Requests /\ UNCHANGED <<pc, committed>> /\ ~AuditsEffect(h)
    BY <1>2, <1>3 DEF Commit, AuditsEffect
  <2>2. Still
    BY <1>1, <2>1 DEF Still, Due, AuditsEffect
  <2>3. Deciding'
    BY <1>1, <2>1 DEF Deciding
  <2> QED
    BY <2>2, <2>3
<1>4. CASE h \in Requests
  <2>1. pc' = [pc EXCEPT ![h] = "done"] /\ committed' = committed \cup {h}
    BY <1>2, <1>4 DEF Commit
  <2> DEFINE e == [id |-> <<h, "effect">>, actor |-> actor[h], target |-> Ask[h].agent]
  <2>2. e \in Entry /\ e.id = <<h, "effect">>
    BY <1>2, <1>4, EntryTyped DEF MutOps
  <2>3. AuditsEffect(h) => \/ Record(e) /\ UNCHANGED faults
                           \/ faults < MaxFaults /\ RecordFails(e) /\ faults' = faults + 1
    BY <1>1 DEF Audit
  <2> HIDE DEF e
  <2>4. /\ <<h, "effect">> \notin Due
        /\ Due' = IF AuditsEffect(h) THEN Due \cup {<<h, "effect">>} ELSE Due
    BY <1>1, <1>2, <1>4, <2>1, DueByCommit
  <2>5. \E y : Still \/ Audited(y)
    <3>1. CASE AuditsEffect(h)
      BY <1>1, <2>2, <2>3, <2>4, <3>1 DEF Audited
    <3>2. CASE ~AuditsEffect(h)
      BY <1>1, <2>4, <3>2 DEF Still
    <3> QED
      BY <3>1, <3>2
  <2>6. Deciding'
    <3>1. \A q \in Requests : pc'[q] = IF q = h THEN "done" ELSE pc[q]
      BY <1>4, <2>1 DEF Inv, Types
    <3> QED
      BY <1>1, <2>1, <3>1 DEF Deciding
  <2> QED
    BY <2>5, <2>6
<1> QED
  BY <1>3, <1>4

\* A mutation that throws, or cannot be stored, records nothing.
LEMMA RefuseStill ==
    ASSUME Inv, Deciding, NEW h \in Requests \cup Callbacks, Refuse(h)
    PROVE  Still /\ Deciding'
<1>1. /\ queue # <<>> /\ h = Head(queue)
      /\ UNCHANGED <<committed, decided, actor, log, lastLine, crashes, faults>>
      /\ UNCHANGED pc \/ (h \in Requests /\ pc' = [pc EXCEPT ![h] = "refused"])
  BY DEF Refuse, AtHead, auditVars, fixed
<1>2. Still
  BY <1>1 DEF Still, Due, auditVars
<1>3. h \in Requests => h \notin committed
  BY <1>1, HeadWaits DEF Deciding
<1>4. \A q \in Requests : pc'[q] = pc[q] \/ (q = h /\ pc'[q] = "refused")
  BY <1>1 DEF Inv, Types
<1>5. Deciding'
  BY <1>1, <1>3, <1>4 DEF Deciding
<1> QED
  BY <1>2, <1>5

\* A restart is a death of the log, with at most one entry that was not tried.
LEMMA RestartDies ==
    ASSUME Inv, Deciding, Restart
    PROVE  Died /\ Deciding'
<1>1. /\ crashes < MaxCrashes /\ crashes' = crashes + 1 /\ faults' = faults
      /\ UNCHANGED <<actor, decided>>
      /\ pc' = [r \in Requests |-> IF pc[r] \in {"files", "queued"} THEN "lost" ELSE pc[r]]
  BY DEF Restart
<1>2. PICK durable \in BOOLEAN :
        /\ durable => queue # <<>>
        /\ committed' = IF durable /\ Head(queue) \in Requests
                        THEN committed \cup {Head(queue)} ELSE committed
        /\ UNCHANGED auditVars \/ PartlyWritten
  BY DEF Restart, LogDies
<1>3. CASE durable /\ Head(queue) \in Requests
  <2>1. /\ pc[Head(queue)] = "queued" /\ Head(queue) \notin committed
        /\ committed' = committed \cup {Head(queue)}
    BY <1>2, <1>3, HeadWaits DEF Deciding
  <2>2. Due' = IF AuditsEffect(Head(queue)) THEN Due \cup {<<Head(queue), "effect">>} ELSE Due
    BY <1>1, <2>1, DueByCommit
  <2>3. Deciding'
    BY <1>1, <2>1 DEF Deciding
  <2>4. Died
    BY <1>1, <1>2, <2>2 DEF Died
  <2> QED
    BY <2>3, <2>4
<1>4. CASE ~(durable /\ Head(queue) \in Requests)
  <2>1. committed' = committed
    BY <1>2, <1>4
  <2>2. Due' = Due
    BY <1>1, <2>1 DEF Due, AuditsEffect
  <2>3. Deciding'
    BY <1>1, <2>1 DEF Deciding
  <2>4. Died
    BY <1>1, <1>2, <2>2 DEF Died
  <2> QED
    BY <2>3, <2>4
<1> QED
  BY <1>3, <1>4

\* Every step is of one of the three kinds.
LEMMA LogEffects ==
    ASSUME Inv, Deciding, [Next]_vars
    PROVE  (\E e : Still \/ Audited(e) \/ Died) /\ Deciding'
<1>1. ASSUME NEW r \in Requests, Enforce(r)
      PROVE  (\E e : Still \/ Audited(e) \/ Died) /\ Deciding'
  BY <1>1, EnforceAudits
<1>2. ASSUME NEW r \in Requests, Unidentified(r) \/ Create(r) \/ FilesDone(r) \/ AuditPage(r)
      PROVE  Still /\ Deciding'
  BY <1>2, OthersStill
<1>3. ASSUME NEW h \in Requests \cup Callbacks, Commit(h)
      PROVE  (\E e : Still \/ Audited(e) \/ Died) /\ Deciding'
  BY <1>3, CommitAudits
<1>4. ASSUME NEW h \in Requests \cup Callbacks, Refuse(h)
      PROVE  Still /\ Deciding'
  BY <1>4, RefuseStill
<1>5. CASE Restart
  BY <1>5, RestartDies
<1>6. CASE SignIn \/ Tick \/ UNCHANGED vars \/ \E c \in Callbacks : Verified(c)
  <2>1. UNCHANGED <<pc, actor, committed, decided, log, lastLine, crashes, faults>>
    BY <1>6 DEF SignIn, Tick, Verified, vars, requestVars, auditVars, fixed
  <2>2. Still
    BY <2>1 DEF Still, Due, auditVars
  <2>3. Deciding'
    BY <2>1 DEF Deciding
  <2> QED
    BY <2>2, <2>3
<1> QED
  BY <1>1, <1>2, <1>3, <1>4, <1>5, <1>6 DEF Next

-----------------------------------------------------------------------------
(* The count                                                               *)

\* A set with at most one more element.
LEMMA OneMore ==
    ASSUME NEW M, IsFiniteSet(M), NEW a, NEW N, N \subseteq M \cup {a}
    PROVE  /\ IsFiniteSet(N) /\ Cardinality(N) \in Nat /\ Cardinality(M) \in Nat
           /\ Cardinality(N) <= Cardinality(M) + 1
<1>1. /\ IsFiniteSet(M \cup {a})
      /\ Cardinality(M \cup {a}) = IF a \in M THEN Cardinality(M) ELSE Cardinality(M) + 1
  BY FS_AddElement
<1>2. IsFiniteSet(N) /\ Cardinality(N) <= Cardinality(M \cup {a})
  BY <1>1, FS_Subset
<1> QED
  BY <1>1, <1>2, FS_CardinalityType

\* A set with at most two more elements.
LEMMA TwoMore ==
    ASSUME NEW M, IsFiniteSet(M), NEW a, NEW b, NEW N, N \subseteq M \cup {a, b}
    PROVE  /\ IsFiniteSet(N) /\ Cardinality(N) \in Nat /\ Cardinality(M) \in Nat
           /\ Cardinality(N) <= Cardinality(M) + 2
<1> DEFINE K == M \cup {a}
<1>1. /\ IsFiniteSet(K) /\ Cardinality(K) \in Nat /\ Cardinality(M) \in Nat
      /\ Cardinality(K) <= Cardinality(M) + 1
  BY OneMore
<1>2. N \subseteq K \cup {b}
  OBVIOUS
<1> HIDE DEF K
<1>3. /\ IsFiniteSet(N) /\ Cardinality(N) \in Nat
      /\ Cardinality(N) <= Cardinality(K) + 1
  BY <1>1, <1>2, OneMore
<1> QED
  BY <1>1, <1>3

\* A fault or crash pays for what it costs now and for what it may cost later.
LEMMA CountOK ==
    ASSUME Trail, NEW e, Still \/ Audited(e) \/ Died
    PROVE  Counted'
<1> DEFINE M == Due \ Recorded
           N == Due' \ Recorded'
           m == Cardinality(M)
           n == Cardinality(N)
           last == log[Len(log)].id
<1> USE ControlPlaneAssumption
<1>1. /\ IsFiniteSet(M) /\ m \in Nat /\ m + Owed <= 2 * (crashes + faults)
      /\ crashes \in 0..MaxCrashes /\ faults \in 0..MaxFaults
      /\ lastLine \in {"ended", "torn", "unended"}
  BY FS_CardinalityType DEF Trail, Counted, AuditTypeOK
<1>2. /\ Same => Recorded' = Recorded
      /\ Audited(e) /\ Grown(e) => Recorded' = Recorded \cup {e.id}
      /\ Shrunk => Recorded' = Recorded \ {last}
  BY LogOK
<1>3. PICK x : Due' = Due \/ Due' = Due \cup {x}
  BY DEF Still, Audited, Died
<1>4. Same => N \subseteq M \cup {x}
  BY <1>2, <1>3
<1>5. Shrunk => N \subseteq M \cup {x, last}
  BY <1>2, <1>3
<1>6. Audited(e) /\ Grown(e) => N \subseteq M
  BY <1>2 DEF Audited
<1> HIDE DEF M, N, last
<1>7. /\ Same => IsFiniteSet(N) /\ n \in Nat /\ n <= m + 1
      /\ Shrunk => IsFiniteSet(N) /\ n \in Nat /\ n <= m + 2
      /\ Audited(e) /\ Grown(e) => IsFiniteSet(N) /\ n \in Nat /\ n <= m
  BY <1>1, <1>4, <1>5, <1>6, OneMore, TwoMore, FS_Subset, FS_CardinalityType
<1>8. MaxCrashes \in Nat /\ MaxFaults \in Nat
  OBVIOUS
<1> HIDE DEF m, n
<1>9. CASE Still
  <2>1. N = M /\ Owed' = Owed /\ crashes' = crashes /\ faults' = faults
    BY <1>9 DEF Still, Owed, auditVars, M, N, Recorded
  <2> QED
    BY <1>1, <2>1 DEF Counted, M, N, m
<1>10. CASE Audited(e) /\ Record(e) /\ faults' = faults
  <2>1. crashes' = crashes /\ Owed' = 0
    BY <1>10 DEF Audited, Record, Owed
  <2>2. IsFiniteSet(N) /\ n \in Nat /\ n <= m + Owed
    <3>1. CASE lastLine = "ended"
      BY <1>1, <1>7, <1>10, <3>1 DEF Record, Grown, Owed
    <3>2. CASE lastLine = "torn"
      BY <1>1, <1>7, <1>10, <3>2 DEF Record, Spoilt, Same, Owed
    <3>3. CASE lastLine = "unended"
      <4>1. Shrunk
        BY <1>10, <3>3 DEF Record, Spoilt, Shrunk, Trail, AuditTypeOK
      <4> QED
        BY <1>1, <1>7, <3>3, <4>1 DEF Owed
    <3> QED
      BY <1>1, <3>1, <3>2, <3>3
  <2>3. n + Owed' <= 2 * (crashes' + faults')
    <3>1. Owed \in Nat
      BY DEF Owed
    <3> QED
      BY <1>1, <1>10, <2>1, <2>2, <3>1
  <2> QED
    BY <1>1, <1>10, <2>1, <2>2, <2>3 DEF Counted, N, n
<1>11. CASE (Audited(e) /\ faults < MaxFaults /\ RecordFails(e) /\ faults' = faults + 1) \/ Died
  <2>1. /\ crashes' \in 0..MaxCrashes /\ faults' \in 0..MaxFaults
        /\ 2 * (crashes' + faults') = 2 * (crashes + faults) + 2
    BY <1>1, <1>8, <1>11 DEF Audited, Died
  <2>2. IsFiniteSet(N) /\ n \in Nat /\ n + Owed' <= (m + Owed) + 2
    <3>1. CASE UNCHANGED auditVars
      BY <1>1, <1>7, <3>1 DEF auditVars, Same, Owed
    <3>2. CASE PartlyWritten /\ lastLine # "unended"
      BY <1>1, <1>7, <3>2 DEF PartlyWritten, Spoilt, Same, Owed
    <3>3. CASE PartlyWritten /\ lastLine = "unended"
      <4>1. Shrunk /\ lastLine' = "torn"
        BY <3>3 DEF PartlyWritten, Spoilt, Shrunk, Trail, AuditTypeOK
      <4> QED
        BY <1>1, <1>7, <3>3, <4>1 DEF Owed
    <3>4. CASE Audited(e) /\ lastLine = "ended" /\ log' = Append(log, e) /\ lastLine' = "unended"
      BY <1>1, <1>7, <3>4 DEF Grown, Owed
    <3> QED
      BY <1>11, <3>1, <3>2, <3>3, <3>4 DEF RecordFails, Died
  <2>3. n + Owed' <= 2 * (crashes' + faults')
    <3>1. Owed \in Nat /\ Owed' \in Nat
      BY DEF Owed
    <3>2. crashes + faults \in Nat
      BY <1>1, <1>8
    <3> DEFINE b == 2 * (crashes + faults)
               w == Owed
               v == Owed'
    <3>3. b \in Nat
      <4>1. \A k \in Nat : 2 * k \in Nat
        OBVIOUS
      <4> QED
        BY <3>2, <4>1
    <3>4. w \in Nat /\ v \in Nat /\ m + w <= b /\ n + v <= (m + w) + 2
      BY <1>1, <2>2, <3>1
    <3>5. 2 * (crashes' + faults') = b + 2
      BY <2>1
    <3> HIDE DEF b, w, v
    <3>6. n + v <= b + 2
      BY <1>1, <2>2, <3>3, <3>4
    <3> QED
      BY <3>5, <3>6 DEF v
  <2> QED
    BY <2>1, <2>2, <2>3 DEF Counted, N, n
<1> QED
  BY <1>9, <1>10, <1>11 DEF Audited

-----------------------------------------------------------------------------
(* The readers                                                             *)

\* What a user reads: the filter of a request once it is identified.
Scope(r, u) ==
    [target |-> Ask[r].agent,
     actor |-> IF Ask[r].agent = Unset /\ Ask[r].by \notin Admins THEN u ELSE Unset]

(* The snapshot of a reader are the entries among the first k of the log    *)
(* that he may read, newest first, and he was shown the first of them.      *)
Shows(r, u, k) ==
    LET old == Newest(log, Scope(r, u), k) IN
    /\ Len(snapshot[r]) = Len(old)
    /\ \A i \in 1..Len(old) : snapshot[r][i] = old[i].id
    /\ Len(seen[r]) <= Len(old)
    /\ \A i \in 1..Len(seen[r]) : seen[r][i] = old[i].id
    /\ pc[r] = "done" /\ Ask[r].op = "audit" => Len(seen[r]) = Len(old)

Reading(r) ==
    /\ seen[r] \in Seq(EntryIds) /\ snapshot[r] \in Seq(EntryIds)
    /\ seen[r] = <<>> => snapshot[r] = <<>>
    /\ Range(snapshot[r]) \subseteq Due
    /\ seen[r] # <<>> /\ Range(snapshot[r]) \subseteq Recorded =>
          \E u \in Users, k \in 0..Len(log) : db.users[u] = Ask[r].by /\ Shows(r, u, k)

Readers ==
    /\ DOMAIN seen = Requests /\ seen = [r \in Requests |-> seen[r]]
    /\ DOMAIN snapshot = Requests /\ snapshot = [r \in Requests |-> snapshot[r]]
    /\ \A r \in Requests : Reading(r)

\* Users stay who they are.
LEMMA UsersStay ==
    ASSUME Inv, [Next]_vars, NEW u \in Users, Known(db, u)
    PROVE  db'.users[u] = db.users[u]
<1>1. db' = db \/ (queue # <<>> /\ Accepted(Head(queue)) /\ db' = Mutated(Head(queue)))
  BY DEF Next, Unidentified, Enforce, Create, FilesDone, AuditPage, Verified, Commit, AtHead,
         Refuse, SignIn, Tick, Restart, vars
<1>2. ASSUME queue # <<>>, Accepted(Head(queue)), db' = Mutated(Head(queue))
      PROVE  db'.users[u] = db.users[u]
  BY <1>2, MutationOK DEF UsersAfter
<1> QED
  BY <1>1, <1>2

\* What a reader has changes only when he reads.
LEMMA OthersRead ==
    ASSUME Inv, Readers, [Next]_vars, NEW r \in Requests, ~AuditPage(r)
    PROVE  /\ seen'[r] = seen[r] /\ snapshot'[r] = snapshot[r]
           /\ pc'[r] = "done" /\ Ask[r].op = "audit" => pc[r] = "done"
<1> USE ControlPlaneAssumption
<1>0. pc \in [Requests -> Stages]
  BY DEF Inv, Types
<1>1. ASSUME NEW q \in Requests, Unidentified(q) \/ Enforce(q) \/ Create(q) \/ FilesDone(q)
      PROVE  /\ UNCHANGED readerVars
             /\ pc'[r] = "done" /\ Ask[r].op = "audit" => pc[r] = "done"
  <2>1. UNCHANGED readerVars
    BY <1>1 DEF Unidentified, Enforce, Create, FilesDone
  <2>2. \E next : pc' = [pc EXCEPT ![q] = next] /\ (next = "done" => Ask[q].op # "audit")
    <3>1. CASE Enforce(q)
      <4>1. Ask[q].op # "audit"
        BY <3>1 DEF Enforce, Arrives, Action
      <4> QED
        BY <3>1, <4>1 DEF Enforce, Goes
    <3> QED
      BY <1>1, <3>1 DEF Unidentified, Create, FilesDone, Goes
  <2> QED
    BY <1>0, <2>1, <2>2
<1>2. ASSUME NEW q \in Requests, AuditPage(q)
      PROVE  /\ seen'[r] = seen[r] /\ snapshot'[r] = snapshot[r]
             /\ pc'[r] = "done" /\ Ask[r].op = "audit" => pc[r] = "done"
  <2>1. q # r
    BY <1>2
  <2>2. \/ UNCHANGED readerVars
        \/ \E x, y : /\ seen' = [seen EXCEPT ![q] = x]
                     /\ snapshot' = snapshot \/ snapshot' = [snapshot EXCEPT ![q] = y]
    BY <1>2 DEF AuditPage, ReadPage
  <2>3. \E next : pc' = [pc EXCEPT ![q] = next]
    BY <1>2 DEF AuditPage, ReadPage
  <2> QED
    BY <1>0, <2>1, <2>2, <2>3 DEF Readers, readerVars
<1>3. ASSUME NEW h \in Requests \cup Callbacks, Commit(h) \/ Refuse(h)
      PROVE  /\ UNCHANGED readerVars
             /\ pc'[r] = "done" /\ Ask[r].op = "audit" => pc[r] = "done"
  <2>1. UNCHANGED readerVars /\ queue # <<>> /\ h = Head(queue)
    BY <1>3 DEF Commit, Refuse, AtHead
  <2>2. UNCHANGED pc \/ (h \in Requests /\ \E next : pc' = [pc EXCEPT ![h] = next])
    BY <1>3 DEF Commit, Refuse
  <2>3. h \in Requests => Ask[h].op # "audit"
    BY <2>1, HeadWaits DEF MutOps
  <2> QED
    BY <1>0, <2>1, <2>2, <2>3
<1>4. CASE Restart
  BY <1>0, <1>4 DEF Restart, readerVars
<1>5. CASE SignIn \/ Tick \/ UNCHANGED vars \/ \E c \in Callbacks : Verified(c)
  BY <1>5 DEF SignIn, Tick, Verified, vars, requestVars, readerVars
<1> QED
  BY <1>1, <1>2, <1>3, <1>4, <1>5 DEF Next, readerVars

(* A write in front of a snapshot leaves it alone, and so does the loss of  *)
(* an entry that is not in it.                                              *)
LEMMA ReaderWaits ==
    ASSUME Inv, Trail, [Next]_vars, NEW e, Still \/ Audited(e) \/ Died,
           NEW r \in Requests, Reading(r),
           seen'[r] = seen[r], snapshot'[r] = snapshot[r],
           pc'[r] = "done" /\ Ask[r].op = "audit" => pc[r] = "done"
    PROVE  Reading(r)'
<1>1. Due \subseteq Due'
  BY DEF Still, Audited, Died
<1>2. ASSUME seen[r] # <<>>, Range(snapshot[r]) \subseteq Recorded'
      PROVE  \E u \in Users, k \in 0..Len(log') :
                db'.users[u] = Ask[r].by /\ Shows(r, u, k)'
  <2>1. log \in Seq(Entry) /\ Len(log) \in Nat /\ log' \in Seq(Entry) /\ Len(log') \in Nat
    BY LogOK, LenProperties DEF Trail, AuditTypeOK
  <2>2. /\ Same \/ Shrunk \/ (Audited(e) /\ Grown(e))
        /\ Same => Recorded' = Recorded
        /\ Audited(e) /\ Grown(e) => Recorded' = Recorded \cup {e.id}
        /\ Shrunk => Recorded' = Recorded \ {log[Len(log)].id}
    BY LogOK, LogMoves DEF Trail
  <2>3. Range(snapshot[r]) \subseteq Recorded
    BY <1>2, <2>2 DEF Reading, Audited
  <2>4. PICK u \in Users, k \in 0..Len(log) : db.users[u] = Ask[r].by /\ Shows(r, u, k)
    BY <1>2, <2>3 DEF Reading
  <2>5. db'.users[u] = Ask[r].by
    <3>1. Known(db, u)
      BY <2>4, ControlPlaneAssumption DEF Known, AskIsTyped, Users
    <3> QED
      BY <2>4, <3>1, UsersStay
  <2> DEFINE f == Scope(r, u)
  <2>6. ASSUME NEW j \in 0..Len(log'), Newest(log', f, j) = Newest(log, f, k)
        PROVE  Shows(r, u, j)'
    BY <2>4, <2>6 DEF Shows, Scope
  <2> HIDE DEF f
  <2>7. CASE Same
    BY <2>4, <2>5, <2>6, <2>7 DEF Same
  <2>8. CASE Audited(e) /\ Grown(e)
    <3>1. Len(log') = Len(log) + 1 /\ \A i \in 1..Len(log) : log'[i] = log[i]
      BY <2>1, <2>8, AppendProperties DEF Audited, Grown
    <3>2. k \in 0..Len(log') /\ k \in Nat /\ k <= Len(log) /\ k <= Len(log')
          /\ \A i \in 1..k : log'[i] = log[i]
      BY <2>1, <3>1
    <3>3. Newest(log', f, k) = Newest(log, f, k)
      BY <2>1, <3>2, SamePrefix
    <3> QED
      BY <2>5, <2>6, <3>2, <3>3
  <2>9. CASE Shrunk
    <3>1. /\ Len(log') = Len(log) - 1 /\ \A i \in 1..(Len(log) - 1) : log'[i] = log[i]
          /\ Len(log) \in Nat \ {0}
      BY <2>1, <2>9, FrontOf DEF Shrunk
    <3>2. ASSUME NEW j \in 0..(Len(log) - 1)
          PROVE  j \in 0..Len(log') /\ Newest(log', f, j) = Newest(log, f, j)
      <4>1. j \in 0..Len(log') /\ j \in Nat /\ j <= Len(log) /\ j <= Len(log')
            /\ \A i \in 1..j : log'[i] = log[i]
        BY <3>1
      <4> QED
        BY <2>1, <4>1, SamePrefix
    <3>3. CASE k # Len(log)
      <4>1. k \in 0..(Len(log) - 1)
        BY <3>1, <3>3
      <4> QED
        BY <2>5, <2>6, <3>2, <4>1
    <3>4. CASE k = Len(log)
      <4> DEFINE last == log[k]
                 old == Newest(log, f, k - 1)
      <4>1. k \in 1..Len(log) /\ k - 1 \in 0..Len(log) /\ k - 1 \in 0..(Len(log) - 1)
        BY <3>1, <3>4
      <4>2. Newest(log, f, k) = IF Passes(last, f) THEN <<last>> \o old ELSE old
        BY <2>1, <4>1, Recursion
      <4>3. last \in Entry /\ old \in Seq(Entry)
        BY <2>1, <4>1, ElementOfSeq, Selected
      <4> HIDE DEF last, old
      <4>4. ~Passes(last, f)
        <5> SUFFICES ASSUME Passes(last, f) PROVE FALSE
          OBVIOUS
        <5>1. Len(old) \in Nat
          BY <4>3, LenProperties
        <5>2. Len(Newest(log, f, k)) = Len(old) + 1 /\ Newest(log, f, k)[1] = last
          BY <4>2, <4>3, <5>1, PutInFront
        <5>3. Len(snapshot[r]) = Len(old) + 1 /\ snapshot[r][1] = last.id
          BY <2>4, <5>1, <5>2 DEF Shows, f
        <5>4. 1 \in DOMAIN snapshot[r]
          BY <5>1, <5>3, LenProperties DEF Reading
        <5>5. last.id \in Range(snapshot[r])
          BY <5>3, <5>4 DEF Range
        <5> QED
          BY <1>2, <2>2, <2>9, <3>4, <5>5 DEF last
      <4>5. Newest(log', f, k - 1) = Newest(log, f, k)
        BY <3>2, <4>1, <4>2, <4>4 DEF old
      <4> QED
        BY <2>5, <2>6, <3>2, <4>1, <4>5
    <3> QED
      BY <3>3, <3>4
  <2> QED
    BY <2>2, <2>7, <2>8, <2>9
<1> QED
  BY <1>1, <1>2 DEF Reading

(* The next page goes on where the last one ended, though the log has grown *)
(* in front of it.                                                          *)
LEMMA ReaderReads ==
    ASSUME Inv, Trail, Readers, Still, NEW r \in Requests, NEW u \in Users,
           db' = db, Identified(r, u), ReadPage(r, u)
    PROVE  Reading(r)'
<1> DEFINE f == ScopeOf(r, u)
           F == Filtered(f)
           cursor == IF seen[r] = <<>> THEN Unset ELSE seen[r][Len(seen[r])]
           answer == Query(f, cursor, PageSize)
           more == Ids(answer.entries)
           pg == answer.entries
<1>1. f = Scope(r, u) /\ db.users[u] = Ask[r].by
  BY DEF Identified, ScopeOf, Scope, OwnerCapable
<1>2. /\ log \in Seq(Entry) /\ Len(log) \in Nat /\ OwnIds(log) /\ Recorded \subseteq Due
      /\ log' = log /\ Due' = Due /\ Recorded' = Recorded
  BY LenProperties DEF Trail, AuditTypeOK, Still, auditVars, Recorded
<1>3. F = Newest(log, f, Len(log)) /\ F \in Seq(Entry) /\ OwnIds(F)
  <2>1. F = Newest(log, f, Len(log))
    BY Unfold DEF Filtered
  <2> HIDE DEF F, f
  <2>2. Len(log) \in 0..Len(log)
    BY <1>2
  <2> QED
    BY <1>2, <2>1, <2>2, Selected, OwnIdsSelected
<1>4. /\ seen'[r] = seen[r] \o more
      /\ pc'[r] = IF answer.nextCursor = Unset THEN "done" ELSE "paging"
      /\ snapshot'[r] = IF seen[r] # <<>> THEN snapshot[r] ELSE Ids(F)
      /\ \A q : Ask[q]' = Ask[q]
  BY DEF ReadPage, Readers, Inv, Types
<1>5. \A e \in Entry : e.id \in EntryIds /\ e.id # Unset
  BY ControlPlaneAssumption DEF Entry
<1>6. /\ seen[r] \in Seq(EntryIds) /\ snapshot[r] \in Seq(EntryIds)
      /\ Len(seen[r]) \in Nat
      /\ seen[r] = <<>> => snapshot[r] = <<>>
      /\ Range(snapshot[r]) \subseteq Due
  BY LenProperties DEF Readers, Reading
<1>7. pg \in Seq(Entry)
  BY <1>3, PageTyped, ControlPlaneAssumption
<1>8. ASSUME NEW s \in Seq(Entry)
      PROVE  /\ Ids(s) \in Seq(EntryIds) /\ Len(Ids(s)) = Len(s) /\ Len(s) \in Nat
             /\ \A i \in 1..Len(s) : Ids(s)[i] = s[i].id
  <2>1. Len(s) \in Nat /\ DOMAIN s = 1..Len(s) /\ \A i \in 1..Len(s) : s[i] \in Entry
    BY LenProperties, ElementOfSeq
  <2>2. Ids(s) = [i \in 1..Len(s) |-> s[i].id]
    BY <2>1 DEF Ids
  <2> QED
    BY <1>5, <2>1, <2>2
<1> HIDE DEF F, f, answer, cursor, more, pg
<1>9. more \in Seq(EntryIds) /\ Len(more) = Len(pg) /\ Len(pg) \in Nat
      /\ \A i \in 1..Len(pg) : more[i] = pg[i].id
  BY <1>7, <1>8 DEF more, pg
<1>10. /\ seen'[r] \in Seq(EntryIds) /\ Len(seen'[r]) = Len(seen[r]) + Len(pg)
       /\ \A i \in 1..(Len(seen[r]) + Len(pg)) :
             seen'[r][i] = IF i <= Len(seen[r]) THEN seen[r][i] ELSE pg[i - Len(seen[r])].id
  <2>1. /\ seen[r] \o more \in Seq(EntryIds) /\ Len(seen[r] \o more) = Len(seen[r]) + Len(more)
        /\ \A i \in 1..(Len(seen[r]) + Len(more)) :
              (seen[r] \o more)[i] = IF i <= Len(seen[r]) THEN seen[r][i]
                                     ELSE more[i - Len(seen[r])]
    <3> DEFINE s == seen[r]
    <3>1. s \in Seq(EntryIds) /\ more \in Seq(EntryIds)
      BY <1>6, <1>9
    <3> HIDE DEF s
    <3>2. /\ s \o more \in Seq(EntryIds) /\ Len(s \o more) = Len(s) + Len(more)
          /\ \A i \in 1..(Len(s) + Len(more)) :
                (s \o more)[i] = IF i <= Len(s) THEN s[i] ELSE more[i - Len(s)]
      BY <3>1, ConcatProperties
    <3> QED
      BY <3>2 DEF s
  <2>2. \A i \in 1..(Len(seen[r]) + Len(pg)) :
           ~(i <= Len(seen[r])) => i - Len(seen[r]) \in 1..Len(pg)
    BY <1>6, <1>9
  <2> QED
    BY <1>4, <1>9, <2>1, <2>2
(* What the page shows of the entries that are to be shown, when p of them  *)
(* have been shown.                                                         *)
<1>11. ASSUME NEW new \in Seq(Entry), NEW old \in Seq(Entry), F = new \o old,
              NEW k \in 0..Len(log), old = Newest(log, f, k),
              Len(seen[r]) <= Len(old), seen[r] = <<>> => new = <<>>,
              \A i \in 1..Len(seen[r]) : seen[r][i] = old[i].id,
              Len(snapshot'[r]) = Len(old),
              \A i \in 1..Len(old) : snapshot'[r][i] = old[i].id
       PROVE  Shows(r, u, k)' /\ (seen'[r] = <<>> => Len(old) = 0)
  <2> DEFINE p == Len(seen[r])
             o == Len(old)
  <2>1. o \in Nat /\ p \in 0..o /\ (p = 0 <=> seen[r] = <<>>)
    BY <1>6, <1>11, LenProperties, EmptySeq
  <2>2. cursor = CursorAt(old, p)
    <3>1. p # 0 => p \in 1..p
      BY <2>1
    <3> QED
      BY <1>11, <2>1, <3>1 DEF cursor, CursorAt
  <2>3. PICK q \in p..o :
           /\ Len(pg) = q - p
           /\ \A i \in 1..(q - p) : pg[i] = old[p + i]
           /\ answer.nextCursor = Unset <=> q = o
           /\ q = p => q = o
    <3> HIDE DEF p, o
    <3>1. Filtered(f) = new \o old /\ OwnIds(new \o old)
      BY <1>3, <1>11 DEF F
    <3>2. /\ \A e \in Entry : e.id # Unset
          /\ p \in 0..Len(old) /\ (p = 0 => new = <<>>) /\ PageSize \in Nat \ {0}
      BY <1>5, <1>11, <2>1, ControlPlaneAssumption DEF o
    <3>3. Continues(Query(f, CursorAt(old, p), PageSize), old, p)
      BY <3>1, <3>2, NextPage
    <3>4. Continues(answer, old, p)
      BY <2>2, <3>3 DEF answer
    <3> QED
      BY <3>4 DEF Continues, pg, o
  <2> HIDE DEF o, p
  <2>4. /\ q \in Nat /\ Len(seen'[r]) = q /\ q <= o
        /\ p \in Nat /\ p <= q
    BY <1>10, <2>1, <2>3 DEF p
  <2>5. \A i \in 1..q : seen'[r][i] = old[i].id
    <3>1. ASSUME NEW i \in 1..q
          PROVE  seen'[r][i] = old[i].id
      <4>1. CASE i <= p
        <5>1. i \in 1..p /\ i \in 1..(p + Len(pg))
          BY <2>3, <2>4, <4>1
        <5> QED
          BY <1>10, <1>11, <4>1, <5>1 DEF p
      <4>2. CASE ~(i <= p)
        <5>1. i - p \in 1..(q - p) /\ i \in 1..(p + Len(pg)) /\ p + (i - p) = i
          BY <2>3, <2>4, <4>2
        <5>2. seen'[r][i] = pg[i - p].id
          BY <1>10, <4>2, <5>1 DEF p
        <5> QED
          BY <2>3, <5>1, <5>2
      <4> QED
        BY <4>1, <4>2
    <3> QED
      BY <3>1
  <2>6. pc'[r] = "done" => q = o
    BY <1>4, <2>3
  <2>7. Newest(log', Scope(r, u), k) = old
    BY <1>1, <1>2, <1>11
  <2>8. Shows(r, u, k)'
    BY <1>11, <2>4, <2>5, <2>6, <2>7 DEF Shows, Scope, o
  <2>9. seen'[r] = <<>> => o = 0
    <3>1. seen'[r] = <<>> => q = 0 /\ p = 0
      BY <2>4
    <3> QED
      BY <2>3, <3>1
  <2> QED
    BY <2>8, <2>9 DEF o
<1>12. CASE seen[r] = <<>>
  <2>1. <<>> \in Seq(Entry) /\ F = <<>> \o F /\ Len(log) \in 0..Len(log)
        /\ Len(seen[r]) = 0 /\ Len(F) \in Nat
    BY <1>2, <1>3, <1>12, ConcatEmptySeq, LenProperties, EmptySeq
  <2>2. /\ snapshot'[r] = Ids(F) /\ Ids(F) \in Seq(EntryIds) /\ Len(Ids(F)) = Len(F)
        /\ \A i \in 1..Len(F) : Ids(F)[i] = F[i].id
    BY <1>3, <1>4, <1>8, <1>12
  <2>3. \E k \in 0..Len(log) : Shows(r, u, k)' /\ (seen'[r] = <<>> => Len(F) = 0)
    <3>1. /\ Len(snapshot'[r]) = Len(F) /\ Len(seen[r]) <= Len(F)
          /\ \A i \in 1..Len(F) : snapshot'[r][i] = F[i].id
          /\ \A i \in 1..Len(seen[r]) : seen[r][i] = F[i].id
      BY <2>1, <2>2
    <3>2. PICK k \in 0..Len(log) : k = Len(log)
      BY <2>1
    <3>3. F \in Seq(Entry) /\ F = Newest(log, f, k)
      BY <1>3, <3>2
    <3>4. <<>> \in Seq(Entry) /\ F = <<>> \o F
      BY <2>1
    <3> QED
      BY <1>11, <3>1, <3>3, <3>4
  <2>4. seen'[r] = <<>> => snapshot'[r] = <<>>
    BY <2>2, <2>3, EmptySeq
  <2>5. Range(snapshot'[r]) \subseteq Due'
    <3> SUFFICES ASSUME NEW x \in Range(snapshot'[r]) PROVE x \in Due
      BY <1>2
    <3>1. DOMAIN snapshot'[r] = 1..Len(F)
      BY <2>2, LenProperties
    <3>2. PICK i \in 1..Len(F) : x = F[i].id
      BY <2>2, <3>1 DEF Range
    <3>3. Occurs(F[i], F)
      BY DEF Occurs
    <3>4. Len(log) \in 0..Len(log)
      BY <1>2
    <3>5. \E j \in 1..Len(log) : log[j] = F[i] /\ Passes(F[i], f)
      BY <1>2, <1>3, <3>3, <3>4, Selected
    <3>6. x \in Recorded
      BY <1>2, <3>2, <3>5, LenProperties DEF Recorded
    <3> QED
      BY <1>2, <3>6
  <2> QED
    BY <1>1, <1>2, <1>10, <2>1, <2>2, <2>3, <2>4, <2>5 DEF Reading
<1>13. CASE seen[r] # <<>>
  <2>1. snapshot'[r] = snapshot[r]
    BY <1>4, <1>13
  <2>2. seen'[r] # <<>>
    <3>1. Len(seen[r]) # 0
      BY <1>6, <1>13, EmptySeq
    <3>2. Len(seen'[r]) # 0
      BY <1>6, <1>9, <1>10, <3>1
    <3> QED
      BY <3>2
  <2>3. ASSUME Range(snapshot[r]) \subseteq Recorded
        PROVE  \E k \in 0..Len(log) : Shows(r, u, k)'
    <3>1. PICK v \in Users, k \in 0..Len(log) : db.users[v] = Ask[r].by /\ Shows(r, v, k)
      BY <1>13, <2>3 DEF Readers, Reading
    <3>2. v = u
      <4>1. Known(db, u)
        BY <1>1, ControlPlaneAssumption DEF Known, AskIsTyped, Users
      <4> QED
        BY <1>1, <3>1, <4>1 DEF Inv, UsersOK, OneUserPerPrincipal
    <3> DEFINE old == Newest(log, f, k)
    <3>3. old \in Seq(Entry)
      BY <1>2, Selected
    <3>4. PICK new \in Seq(Entry) : F = new \o old
      <4>1. \E new \in Seq(Entry) : Newest(log, f, Len(log)) = new \o old
        <5>1. log \in Seq(Entry) /\ k \in 0..Len(log)
          BY <1>2
        <5> QED
          BY <5>1, Grows
      <4> HIDE DEF old
      <4> QED
        BY <1>3, <4>1
    <3>5. /\ Len(snapshot'[r]) = Len(old)
          /\ \A i \in 1..Len(old) : snapshot'[r][i] = old[i].id
          /\ Len(seen[r]) <= Len(old)
          /\ \A i \in 1..Len(seen[r]) : seen[r][i] = old[i].id
      BY <1>1, <2>1, <3>1, <3>2 DEF Shows
    <3> HIDE DEF old
    <3>6. Shows(r, u, k)'
      BY <1>11, <1>13, <3>3, <3>4, <3>5 DEF old
    <3> QED
      BY <3>6
  <2> QED
    BY <1>1, <1>2, <1>6, <1>10, <2>1, <2>2, <2>3 DEF Reading
<1> QED
  BY <1>12, <1>13

-----------------------------------------------------------------------------
(* The theorems                                                            *)

TrailInv == Inv /\ Deciding /\ Trail /\ Readers

\* At first nothing is due and the log is empty.
LEMMA TrailInit == Init => TrailInv
<1> SUFFICES ASSUME Init PROVE TrailInv
  OBVIOUS
<1> USE ControlPlaneAssumption
<1>1. Inv
  BY InitOK
<1>2. Deciding
  BY DEF Init, Deciding
<1>3. Due = {} /\ Recorded = {}
  BY DEF Init, Due, Recorded
<1>4. Trail
  <2>1. AuditTypeOK(Entry) /\ OwnIds(log)
    BY DEF Init, AuditTypeOK, OwnIds
  <2>2. Counted
    <3>1. IsFiniteSet(Due \ Recorded) /\ Cardinality(Due \ Recorded) = 0
      BY <1>3, FS_EmptySet
    <3>2. Owed = 0 /\ crashes = 0 /\ faults = 0
      BY DEF Init, Owed
    <3> QED
      BY <3>1, <3>2 DEF Counted
  <2> QED
    BY <1>3, <2>1, <2>2 DEF Trail
<1>5. Readers
  <2>1. \A r \in Requests : seen[r] = <<>> /\ snapshot[r] = <<>>
    BY DEF Init
  <2>2. Range(<<>>) = {} /\ <<>> \in Seq(EntryIds)
    BY EmptySeq DEF Range
  <2>3. \A r \in Requests : Reading(r)
    BY <2>1, <2>2 DEF Reading
  <2> QED
    BY <2>3 DEF Readers, Init
<1> QED
  BY <1>1, <1>2, <1>4, <1>5 DEF TrailInv

\* A reader waits or reads, whatever the others do to the log.
LEMMA ReadersOK ==
    ASSUME Inv, Deciding, Trail, Readers, [Next]_vars, NEW e, Still \/ Audited(e) \/ Died
    PROVE  Readers'
<1>1. ASSUME NEW r \in Requests, AuditPage(r), NEW u \in Users,
             Identified(r, u), ReadPage(r, u)
      PROVE  Reading(r)'
  <2>1. Still /\ db' = db
    BY <1>1, OthersStill DEF AuditPage
  <2> QED
    BY <1>1, <2>1, ReaderReads
<1>2. ASSUME NEW r \in Requests, AuditPage(r), pc' = [pc EXCEPT ![r] = "refused"],
             UNCHANGED readerVars
      PROVE  Reading(r)'
  <2>1. pc'[r] = "refused" /\ seen'[r] = seen[r] /\ snapshot'[r] = snapshot[r]
    BY <1>2 DEF readerVars, Inv, Types
  <2> QED
    BY <2>1, ReaderWaits DEF Readers
<1>3. ASSUME NEW r \in Requests, ~AuditPage(r)
      PROVE  Reading(r)'
  BY <1>3, OthersRead, ReaderWaits DEF Readers
<1>4. \A r \in Requests : Reading(r)'
  BY <1>1, <1>2, <1>3 DEF AuditPage
<1>5. \/ UNCHANGED readerVars
      \/ \E r \in Requests : \E x, y :
            /\ seen' = [seen EXCEPT ![r] = x]
            /\ snapshot' = snapshot \/ snapshot' = [snapshot EXCEPT ![r] = y]
  <2>1. ASSUME NEW r \in Requests, AuditPage(r)
        PROVE  \/ UNCHANGED readerVars
               \/ \E x, y : /\ seen' = [seen EXCEPT ![r] = x]
                            /\ snapshot' = snapshot \/ snapshot' = [snapshot EXCEPT ![r] = y]
    BY <2>1 DEF AuditPage, ReadPage
  <2>2. ASSUME \A r \in Requests : ~AuditPage(r)
        PROVE  UNCHANGED readerVars
    BY <2>2 DEF Next, Unidentified, Enforce, Create, FilesDone, Verified, Commit, Refuse,
                SignIn, Tick, Restart, vars
  <2> QED
    BY <2>1, <2>2
<1>6. /\ DOMAIN seen' = Requests /\ seen' = [r \in Requests |-> seen'[r]]
      /\ DOMAIN snapshot' = Requests /\ snapshot' = [r \in Requests |-> snapshot'[r]]
  BY <1>5 DEF Readers, readerVars
<1> QED
  BY <1>4, <1>6 DEF Readers

\* Every step keeps the count, the log and the readers.
LEMMA TrailNext == TrailInv /\ [Next]_vars => TrailInv'
<1> SUFFICES ASSUME TrailInv, [Next]_vars PROVE TrailInv'
  OBVIOUS
<1>1. Inv' /\ Deciding'
  BY NextOK, LogEffects DEF TrailInv
<1>2. PICK e : Still \/ Audited(e) \/ Died
  BY LogEffects DEF TrailInv
<1>3. Trail'
  BY <1>2, LogOK, CountOK DEF TrailInv, Trail
<1>4. Readers'
  BY <1>2, ReadersOK DEF TrailInv
<1> QED
  BY <1>1, <1>3, <1>4 DEF TrailInv

\* The trail is kept in every behaviour.
LEMMA TrailInvariance == Spec => []TrailInv
<1> QED
  BY TrailInit, TrailNext, PTL DEF Spec

(* The whole state of the control plane keeps its types: the log is made of *)
(* entries of users about Agents, and a line without its end has one        *)
(* (app.ts, JsonlAuditStore.ts), for any requests, crashes and faults.      *)
THEOREM ControlPlaneTypes == Spec => []TypeOK
<1>1. TrailInv => TypeOK
  <2> SUFFICES ASSUME TrailInv PROVE TypeOK
    OBVIOUS
  <2>1. Types /\ AuditTypeOK(Entry) /\ crashes \in 0..MaxCrashes /\ faults \in 0..MaxFaults
    BY DEF TrailInv, Inv, Trail, Counted
  <2>2. seen \in [Requests -> Seq(EntryIds)] /\ snapshot \in [Requests -> Seq(EntryIds)]
    BY DEF TrailInv, Readers, Reading
  <2> QED
    BY <2>1, <2>2 DEF TypeOK, Types, Stages
<1> QED
  BY <1>1, TrailInvariance, PTL

(* The log has no entry of what did not happen, and misses at most two      *)
(* entries per crash or refused write - the one that was being written and, *)
(* when its line was cut short, the next one, which becomes a part of that  *)
(* line (JsonlAuditStore.ts: append, readAll).                              *)
THEOREM NothingElseIsMissing == Spec => []AuditTrail
<1>1. TrailInv => AuditTrail
  <2> SUFFICES ASSUME TrailInv PROVE AuditTrail
    OBVIOUS
  <2>1. /\ Recorded \subseteq Due /\ IsFiniteSet(Due \ Recorded)
        /\ Cardinality(Due \ Recorded) + Owed <= 2 * (crashes + faults)
        /\ crashes \in 0..MaxCrashes /\ faults \in 0..MaxFaults
    BY DEF TrailInv, Trail, Counted
  <2> DEFINE n == Cardinality(Due \ Recorded)
             b == 2 * (crashes + faults)
  <2>2. n \in Nat /\ Owed \in Nat
    BY <2>1, FS_CardinalityType DEF Owed
  <2>3. b \in Int
    BY <2>1, ControlPlaneAssumption
  <2>4. n + Owed <= b
    BY <2>1
  <2> HIDE DEF n, b
  <2>5. n <= b
    BY <2>2, <2>3, <2>4
  <2> QED
    BY <2>1, <2>5 DEF AuditTrail, n, b
<1> QED
  BY <1>1, TrailInvariance, PTL

(* Who follows the cursors of GET /api/audit sees each entry that was there *)
(* at his first page once and in order, for any size of the pages, filter   *)
(* and log, and whatever is written in front of it meanwhile - unless one   *)
(* of them is lost with its line end (audit-log/store/filter.ts).           *)
THEOREM PagesShow == Spec => []PagesShowEachOnce
<1>1. TrailInv => PagesShowEachOnce
  <2> SUFFICES ASSUME TrailInv, NEW r \in Requests, Range(snapshot[r]) \subseteq Recorded
               PROVE  /\ IsPrefix(seen[r], snapshot[r])
                      /\ pc[r] = "done" /\ Ask[r].op = "audit" => seen[r] = snapshot[r]
    BY DEF PagesShowEachOnce
  <2> DEFINE s == seen[r]
             t == snapshot[r]
  <2>1. /\ s \in Seq(EntryIds) /\ t \in Seq(EntryIds) /\ (s = <<>> => t = <<>>)
        /\ Len(s) \in Nat /\ Len(t) \in Nat
    BY LenProperties DEF TrailInv, Readers, Reading
  <2>2. /\ Len(s) <= Len(t) /\ \A i \in 1..Len(s) : s[i] = t[i]
        /\ pc[r] = "done" /\ Ask[r].op = "audit" => Len(s) = Len(t)
    <3>1. CASE s = <<>>
      <4>1. t = <<>> /\ Len(s) = 0
        BY <2>1, <3>1
      <4> QED
        BY <3>1, <4>1
    <3>2. CASE s # <<>>
      <4>1. PICK u \in Users, k \in 0..Len(log) : Shows(r, u, k)
        BY <3>2 DEF TrailInv, Readers, Reading
      <4>2. \A i \in 1..Len(s) : i \in 1..Len(t)
        BY <2>1, <4>1 DEF Shows
      <4> QED
        BY <4>1, <4>2 DEF Shows
    <3> QED
      BY <3>1, <3>2
  <2> HIDE DEF s, t
  <2>3. /\ \A i \in 1..Len(s) : s[i] \in EntryIds
        /\ \A i \in 1..Len(s) : t[i] \in EntryIds
    BY <2>1, <2>2, ElementOfSeq
  <2>4. 1 \in Int /\ Len(s) \in Int
    BY <2>1
  <2> DEFINE a == SubSeq(s, 1, Len(s))
             b == SubSeq(t, 1, Len(s))
             n == Len(s)
  <2>5. /\ a \in Seq(EntryIds) /\ Len(a) = IF 1 <= n THEN n - 1 + 1 ELSE 0
        /\ \A i \in 1..(n - 1 + 1) : a[i] = s[1 + i - 1]
    <3> HIDE DEF a
    <3> QED
      BY <2>3, <2>4, SubSeqProperties DEF a
  <2>6. /\ b \in Seq(EntryIds) /\ Len(b) = IF 1 <= n THEN n - 1 + 1 ELSE 0
        /\ \A i \in 1..(n - 1 + 1) : b[i] = t[1 + i - 1]
    <3> HIDE DEF b
    <3> QED
      BY <2>3, <2>4, SubSeqProperties DEF b
  <2> HIDE DEF a, b
  <2>7. n \in Nat /\ n - 1 + 1 = n /\ \A i \in 1..n : 1 + i - 1 = i
    BY <2>1
  <2>8. Len(a) = n /\ Len(b) = n
    <3> HIDE DEF n
    <3> QED
      BY <2>5, <2>6, <2>7
  <2>9. \A i \in 1..n : a[i] = b[i]
    BY <2>2, <2>5, <2>6, <2>7
  <2>10. a = b
    BY <2>5, <2>6, <2>8, <2>9, SeqEqual
  <2>11. IsPrefix(s, t)
    BY <2>2, <2>10 DEF IsPrefix, a, b
  <2>12. Len(s) = Len(t) => s = t
    BY <2>1, <2>2, SeqEqual
  <2> QED
    BY <2>2, <2>11, <2>12 DEF s, t
<1> QED
  BY <1>1, TrailInvariance, PTL

-----------------------------------------------------------------------------
(* What is left of NoDecisionIsSilent                                       *)

\* A grant or a revocation is answered well only after its mutation was committed.
Answered ==
    \A r \in Requests :
        pc[r] = "done" /\ Ask[r].op \in {"grant", "revoke"} => r \in committed

\* The decisions that leave no entry although nothing fails: a grant or a revocation is
\* allowed, and its mutation refused.
SilentIsRefused ==
    crashes = 0 /\ faults = 0 => \A r \in Requests :
        Decided(r) /\ (\A stage \in {"decision", "effect"} : <<r, stage>> \notin Recorded)
        => decided[r] = "allow" /\ Ask[r].op \in {"grant", "revoke"} /\ pc[r] = "refused"

\* A step makes a request "done" only when its mutation is committed, or it has none.
LEMMA AnsweredOK ==
    ASSUME Inv, Answered, [Next]_vars
    PROVE  Answered'
<1>1. ASSUME NEW r \in Requests, Enforce(r) PROVE Answered'
  <2>1. Ask[r].op \in {"view", "viewRuns", "send", "guardrail", "delete", "listGrants",
                       "grant", "revoke"} /\ UNCHANGED committed
    BY <1>1 DEF Enforce, Arrives, Action
  <2>2. PICK u \in Users, busy \in BOOLEAN :
          Goes(r, IF HasScope(db, u, Ask[r].agent, Action[Ask[r].op])
                  THEN Handler(r, busy) ELSE "refused")
    BY <1>1 DEF Enforce
  <2> DEFINE ok == HasScope(db, u, Ask[r].agent, Action[Ask[r].op])
             next == IF ok THEN Handler(r, busy) ELSE "refused"
  <2> HIDE DEF ok
  <2>3. next = "done" => Ask[r].op \notin {"grant", "revoke"}
    BY <2>1 DEF Handler
  <2> HIDE DEF next
  <2>4. pc' = [pc EXCEPT ![r] = next]
    BY <2>2 DEF Goes, next, ok
  <2> QED
    BY <2>1, <2>3, <2>4 DEF Answered, Inv, Types
<1>2. ASSUME NEW r \in Requests, Unidentified(r) \/ Create(r) \/ FilesDone(r) PROVE Answered'
  BY <1>2 DEF Unidentified, Create, FilesDone, Goes, Answered, Inv, Types
<1>3. ASSUME NEW r \in Requests, AuditPage(r) PROVE Answered'
  <2>1. /\ Ask[r].op = "audit" /\ UNCHANGED committed
        /\ \A q \in Requests \ {r} : pc'[q] = pc[q]
    BY <1>3 DEF AuditPage, ReadPage, Inv, Types
  <2> QED
    BY <2>1 DEF Answered
<1>4. ASSUME NEW h \in Requests \cup Callbacks, Commit(h) PROVE Answered'
  BY <1>4 DEF Commit, Answered, Inv, Types
<1>5. ASSUME NEW h \in Requests \cup Callbacks, Refuse(h) PROVE Answered'
  BY <1>5 DEF Refuse, Answered, Inv, Types
<1>6. CASE Restart
  <2>1. /\ committed \subseteq committed'
        /\ \A q \in Requests : pc'[q] = "done" => pc[q] = "done"
    BY <1>6 DEF Restart
  <2> QED
    BY <2>1 DEF Answered
<1>7. CASE \/ SignIn \/ Tick \/ UNCHANGED vars \/ \E c \in Callbacks : Verified(c)
  <2>1. UNCHANGED <<pc, committed>>
    BY <1>7 DEF SignIn, Tick, Verified, requestVars, vars
  <2> QED
    BY <2>1 DEF Answered
<1> QED
  BY <1>1, <1>2, <1>3, <1>4, <1>5, <1>6, <1>7 DEF Next

(* Without a crash or a refused write, the only decisions that leave no     *)
(* entry are grants and revocations which the checkpoint allowed and the    *)
(* mutation refused: there createGrant or revokeGrant throws before the     *)
(* handler writes its entry (enforcement.ts:108, app.ts:372, 397).          *)
THEOREM OnlyRefusedIsSilent == Spec => []SilentIsRefused
<1>1. Init => Answered
  BY DEF Init, Answered
<1>2. TrailInv /\ Answered /\ [Next]_vars => Answered'
  BY AnsweredOK DEF TrailInv
<1>3. TrailInv /\ Answered => SilentIsRefused
  <2> SUFFICES ASSUME TrailInv, Answered, crashes = 0, faults = 0, NEW r \in Requests,
                      Decided(r),
                      \A stage \in {"decision", "effect"} : <<r, stage>> \notin Recorded
               PROVE  /\ decided[r] = "allow" /\ Ask[r].op \in {"grant", "revoke"}
                      /\ pc[r] = "refused"
    BY DEF SilentIsRefused
  <2>1. Due \subseteq Recorded
    <3> DEFINE missing == Due \ Recorded
    <3>1. IsFiniteSet(missing) /\ Cardinality(missing) + Owed <= 2 * (0 + 0)
      BY DEF TrailInv, Trail, Counted
    <3>2. Cardinality(missing) \in Nat /\ Owed \in Nat
      BY <3>1, FS_CardinalityType DEF Owed
    <3> HIDE DEF missing
    <3>3. Cardinality(missing) = 0
      BY <3>1, <3>2
    <3>4. missing = {}
      BY <3>1, <3>3, FS_EmptySet
    <3> QED
      BY <3>4 DEF missing
  <2>2. <<r, "decision">> \notin Due /\ <<r, "effect">> \notin Due
    BY <2>1
  <2>3. decided[r] = "allow" /\ HandlerAudits(Ask[r].op)
    BY <2>2 DEF Due, Decided, TrailInv, Inv, Types
  <2>4. Ask[r].op \in {"grant", "revoke"}
    BY <2>3 DEF HandlerAudits, Decided
  <2>5. r \notin committed
    BY <2>2, <2>4 DEF Due, AuditsEffect
  <2> QED
    BY <2>3, <2>4, <2>5 DEF Decided, Answered
<1> QED
  BY <1>1, <1>2, <1>3, TrailInvariance, PTL DEF Spec
=============================================================================
