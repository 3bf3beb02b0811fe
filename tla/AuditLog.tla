------------------------------ MODULE AuditLog ------------------------------
(***************************************************************************)
(* The audit log (audit-log/): AuditLogger.record over JsonlAuditStore,    *)
(* one line of JSON per entry, and the query behind GET /api/audit.        *)
(*                                                                         *)
(* log is what a query can parse.  A write that was cut short leaves a     *)
(* line without an end, and the next entry becomes a part of that line:    *)
(* readAll skips both.  When only the line end is missing the entry parses *)
(* until then.  Entries carry the id they are paged by, and the actor and  *)
(* target they are filtered by; the other fields of the filter are of the  *)
(* same form.  Payloads and their redaction are left out.                  *)
(***************************************************************************)
EXTENDS Sequences, Naturals, SequencesExt

CONSTANT Unset         \* a field of the filter, or a cursor, that is not given

VARIABLES
    log,               \* the entries that parse, in the order of the file
    lastLine           \* "ended", "torn" in the middle, or "unended" but whole

auditVars == <<log, lastLine>>

-----------------------------------------------------------------------------
AuditTypeOK(Entry) ==
    /\ log \in Seq(Entry)
    /\ lastLine \in {"ended", "torn", "unended"}
    /\ lastLine = "unended" => log # <<>>

\* What still parses when bytes are added to the last line.
Spoilt == IF lastLine = "unended" THEN Front(log) ELSE log

\* Bug: the line end comes with the next entry, after a torn line never.
RecordUnended(entry) ==
    /\ log' = IF lastLine = "ended" THEN Append(log, entry) ELSE Spoilt
    /\ lastLine' = IF lastLine = "torn" THEN "torn" ELSE "ended"

\* appendFileSync: nothing else runs while the line is written.
Record(entry) ==
    /\ log' = IF lastLine = "ended" THEN Append(log, entry) ELSE Spoilt
    /\ lastLine' = "ended"

PartlyWritten == log' = Spoilt /\ lastLine' = "torn"

\* The disk refuses the write, or the rest of it: logged, and the caller goes on.
RecordFails(entry) ==
    \/ UNCHANGED auditVars
    \/ PartlyWritten
    \/ lastLine = "ended" /\ log' = Append(log, entry) /\ lastLine' = "unended"

\* The process dies, perhaps in the middle of a line.
LogDies(writing) == UNCHANGED auditVars \/ (writing /\ PartlyWritten)

-----------------------------------------------------------------------------
Passes(entry, filter) ==
    /\ filter.actor # Unset => entry.actor = filter.actor
    /\ filter.target # Unset => entry.target = filter.target

(* Newest first.  Entries are stamped as they are written and the clock     *)
(* does not go back; ties are broken by the place in the file: the order is *)
(* the reverse of the file's.                                               *)
NewestFirst(entries, filter) ==
    LET newest[n \in 0..Len(entries)] ==
            IF n = 0 THEN <<>>
            ELSE IF Passes(entries[n], filter) THEN <<entries[n]>> \o newest[n - 1]
            ELSE newest[n - 1]
    IN  newest[Len(entries)]

Filtered(filter) == NewestFirst(log, filter)

\* Bug: the page starts with the entry of the cursor.
FromCursor(entries, cursor) ==
    IF \E i \in DOMAIN entries : entries[i].id = cursor
    THEN LET i == CHOOSE i \in DOMAIN entries : entries[i].id = cursor
         IN  SubSeq(entries, i, Len(entries))
    ELSE entries

\* A cursor that is not there (any more) is ignored.
AfterCursor(entries, cursor) ==
    IF \E i \in DOMAIN entries : entries[i].id = cursor
    THEN LET i == CHOOSE i \in DOMAIN entries : entries[i].id = cursor
         IN  SubSeq(entries, i + 1, Len(entries))
    ELSE entries

Query(filter, cursor, limit) ==
    LET rest == AfterCursor(Filtered(filter), cursor)
        more == Len(rest) > limit
        page == SubSeq(rest, 1, IF more THEN limit ELSE Len(rest))
    IN  [entries |-> page, nextCursor |-> IF more THEN page[limit].id ELSE Unset]
=============================================================================
