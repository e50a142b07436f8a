---------------------------- MODULE RecordWrites ----------------------------
(***************************************************************************)
(* The requests that write records of a collection, one or a batch of      *)
(* them: each reads the records, then for one record after the other       *)
(* changes its row and lets the audit hook add to the audit log, commits,  *)
(* and publishes the changes to the realtime clients.                      *)
(*                                                                         *)
(* The composition of AuditChain and Realtime: the entries belong to the   *)
(* transaction of the request, the event follows its commit.  What keeps   *)
(* requests apart is the locking of the database: SQLite has one writer at *)
(* a time, PostgreSQL (READ COMMITTED) locks the rows that are written.    *)
(***************************************************************************)
EXTENDS AuditChain, Realtime

CONSTANTS
  Records, NoRecord,
  Contents, NoContent, \* what the title of a record may be
  Dialects,   \* the databases the server may run on: "postgresql", "sqlite"
  MaxBatch,   \* bound: the records of a batch
  MaxWrites,  \* bound: changes of rows
  MaxBefore,  \* bound: changes of rows before the start of a request for one record
  MaxSteps,   \* bound: changes of rows, which count twice, and moves of clients, if there are any
  MaxSkips    \* bound: writes of which the audit log takes no note

ASSUME WritesAssumption ==
  /\ NoRecord \notin Records /\ NoContent \notin Contents
  /\ Dialects \subseteq {"postgresql", "sqlite"}
  /\ MaxSteps \in Nat /\ MaxSkips \in Nat /\ MaxWrites \in Nat /\ Events = 1..MaxWrites

VARIABLES
  dialect,
  value,      \* value[x]: the number of the write that gave record x its content, 0: no record
  created,    \* the records ever inserted: an id is not used again
  req,        \* req[s]: the request of session s
  titles,     \* titles[w]: the title that write w gave its record
  overlapped, \* history: the pairs of records that two requests have worked on together
  unaudited   \* history: unaudited[x]: the committed writes of x that left no entries

recordVars == <<dialect, value, created, req, titles, overlapped, unaudited>>
vars == <<recordVars, auditVars, realtimeVars>>

\* records: those of the request, of which the next one is at index k; old[x]: the write that
\* gave x what the request has read of it; wrote: its writes that are not yet published;
\* skipped: the indices of those of its records whose writes the audit hook passed over.
Batches == {xs \in UNION {[1..n -> Records] : n \in 1..MaxBatch} : \A i, j \in DOMAIN xs : xs[i] = xs[j] => i = j}
Idle == [at |-> "idle", op |-> "none", records |-> <<>>, k |-> 1, old |-> [x \in Records |-> 0], wrote |-> <<>>,
         skipped |-> {}]
Ops == {"create", "update", "delete"}
writes == Len(titles)

TypeOK ==
  /\ AuditTypeOK /\ RealtimeTypeOK
  /\ dialect \in Dialects
  /\ value \in [Records -> 0..writes]
  /\ created \subseteq Records
  /\ req \in [Sessions -> [at : {"idle", "change", "audit", "insert", "publish"},
                           op : Ops \cup {"none"}, records : Batches \cup {<<>>}, k : 1..MaxBatch,
                           old : [Records -> 0..MaxWrites], wrote : Seq(1..MaxWrites),
                           skipped : SUBSET (1..MaxBatch)]]
  /\ titles \in Seq(Contents \cup {NoContent}) /\ writes <= MaxWrites
  /\ overlapped \subseteq SUBSET Records
  /\ unaudited \in [Records -> SUBSET (1..writes)]
  /\ \A s \in Sessions : toInsert[s] # <<>> => req[s].at = "insert"
  /\ \A s \in Sessions : own[s] # {} => req[s].wrote # <<>>

Init ==
  /\ AuditInit /\ RealtimeInit
  /\ dialect \in Dialects
  /\ value = [x \in Records |-> 0]
  /\ created = {}
  /\ req = [s \in Sessions |-> Idle]
  /\ titles = <<>>
  /\ overlapped = {}
  /\ unaudited = [x \in Records |-> {}]

\* What a write leaves of the title, and 0, which stands for no record.
Title(w) == IF w = 0 THEN NoContent ELSE titles[w]

\* Those whose transactions a request on records xs that starts now overlaps.
Beside(xs) ==
  {{x, z} : x \in ToSet(xs), z \in UNION {ToSet(req[q].records) : q \in {r \in Sessions : req[r].at \notin {"idle", "publish"}}}}

Ends(s) == req' = [req EXCEPT ![s] = Idle]

\* The record that session s works on now.
Current(s) == req[s].records[req[s].k]

\* The sessions that have written to the database and not yet committed.
Writing == {s \in Sessions : req[s].at \in {"change", "audit", "insert"} /\ req[s].wrote # <<>>}

\* The records that session s has written so far.
Touched(s) == {req[s].records[i] : i \in 1..Len(req[s].wrote)}

\* Those whose locks session s would have to wait for.
Blocking(s) ==
  {q \in Writing \ {s} : IF dialect = "sqlite" THEN s \notin Writing ELSE Current(s) \in Touched(q)}

-----------------------------------------------------------------------------
InBounds(w, m) == m = 0 \/ 2 * w + m <= MaxSteps

MayStart(xs) ==
  /\ writes + Len(xs) <= MaxWrites /\ InBounds(writes + Len(xs), moves)
  /\ Len(xs) = 1 => writes <= MaxBefore

\* Faulty variant: the old values are not handed on.
StartForgetful(s, op, xs) ==
  /\ req[s].at = "idle" /\ MayStart(xs)
  /\ req' = [req EXCEPT ![s] = [Idle EXCEPT !.at = "change", !.op = op, !.records = xs]]
  /\ overlapped' = overlapped \cup Beside(xs)
  /\ UNCHANGED <<dialect, value, unaudited, titles, auditVars, realtimeVars>>

Start(s, op, xs) ==
  /\ req[s].at = "idle" /\ MayStart(xs)
  /\ req' = [req EXCEPT ![s] = [Idle EXCEPT !.at = "change", !.op = op, !.records = xs,
                                !.old = [x \in Records |-> IF x \in ToSet(xs) THEN value[x] ELSE 0]]]
  /\ overlapped' = overlapped \cup Beside(xs)
  /\ UNCHANGED <<dialect, value, unaudited, titles, auditVars, realtimeVars>>

Create(s, xs) == created \cap ToSet(xs) = {} /\ created' = created \cup ToSet(xs) /\ Start(s, "create", xs)

\* The records are read for the rules, and kept as the old values of the audit log.
AllThere(xs) == \A x \in ToSet(xs) : value[x] # 0
Update(s, xs) == AllThere(xs) /\ Start(s, "update", xs) /\ UNCHANGED created
Delete(s, xs) == AllThere(xs) /\ Start(s, "delete", xs) /\ UNCHANGED created

\* The statement finds its row, and gives it a title or deletes it.
Change(s, title) ==
  /\ req[s].at = "change" /\ Blocking(s) = {} /\ writes < MaxWrites /\ InBounds(writes + 1, moves)
  /\ req[s].op = "create" \/ value[Current(s)] # 0
  /\ (title = NoContent) = (req[s].op = "delete")
  /\ titles' = Append(titles, title)
  /\ req' = [req EXCEPT ![s].at = "audit", ![s].wrote = Append(@, writes + 1)]
  /\ UNCHANGED <<dialect, value, unaudited, created, overlapped, auditVars, realtimeVars>>

\* It does not, for the record has been deleted since it was read: what the batch has
\* changed so far is taken back.
ChangeMisses(s) ==
  /\ req[s].at = "change" /\ Blocking(s) = {}
  /\ req[s].op # "create" /\ value[Current(s)] = 0
  /\ RollbackLog(s)
  /\ Ends(s)
  /\ UNCHANGED <<dialect, value, unaudited, created, titles, overlapped, realtimeVars>>

\* SQLite gives up after the busy timeout.
ChangeTimesOut(s) ==
  /\ req[s].at = "change" /\ dialect = "sqlite" /\ Blocking(s) # {}
  /\ Ends(s)
  /\ UNCHANGED <<dialect, value, unaudited, created, titles, overlapped, auditVars, realtimeVars>>

\* Two batches wait for each other's rows: PostgreSQL takes one of them back.
Deadlock(s) ==
  /\ req[s].at = "change" /\ dialect = "postgresql"
  /\ \E q \in Blocking(s) : req[q].at = "change" /\ s \in Blocking(q)
  /\ RollbackLog(s)
  /\ Ends(s)
  /\ UNCHANGED <<dialect, value, unaudited, created, titles, overlapped, realtimeVars>>

\* What a write of session s leaves of the record.
NewValue(s, w) == IF req[s].op = "delete" THEN 0 ELSE w

\* The columns whose values differ: updated_at always does, of an update too.
Differing(old, new) == IF Title(old) = Title(new) THEN <<"updated_at">> ELSE <<"title", "updated_at">>

\* The writes that have been passed over, committed or not.
Skips == UNION {unaudited[x] : x \in Records} \cup UNION {{req[q].wrote[i] : i \in req[q].skipped} : q \in Sessions}

\* The audit hook, inside the transaction: the old values are those read at the start.
Audit(s) ==
  LET w == req[s].wrote[req[s].k]
      old == req[s].old[Current(s)]
      columns == Differing(old, NewValue(s, w)) IN
  /\ req[s].at = "audit"
  /\ Compute(s, [i \in DOMAIN columns |->
       [record |-> Current(s), column |-> columns[i], old |-> old, new |-> NewValue(s, w), write |-> w]])
  /\ req' = [req EXCEPT ![s].at = "insert"]
  /\ UNCHANGED <<dialect, value, unaudited, created, titles, overlapped, realtimeVars>>

\* It returns without an entry: the request has no user, the log is switched off, or the hook
\* fails before the entries are flushed, and swallows the error.
AuditSkips(s) ==
  /\ req[s].at = "audit" /\ Cardinality(Skips) < MaxSkips
  /\ req' = [req EXCEPT ![s].at = "insert", ![s].skipped = @ \cup {req[s].k}]
  /\ UNCHANGED <<dialect, value, unaudited, created, titles, overlapped, auditVars, realtimeVars>>

AuditInserts(s) == req[s].at = "insert" /\ InsertEntry(s) /\ UNCHANGED <<recordVars, realtimeVars>>

\* The next record of the batch.
NextRecord(s) ==
  /\ req[s].at = "insert" /\ toInsert[s] = <<>> /\ req[s].k < Len(req[s].records)
  /\ req' = [req EXCEPT ![s].at = "change", ![s].k = @ + 1]
  /\ UNCHANGED <<dialect, value, unaudited, created, titles, overlapped, auditVars, realtimeVars>>

Written(s) ==
  [x \in Records |->
     IF x \in Touched(s) THEN NewValue(s, CHOOSE w \in ToSet(req[s].wrote) :
                                            \E i \in DOMAIN req[s].wrote : req[s].wrote[i] = w /\ req[s].records[i] = x)
     ELSE value[x]]

Passed(s) ==
  [x \in Records |-> unaudited[x] \cup {req[s].wrote[i] : i \in {j \in req[s].skipped : req[s].records[j] = x}}]

\* Faulty variant: the session commits before the last entry of the hook is flushed.
CommitEarly(s) ==
  /\ req[s].at = "insert" /\ Len(toInsert[s]) <= 1
  /\ value' = Written(s) /\ unaudited' = Passed(s)
  /\ req' = [req EXCEPT ![s].at = "publish", ![s].skipped = {}]
  /\ CommitLog(s)
  /\ UNCHANGED <<dialect, created, titles, overlapped, realtimeVars>>

Commit(s) ==
  /\ req[s].at = "insert" /\ toInsert[s] = <<>> /\ req[s].k = Len(req[s].records)
  /\ value' = Written(s) /\ unaudited' = Passed(s)
  /\ req' = [req EXCEPT ![s].at = "publish", ![s].skipped = {}]
  /\ CommitLog(s)
  /\ UNCHANGED <<dialect, created, titles, overlapped, realtimeVars>>

\* A statement or the commit fails, or the request is cancelled.
Rollback(s) ==
  /\ s \in Writing
  /\ RollbackLog(s)
  /\ Ends(s)
  /\ UNCHANGED <<dialect, value, unaudited, created, titles, overlapped, realtimeVars>>

\* After the commit, and outside of the transaction, an event is published for each record.
PublishEvent(s) ==
  /\ req[s].at = "publish"
  /\ Publish(Head(req[s].wrote))
  /\ IF Len(req[s].wrote) = 1 THEN Ends(s) ELSE req' = [req EXCEPT ![s].wrote = Tail(@)]
  /\ UNCHANGED <<dialect, value, unaudited, created, titles, overlapped, auditVars>>

-----------------------------------------------------------------------------
Request(s) ==
  \/ \E xs \in Batches : Create(s, xs) \/ Update(s, xs) \/ Delete(s, xs)
  \/ \E title \in Contents \cup {NoContent} : Change(s, title)
  \/ ChangeMisses(s) \/ ChangeTimesOut(s) \/ Deadlock(s) \/ NextRecord(s)
  \/ Audit(s) \/ AuditSkips(s) \/ AuditInserts(s) \/ Commit(s) \/ Rollback(s) \/ PublishEvent(s)

Next ==
  \/ \E s \in Sessions : Request(s)
  \/ InBounds(writes, moves + 1) /\ ClientMoves /\ UNCHANGED <<recordVars, auditVars>>
  \/ Broadcast /\ UNCHANGED <<recordVars, auditVars>>

Spec == Init /\ [][Next]_vars

-----------------------------------------------------------------------------
EntriesOf(x, column) == {e \in log : e.change.record = x /\ e.change.column = column}
Alone(x) == {x} \notin overlapped

\* verify_integrity_chain finds no error in the committed log: always on SQLite, and on
\* PostgreSQL as long as no two requests have overlapped.  Two transactions of PostgreSQL
\* may read the same latest checksum, and the log then fails the verification for ever.
ChainVerifies == dialect = "sqlite" \/ overlapped = {} => Verifies(log)

\* On either database every entry is linked to an entry with a lower id that is in the log
\* as well, or is the first of its branch: no link points into a rolled back transaction.
LinksAreKept ==
  \A e \in log : e.prev # 0 => \E f \in log : f.sum = e.prev /\ f.id < e.id

\* A write of x without entries has been committed after those that have the entries E.
Overdue(x, E) == \E w \in unaudited[x] : \A e \in E : e.change.write < w

\* The last entry about the updated_at of a record is of its last write, whatever overlaps:
\* the entries are numbered in the order in which the rows were written.  The last one about
\* the title shows the present title as long as no requests for the record have overlapped:
\* an update that puts back what it has read before another one changed it leaves no entry.
\* Both until the audit hook has passed over a later write.
LastEntryIsCurrent ==
  \A x \in Records : \A column \in {"title", "updated_at"} :
    LET E == EntriesOf(x, column) IN
    (column = "updated_at" \/ Alone(x)) /\ ~Overdue(x, E) =>
      /\ value[x] # 0 => E # {}
      /\ E # {} => LET last == LastOf(E).change.new
                   IN  IF column = "title" THEN Title(last) = Title(value[x]) ELSE last = value[x]

\* The old value of an entry is what the entry before it left, unless the audit hook has
\* passed over a write between the two, as long as no requests for the record have
\* overlapped: the old values are read before the row is locked.
OldIsPrevious ==
  \A e \in log : Alone(e.change.record) =>
    LET before == {f \in EntriesOf(e.change.record, "updated_at") : f.change.write < e.change.write}
    IN  \/ e.change.old = IF before = {} THEN 0 ELSE LastOf(before).change.new
        \/ \E w \in unaudited[e.change.record] : w < e.change.write /\ \A f \in before : f.change.write < w

\* What a client hears of is committed, and in the audit log with all the columns that the
\* write was taken to change, unless the audit hook passed over the write: then it is one of
\* those that have been committed without entries.  No write is heard of in part.
HeardIsAudited ==
  \A c \in Clients : \A k \in DOMAIN heard[c] :
    LET E == {e \in log : e.change.write = heard[c][k]} IN
    /\ (E = {}) = (\E x \in Records : heard[c][k] \in unaudited[x])
    /\ \A e \in E : {f.change.column : f \in E} = ToSet(Differing(e.change.old, e.change.new))
=============================================================================
