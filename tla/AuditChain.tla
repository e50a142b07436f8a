----------------------------- MODULE AuditChain -----------------------------
(***************************************************************************)
(* The audit log: entries that each carry a checksum and the checksum of   *)
(* the entry before, written inside the transaction of the change they     *)
(* describe.                                                               *)
(*                                                                         *)
(* A checksum stands for itself: two entries never have the same, so a     *)
(* counter takes the place of the hash.  The modules that describe a       *)
(* transaction (RecordWrites) use the actions below.                       *)
(***************************************************************************)
EXTENDS Integers, Sequences, FiniteSets

CONSTANTS
  Sessions,    \* database sessions, one per request
  Changes,     \* the changes of columns that entries describe
  MaxEntries   \* bound: entries ever computed

ASSUME AuditAssumption == MaxEntries \in Nat

VARIABLES
  log,      \* the committed entries
  own,      \* own[s]: the entries the transaction of s has inserted
  toInsert, \* toInsert[s]: the entries s has computed and not yet inserted
  sums,     \* the number of checksums computed
  ids       \* the number of ids the sequence has given away

auditVars == <<log, own, toInsert, sums, ids>>

Entry == [id : 0..MaxEntries, sum : 1..MaxEntries, prev : 0..MaxEntries, change : Changes]

AuditTypeOK ==
  /\ log \subseteq Entry
  /\ own \in [Sessions -> SUBSET Entry]
  /\ toInsert \in [Sessions -> Seq(Entry)]
  /\ sums \in 0..MaxEntries
  /\ ids \in 0..MaxEntries

AuditInit ==
  /\ log = {}
  /\ own = [s \in Sessions |-> {}]
  /\ toInsert = [s \in Sessions |-> <<>>]
  /\ sums = 0
  /\ ids = 0

\* The entry of E with the highest id.
LastOf(E) == CHOOSE e \in E : \A f \in E : f.id <= e.id

\* Faulty variant: the process remembers the last checksum it has written.
LatestRemembered(s) ==
  LET seen == log \cup UNION {own[q] : q \in Sessions} IN IF seen = {} THEN 0 ELSE LastOf(seen).sum

\* _get_latest_checksum: what session s sees is committed or its own.
LatestChecksum(s) ==
  LET seen == log \cup own[s] IN IF seen = {} THEN 0 ELSE LastOf(seen).sum

\* Faulty variant: the previous hash is not moved on within the batch.
ComputeUnlinked(s, changes) ==
  /\ sums + Len(changes) <= MaxEntries
  /\ sums' = sums + Len(changes)
  /\ toInsert' = [toInsert EXCEPT ![s] = [i \in DOMAIN changes |->
       [id |-> 0, sum |-> sums + i, change |-> changes[i], prev |-> LatestChecksum(s)]]]
  /\ UNCHANGED <<log, own, ids>>

\* create_batch: an entry for each of the changes, linked to the one before, the first to
\* the latest one s sees.
Compute(s, changes) ==
  /\ sums + Len(changes) <= MaxEntries
  /\ sums' = sums + Len(changes)
  /\ toInsert' = [toInsert EXCEPT ![s] = [i \in DOMAIN changes |->
       [id |-> 0, sum |-> sums + i, change |-> changes[i],
        prev |-> IF i = 1 THEN LatestChecksum(s) ELSE sums + i - 1]]]
  /\ UNCHANGED <<log, own, ids>>

\* One row of the batch gets its id.
InsertEntry(s) ==
  /\ toInsert[s] # <<>>
  /\ ids' = ids + 1
  /\ own' = [own EXCEPT ![s] = @ \cup {[Head(toInsert[s]) EXCEPT !.id = ids + 1]}]
  /\ toInsert' = [toInsert EXCEPT ![s] = Tail(@)]
  /\ UNCHANGED <<log, sums>>

CommitLog(s) ==
  /\ log' = log \cup own[s]
  /\ own' = [own EXCEPT ![s] = {}]
  /\ UNCHANGED <<toInsert, sums, ids>>

\* Faulty variant: the entries are written in a transaction of their own.
RollbackLogKeeps(s) ==
  /\ log' = log \cup own[s]
  /\ own' = [own EXCEPT ![s] = {}]
  /\ toInsert' = [toInsert EXCEPT ![s] = <<>>]
  /\ UNCHANGED <<sums, ids>>

RollbackLog(s) ==
  /\ own' = [own EXCEPT ![s] = {}]
  /\ toInsert' = [toInsert EXCEPT ![s] = <<>>]
  /\ UNCHANGED <<log, sums, ids>>

\* verify_integrity_chain, of the entries in E.
Verifies(E) ==
  \A e \in E : LET before == {f \in E : f.id < e.id}
               IN  e.prev = IF before = {} THEN 0 ELSE LastOf(before).sum
=============================================================================
