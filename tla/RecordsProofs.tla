---------------------------- MODULE RecordsProofs ----------------------------
(* Part one: proofs about RecordWrites, for any sessions, records, clients,  *)
(* batches and bounds: how the entries of the audit log are linked (RInv),   *)
(* what they say of the writes (EntryInv), what the clients hear of          *)
(* (HeardInv) and how often (SendInv).                                       *)
(* Part two: proofs about Paging, for any records, rules, filters and page   *)
(* sizes, and wherever the database sorts nulls (WalkInv).                   *)
EXTENDS RecordWrites, Paging, SequenceTheorems, FiniteSetTheorems, WellFoundedInduction, TLAPS

USE AuditAssumption, WritesAssumption

-----------------------------------------------------------------------------
(* The inductive invariant.                                                 *)

Active(s) == req[s].at \notin {"idle", "publish"}

RequestFields == {"at", "op", "records", "k", "old", "wrote", "skipped"}

IsRequest(r) ==
  /\ DOMAIN r = RequestFields
  /\ r.at \in {"idle", "change", "audit", "insert", "publish"}
  /\ r.wrote \in Seq(Nat)
  /\ r.at \in {"audit", "insert", "publish"} => r.wrote # <<>>
  /\ r.at \notin {"idle", "publish"} => ToSet(r.records) # {}

RequestsAreTyped ==
  /\ req = [s \in Sessions |-> req[s]]
  /\ titles \in Seq(Contents \cup {NoContent})
  /\ \A s \in Sessions : IsRequest(req[s])

\* Who has no transaction has no entries; SQLite has one writer, and requests that do not
\* overlap have one as well.
SessionsAreApart ==
  /\ \A s \in Sessions : s \notin Writing => own[s] = {} /\ toInsert[s] = <<>>
  /\ \A s \in Sessions : toInsert[s] # <<>> => req[s].at = "insert"
  /\ dialect = "sqlite" => \A p, q \in Writing : p = q
  /\ overlapped = {} => \A p, q \in Sessions : Active(p) /\ Active(q) => p = q

HasLast(E) == E = {} \/ \E e \in E : \A f \in E : f.id <= e.id

AllEntries == log \cup UNION {own[s] : s \in Sessions}

EntriesAreNumbered ==
  /\ ids \in Nat /\ sums \in Nat
  /\ own = [s \in Sessions |-> own[s]] /\ toInsert = [s \in Sessions |-> toInsert[s]]
  /\ \A e \in AllEntries : e.id \in Nat /\ e.id <= ids /\ e.sum \in Nat /\ e.prev \in Nat
  /\ \A e, f \in AllEntries : e.id = f.id => e = f
  /\ HasLast(log) /\ \A s \in Sessions : HasLast(log \cup own[s])

EntryFields == {"id", "sum", "change", "prev"}

\* Entries that are computed: each is linked to the one before.
IsBatch(batch) ==
  /\ \E S : batch \in Seq(S)
  /\ \A i \in 1..Len(batch) : DOMAIN batch[i] = EntryFields /\ batch[i].sum \in Nat /\ batch[i].prev \in Nat
  /\ \A i \in 1..Len(batch) - 1 : batch[i + 1].prev = batch[i].sum

Linked(e, E) == e.prev # 0 => \E f \in E : f.sum = e.prev /\ f.id < e.id

LinksAreSound ==
  /\ \A s \in Sessions :
       /\ IsBatch(toInsert[s])
       /\ toInsert[s] # <<>> /\ Head(toInsert[s]).prev # 0 =>
            \E f \in log \cup own[s] : f.sum = Head(toInsert[s]).prev
       /\ \A e \in own[s] : Linked(e, log \cup own[s])
  /\ LinksAreKept

\* One writer at a time.
Serial == dialect = "sqlite" \/ overlapped = {}

ChainIsSound ==
  Serial =>
    /\ Verifies(log)
    /\ \A s \in Sessions :
         /\ Verifies(log \cup own[s])
         /\ toInsert[s] # <<>> => Head(toInsert[s]).prev = LatestChecksum(s)

RInv == RequestsAreTyped /\ SessionsAreApart /\ EntriesAreNumbered /\ LinksAreSound /\ ChainIsSound

AuditParts == EntriesAreNumbered /\ LinksAreSound /\ ChainIsSound

-----------------------------------------------------------------------------
(* The audit log.                                                           *)

LEMMA LastIsThere ==
  ASSUME NEW E, HasLast(E), E # {}
  PROVE  LastOf(E) \in E /\ \A f \in E : f.id <= LastOf(E).id
BY DEF HasLast, LastOf

\* The entry that gets the highest id is the last.
LEMMA LastIsNew ==
  ASSUME NEW E, NEW n, n.id \in Nat, \A f \in E : f.id \in Nat /\ f.id < n.id
  PROVE  LastOf(E \cup {n}) = n /\ HasLast(E \cup {n})
<1>1. \A f \in E \cup {n} : f.id <= n.id
  OBVIOUS
<1>2. HasLast(E \cup {n})
  BY <1>1 DEF HasLast
<1>3. LastOf(E \cup {n}) \in E \cup {n} /\ \A f \in E \cup {n} : f.id <= LastOf(E \cup {n}).id
  BY <1>2, LastIsThere
<1>4. ASSUME NEW m \in E \cup {n}, \A f \in E \cup {n} : f.id <= m.id PROVE m = n
  <2>1. m \in E => m.id \in Nat /\ m.id < n.id /\ n.id <= m.id
    BY <1>4
  <2>. QED
    BY <2>1
<1>5. LastOf(E \cup {n}) = n
  BY <1>3, <1>4
<1>. QED
  BY <1>2, <1>5

\* A chain that grows at its end.
LEMMA VerifiesExtended ==
  ASSUME NEW E, NEW n, n.id \in Nat, \A f \in E : f.id \in Nat /\ f.id < n.id,
         Verifies(E), n.prev = IF E = {} THEN 0 ELSE LastOf(E).sum
  PROVE  Verifies(E \cup {n})
<1>1. ASSUME NEW e \in E PROVE {f \in E \cup {n} : f.id < e.id} = {f \in E : f.id < e.id}
  OBVIOUS
<1>2. {f \in E \cup {n} : f.id < n.id} = E
  OBVIOUS
<1>. QED
  BY <1>1, <1>2 DEF Verifies

LEMMA InsertKeepsAudit ==
  ASSUME EntriesAreNumbered, LinksAreSound, ChainIsSound, SessionsAreApart,
         NEW s \in Sessions, req[s].at = "insert", req[s].wrote # <<>>,
         InsertEntry(s), UNCHANGED <<dialect, overlapped>>
  PROVE  AuditParts'
<1>. DEFINE t == toInsert[s]
            n == [Head(t) EXCEPT !.id = ids + 1]
            E == log \cup own[s]
<1>1. /\ t # <<>> /\ ids' = ids + 1 /\ log' = log /\ sums' = sums
      /\ own' = [own EXCEPT ![s] = @ \cup {n}] /\ toInsert' = [toInsert EXCEPT ![s] = Tail(t)]
  BY DEF InsertEntry
<1>b. IsBatch(t)
  BY DEF LinksAreSound
<1>2. PICK S : t \in Seq(S)
  BY <1>b DEF IsBatch
<1>3. /\ Head(t) = t[1] /\ Len(t) \in Nat \ {0} /\ Tail(t) \in Seq(S) /\ Len(Tail(t)) = Len(t) - 1
      /\ \A i \in 1..Len(t) - 1 : Tail(t)[i] = t[i + 1]
  BY <1>1, <1>2
<1>4. DOMAIN Head(t) = EntryFields /\ Head(t).sum \in Nat /\ Head(t).prev \in Nat
  BY <1>3, <1>b DEF IsBatch
<1>5. n.id = ids + 1 /\ n.sum = Head(t).sum /\ n.prev = Head(t).prev /\ n.sum \in Nat /\ n.prev \in Nat
  BY <1>4 DEF EntryFields
<1>6. E \cup {n} = log' \cup own'[s] /\ own'[s] = own[s] \cup {n} /\ toInsert'[s] = Tail(t)
  BY <1>1 DEF EntriesAreNumbered
<1>7. \A q \in Sessions \ {s} : own'[q] = own[q] /\ toInsert'[q] = toInsert[q]
  BY <1>1 DEF EntriesAreNumbered
<1>8. ids \in Nat /\ \A f \in AllEntries : f.id \in Nat /\ f.id <= ids /\ f.sum \in Nat /\ f.prev \in Nat
  BY DEF EntriesAreNumbered
<1>9. E \subseteq AllEntries
  BY DEF AllEntries
<1>10. AllEntries' = AllEntries \cup {n}
  BY <1>1, <1>6, <1>7 DEF AllEntries
<1>. HIDE DEF n
<1>e. n.id \in Nat /\ \A f \in E : f.id \in Nat /\ f.id < n.id
  BY <1>5, <1>8, <1>9
<1>f. LastOf(E \cup {n}) = n /\ HasLast(E \cup {n})
  BY <1>e, LastIsNew
<1>11. EntriesAreNumbered'
  <2>1. \A e \in AllEntries' : e.id \in Nat /\ e.id <= ids' /\ e.sum \in Nat /\ e.prev \in Nat
    BY <1>1, <1>5, <1>8, <1>10
  <2>2. \A e, f \in AllEntries' : e.id = f.id => e = f
    BY <1>5, <1>8, <1>10 DEF EntriesAreNumbered
  <2>3. HasLast(log' \cup own'[s])
    BY <1>6, <1>f
  <2>4. \A q \in Sessions : HasLast(log' \cup own'[q])
    BY <1>1, <1>7, <2>3 DEF EntriesAreNumbered
  <2>5. own' = [q \in Sessions |-> own'[q]] /\ toInsert' = [q \in Sessions |-> toInsert'[q]]
    BY <1>1 DEF EntriesAreNumbered
  <2>6. ids' \in Nat /\ sums' \in Nat /\ HasLast(log)'
    BY <1>1, <1>8 DEF EntriesAreNumbered, HasLast
  <2>7. \A q \in Sessions : HasLast(log \cup own[q])'
    BY <2>4 DEF HasLast
  <2>. HIDE DEF E
  <2>. QED
    BY <2>1, <2>2, <2>5, <2>6, <2>7 DEF EntriesAreNumbered
<1>12. LinksAreSound'
  <2>1. IsBatch(toInsert'[s])
    <3>1. \A i \in 1..Len(Tail(t)) : DOMAIN Tail(t)[i] = EntryFields /\ Tail(t)[i].sum \in Nat /\ Tail(t)[i].prev \in Nat
      <4>1. \A i \in 1..Len(Tail(t)) : i + 1 \in 1..Len(t) /\ Tail(t)[i] = t[i + 1]
        BY <1>3
      <4>2. \A i \in 1..Len(t) : DOMAIN t[i] = EntryFields /\ t[i].sum \in Nat /\ t[i].prev \in Nat
        BY <1>b DEF IsBatch
      <4>. QED
        BY <4>1, <4>2
    <3>2. \A i \in 1..Len(Tail(t)) - 1 : Tail(t)[i + 1].prev = Tail(t)[i].sum
      <4>1. SUFFICES ASSUME NEW i \in 1..Len(Tail(t)) - 1 PROVE Tail(t)[i + 1].prev = Tail(t)[i].sum
        OBVIOUS
      <4>2. Tail(t)[i + 1] = t[i + 2] /\ Tail(t)[i] = t[i + 1]
        BY <1>3
      <4>3. t[(i + 1) + 1].prev = t[i + 1].sum
        BY <1>3, <1>b DEF IsBatch
      <4>. QED
        BY <4>2, <4>3
    <3>. QED
      BY <1>3, <1>6, <3>1, <3>2 DEF IsBatch
  <2>2. toInsert'[s] # <<>> => \E f \in log' \cup own'[s] : f.sum = Head(toInsert'[s]).prev
    <3>1. ASSUME Tail(t) # <<>> PROVE Head(Tail(t)).prev = n.sum
      <4>1. Head(Tail(t)) = t[2] /\ 1 \in 1..Len(t) - 1
        BY <1>3, <3>1
      <4>2. t[1 + 1].prev = t[1].sum
        BY <4>1, <1>b DEF IsBatch
      <4>. QED
        BY <1>3, <1>5, <4>1, <4>2
    <3>. QED
      BY <1>6, <3>1
  <2>3. \A e \in own'[s] : Linked(e, log' \cup own'[s])
    <3>1. \A e \in own[s] : Linked(e, E \cup {n})
      BY DEF LinksAreSound, Linked
    <3>2. Linked(n, E \cup {n})
      BY <1>1, <1>5, <1>8, <1>9 DEF LinksAreSound, Linked
    <3>. QED
      BY <1>6, <3>1, <3>2
  <2>4. ASSUME NEW q \in Sessions \ {s}
        PROVE  /\ IsBatch(toInsert'[q])
               /\ toInsert'[q] # <<>> /\ Head(toInsert'[q]).prev # 0 =>
                    \E f \in log' \cup own'[q] : f.sum = Head(toInsert'[q]).prev
               /\ \A e \in own'[q] : Linked(e, log' \cup own'[q])
    <3>1. toInsert'[q] = toInsert[q] /\ own'[q] = own[q] /\ log' = log
      BY <1>1, <1>7
    <3>. QED
      BY <3>1 DEF LinksAreSound
  <2>5. LinksAreKept'
    BY <1>1 DEF LinksAreSound, LinksAreKept
  <2>. QED
    BY <2>1, <2>2, <2>3, <2>4, <2>5 DEF LinksAreSound
<1>13. ChainIsSound'
  <2>. SUFFICES ASSUME Serial PROVE /\ Verifies(log')
                                    /\ \A q \in Sessions :
                                         /\ Verifies(log' \cup own'[q])
                                         /\ toInsert'[q] # <<>> => Head(toInsert'[q]).prev = LatestChecksum(q)'
    BY DEF ChainIsSound, Serial
  <2>1. Verifies(log' \cup own'[s])
    <3>1. n.prev = IF E = {} THEN 0 ELSE LastOf(E).sum
      BY <1>1, <1>5 DEF ChainIsSound, LatestChecksum
    <3>2. Verifies(E)
      BY DEF ChainIsSound
    <3>3. Verifies(E \cup {n})
      BY <1>e, <3>1, <3>2, VerifiesExtended
    <3>. QED
      BY <1>6, <3>3
  <2>2. toInsert'[s] # <<>> => Head(toInsert'[s]).prev = LatestChecksum(s)'
    <3>1. ASSUME Tail(t) # <<>> PROVE Head(Tail(t)).prev = n.sum
      <4>1. Head(Tail(t)) = t[2] /\ 1 \in 1..Len(t) - 1
        BY <1>3, <3>1
      <4>2. t[1 + 1].prev = t[1].sum
        BY <4>1, <1>b DEF IsBatch
      <4>. QED
        BY <1>3, <1>5, <4>1, <4>2
    <3>2. LatestChecksum(s)' = n.sum
      BY <1>6, <1>f DEF LatestChecksum
    <3>. QED
      BY <1>6, <3>1, <3>2
  <2>3. \A q \in Sessions \ {s} : LatestChecksum(q)' = LatestChecksum(q)
    BY <1>1, <1>7 DEF LatestChecksum
  <2>. QED
    BY <1>1, <1>7, <2>1, <2>2, <2>3 DEF ChainIsSound
<1>. QED
  BY <1>11, <1>12, <1>13 DEF AuditParts

\* What has been computed is linked to the latest entry that is seen.
LEMMA ComputeKeepsAudit ==
  ASSUME EntriesAreNumbered, LinksAreSound, ChainIsSound, NEW s \in Sessions,
         NEW changes, NEW n \in {1, 2}, DOMAIN changes = 1..n, Len(changes) = n,
         Compute(s, changes), UNCHANGED <<dialect, overlapped>>
  PROVE  AuditParts'
<1>. DEFINE E == log \cup own[s]
            t == [i \in 1..n |-> [id |-> 0, sum |-> sums + i, change |-> changes[i],
                                  prev |-> IF i = 1 THEN LatestChecksum(s) ELSE sums + i - 1]]
<1>1. /\ UNCHANGED <<log, own, ids>> /\ sums' = sums + n
      /\ toInsert' = [toInsert EXCEPT ![s] = t]
  BY DEF Compute
<1>2. sums \in Nat /\ ids \in Nat /\ E \subseteq AllEntries
  BY DEF EntriesAreNumbered, AllEntries
<1>3. /\ LatestChecksum(s) \in Nat
      /\ LatestChecksum(s) # 0 => \E f \in E : f.sum = LatestChecksum(s)
  <2>1. CASE E = {}
    BY <2>1 DEF LatestChecksum
  <2>2. CASE E # {}
    <3>1. LastOf(E) \in E
      BY <2>2, LastIsThere DEF EntriesAreNumbered
    <3>. QED
      BY <1>2, <2>2, <3>1 DEF LatestChecksum, EntriesAreNumbered
  <2>. QED
    BY <2>1, <2>2
<1>a. t \in Seq({t[i] : i \in 1..n})
  BY IsASeq
<1>5. /\ \A i \in 1..n : DOMAIN t[i] = EntryFields /\ t[i].sum \in Nat /\ t[i].prev \in Nat /\ t[i].sum = sums + i
      /\ t[1].prev = LatestChecksum(s)
      /\ n = 2 => t[2].prev = sums + 1
  BY <1>2, <1>3 DEF EntryFields
<1>b. DOMAIN t = 1..n
  OBVIOUS
<1>. HIDE DEF t
<1>4. /\ \E S : t \in Seq(S)
      /\ Len(t) = n /\ t # <<>> /\ Head(t) = t[1]
  <2>1. Len(t) = n
    BY <1>a, <1>b, LenProperties
  <2>2. t # <<>> /\ Head(t) = t[1]
    BY <1>a, <2>1
  <2>. QED
    BY <1>a, <2>1, <2>2
<1>6. IsBatch(t)
  <2>1. \A i \in 1..Len(t) - 1 : t[i + 1].prev = t[i].sum
    <3>1. CASE n = 1
      BY <1>4, <3>1
    <3>2. CASE n = 2
      <4>1. t[1 + 1].prev = t[1].sum
        BY <1>5, <3>2
      <4>2. \A i \in 1..Len(t) - 1 : i = 1
        BY <1>4, <3>2
      <4>. QED
        BY <4>1, <4>2
    <3>. QED
      BY <3>1, <3>2
  <2>. QED
    BY <1>4, <1>5, <2>1 DEF IsBatch
<1>7. toInsert'[s] = t /\ (\A q \in Sessions \ {s} : toInsert'[q] = toInsert[q]) /\ toInsert' = [q \in Sessions |-> toInsert'[q]]
  BY <1>1 DEF EntriesAreNumbered
<1>8. AllEntries' = AllEntries
  BY <1>1 DEF AllEntries
<1>9. EntriesAreNumbered'
  BY <1>1, <1>2, <1>7, <1>8 DEF EntriesAreNumbered
<1>10. LinksAreSound'
  <2>1. ASSUME NEW q \in Sessions
        PROVE  /\ IsBatch(toInsert'[q])
               /\ toInsert'[q] # <<>> /\ Head(toInsert'[q]).prev # 0 =>
                    \E f \in log' \cup own'[q] : f.sum = Head(toInsert'[q]).prev
               /\ \A e \in own'[q] : Linked(e, log' \cup own'[q])
    <3>1. CASE q = s
      BY <1>1, <1>3, <1>4, <1>5, <1>6, <1>7, <3>1 DEF LinksAreSound
    <3>2. CASE q # s
      <4>1. toInsert'[q] = toInsert[q] /\ own'[q] = own[q] /\ log' = log
        BY <1>1, <1>7, <3>2
      <4>. QED
        BY <4>1 DEF LinksAreSound
    <3>. QED
      BY <3>1, <3>2
  <2>. QED
    BY <1>1, <2>1 DEF LinksAreSound, LinksAreKept
<1>11. ChainIsSound'
  <2>. SUFFICES ASSUME Serial PROVE /\ Verifies(log')
                                    /\ \A q \in Sessions :
                                         /\ Verifies(log' \cup own'[q])
                                         /\ toInsert'[q] # <<>> => Head(toInsert'[q]).prev = LatestChecksum(q)'
    BY DEF ChainIsSound, Serial
  <2>1. \A q \in Sessions : LatestChecksum(q)' = LatestChecksum(q)
    BY <1>1 DEF LatestChecksum
  <2>2. Head(toInsert'[s]).prev = LatestChecksum(s)
    BY <1>4, <1>5, <1>7
  <2>. QED
    BY <1>1, <1>7, <2>1, <2>2 DEF ChainIsSound
<1>. QED
  BY <1>9, <1>10, <1>11 DEF AuditParts

\* A commit adds what the transaction has linked.
LEMMA CommitKeepsAudit ==
  ASSUME EntriesAreNumbered, LinksAreSound, ChainIsSound, SessionsAreApart,
         NEW s \in Sessions, s \in Writing, toInsert[s] = <<>>,
         CommitLog(s), UNCHANGED <<dialect, overlapped>>
  PROVE  AuditParts'
<1>1. /\ log' = log \cup own[s] /\ UNCHANGED <<toInsert, sums, ids>>
      /\ own' = [own EXCEPT ![s] = {}]
  BY DEF CommitLog
<1>2. own'[s] = {} /\ (\A q \in Sessions \ {s} : own'[q] = own[q]) /\ own' = [q \in Sessions |-> own'[q]]
  BY <1>1 DEF EntriesAreNumbered
<1>3. AllEntries' = AllEntries
  BY <1>1, <1>2 DEF AllEntries
<1>4. \A e \in AllEntries : e.id \in Nat
  BY DEF EntriesAreNumbered
<1>5. EntriesAreNumbered'
  <2>1. HasLast(log') /\ HasLast(log' \cup own'[s])
    BY <1>1, <1>2 DEF EntriesAreNumbered
  <2>2. ASSUME NEW q \in Sessions \ {s} PROVE HasLast(log' \cup own'[q])
    <3>1. HasLast(log \cup own[s]) /\ HasLast(log \cup own[q])
      BY DEF EntriesAreNumbered
    <3>2. log' \cup own'[q] = (log \cup own[s]) \cup (log \cup own[q])
      BY <1>1, <1>2
    <3>3. \A e \in (log \cup own[s]) \cup (log \cup own[q]) : e.id \in Nat
      BY <1>4 DEF AllEntries
    <3>4. ASSUME NEW A, NEW B, HasLast(A), HasLast(B), \A e \in A \cup B : e.id \in Nat PROVE HasLast(A \cup B)
      <4>1. CASE A = {} \/ B = {}
        <5>1. A \cup B = A \/ A \cup B = B
          BY <4>1
        <5>. QED
          BY <3>4, <5>1
      <4>2. CASE A # {} /\ B # {}
        <5>1. PICK a \in A : \A f \in A : f.id <= a.id
          BY <3>4, <4>2 DEF HasLast
        <5>2. PICK b \in B : \A f \in B : f.id <= b.id
          BY <3>4, <4>2 DEF HasLast
        <5>3. CASE a.id <= b.id
          <6>1. \A f \in A \cup B : f.id <= b.id
            BY <3>4, <5>1, <5>2, <5>3
          <6>. QED
            BY <6>1 DEF HasLast
        <5>4. CASE b.id <= a.id
          <6>1. \A f \in A \cup B : f.id <= a.id
            BY <3>4, <5>1, <5>2, <5>4
          <6>. QED
            BY <6>1 DEF HasLast
        <5>. QED
          BY <3>4, <5>3, <5>4
      <4>. QED
        BY <4>1, <4>2
    <3>5. HasLast((log \cup own[s]) \cup (log \cup own[q]))
      BY <3>1, <3>3, <3>4
    <3>. QED
      BY <3>2, <3>5
  <2>. QED
    BY <1>1, <1>2, <1>3, <2>1, <2>2 DEF EntriesAreNumbered
<1>6. LinksAreSound'
  <2>1. ASSUME NEW q \in Sessions
        PROVE  /\ IsBatch(toInsert'[q])
               /\ toInsert'[q] # <<>> /\ Head(toInsert'[q]).prev # 0 =>
                    \E f \in log' \cup own'[q] : f.sum = Head(toInsert'[q]).prev
               /\ \A e \in own'[q] : Linked(e, log' \cup own'[q])
    <3>1. toInsert'[q] = toInsert[q] /\ log \cup own[q] \subseteq log' \cup own'[q] /\ own'[q] \subseteq own[q]
      BY <1>1, <1>2
    <3>. QED
      BY <3>1 DEF LinksAreSound, Linked
  <2>2. LinksAreKept'
    BY <1>1 DEF LinksAreSound, LinksAreKept, Linked
  <2>. QED
    BY <2>1, <2>2 DEF LinksAreSound
<1>7. ChainIsSound'
  <2>. SUFFICES ASSUME Serial PROVE /\ Verifies(log')
                                    /\ \A q \in Sessions :
                                         /\ Verifies(log' \cup own'[q])
                                         /\ toInsert'[q] # <<>> => Head(toInsert'[q]).prev = LatestChecksum(q)'
    BY DEF ChainIsSound, Serial
  <2>1. Verifies(log')
    BY <1>1 DEF ChainIsSound
  <2>2. ASSUME NEW q \in Sessions PROVE own'[q] = {} /\ toInsert'[q] = <<>>
    <3>1. q # s => q \notin Writing
      BY DEF SessionsAreApart, Serial, Active, Writing
    <3>. QED
      BY <1>1, <1>2, <3>1 DEF SessionsAreApart
  <2>3. ASSUME NEW q \in Sessions PROVE Verifies(log' \cup own'[q])
    <3>1. log' \cup own'[q] = log'
      BY <2>2
    <3>. QED
      BY <2>1, <3>1
  <2>. QED
    BY <2>1, <2>2, <2>3
<1>. QED
  BY <1>5, <1>6, <1>7 DEF AuditParts

\* What is taken back leaves no link behind, for nobody else has seen it.
LEMMA RollbackKeepsAudit ==
  ASSUME EntriesAreNumbered, LinksAreSound, ChainIsSound,
         NEW s \in Sessions, RollbackLog(s), UNCHANGED <<dialect, overlapped>>
  PROVE  AuditParts'
<1>1. /\ UNCHANGED <<log, sums, ids>>
      /\ own' = [own EXCEPT ![s] = {}] /\ toInsert' = [toInsert EXCEPT ![s] = <<>>]
  BY DEF RollbackLog
<1>2. /\ own'[s] = {} /\ (\A q \in Sessions \ {s} : own'[q] = own[q]) /\ own' = [q \in Sessions |-> own'[q]]
      /\ toInsert'[s] = <<>> /\ (\A q \in Sessions \ {s} : toInsert'[q] = toInsert[q])
      /\ toInsert' = [q \in Sessions |-> toInsert'[q]]
  BY <1>1 DEF EntriesAreNumbered
<1>3. AllEntries' \subseteq AllEntries
  BY <1>1, <1>2 DEF AllEntries
<1>4. EntriesAreNumbered'
  <2>1. \A q \in Sessions : HasLast(log' \cup own'[q])
    <3>1. log' \cup own'[s] = log
      BY <1>1, <1>2
    <3>. QED
      BY <1>1, <1>2, <3>1 DEF EntriesAreNumbered
  <2>. QED
    BY <1>1, <1>2, <1>3, <2>1 DEF EntriesAreNumbered
<1>5. IsBatch(<<>>)
  BY DEF IsBatch
<1>6. LinksAreSound'
  <2>1. ASSUME NEW q \in Sessions
        PROVE  /\ IsBatch(toInsert'[q])
               /\ toInsert'[q] # <<>> /\ Head(toInsert'[q]).prev # 0 =>
                    \E f \in log' \cup own'[q] : f.sum = Head(toInsert'[q]).prev
               /\ \A e \in own'[q] : Linked(e, log' \cup own'[q])
    <3>1. CASE q = s
      BY <1>2, <1>5, <3>1
    <3>2. CASE q # s
      <4>1. toInsert'[q] = toInsert[q] /\ own'[q] = own[q] /\ log' = log
        BY <1>1, <1>2, <3>2
      <4>. QED
        BY <4>1 DEF LinksAreSound
    <3>. QED
      BY <3>1, <3>2
  <2>. QED
    BY <1>1, <2>1 DEF LinksAreSound, LinksAreKept
<1>7. ChainIsSound'
  <2>. SUFFICES ASSUME Serial PROVE /\ Verifies(log')
                                    /\ \A q \in Sessions :
                                         /\ Verifies(log' \cup own'[q])
                                         /\ toInsert'[q] # <<>> => Head(toInsert'[q]).prev = LatestChecksum(q)'
    BY DEF ChainIsSound, Serial
  <2>1. log' \cup own'[s] = log
    BY <1>1, <1>2
  <2>2. \A q \in Sessions \ {s} : LatestChecksum(q)' = LatestChecksum(q)
    BY <1>1, <1>2 DEF LatestChecksum
  <2>3. ASSUME NEW q \in Sessions
        PROVE  /\ Verifies(log' \cup own'[q])
               /\ toInsert'[q] # <<>> => Head(toInsert'[q]).prev = LatestChecksum(q)'
    <3>1. CASE q = s
      <4>1. Verifies(log)
        BY DEF ChainIsSound
      <4>2. log' \cup own'[q] = log
        BY <2>1, <3>1
      <4>. QED
        BY <1>2, <3>1, <4>1, <4>2
    <3>2. CASE q # s
      <4>1. toInsert'[q] = toInsert[q] /\ own'[q] = own[q] /\ log' = log /\ LatestChecksum(q)' = LatestChecksum(q)
        BY <1>1, <1>2, <2>2, <3>2
      <4>. QED
        BY <4>1 DEF ChainIsSound
    <3>. QED
      BY <3>1, <3>2
  <2>4. Verifies(log')
    BY <1>1 DEF ChainIsSound
  <2>. QED
    BY <2>3, <2>4
<1>. QED
  BY <1>4, <1>6, <1>7 DEF AuditParts

\* Steps that leave the log alone; requests that begin may come to overlap.
LEMMA QuietKeepsAudit ==
  ASSUME EntriesAreNumbered, LinksAreSound, ChainIsSound, UNCHANGED <<auditVars, dialect>>,
         overlapped \subseteq overlapped'
  PROVE  AuditParts'
<1>1. UNCHANGED <<log, own, toInsert, sums, ids, dialect>>
  BY DEF auditVars
<1>2. Serial' => Serial
  BY <1>1 DEF Serial
<1>3. EntriesAreNumbered' /\ LinksAreSound'
  <2>1. EntriesAreNumbered'
    <3>1. AllEntries' = AllEntries
      BY <1>1 DEF AllEntries
    <3>. QED
      BY <1>1, <3>1 DEF EntriesAreNumbered
  <2>2. ASSUME NEW q \in Sessions
        PROVE  /\ IsBatch(toInsert'[q])
               /\ toInsert'[q] # <<>> /\ Head(toInsert'[q]).prev # 0 =>
                    \E f \in log' \cup own'[q] : f.sum = Head(toInsert'[q]).prev
               /\ \A e \in own'[q] : Linked(e, log' \cup own'[q])
    BY <1>1 DEF LinksAreSound
  <2>. QED
    BY <1>1, <2>1, <2>2 DEF LinksAreSound, LinksAreKept
<1>4. ChainIsSound'
  BY <1>1, <1>2 DEF ChainIsSound, LatestChecksum
<1>. QED
  BY <1>3, <1>4 DEF AuditParts

-----------------------------------------------------------------------------
(* The requests.                                                            *)

LEMMA RequestIsReplaced ==
  ASSUME RequestsAreTyped, NEW s \in Sessions, NEW r, IsRequest(r), req' = [req EXCEPT ![s] = r],
         titles' \in Seq(Contents \cup {NoContent})
  PROVE  RequestsAreTyped' /\ req'[s] = r /\ \A q \in Sessions \ {s} : req'[q] = req[q]
<1>1. req'[s] = r /\ (\A q \in Sessions \ {s} : req'[q] = req[q]) /\ req' = [q \in Sessions |-> req'[q]]
  BY DEF RequestsAreTyped
<1>2. ASSUME NEW q \in Sessions PROVE IsRequest(req'[q])
  <2>1. CASE q = s
    BY <1>1, <2>1
  <2>2. CASE q # s
    BY <1>1, <2>2 DEF RequestsAreTyped
  <2>. QED
    BY <2>1, <2>2
<1>. QED
  BY <1>1, <1>2 DEF RequestsAreTyped

\* What a step of session s has to respect.
StepIsApart(s) ==
  /\ s \notin Writing' => own'[s] = {} /\ toInsert'[s] = <<>>
  /\ toInsert'[s] # <<>> => req'[s].at = "insert"
  /\ dialect = "sqlite" /\ s \in Writing' => s \in Writing \/ Writing \subseteq {s}
  /\ overlapped' = {} /\ Active(s)' => Active(s) \/ \A q \in Sessions \ {s} : ~Active(q)

LEMMA SessionsStayApart ==
  ASSUME SessionsAreApart, NEW s \in Sessions, StepIsApart(s),
         \A q \in Sessions \ {s} : req'[q] = req[q] /\ own'[q] = own[q] /\ toInsert'[q] = toInsert[q],
         dialect' = dialect, overlapped \subseteq overlapped'
  PROVE  SessionsAreApart'
<1>1. \A q \in Sessions \ {s} : (q \in Writing' <=> q \in Writing) /\ (Active(q)' <=> Active(q))
  BY DEF Writing, Active
<1>2. ASSUME NEW q \in Sessions
      PROVE  (q \notin Writing' => own'[q] = {} /\ toInsert'[q] = <<>>) /\ (toInsert'[q] # <<>> => req'[q].at = "insert")
  <2>1. CASE q = s
    BY <2>1 DEF StepIsApart
  <2>2. CASE q # s
    BY <1>1, <2>2 DEF SessionsAreApart
  <2>. QED
    BY <2>1, <2>2
<1>3. ASSUME dialect' = "sqlite" PROVE \A p, q \in Writing' : p = q
  <2>1. \A p, q \in Writing : p = q
    BY <1>3 DEF SessionsAreApart
  <2>2. Writing' \subseteq Sessions
    BY DEF Writing
  <2>3. s \in Writing' => s \in Writing \/ Writing \subseteq {s}
    BY <1>3 DEF StepIsApart
  <2>. QED
    BY <1>1, <2>1, <2>2, <2>3
<1>4. ASSUME overlapped' = {} PROVE \A p, q \in Sessions : Active(p)' /\ Active(q)' => p = q
  <2>1. \A p, q \in Sessions : Active(p) /\ Active(q) => p = q
    BY <1>4 DEF SessionsAreApart
  <2>2. Active(s)' => Active(s) \/ \A q \in Sessions \ {s} : ~Active(q)
    BY <1>4 DEF StepIsApart
  <2>. QED
    BY <1>1, <2>1, <2>2
<1>. QED
  BY <1>2, <1>3, <1>4 DEF SessionsAreApart

\* A request that begins beside another one overlaps it.
LEMMA BesideIsSeen ==
  ASSUME RequestsAreTyped, NEW xs, ToSet(xs) # {}, Beside(xs) = {}
  PROVE  \A q \in Sessions : ~Active(q)
<1>1. SUFFICES ASSUME NEW q \in Sessions, Active(q) PROVE FALSE
  OBVIOUS
<1>2. ToSet(req[q].records) # {}
  BY <1>1 DEF RequestsAreTyped, IsRequest, Active
<1>3. PICK x, z : x \in ToSet(xs) /\ z \in ToSet(req[q].records)
  BY <1>2
<1>4. z \in UNION {ToSet(req[r].records) : r \in {p \in Sessions : req[p].at \notin {"idle", "publish"}}}
  BY <1>1, <1>3 DEF Active
<1>5. {x, z} \in Beside(xs)
  <2>. DEFINE Z == UNION {ToSet(req[r].records) : r \in {p \in Sessions : req[p].at \notin {"idle", "publish"}}}
  <2>. DEFINE P == {{a, b} : a \in ToSet(xs), b \in Z}
  <2>1. Beside(xs) = P
    BY DEF Beside
  <2>2. x \in ToSet(xs) /\ z \in Z
    BY <1>3, <1>4
  <2>. HIDE DEF Z
  <2>3. {x, z} \in P
    BY <2>2
  <2>. HIDE DEF P
  <2>. QED
    BY <2>1, <2>3
<1>. QED
  BY <1>5

RequestParts == RequestsAreTyped /\ SessionsAreApart

LEMMA StartIsSound ==
  ASSUME RInv, NEW s \in Sessions, NEW op, NEW xs \in Batches, Start(s, op, xs)
  PROVE  RequestParts'
<1>. DEFINE r == [Idle EXCEPT !.at = "change", !.op = op, !.records = xs,
                              !.old = [x \in Records |-> IF x \in ToSet(xs) THEN value[x] ELSE 0]]
<1>1. /\ req[s].at = "idle" /\ req' = [req EXCEPT ![s] = r] /\ overlapped' = overlapped \cup Beside(xs)
      /\ UNCHANGED <<dialect, titles, own, toInsert>>
  BY DEF Start, auditVars
<1>2. ToSet(xs) # {}
  <2>1. PICK n \in 1..MaxBatch : xs \in [1..n -> Records]
    BY DEF Batches
  <2>2. 1 \in DOMAIN xs
    BY <2>1
  <2>. QED
    BY <2>2 DEF ToSet
<1>3. r.at = "change" /\ r.records = xs /\ r.wrote = <<>> /\ DOMAIN r = RequestFields
  BY DEF Idle, RequestFields
<1>. HIDE DEF r
<1>4. IsRequest(r)
  BY <1>2, <1>3 DEF IsRequest
<1>5. RequestsAreTyped' /\ req'[s] = r /\ \A q \in Sessions \ {s} : req'[q] = req[q]
  BY <1>1, <1>4, RequestIsReplaced DEF RInv, RequestsAreTyped
<1>6. StepIsApart(s)
  <2>1. s \notin Writing /\ s \notin Writing'
    BY <1>1, <1>3, <1>5 DEF Writing
  <2>2. overlapped' = {} => \A q \in Sessions : ~Active(q)
    <3>1. overlapped' = {} => Beside(xs) = {}
      BY <1>1
    <3>. QED
      BY <1>2, <3>1, BesideIsSeen DEF RInv
  <2>3. own'[s] = {} /\ toInsert'[s] = <<>>
    BY <1>1, <2>1 DEF RInv, SessionsAreApart
  <2>. QED
    BY <2>1, <2>2, <2>3 DEF StepIsApart
<1>7. overlapped \subseteq overlapped'
  BY <1>1
<1>8. SessionsAreApart'
  BY <1>1, <1>5, <1>6, <1>7, SessionsStayApart DEF RInv
<1>. QED
  BY <1>5, <1>8 DEF RequestParts

\* A request that goes on.
LEMMA RequestGoesOn ==
  ASSUME RInv, NEW s \in Sessions, Active(s), NEW r, IsRequest(r), req' = [req EXCEPT ![s] = r],
         titles' \in Seq(Contents \cup {NoContent}),
         r.at \in {"change", "audit", "insert"},
         \A q \in Sessions \ {s} : own'[q] = own[q] /\ toInsert'[q] = toInsert[q],
         toInsert'[s] # <<>> => r.at = "insert",
         r.wrote = <<>> => own'[s] = {} /\ toInsert'[s] = <<>>,
         dialect = "sqlite" /\ r.wrote # <<>> => s \in Writing \/ Writing \subseteq {s},
         UNCHANGED <<dialect, overlapped>>
  PROVE  RequestParts'
<1>1. RequestsAreTyped' /\ req'[s] = r /\ \A q \in Sessions \ {s} : req'[q] = req[q]
  BY RequestIsReplaced DEF RInv
<1>2. s \in Writing' <=> r.wrote # <<>>
  BY <1>1 DEF Writing
<1>3. StepIsApart(s)
  BY <1>1, <1>2 DEF StepIsApart
<1>4. SessionsAreApart'
  BY <1>1, <1>3, SessionsStayApart DEF RInv
<1>. QED
  BY <1>1, <1>4 DEF RequestParts

\* A request that is over.
LEMMA RequestIsOver ==
  ASSUME RInv, NEW s \in Sessions, NEW r, IsRequest(r), req' = [req EXCEPT ![s] = r],
         r.at \in {"idle", "publish"},
         \A q \in Sessions \ {s} : own'[q] = own[q] /\ toInsert'[q] = toInsert[q],
         own'[s] = {}, toInsert'[s] = <<>>,
         UNCHANGED <<dialect, overlapped, titles>>
  PROVE  RequestParts'
<1>1. RequestsAreTyped' /\ req'[s] = r /\ \A q \in Sessions \ {s} : req'[q] = req[q]
  BY RequestIsReplaced DEF RInv, RequestsAreTyped
<1>2. s \notin Writing' /\ ~Active(s)'
  BY <1>1 DEF Writing, Active
<1>3. StepIsApart(s)
  BY <1>1, <1>2 DEF StepIsApart
<1>4. SessionsAreApart'
  BY <1>1, <1>3, SessionsStayApart DEF RInv
<1>. QED
  BY <1>1, <1>4 DEF RequestParts

LEMMA IdleIsRequest == IsRequest(Idle) /\ Idle.at = "idle"
BY DEF IsRequest, Idle, RequestFields

\* SQLite lets no other session write, and where requests do not overlap there is none.
LEMMA ChangeIsSound ==
  ASSUME RInv, NEW s \in Sessions, NEW title \in Contents \cup {NoContent}, Change(s, title)
  PROVE  RequestParts'
<1>. DEFINE r == [req[s] EXCEPT !.at = "audit", !.wrote = Append(@, writes + 1)]
<1>1. /\ req[s].at = "change" /\ Blocking(s) = {} /\ titles' = Append(titles, title)
      /\ UNCHANGED <<dialect, overlapped, own, toInsert>>
  BY DEF Change, auditVars
<1>2. req' = [req EXCEPT ![s] = r]
  BY DEF Change
<1>3. IsRequest(req[s]) /\ titles \in Seq(Contents \cup {NoContent})
  BY DEF RInv, RequestsAreTyped
<1>4. writes + 1 \in Nat /\ titles' \in Seq(Contents \cup {NoContent})
  BY <1>1, <1>3 DEF writes
<1>5. /\ r.at = "audit" /\ DOMAIN r = RequestFields /\ r.records = req[s].records
      /\ r.wrote = Append(req[s].wrote, writes + 1)
  BY <1>3 DEF IsRequest, RequestFields
<1>. HIDE DEF r
<1>6. r.wrote \in Seq(Nat) /\ r.wrote # <<>>
  <2>1. req[s].wrote \in Seq(Nat)
    BY <1>3 DEF IsRequest
  <2>. DEFINE q == req[s].wrote
              w == writes + 1
  <2>2. q \in Seq(Nat) /\ w \in Nat
    BY <1>4, <2>1
  <2>. HIDE DEF q, w
  <2>3. Append(q, w) \in Seq(Nat) /\ Append(q, w) # <<>>
    BY <2>2, AppendProperties
  <2>4. r.wrote = Append(q, w)
    BY <1>5 DEF q, w
  <2>. QED
    BY <2>3, <2>4
<1>7. IsRequest(r)
  BY <1>1, <1>3, <1>5, <1>6 DEF IsRequest
<1>8. Active(s)
  BY <1>1 DEF Active
<1>9. dialect = "sqlite" => s \in Writing \/ Writing \subseteq {s}
  BY <1>1 DEF Blocking
<1>10. toInsert[s] = <<>>
  BY <1>1 DEF RInv, SessionsAreApart
<1>. QED
  BY <1>1, <1>2, <1>4, <1>5, <1>6, <1>7, <1>8, <1>9, <1>10, RequestGoesOn

LEMMA NextRecordIsSound ==
  ASSUME RInv, NEW s \in Sessions, NextRecord(s)
  PROVE  RequestParts'
<1>. DEFINE r == [req[s] EXCEPT !.at = "change", !.k = @ + 1]
<1>1. req[s].at = "insert" /\ toInsert[s] = <<>> /\ UNCHANGED <<dialect, overlapped, own, toInsert, titles>>
  BY DEF NextRecord, auditVars
<1>2. req' = [req EXCEPT ![s] = r]
  BY DEF NextRecord
<1>3. IsRequest(req[s]) /\ titles \in Seq(Contents \cup {NoContent})
  BY DEF RInv, RequestsAreTyped
<1>4. r.at = "change" /\ DOMAIN r = RequestFields /\ r.records = req[s].records /\ r.wrote = req[s].wrote
  BY <1>3 DEF IsRequest, RequestFields
<1>. HIDE DEF r
<1>5. IsRequest(r) /\ r.wrote # <<>>
  BY <1>1, <1>3, <1>4 DEF IsRequest
<1>6. Active(s) /\ s \in Writing
  BY <1>1, <1>4, <1>5 DEF Active, Writing
<1>. QED
  BY <1>1, <1>2, <1>3, <1>4, <1>5, <1>6, RequestGoesOn

\* The changes of a column or two.
LEMMA AuditIsSound ==
  ASSUME RInv, NEW s \in Sessions, Audit(s)
  PROVE  RequestParts' /\ AuditParts'
<1>. DEFINE r == [req[s] EXCEPT !.at = "insert"]
            w == req[s].wrote[req[s].k]
            old == req[s].old[Current(s)]
            columns == Differing(old, NewValue(s, w))
            changes == [i \in DOMAIN columns |->
              [record |-> Current(s), column |-> columns[i], old |-> old, new |-> NewValue(s, w), write |-> w]]
<1>1. req[s].at = "audit" /\ Compute(s, changes) /\ UNCHANGED <<dialect, overlapped, titles>>
  BY DEF Audit
<1>2. req' = [req EXCEPT ![s] = r]
  BY DEF Audit
<1>3. IsRequest(req[s]) /\ titles \in Seq(Contents \cup {NoContent})
  BY DEF RInv, RequestsAreTyped
<1>4. \E n \in {1, 2} : DOMAIN columns = 1..n
  BY DEF Differing
<1>5. PICK n \in {1, 2} : DOMAIN changes = 1..n
  BY <1>4
<1>. HIDE DEF changes
<1>6. Len(changes) = n
  <2>1. changes \in Seq({changes[i] : i \in 1..n})
    <3>1. changes = [i \in 1..n |-> changes[i]]
      BY <1>5 DEF changes
    <3>. QED
      BY <3>1, IsASeq
  <2>. QED
    BY <1>5, <2>1, LenProperties
<1>7. AuditParts'
  BY <1>1, <1>5, <1>6, ComputeKeepsAudit DEF RInv
<1>8. r.at = "insert" /\ DOMAIN r = RequestFields /\ r.records = req[s].records /\ r.wrote = req[s].wrote
  BY <1>3 DEF IsRequest, RequestFields
<1>. HIDE DEF r
<1>9. IsRequest(r) /\ r.wrote # <<>>
  BY <1>1, <1>3, <1>8 DEF IsRequest
<1>10. Active(s) /\ s \in Writing
  BY <1>1, <1>8, <1>9 DEF Active, Writing
<1>11. UNCHANGED own /\ \A q \in Sessions \ {s} : toInsert'[q] = toInsert[q]
  BY <1>1 DEF Compute, RInv, EntriesAreNumbered
<1>12. RequestParts'
  BY <1>1, <1>2, <1>3, <1>8, <1>9, <1>10, <1>11, RequestGoesOn
<1>. QED
  BY <1>7, <1>12

LEMMA AuditSkipsIsSound ==
  ASSUME RInv, NEW s \in Sessions, AuditSkips(s)
  PROVE  RequestParts'
<1>. DEFINE r == [req[s] EXCEPT !.at = "insert", !.skipped = @ \cup {req[s].k}]
<1>1. req[s].at = "audit" /\ UNCHANGED <<dialect, overlapped, own, toInsert, titles>>
  BY DEF AuditSkips, auditVars
<1>2. req' = [req EXCEPT ![s] = r]
  BY DEF AuditSkips
<1>3. IsRequest(req[s]) /\ titles \in Seq(Contents \cup {NoContent})
  BY DEF RInv, RequestsAreTyped
<1>4. r.at = "insert" /\ DOMAIN r = RequestFields /\ r.records = req[s].records /\ r.wrote = req[s].wrote
  BY <1>3 DEF IsRequest, RequestFields
<1>. HIDE DEF r
<1>5. IsRequest(r) /\ r.wrote # <<>>
  BY <1>1, <1>3, <1>4 DEF IsRequest
<1>6. Active(s) /\ s \in Writing
  BY <1>1, <1>4, <1>5 DEF Active, Writing
<1>. QED
  BY <1>1, <1>2, <1>3, <1>4, <1>5, <1>6, RequestGoesOn

LEMMA AuditInsertsIsSound ==
  ASSUME RInv, NEW s \in Sessions, AuditInserts(s)
  PROVE  RequestParts' /\ AuditParts'
<1>1. req[s].at = "insert" /\ InsertEntry(s) /\ UNCHANGED <<dialect, overlapped, titles, req>>
  BY DEF AuditInserts, recordVars
<1>2. req[s].wrote # <<>> /\ RequestsAreTyped'
  BY <1>1 DEF RInv, RequestsAreTyped, IsRequest
<1>3. AuditParts'
  BY <1>1, <1>2, InsertKeepsAudit DEF RInv
<1>4. s \in Writing /\ Writing' = Writing /\ Active(s)
  BY <1>1, <1>2 DEF Writing, Active
<1>5. \A q \in Sessions \ {s} : req'[q] = req[q] /\ own'[q] = own[q] /\ toInsert'[q] = toInsert[q]
  BY <1>1 DEF InsertEntry, RInv, EntriesAreNumbered
<1>6. StepIsApart(s)
  BY <1>1, <1>4 DEF StepIsApart
<1>7. SessionsAreApart'
  BY <1>1, <1>5, <1>6, SessionsStayApart DEF RInv
<1>. QED
  BY <1>2, <1>3, <1>7 DEF RequestParts

LEMMA CommitIsSound ==
  ASSUME RInv, NEW s \in Sessions, Commit(s)
  PROVE  RequestParts' /\ AuditParts'
<1>. DEFINE r == [req[s] EXCEPT !.at = "publish", !.skipped = {}]
<1>1. req[s].at = "insert" /\ toInsert[s] = <<>> /\ CommitLog(s) /\ UNCHANGED <<dialect, overlapped, titles>>
  BY DEF Commit
<1>2. req' = [req EXCEPT ![s] = r]
  BY DEF Commit
<1>3. IsRequest(req[s])
  BY DEF RInv, RequestsAreTyped
<1>4. r.at = "publish" /\ DOMAIN r = RequestFields /\ r.wrote = req[s].wrote
  BY <1>3 DEF IsRequest, RequestFields
<1>. HIDE DEF r
<1>5. IsRequest(r) /\ s \in Writing
  BY <1>1, <1>3, <1>4 DEF IsRequest, Writing
<1>6. AuditParts'
  BY <1>1, <1>5, CommitKeepsAudit DEF RInv
<1>7. own'[s] = {} /\ toInsert'[s] = <<>> /\ \A q \in Sessions \ {s} : own'[q] = own[q] /\ toInsert'[q] = toInsert[q]
  BY <1>1 DEF CommitLog, RInv, EntriesAreNumbered
<1>8. RequestParts'
  BY <1>1, <1>2, <1>4, <1>5, <1>7, RequestIsOver
<1>. QED
  BY <1>6, <1>8

\* A row that is gone, a deadlock, a failure.
LEMMA RollbackIsSound ==
  ASSUME RInv, NEW s \in Sessions, RollbackLog(s), Ends(s), UNCHANGED <<dialect, overlapped, titles>>
  PROVE  RequestParts' /\ AuditParts'
<1>1. AuditParts'
  BY RollbackKeepsAudit DEF RInv
<1>2. own'[s] = {} /\ toInsert'[s] = <<>> /\ \A q \in Sessions \ {s} : own'[q] = own[q] /\ toInsert'[q] = toInsert[q]
  BY DEF RollbackLog, RInv, EntriesAreNumbered
<1>3. RequestParts'
  BY <1>2, IdleIsRequest, RequestIsOver DEF Ends
<1>. QED
  BY <1>1, <1>3

\* SQLite makes only those wait that have written nothing.
LEMMA ChangeTimesOutIsSound ==
  ASSUME RInv, NEW s \in Sessions, ChangeTimesOut(s)
  PROVE  RequestParts'
<1>1. Ends(s) /\ dialect = "sqlite" /\ Blocking(s) # {} /\ UNCHANGED <<dialect, overlapped, titles, own, toInsert>>
  BY DEF ChangeTimesOut, auditVars
<1>2. s \notin Writing
  BY <1>1 DEF Blocking
<1>3. own'[s] = {} /\ toInsert'[s] = <<>>
  BY <1>1, <1>2 DEF RInv, SessionsAreApart
<1>. QED
  BY <1>1, <1>3, IdleIsRequest, RequestIsOver DEF Ends

LEMMA PublishEventIsSound ==
  ASSUME RInv, NEW s \in Sessions, PublishEvent(s)
  PROVE  RequestParts'
<1>. DEFINE r == [req[s] EXCEPT !.wrote = Tail(@)]
<1>1. req[s].at = "publish" /\ UNCHANGED <<dialect, overlapped, titles, own, toInsert>>
  BY DEF PublishEvent, auditVars
<1>2. IsRequest(req[s]) /\ own'[s] = {} /\ toInsert'[s] = <<>>
  <2>1. s \notin Writing
    BY <1>1 DEF Writing
  <2>. QED
    BY <1>1, <2>1 DEF RInv, RequestsAreTyped, SessionsAreApart
<1>3. CASE Len(req[s].wrote) = 1
  <2>1. Ends(s)
    BY <1>3 DEF PublishEvent
  <2>. QED
    BY <1>1, <1>2, <2>1, IdleIsRequest, RequestIsOver DEF Ends
<1>4. CASE Len(req[s].wrote) # 1
  <2>1. req' = [req EXCEPT ![s] = r]
    BY <1>4 DEF PublishEvent
  <2>2. req[s].wrote \in Seq(Nat) /\ req[s].wrote # <<>>
    BY <1>1, <1>2 DEF IsRequest
  <2>3. Tail(req[s].wrote) \in Seq(Nat) /\ Tail(req[s].wrote) # <<>>
    <3>1. Tail(req[s].wrote) \in Seq(Nat) /\ Len(Tail(req[s].wrote)) = Len(req[s].wrote) - 1
      BY <2>2, HeadTailProperties
    <3>2. Len(req[s].wrote) \in Nat
      BY <2>2, LenProperties
    <3>3. Len(Tail(req[s].wrote)) # 0
      BY <1>4, <3>1, <3>2
    <3>4. Tail(req[s].wrote) # <<>>
      BY <3>1, <3>3, EmptySeq
    <3>. QED
      BY <3>1, <3>4
  <2>4. r.at = "publish" /\ DOMAIN r = RequestFields /\ r.wrote = Tail(req[s].wrote)
    BY <1>1, <1>2 DEF IsRequest, RequestFields
  <2>. HIDE DEF r
  <2>5. IsRequest(r)
    BY <2>3, <2>4 DEF IsRequest
  <2>. QED
    BY <1>1, <1>2, <2>1, <2>4, <2>5, RequestIsOver
<1>. QED
  BY <1>3, <1>4

-----------------------------------------------------------------------------
(* The invariant.                                                           *)

LEMMA InitIsSound == Init => RInv
<1>. SUFFICES ASSUME Init PROVE RInv
  OBVIOUS
<1>1. /\ log = {} /\ own = [s \in Sessions |-> {}] /\ toInsert = [s \in Sessions |-> <<>>] /\ sums = 0 /\ ids = 0
      /\ req = [s \in Sessions |-> Idle] /\ titles = <<>>
  BY DEF Init, AuditInit
<1>2. RequestsAreTyped
  BY <1>1, IdleIsRequest DEF RequestsAreTyped
<1>3. Writing = {} /\ \A s \in Sessions : ~Active(s)
  BY <1>1, IdleIsRequest DEF Writing, Active
<1>4. SessionsAreApart
  BY <1>1, <1>3 DEF SessionsAreApart
<1>5. AllEntries = {} /\ \A s \in Sessions : log \cup own[s] = {}
  BY <1>1 DEF AllEntries
<1>6. EntriesAreNumbered
  BY <1>1, <1>5 DEF EntriesAreNumbered, HasLast
<1>7. IsBatch(<<>>)
  BY DEF IsBatch
<1>8. LinksAreSound
  BY <1>1, <1>7 DEF LinksAreSound, LinksAreKept
<1>9. ChainIsSound
  BY <1>1, <1>5 DEF ChainIsSound, Verifies
<1>. QED
  BY <1>2, <1>4, <1>6, <1>8, <1>9 DEF RInv

LEMMA RequestIsSound == ASSUME RInv, NEW s \in Sessions, Request(s) PROVE RInv'
<1>. USE DEF Request
<1>1. ASSUME NEW xs \in Batches, Create(s, xs) \/ Update(s, xs) \/ Delete(s, xs) PROVE RInv'
  <2>1. PICK op \in Ops : Start(s, op, xs)
    BY <1>1 DEF Create, Update, Delete, Ops
  <2>2. RequestParts'
    BY <2>1, StartIsSound
  <2>3. AuditParts'
    BY <2>1, QuietKeepsAudit DEF RInv, Start
  <2>. QED
    BY <2>2, <2>3 DEF RInv, RequestParts, AuditParts
<1>2. ASSUME NEW title \in Contents \cup {NoContent}, Change(s, title) PROVE RInv'
  <2>1. RequestParts'
    BY <1>2, ChangeIsSound
  <2>2. AuditParts'
    BY <1>2, QuietKeepsAudit DEF RInv, Change
  <2>. QED
    BY <2>1, <2>2 DEF RInv, RequestParts, AuditParts
<1>3. CASE ChangeMisses(s) \/ Deadlock(s) \/ Rollback(s)
  <2>1. RollbackLog(s) /\ Ends(s) /\ UNCHANGED <<dialect, overlapped, titles>>
    BY <1>3 DEF ChangeMisses, Deadlock, Rollback
  <2>. QED
    BY <2>1, RollbackIsSound DEF RInv, RequestParts, AuditParts
<1>4. CASE ChangeTimesOut(s)
  <2>1. AuditParts'
    BY <1>4, QuietKeepsAudit DEF RInv, ChangeTimesOut
  <2>. QED
    BY <1>4, <2>1, ChangeTimesOutIsSound DEF RInv, RequestParts, AuditParts
<1>5. CASE NextRecord(s)
  <2>1. AuditParts'
    BY <1>5, QuietKeepsAudit DEF RInv, NextRecord
  <2>. QED
    BY <1>5, <2>1, NextRecordIsSound DEF RInv, RequestParts, AuditParts
<1>6. CASE PublishEvent(s)
  <2>1. AuditParts'
    BY <1>6, QuietKeepsAudit DEF RInv, PublishEvent
  <2>. QED
    BY <1>6, <2>1, PublishEventIsSound DEF RInv, RequestParts, AuditParts
<1>7. CASE Audit(s)
  BY <1>7, AuditIsSound DEF RInv, RequestParts, AuditParts
<1>8. CASE AuditInserts(s)
  BY <1>8, AuditInsertsIsSound DEF RInv, RequestParts, AuditParts
<1>9. CASE Commit(s)
  BY <1>9, CommitIsSound DEF RInv, RequestParts, AuditParts
<1>10. CASE AuditSkips(s)
  <2>1. AuditParts'
    BY <1>10, QuietKeepsAudit DEF RInv, AuditSkips
  <2>. QED
    BY <1>10, <2>1, AuditSkipsIsSound DEF RInv, RequestParts, AuditParts
<1>. QED
  BY <1>1, <1>2, <1>3, <1>4, <1>5, <1>6, <1>7, <1>8, <1>9, <1>10

\* The moves of the clients touch neither the requests nor the log.
LEMMA ElsewhereIsSound == ASSUME RInv, UNCHANGED <<recordVars, auditVars>> PROVE RInv'
<1>1. UNCHANGED <<dialect, req, titles, overlapped, own, toInsert, auditVars>>
  BY DEF recordVars, auditVars
<1>2. AuditParts'
  BY <1>1, QuietKeepsAudit DEF RInv
<1>3. RequestsAreTyped'
  BY <1>1 DEF RInv, RequestsAreTyped
<1>4. SessionsAreApart'
  BY <1>1 DEF RInv, SessionsAreApart, Writing, Active
<1>. QED
  BY <1>2, <1>3, <1>4 DEF RInv, AuditParts

LEMMA RInvHolds == Spec => []RInv
<1>1. RInv /\ [Next]_vars => RInv'
  <2>1. ASSUME RInv, Next PROVE RInv'
    BY <2>1, RequestIsSound, ElsewhereIsSound DEF Next
  <2>2. ASSUME RInv, UNCHANGED vars PROVE RInv'
    BY <2>2, ElsewhereIsSound DEF vars
  <2>. QED
    BY <2>1, <2>2
<1>. QED
  BY <1>1, InitIsSound, PTL DEF Spec

\* On either database, and however the requests overlap, no entry is ever linked to one that
\* a rollback has taken out of the log: create_batch reads what is committed or its own.
THEOREM LinksAreKeptHolds == Spec => []LinksAreKept
<1>1. RInv => LinksAreKept
  BY DEF RInv, LinksAreSound
<1>. QED
  BY <1>1, RInvHolds, PTL

\* verify_integrity_chain finds no error on SQLite, nor on PostgreSQL as long as no two
\* requests have overlapped, for any number of sessions and any size of the batches.
THEOREM ChainVerifiesHolds == Spec => []ChainVerifies
<1>1. RInv => ChainVerifies
  BY DEF RInv, ChainIsSound, Serial, ChainVerifies
<1>. QED
  BY <1>1, RInvHolds, PTL

-----------------------------------------------------------------------------
(* What the entries say.                                                    *)

Columns == {"title", "updated_at"}
ColumnsOf(old, new) == ToSet(Differing(old, new))

\* The writes of session s so far, by their place in its batch.
Places(s)   == 1..Len(req[s].wrote)
OldAt(s, i) == req[s].old[req[s].records[i]]
NewAt(s, i) == NewValue(s, req[s].wrote[i])

\* How many of its writes the hook has computed the entries of.
Computed(s) == IF req[s].at = "insert" THEN req[s].k ELSE req[s].k - 1

\* Those of them that it has not passed over.
Audited(s) == (1..Computed(s)) \ req[s].skipped

Describes(c, s, i) ==
  /\ c.record = req[s].records[i] /\ c.write = req[s].wrote[i]
  /\ c.old = OldAt(s, i) /\ c.new = NewAt(s, i)
  /\ c.column \in ColumnsOf(c.old, c.new)

BatchIsRight(s) ==
  /\ req[s].records \in Batches /\ req[s].k \in 1..Len(req[s].records)
  /\ Len(req[s].wrote) = IF req[s].at = "change" THEN req[s].k - 1 ELSE req[s].k
  /\ req[s].old \in [Records -> 0..writes]
  /\ \A i \in Places(s) : /\ req[s].wrote[i] \in 1..writes
                          /\ req[s].op # "delete" => Title(req[s].wrote[i]) # NoContent
  /\ \A i, j \in Places(s) : req[s].wrote[i] = req[s].wrote[j] => i = j
  /\ req[s].skipped \subseteq 1..Computed(s)

\* The entries of a transaction describe its writes, and completely.
EntriesDescribe(s) ==
  /\ \A e \in own[s] : \E i \in Audited(s) : Describes(e.change, s, i)
  /\ \A j \in 1..Len(toInsert[s]) : req[s].k \in Audited(s) /\ Describes(toInsert[s][j].change, s, req[s].k)

EntriesAreComplete(s) ==
  \A i \in Audited(s) : \A column \in ColumnsOf(OldAt(s, i), NewAt(s, i)) :
    \/ \E e \in own[s] : e.change.write = req[s].wrote[i] /\ e.change.column = column
    \/ i = req[s].k /\ \E j \in 1..Len(toInsert[s]) : toInsert[s][j].change.column = column

\* What is in the log about a record that a transaction has written is older.
LogIsOlder(s) ==
  \A i \in Places(s) : \A f \in log :
    /\ f.change.write # req[s].wrote[i]
    /\ f.change.record = req[s].records[i] =>
         /\ f.change.write < req[s].wrote[i]
         /\ \A e \in own[s] : e.change.record = f.change.record => f.id < e.id

\* So are the writes of the record that the hook has passed over.
PassedAreOlder(s) ==
  \A i \in Places(s) : \A x \in Records : \A u \in unaudited[x] :
    u # req[s].wrote[i] /\ (x = req[s].records[i] => u < req[s].wrote[i])

\* Whom nobody overlaps has read what is there.
OldsAreValues(s) == \A x \in ToSet(req[s].records) : Alone(x) => req[s].old[x] = value[x]

TransactionIsRight(s) ==
  /\ BatchIsRight(s)
  /\ EntriesDescribe(s)
  /\ EntriesAreComplete(s)
  /\ LogIsOlder(s)
  /\ PassedAreOlder(s)
  /\ OldsAreValues(s)

\* Two transactions write different rows, and those that work on one record are known to overlap.
AreApart(p, q) ==
  /\ \A i \in Places(p), j \in Places(q) :
       req[p].wrote[i] # req[q].wrote[j] /\ req[p].records[i] # req[q].records[j]
  /\ \A x \in ToSet(req[p].records) \cap ToSet(req[q].records) : ~Alone(x)

OwnOf(s, x, column) == {e \in own[s] : e.change.record = x /\ e.change.column = column}

\* What LastEntryIsCurrent says of a column of a record.
CurrentAt(x, column) ==
  LET E == EntriesOf(x, column) IN
  \/ Overdue(x, E)
  \/ /\ value[x] # 0 => E # {}
     /\ E # {} => IF column = "title" THEN Title(LastOf(E).change.new) = Title(value[x])
                  ELSE LastOf(E).change.new = value[x]

\* The log holds all the entries of a write or none.
LogIsComplete ==
  \A e \in log :
    /\ e.change.record \in Records
    /\ e.change.write \in 1..writes /\ e.change.old \in 0..writes /\ e.change.new \in 0..writes
    /\ e.change.column \in ColumnsOf(e.change.old, e.change.new)
    /\ \A column \in ColumnsOf(e.change.old, e.change.new) :
         \E f \in log : f.change.write = e.change.write /\ f.change.column = column
    /\ \A f \in log : f.change.write = e.change.write =>
         f.change.old = e.change.old /\ f.change.new = e.change.new

LastsAreThere ==
  \A x \in Records : \A column \in Columns :
    /\ HasLast(EntriesOf(x, column))
    /\ \A s \in Sessions : HasLast(OwnOf(s, x, column))

ValuesAreLast ==
  \A x \in Records :
    LET E == EntriesOf(x, "updated_at") IN
    Overdue(x, E) \/ value[x] = IF E = {} THEN 0 ELSE LastOf(E).change.new

\* The writes that have been passed over have no entries.
PassedHaveNone ==
  /\ unaudited \in [Records -> SUBSET (1..writes)]
  /\ \A e \in log, x \in Records : e.change.write \notin unaudited[x]

IsAudited(w) == (\E e \in log : e.change.write = w) \/ \E x \in Records : w \in unaudited[x]

\* An event is published after its write was committed, and its write is in the log, or passed over.
EventsAreAudited ==
  /\ \A s \in Sessions : req[s].at = "publish" => \A i \in Places(s) : IsAudited(req[s].wrote[i])
  /\ \A i \in 1..Len(tasks) : IsAudited(tasks[i].event)
  /\ \A c \in Clients : \A i \in 1..Len(heard[c]) : IsAudited(heard[c][i])

TaskFields == {"event", "begun", "todo", "size"}

BroadcastsAreTyped ==
  /\ \E S : tasks \in Seq(S)
  /\ \A i \in 1..Len(tasks) : DOMAIN tasks[i] = TaskFields
  /\ heard = [c \in Clients |-> heard[c]] /\ \A c \in Clients : \E S : heard[c] \in Seq(S)

EntryInv ==
  /\ value \in [Records -> 0..writes]
  /\ \A s \in Sessions : Active(s) => TransactionIsRight(s)
  /\ \A p, q \in Sessions : p # q /\ Active(p) /\ Active(q) => AreApart(p, q)
  /\ LogIsComplete
  /\ LastsAreThere
  /\ ValuesAreLast
  /\ PassedHaveNone
  /\ LastEntryIsCurrent
  /\ OldIsPrevious

LEMMA TitlesStay ==
  ASSUME titles \in Seq(Contents \cup {NoContent}),
         titles' = titles \/ \E t \in Contents \cup {NoContent} : titles' = Append(titles, t)
  PROVE  /\ writes \in Nat /\ writes' \in Nat /\ writes <= writes'
         /\ \A w \in 0..writes : Title(w)' = Title(w)
         /\ \A v, w \in 0..writes : ColumnsOf(v, w)' = ColumnsOf(v, w)
<1>1. /\ writes \in Nat /\ writes' \in Nat /\ writes <= writes'
      /\ \A w \in 1..writes : titles'[w] = titles[w]
  <2>1. CASE titles' = titles
    BY <2>1 DEF writes
  <2>2. CASE \E t \in Contents \cup {NoContent} : titles' = Append(titles, t)
    BY <2>2, AppendProperties DEF writes
  <2>. QED
    BY <2>1, <2>2
<1>2. \A w \in 0..writes : Title(w)' = Title(w)
  BY <1>1 DEF Title
<1>3. \A v, w \in 0..writes : ColumnsOf(v, w)' = ColumnsOf(v, w)
  BY <1>2 DEF ColumnsOf, Differing
<1>. QED
  BY <1>1, <1>2, <1>3

LEMMA ColumnsFacts ==
  ASSUME NEW v, NEW w
  PROVE  /\ "updated_at" \in ColumnsOf(v, w) /\ ColumnsOf(v, w) \subseteq Columns
         /\ "title" \in ColumnsOf(v, w) <=> Title(v) # Title(w)
<1>1. CASE Title(v) = Title(w)
  <2>1. Differing(v, w) = <<"updated_at">>
    BY <1>1 DEF Differing
  <2>2. ToSet(<<"updated_at">>) = {"updated_at"}
    BY DEF ToSet
  <2>. QED
    BY <1>1, <2>1, <2>2 DEF ColumnsOf, Columns
<1>2. CASE Title(v) # Title(w)
  <2>1. Differing(v, w) = <<"title", "updated_at">>
    BY <1>2 DEF Differing
  <2>2. ToSet(<<"title", "updated_at">>) = {"title", "updated_at"}
    <3>. DEFINE c == <<"title", "updated_at">>
    <3>1. DOMAIN c = {1, 2} /\ c[1] = "title" /\ c[2] = "updated_at"
      OBVIOUS
    <3>. HIDE DEF c
    <3>2. ToSet(c) = {"title", "updated_at"}
      BY <3>1 DEF ToSet
    <3>. QED
      BY <3>2 DEF c
  <2>. QED
    BY <1>2, <2>1, <2>2 DEF ColumnsOf, Columns
<1>. QED
  BY <1>1, <1>2

\* What the records and the writes of a batch are.
LEMMA BatchFacts ==
  ASSUME NEW s, BatchIsRight(s)
  PROVE  /\ Len(req[s].records) \in Nat /\ DOMAIN req[s].records = 1..Len(req[s].records)
         /\ req[s].k \in 1..Len(req[s].records)
         /\ Places(s) \subseteq 1..req[s].k
         /\ \A i \in 1..Len(req[s].records) : /\ req[s].records[i] \in Records
                                              /\ req[s].records[i] \in ToSet(req[s].records)
         /\ \A i, j \in 1..Len(req[s].records) : req[s].records[i] = req[s].records[j] => i = j
<1>. DEFINE xs == req[s].records
<1>1. PICK n \in 1..MaxBatch : xs \in [1..n -> Records]
  BY DEF BatchIsRight, Batches
<1>2. n \in Nat /\ DOMAIN xs = 1..n
  BY <1>1
<1>3. Len(xs) = n
  <2>1. xs \in Seq(Records)
    BY <1>1, <1>2, SeqDef
  <2>. QED
    BY <1>2, <2>1, LenProperties
<1>4. \A i, j \in DOMAIN xs : xs[i] = xs[j] => i = j
  BY DEF BatchIsRight, Batches
<1>5. \A i \in DOMAIN xs : xs[i] \in Records /\ xs[i] \in ToSet(xs)
  BY <1>1 DEF ToSet
<1>6. xs = req[s].records
  OBVIOUS
<1>. HIDE DEF xs
<1>7. req[s].k \in 1..n /\ Places(s) \subseteq 1..req[s].k
  <2>1. req[s].k \in 1..n
    BY <1>3, <1>6 DEF BatchIsRight
  <2>. QED
    BY <2>1 DEF BatchIsRight, Places
<1>. QED
  BY <1>2, <1>3, <1>4, <1>5, <1>6, <1>7

\* The numbers that the entries of a transaction carry have been given away.
LEMMA NumbersAreWrites ==
  ASSUME NEW s, BatchIsRight(s), writes \in Nat, NEW i \in 1..Len(req[s].records)
  PROVE  /\ OldAt(s, i) \in 0..writes
         /\ i \in Places(s) => NewAt(s, i) \in 0..writes
<1>1. req[s].records[i] \in Records
  BY BatchFacts
<1>2. OldAt(s, i) \in 0..writes
  BY <1>1 DEF OldAt, BatchIsRight
<1>3. i \in Places(s) => req[s].wrote[i] \in 1..writes
  BY DEF BatchIsRight
<1>. QED
  BY <1>2, <1>3 DEF NewAt, NewValue

LEMMA ApartIsSymmetric == \A p, q : AreApart(p, q) => AreApart(q, p)
BY DEF AreApart

\* A transaction that a step leaves alone stays right.
LEMMA OthersStayRight ==
  ASSUME titles \in Seq(Contents \cup {NoContent}),
         titles' = titles \/ \E t \in Contents \cup {NoContent} : titles' = Append(titles, t),
         NEW q, TransactionIsRight(q),
         req'[q] = req[q], own'[q] = own[q], toInsert'[q] = toInsert[q],
         toInsert[q] # <<>> => req[q].at = "insert",
         overlapped \subseteq overlapped',
         \A x \in ToSet(req[q].records) : Alone(x)' => value'[x] = value[x],
         \A f \in log' : f \in log \/ \A i \in Places(q) : /\ f.change.write # req[q].wrote[i]
                                                           /\ f.change.record # req[q].records[i],
         \A x \in Records : \A u \in unaudited'[x] :
           u \in unaudited[x] \/ \A i \in Places(q) : u # req[q].wrote[i] /\ x # req[q].records[i]
  PROVE  TransactionIsRight(q)'
<1>1. /\ writes \in Nat /\ writes' \in Nat /\ writes <= writes'
      /\ \A w \in 0..writes : Title(w)' = Title(w)
      /\ \A v, w \in 0..writes : ColumnsOf(v, w)' = ColumnsOf(v, w)
  BY TitlesStay
<1>2. BatchIsRight(q)
  BY DEF TransactionIsRight
<1>3. /\ Places(q)' = Places(q) /\ Computed(q)' = Computed(q) /\ Audited(q)' = Audited(q)
      /\ \A i : OldAt(q, i)' = OldAt(q, i) /\ NewAt(q, i)' = NewAt(q, i)
  BY DEF Places, Computed, Audited, OldAt, NewAt, NewValue
<1>a. Audited(q) \subseteq Places(q)
  <2>1. req[q].k \in Int /\ Len(req[q].wrote) = IF req[q].at = "change" THEN req[q].k - 1 ELSE req[q].k
    BY <1>2, BatchFacts DEF BatchIsRight
  <2>. QED
    BY <2>1 DEF Audited, Computed, Places
<1>4. BatchIsRight(q)'
  <2>1. \A i \in Places(q) : req[q].wrote[i] \in 1..writes' /\ Title(req[q].wrote[i])' = Title(req[q].wrote[i])
    BY <1>1, <1>2 DEF BatchIsRight
  <2>2. req[q].old \in [Records -> 0..writes']
    BY <1>1, <1>2 DEF BatchIsRight
  <2>. QED
    BY <1>2, <1>3, <2>1, <2>2 DEF BatchIsRight, Title
<1>5. \A i \in Places(q) : i \in 1..Len(req[q].records) /\ i \in 1..req[q].k
  BY <1>2, BatchFacts
<1>6. ASSUME NEW i \in Places(q)
      PROVE  /\ ColumnsOf(OldAt(q, i), NewAt(q, i))' = ColumnsOf(OldAt(q, i), NewAt(q, i))
             /\ \A c : Describes(c, q, i) => Describes(c, q, i)'
  <2>1. OldAt(q, i) \in 0..writes /\ NewAt(q, i) \in 0..writes
    BY <1>1, <1>2, <1>5, NumbersAreWrites
  <2>2. PICK v, w \in 0..writes : v = OldAt(q, i) /\ w = NewAt(q, i)
    BY <2>1
  <2>3. v = OldAt(q, i)' /\ w = NewAt(q, i)' /\ ColumnsOf(v, w)' = ColumnsOf(v, w)
    BY <1>1, <1>3, <2>2
  <2>4. ColumnsOf(OldAt(q, i), NewAt(q, i))' = ColumnsOf(OldAt(q, i), NewAt(q, i))
    BY <2>2, <2>3 DEF ColumnsOf, Differing, Title
  <2>5. ASSUME NEW c, Describes(c, q, i) PROVE Describes(c, q, i)'
    <3>1. c.old = v /\ c.new = w /\ c.column \in ColumnsOf(v, w) /\ c.record = req[q].records[i] /\ c.write = req[q].wrote[i]
      BY <2>2, <2>5 DEF Describes
    <3>2. c.column \in ColumnsOf(c.old, c.new)'
      BY <2>3, <3>1 DEF ColumnsOf, Differing, Title
    <3>. QED
      BY <2>3, <3>1, <3>2 DEF Describes
  <2>. QED
    BY <2>4, <2>5
<1>7. EntriesDescribe(q)'
  <2>1. \A e \in own'[q] : \E i \in Audited(q)' : Describes(e.change, q, i)'
    BY <1>3, <1>a, <1>6 DEF TransactionIsRight, EntriesDescribe
  <2>2. ASSUME NEW j \in 1..Len(toInsert'[q])
        PROVE  req'[q].k \in Audited(q)' /\ Describes(toInsert[q][j].change, q, req[q].k)'
    <3>1. req[q].at = "insert" /\ j \in 1..Len(toInsert[q])
      BY <2>2
    <3>2. req[q].k \in Places(q)
      BY <1>2, <3>1 DEF BatchIsRight, Places
    <3>3. PICK k, c : k = req[q].k /\ c = toInsert[q][j].change
      OBVIOUS
    <3>4. Describes(c, q, k) /\ k \in Audited(q)
      BY <3>1, <3>3 DEF TransactionIsRight, EntriesDescribe
    <3>5. Describes(c, q, k)'
      BY <1>6, <3>2, <3>3, <3>4
    <3>6. c = toInsert'[q][j].change /\ k = req'[q].k
      BY <3>3
    <3>. QED
      BY <1>3, <3>4, <3>5, <3>6 DEF Describes, OldAt, NewAt, ColumnsOf, Differing, NewValue, Title
  <2>. QED
    BY <2>1, <2>2 DEF EntriesDescribe
<1>8. EntriesAreComplete(q)'
  <2>1. ASSUME NEW i \in Audited(q)', NEW column \in ColumnsOf(OldAt(q, i), NewAt(q, i))'
        PROVE  \/ \E e \in own'[q] : e.change.write = req'[q].wrote[i] /\ e.change.column = column
               \/ i = req'[q].k /\ \E j \in 1..Len(toInsert'[q]) : toInsert'[q][j].change.column = column
    <3>1. i \in Audited(q) /\ i \in Places(q)
      BY <1>3, <1>a, <2>1
    <3>2. column \in ColumnsOf(OldAt(q, i), NewAt(q, i))
      BY <1>6, <2>1, <3>1
    <3>. QED
      BY <3>1, <3>2 DEF TransactionIsRight, EntriesAreComplete
  <2>. QED
    BY <2>1 DEF EntriesAreComplete
<1>9. LogIsOlder(q)'
  BY <1>3 DEF TransactionIsRight, LogIsOlder
<1>10. OldsAreValues(q)'
  BY DEF TransactionIsRight, OldsAreValues, Alone
<1>11. PassedAreOlder(q)'
  BY <1>3 DEF TransactionIsRight, PassedAreOlder
<1>. QED
  BY <1>4, <1>7, <1>8, <1>9, <1>10, <1>11 DEF TransactionIsRight

\* A step of session s that commits nothing.
WorksOn(s) ==
  /\ \A q \in Sessions \ {s} : req'[q] = req[q] /\ own'[q] = own[q] /\ toInsert'[q] = toInsert[q]
  /\ UNCHANGED <<log, value, unaudited>> /\ overlapped \subseteq overlapped'
  /\ titles' = titles \/ \E t \in Contents \cup {NoContent} : titles' = Append(titles, t)
  /\ \A x \in Records : \A column \in Columns : HasLast(OwnOf(s, x, column))'
  /\ Active(s)' => /\ TransactionIsRight(s)'
                   /\ \A q \in Sessions \ {s} : Active(q) => AreApart(s, q)'

LEMMA CurrentEverywhere ==
  LastEntryIsCurrent <=>
    \A x \in Records : \A column \in Columns : column = "updated_at" \/ Alone(x) => CurrentAt(x, column)
BY DEF LastEntryIsCurrent, CurrentAt, Columns

\* What the log says of the values does not change with the titles that are added.
LEMMA LogStaysRight ==
  ASSUME RInv, EntryInv, UNCHANGED <<log, value, unaudited>>, overlapped \subseteq overlapped',
         titles' = titles \/ \E t \in Contents \cup {NoContent} : titles' = Append(titles, t)
  PROVE  LogIsComplete' /\ ValuesAreLast' /\ LastEntryIsCurrent' /\ OldIsPrevious' /\ PassedHaveNone'
         /\ value' \in [Records -> 0..writes']
<1>1. /\ writes \in Nat /\ writes' \in Nat /\ writes <= writes'
      /\ \A w \in 0..writes : Title(w)' = Title(w)
      /\ \A v, w \in 0..writes : ColumnsOf(v, w)' = ColumnsOf(v, w)
  BY TitlesStay DEF RInv, RequestsAreTyped
<1>2. \A x, column : EntriesOf(x, column)' = EntriesOf(x, column)
  BY DEF EntriesOf
<1>3. LogIsComplete'
  <2>1. ASSUME NEW e \in log'
        PROVE  /\ e.change.record \in Records
               /\ e.change.write \in 1..writes' /\ e.change.old \in 0..writes' /\ e.change.new \in 0..writes'
               /\ e.change.column \in ColumnsOf(e.change.old, e.change.new)'
               /\ \A column \in ColumnsOf(e.change.old, e.change.new)' :
                    \E f \in log' : f.change.write = e.change.write /\ f.change.column = column
               /\ \A f \in log' : f.change.write = e.change.write =>
                    f.change.old = e.change.old /\ f.change.new = e.change.new
    <3>1. e \in log
      OBVIOUS
    <3>2. e.change.write \in 1..writes /\ e.change.old \in 0..writes /\ e.change.new \in 0..writes
      BY <3>1 DEF EntryInv, LogIsComplete
    <3>3. ColumnsOf(e.change.old, e.change.new)' = ColumnsOf(e.change.old, e.change.new)
      BY <1>1, <3>2
    <3>4. PICK cs : cs = ColumnsOf(e.change.old, e.change.new)
      OBVIOUS
    <3>5. /\ e.change.column \in cs /\ e.change.record \in Records
          /\ \A column \in cs : \E f \in log : f.change.write = e.change.write /\ f.change.column = column
          /\ \A f \in log : f.change.write = e.change.write =>
               f.change.old = e.change.old /\ f.change.new = e.change.new
      BY <3>1, <3>4 DEF EntryInv, LogIsComplete
    <3>6. cs = ColumnsOf(e.change.old, e.change.new)'
      BY <3>3, <3>4
    <3>7. e.change.write \in 1..writes' /\ e.change.old \in 0..writes' /\ e.change.new \in 0..writes'
      BY <1>1, <3>2
    <3>. QED
      BY <3>5, <3>6, <3>7
  <2>. QED
    BY <2>1 DEF LogIsComplete
<1>4. ValuesAreLast'
  BY <1>2 DEF EntryInv, ValuesAreLast, Overdue
<1>5. LastEntryIsCurrent'
  <2>1. ASSUME NEW x \in Records, NEW column \in Columns, column = "updated_at" \/ Alone(x)'
        PROVE  CurrentAt(x, column)'
    <3>1. column = "updated_at" \/ Alone(x)
      BY <2>1 DEF Alone
    <3>2. CurrentAt(x, column)
      BY <3>1, CurrentEverywhere DEF EntryInv
    <3>3. PICK F, v : F = EntriesOf(x, column) /\ v = value[x]
      OBVIOUS
    <3>4. F # {} => LastOf(F) \in log
      <4>1. HasLast(F)
        BY <3>3 DEF EntryInv, LastsAreThere
      <4>. QED
        BY <3>3, <4>1, LastIsThere DEF EntriesOf
    <3>5. PICK w : w = LastOf(F).change.new
      OBVIOUS
    <3>6. F # {} => Title(w)' = Title(w)
      <4>1. F # {} => w \in 0..writes
        BY <3>4, <3>5 DEF EntryInv, LogIsComplete
      <4>. QED
        BY <1>1, <4>1
    <3>7. Title(v)' = Title(v)
      BY <1>1, <3>3 DEF EntryInv
    <3>8. F = EntriesOf(x, column)' /\ v = value'[x]
      BY <1>2, <3>3
    <3>9. \/ Overdue(x, F)
          \/ /\ v # 0 => F # {}
             /\ F # {} => IF column = "title" THEN Title(w) = Title(v) ELSE w = v
      BY <3>2, <3>3, <3>5 DEF CurrentAt
    <3>10. \/ Overdue(x, F)
           \/ /\ v # 0 => F # {}
              /\ F # {} => IF column = "title" THEN Title(w)' = Title(v)' ELSE w = v
      BY <3>6, <3>7, <3>9
    <3>11. Overdue(x, F) => Overdue(x, F)'
      BY DEF Overdue
    <3>. QED
      BY <3>5, <3>8, <3>10, <3>11 DEF CurrentAt, Title, Overdue
  <2>. QED
    BY <2>1 DEF LastEntryIsCurrent, CurrentAt, Columns, Overdue
<1>6. OldIsPrevious'
  BY <1>2 DEF EntryInv, OldIsPrevious, Alone
<1>7. value' \in [Records -> 0..writes']
  BY <1>1 DEF EntryInv
<1>8. PassedHaveNone'
  <2>1. \A x \in Records : unaudited[x] \subseteq 1..writes'
    BY <1>1 DEF EntryInv, PassedHaveNone
  <2>. QED
    BY <2>1 DEF EntryInv, PassedHaveNone
<1>. QED
  BY <1>3, <1>4, <1>5, <1>6, <1>7, <1>8

LEMMA WorkingKeeps ==
  ASSUME RInv, EntryInv, NEW s \in Sessions, WorksOn(s)
  PROVE  EntryInv'
<1>1. /\ LogIsComplete' /\ ValuesAreLast' /\ LastEntryIsCurrent' /\ OldIsPrevious' /\ PassedHaveNone'
      /\ value' \in [Records -> 0..writes']
  BY LogStaysRight DEF WorksOn
<1>2. \A q \in Sessions \ {s} : Active(q)' <=> Active(q)
  BY DEF WorksOn, Active
<1>3. ASSUME NEW q \in Sessions \ {s}, Active(q) PROVE TransactionIsRight(q)'
  <2>1. TransactionIsRight(q) /\ (toInsert[q] # <<>> => req[q].at = "insert")
    BY <1>3 DEF EntryInv, RInv, SessionsAreApart
  <2>2. titles \in Seq(Contents \cup {NoContent})
    BY DEF RInv, RequestsAreTyped
  <2>3. /\ req'[q] = req[q] /\ own'[q] = own[q] /\ toInsert'[q] = toInsert[q] /\ overlapped \subseteq overlapped'
        /\ titles' = titles \/ \E t \in Contents \cup {NoContent} : titles' = Append(titles, t)
        /\ log' = log /\ value' = value /\ unaudited' = unaudited
    BY DEF WorksOn
  <2>. QED
    BY <2>1, <2>2, <2>3, OthersStayRight
<1>4. ASSUME NEW q \in Sessions, Active(q)' PROVE TransactionIsRight(q)'
  BY <1>2, <1>3, <1>4 DEF WorksOn
<1>5. ASSUME NEW p \in Sessions, NEW q \in Sessions, p # q, Active(p)', Active(q)' PROVE AreApart(p, q)'
  <2>1. CASE p # s /\ q # s
    <3>1. AreApart(p, q)
      BY <1>2, <1>5, <2>1 DEF EntryInv
    <3>2. req'[p] = req[p] /\ req'[q] = req[q] /\ overlapped \subseteq overlapped'
      BY <2>1 DEF WorksOn
    <3>. QED
      BY <3>1, <3>2 DEF AreApart, Places, Alone
  <2>2. CASE p = s
    BY <1>2, <1>5, <2>2 DEF WorksOn
  <2>3. CASE q = s
    <3>1. AreApart(q, p)'
      BY <1>2, <1>5, <2>3 DEF WorksOn
    <3>. QED
      BY <3>1 DEF AreApart
  <2>. QED
    BY <2>1, <2>2, <2>3
<1>6. LastsAreThere'
  <2>1. \A x \in Records : \A column \in Columns : HasLast(EntriesOf(x, column))'
    BY DEF EntryInv, LastsAreThere, WorksOn, EntriesOf
  <2>2. \A x \in Records : \A column \in Columns : \A q \in Sessions \ {s} : HasLast(OwnOf(q, x, column))'
    BY DEF EntryInv, LastsAreThere, WorksOn, OwnOf
  <2>. QED
    BY <2>1, <2>2 DEF LastsAreThere, WorksOn, HasLast
<1>. QED
  BY <1>1, <1>4, <1>5, <1>6 DEF EntryInv

\* A request that ends takes its entries back; one that publishes has none.
LEMMA EndKeepsEntries ==
  ASSUME RInv, EntryInv, NEW s \in Sessions, ~Active(s)', own'[s] \in {own[s], {}},
         \A q \in Sessions \ {s} : req'[q] = req[q] /\ own'[q] = own[q] /\ toInsert'[q] = toInsert[q],
         UNCHANGED <<log, value, unaudited, titles, overlapped>>
  PROVE  WorksOn(s)
<1>1. \A x \in Records : \A column \in Columns : HasLast(OwnOf(s, x, column))'
  <2>1. CASE own'[s] = own[s]
    BY <2>1 DEF EntryInv, LastsAreThere, OwnOf
  <2>2. CASE own'[s] = {}
    BY <2>2 DEF OwnOf, HasLast
  <2>. QED
    BY <2>1, <2>2
<1>. QED
  BY <1>1 DEF WorksOn

LEMMA StartKeepsEntries ==
  ASSUME RInv, EntryInv, NEW s \in Sessions, NEW op, NEW xs \in Batches, Start(s, op, xs)
  PROVE  WorksOn(s)
<1>. DEFINE r == [Idle EXCEPT !.at = "change", !.op = op, !.records = xs,
                              !.old = [x \in Records |-> IF x \in ToSet(xs) THEN value[x] ELSE 0]]
<1>1. /\ req[s].at = "idle" /\ req' = [req EXCEPT ![s] = r] /\ overlapped' = overlapped \cup Beside(xs)
      /\ UNCHANGED <<dialect, titles, value, unaudited, own, toInsert, log>>
  BY DEF Start, auditVars
<1>2. /\ r.at = "change" /\ r.records = xs /\ r.wrote = <<>> /\ r.k = 1 /\ r.skipped = {}
      /\ r.old = [x \in Records |-> IF x \in ToSet(xs) THEN value[x] ELSE 0]
  BY DEF Idle
<1>. HIDE DEF r
<1>3. req'[s] = r /\ \A q \in Sessions \ {s} : req'[q] = req[q]
  BY <1>1 DEF RInv, RequestsAreTyped
<1>4. own'[s] = {} /\ toInsert'[s] = <<>>
  <2>1. s \notin Writing
    BY <1>1 DEF Writing
  <2>. QED
    BY <1>1, <2>1 DEF RInv, SessionsAreApart
<1>5. PICK n \in 1..MaxBatch : xs \in [1..n -> Records]
  BY DEF Batches
<1>6. n \in Nat /\ n >= 1 /\ Len(xs) = n
  <2>1. xs \in Seq(Records) /\ DOMAIN xs = 1..n
    BY <1>5, SeqDef
  <2>. QED
    BY <1>5, <2>1, LenProperties
<1>7. writes \in Nat /\ writes' = writes
  BY <1>1 DEF writes, RInv, RequestsAreTyped
<1>8. Places(s)' = {} /\ Computed(s)' = 0 /\ Len(<<>>) = 0 /\ Audited(s)' = {}
  BY <1>2, <1>3 DEF Places, Computed, Audited
<1>9. BatchIsRight(s)'
  <2>1. r.old \in [Records -> 0..writes]
    BY <1>2, <1>7 DEF EntryInv
  <2>. QED
    BY <1>2, <1>3, <1>6, <1>7, <1>8, <2>1 DEF BatchIsRight, Places
<1>10. TransactionIsRight(s)'
  <2>1. EntriesDescribe(s)'
    BY <1>4, <1>8 DEF EntriesDescribe
  <2>2. EntriesAreComplete(s)'
    BY <1>8 DEF EntriesAreComplete
  <2>3. LogIsOlder(s)'
    BY <1>8 DEF LogIsOlder
  <2>4. OldsAreValues(s)'
    <3>1. ToSet(xs) \subseteq Records
      BY <1>5 DEF ToSet
    <3>. QED
      BY <1>1, <1>2, <1>3, <3>1 DEF OldsAreValues
  <2>5. PassedAreOlder(s)'
    BY <1>8 DEF PassedAreOlder
  <2>. QED
    BY <1>9, <2>1, <2>2, <2>3, <2>4, <2>5 DEF TransactionIsRight
<1>11. ASSUME NEW q \in Sessions \ {s}, Active(q) PROVE AreApart(s, q)'
  <2>1. ASSUME NEW x, x \in ToSet(xs), x \in ToSet(req[q].records) PROVE ~Alone(x)'
    <3>. DEFINE Z == UNION {ToSet(req[p].records) : p \in {u \in Sessions : req[u].at \notin {"idle", "publish"}}}
                P == {{a, b} : a \in ToSet(xs), b \in Z}
    <3>1. Beside(xs) = P
      BY DEF Beside
    <3>2. x \in ToSet(xs) /\ x \in Z
      BY <1>11, <2>1 DEF Active
    <3>. HIDE DEF Z
    <3>3. {x, x} \in P
      BY <3>2
    <3>. HIDE DEF P
    <3>4. {x} \in overlapped'
      BY <1>1, <3>1, <3>3
    <3>. QED
      BY <3>4 DEF Alone
  <2>2. req'[q].records = req[q].records /\ req'[s].records = xs
    BY <1>2, <1>3
  <2>. QED
    BY <1>8, <2>1, <2>2 DEF AreApart
<1>12. \A x \in Records : \A column \in Columns : HasLast(OwnOf(s, x, column))'
  BY <1>4 DEF HasLast, OwnOf
<1>. QED
  BY <1>1, <1>3, <1>10, <1>11, <1>12 DEF WorksOn

\* A row that is changed gets the highest number, and nobody else holds it.
LEMMA ChangeKeepsEntries ==
  ASSUME RInv, EntryInv, NEW s \in Sessions, NEW title \in Contents \cup {NoContent}, Change(s, title)
  PROVE  WorksOn(s)
<1>. DEFINE r == [req[s] EXCEPT !.at = "audit", !.wrote = Append(@, writes + 1)]
            k == req[s].k
<1>1. /\ req[s].at = "change" /\ Blocking(s) = {} /\ titles' = Append(titles, title)
      /\ (title = NoContent) = (req[s].op = "delete")
      /\ UNCHANGED <<dialect, value, unaudited, overlapped, log, own, toInsert>>
  BY DEF Change, auditVars
<1>2. req' = [req EXCEPT ![s] = r]
  BY DEF Change
<1>3. /\ IsRequest(req[s]) /\ titles \in Seq(Contents \cup {NoContent})
      /\ TransactionIsRight(s) /\ BatchIsRight(s) /\ Active(s)
  BY <1>1 DEF RInv, RequestsAreTyped, EntryInv, Active, TransactionIsRight
<1>4. /\ r.at = "audit" /\ r.records = req[s].records /\ r.k = k /\ r.old = req[s].old /\ r.op = req[s].op
      /\ r.skipped = req[s].skipped
      /\ r.wrote = Append(req[s].wrote, writes + 1)
  BY <1>3 DEF IsRequest, RequestFields
<1>. HIDE DEF r
<1>5. req'[s] = r /\ \A q \in Sessions \ {s} : req'[q] = req[q]
  BY <1>2 DEF RInv, RequestsAreTyped
<1>6. /\ writes \in Nat /\ writes' = writes + 1 /\ titles'[writes + 1] = title
      /\ \A w \in 0..writes : Title(w)' = Title(w)
      /\ \A v, w \in 0..writes : ColumnsOf(v, w)' = ColumnsOf(v, w)
  <2>1. writes \in Nat /\ writes' = writes + 1 /\ titles'[writes + 1] = title
    BY <1>1, <1>3, AppendProperties, LenProperties DEF writes
  <2>. QED
    BY <1>1, <1>3, <2>1, TitlesStay
<1>7. /\ k \in Nat /\ k \in 1..Len(req[s].records) /\ Places(s) = 1..(k - 1) /\ Places(s)' = 1..k
      /\ \A i \in Places(s) : req'[s].wrote[i] = req[s].wrote[i] /\ i # k
      /\ req'[s].wrote[k] = writes + 1 /\ Len(req'[s].wrote) = k
  <2>1. k \in 1..Len(req[s].records) /\ Len(req[s].records) \in Nat /\ Len(req[s].wrote) = k - 1
    BY <1>1, <1>3, BatchFacts DEF BatchIsRight
  <2>2. PICK ws \in Seq(Nat) : ws = req[s].wrote
    BY <1>3 DEF IsRequest
  <2>3. PICK w \in Nat : w = writes + 1
    BY <1>6
  <2>4. /\ Len(Append(ws, w)) = Len(ws) + 1 /\ \A i \in 1..Len(ws) : Append(ws, w)[i] = ws[i]
        /\ Append(ws, w)[Len(ws) + 1] = w
    BY AppendProperties
  <2>5. req'[s].wrote = Append(ws, w)
    BY <1>4, <1>5, <2>2, <2>3
  <2>6. k \in Nat /\ Len(ws) = k - 1 /\ Len(ws) + 1 = k
    BY <2>1, <2>2
  <2>7. Places(s) = 1..(k - 1) /\ Places(s)' = 1..k
    BY <2>2, <2>4, <2>5, <2>6 DEF Places
  <2>. QED
    BY <2>1, <2>2, <2>3, <2>4, <2>5, <2>6, <2>7
<1>c. /\ Computed(s)' = k - 1 /\ Computed(s) = k - 1 /\ Audited(s)' = Audited(s)
      /\ Audited(s) \subseteq Places(s) /\ req'[s].skipped \subseteq 1..Computed(s)'
  <2>1. Computed(s)' = k - 1 /\ Computed(s) = k - 1 /\ req'[s].skipped = req[s].skipped
    BY <1>1, <1>4, <1>5 DEF Computed
  <2>2. req[s].skipped \subseteq 1..(k - 1)
    BY <1>3, <2>1 DEF BatchIsRight
  <2>. QED
    BY <1>7, <2>1, <2>2 DEF Audited
<1>8. /\ \A i : OldAt(s, i)' = OldAt(s, i)
      /\ \A i \in Places(s) : NewAt(s, i)' = NewAt(s, i)
  BY <1>4, <1>5, <1>7 DEF OldAt, NewAt, NewValue
<1>9. BatchIsRight(s)'
  <2>1. ASSUME NEW i \in Places(s)'
        PROVE  /\ req'[s].wrote[i] \in 1..writes'
               /\ req'[s].op # "delete" => Title(req[s].wrote[i])' # NoContent
    <3>1. CASE i = k
      <4>1. req'[s].wrote[i] = writes + 1 /\ writes' = writes + 1 /\ writes \in Nat
        BY <1>6, <1>7, <3>1
      <4>2. req[s].op # "delete" => title # NoContent
        BY <1>1
      <4>3. Title(req[s].wrote[i])' = title
        BY <1>6, <4>1 DEF Title
      <4>. QED
        BY <1>4, <1>5, <4>1, <4>2, <4>3
    <3>2. CASE i # k
      <4>1. i \in Places(s) /\ req'[s].wrote[i] = req[s].wrote[i]
        BY <1>7, <3>2
      <4>2. PICK w : w = req[s].wrote[i]
        OBVIOUS
      <4>3. w \in 1..writes /\ (req[s].op # "delete" => Title(w) # NoContent)
        BY <1>3, <4>1, <4>2 DEF BatchIsRight
      <4>4. Title(w)' = Title(w) /\ w \in 1..writes'
        BY <1>6, <4>3
      <4>. QED
        BY <1>4, <1>5, <4>1, <4>2, <4>3, <4>4 DEF Title
    <3>. QED
      BY <3>1, <3>2
  <2>2. ASSUME NEW i \in Places(s)', NEW j \in Places(s)', req'[s].wrote[i] = req'[s].wrote[j] PROVE i = j
    <3>1. \A h \in Places(s) : req[s].wrote[h] \in 1..writes
      BY <1>3 DEF BatchIsRight
    <3>2. \A h \in Places(s)' : h = k \/ h \in Places(s)
      BY <1>7
    <3>3. ASSUME NEW h \in Places(s) PROVE req'[s].wrote[h] # req'[s].wrote[k]
      <4>1. req'[s].wrote[h] = req[s].wrote[h] /\ req'[s].wrote[k] = writes + 1
        BY <1>7
      <4>2. req[s].wrote[h] \in 1..writes /\ writes \in Nat
        BY <1>6, <3>1
      <4>. QED
        BY <4>1, <4>2
    <3>4. CASE i = k \/ j = k
      BY <2>2, <3>2, <3>3, <3>4
    <3>5. CASE i # k /\ j # k
      BY <1>3, <1>7, <2>2, <3>2, <3>5 DEF BatchIsRight
    <3>. QED
      BY <3>4, <3>5
  <2>3. req'[s].old \in [Records -> 0..writes']
    BY <1>3, <1>4, <1>5, <1>6 DEF BatchIsRight
  <2>4. req'[s].records \in Batches /\ req'[s].k \in 1..Len(req'[s].records) /\ req'[s].at # "change"
        /\ Len(req'[s].wrote) = req'[s].k
    BY <1>3, <1>4, <1>5, <1>7 DEF BatchIsRight
  <2>. QED
    BY <1>c, <2>1, <2>2, <2>3, <2>4 DEF BatchIsRight
<1>10. toInsert'[s] = <<>> /\ own'[s] = own[s]
  BY <1>1 DEF RInv, SessionsAreApart
<1>11. ASSUME NEW i \in Places(s)
       PROVE  /\ \A c : Describes(c, s, i) => Describes(c, s, i)'
              /\ ColumnsOf(OldAt(s, i), NewAt(s, i))' = ColumnsOf(OldAt(s, i), NewAt(s, i))
  <2>1. OldAt(s, i) \in 0..writes /\ NewAt(s, i) \in 0..writes
    <3>1. i \in 1..Len(req[s].records) /\ i \in Places(s) /\ writes \in Nat
      BY <1>3, <1>6, <1>7, BatchFacts
    <3>. QED
      BY <1>3, <3>1, NumbersAreWrites
  <2>2. PICK v, w \in 0..writes : v = OldAt(s, i) /\ w = NewAt(s, i)
    BY <2>1
  <2>3. v = OldAt(s, i)' /\ w = NewAt(s, i)' /\ ColumnsOf(v, w)' = ColumnsOf(v, w)
    BY <1>6, <1>8, <2>2
  <2>4. ColumnsOf(OldAt(s, i), NewAt(s, i))' = ColumnsOf(OldAt(s, i), NewAt(s, i))
    BY <2>2, <2>3 DEF ColumnsOf, Differing, Title
  <2>5. ASSUME NEW c, Describes(c, s, i) PROVE Describes(c, s, i)'
    <3>1. c.old = v /\ c.new = w /\ c.column \in ColumnsOf(v, w) /\ c.record = req[s].records[i] /\ c.write = req[s].wrote[i]
      BY <2>2, <2>5 DEF Describes
    <3>2. c.column \in ColumnsOf(c.old, c.new)'
      BY <2>3, <3>1 DEF ColumnsOf, Differing, Title
    <3>. QED
      BY <1>4, <1>5, <1>7, <2>3, <3>1, <3>2 DEF Describes
  <2>. QED
    BY <2>4, <2>5
<1>12. EntriesDescribe(s)'
  <2>1. \A e \in own[s] : \E i \in Audited(s) : Describes(e.change, s, i)
    BY <1>3 DEF TransactionIsRight, EntriesDescribe
  <2>2. \A e \in own'[s] : \E i \in Audited(s)' : Describes(e.change, s, i)'
    BY <1>c, <1>10, <1>11, <2>1
  <2>. QED
    BY <1>10, <2>2 DEF EntriesDescribe
<1>13. EntriesAreComplete(s)'
  <2>2. ASSUME NEW i \in Audited(s)', NEW column \in ColumnsOf(OldAt(s, i), NewAt(s, i))'
        PROVE  \E e \in own'[s] : e.change.write = req'[s].wrote[i] /\ e.change.column = column
    <3>1. i \in Places(s) /\ i \in Audited(s)
      BY <1>c
    <3>2. column \in ColumnsOf(OldAt(s, i), NewAt(s, i))
      BY <1>11, <2>2, <3>1
    <3>3. toInsert[s] = <<>>
      BY <1>1, <1>10
    <3>. QED
      BY <1>3, <1>7, <1>10, <3>1, <3>2, <3>3 DEF TransactionIsRight, EntriesAreComplete
  <2>. QED
    BY <2>2 DEF EntriesAreComplete
<1>14. LogIsOlder(s)'
  <2>1. ASSUME NEW i \in Places(s)', NEW f \in log
        PROVE  /\ f.change.write # req'[s].wrote[i]
               /\ f.change.record = req'[s].records[i] =>
                    /\ f.change.write < req'[s].wrote[i]
                    /\ \A e \in own'[s] : e.change.record = f.change.record => f.id < e.id
    <3>1. CASE i \in Places(s)
      BY <1>3, <1>4, <1>5, <1>7, <1>10, <3>1 DEF TransactionIsRight, LogIsOlder
    <3>2. CASE i = k
      <4>1. f.change.write \in 1..writes
        BY DEF EntryInv, LogIsComplete
      <4>2. \A e \in own[s] : e.change.record # req[s].records[k]
        <5>1. \A e \in own[s] : \E j \in Places(s) : e.change.record = req[s].records[j]
          BY <1>3, <1>c DEF TransactionIsRight, EntriesDescribe, Describes
        <5>2. \A j \in Places(s) : j \in 1..Len(req[s].records) /\ j # k
          BY <1>3, <1>7, BatchFacts
        <5>3. \A j \in Places(s) : req[s].records[j] # req[s].records[k]
          BY <1>3, <1>7, <5>2, BatchFacts
        <5>. QED
          BY <5>1, <5>3
      <4>3. req'[s].wrote[i] = writes + 1 /\ writes \in Nat
        BY <1>6, <1>7, <3>2
      <4>4. req'[s].records[i] = req[s].records[k] /\ own'[s] = own[s]
        BY <1>4, <1>5, <1>10, <3>2
      <4>5. f.change.write < req'[s].wrote[i] /\ f.change.write # req'[s].wrote[i]
        BY <4>1, <4>3
      <4>. QED
        BY <4>2, <4>4, <4>5
    <3>. QED
      BY <1>7, <3>1, <3>2
  <2>. QED
    BY <1>1, <2>1 DEF LogIsOlder
<1>15. OldsAreValues(s)'
  BY <1>1, <1>3, <1>4, <1>5 DEF TransactionIsRight, OldsAreValues, Alone
<1>16. ASSUME NEW q \in Sessions \ {s}, Active(q) PROVE AreApart(s, q)'
  <2>1. req'[q] = req[q] /\ BatchIsRight(q)
    BY <1>5, <1>16 DEF EntryInv, TransactionIsRight
  <2>2. AreApart(s, q)
    BY <1>3, <1>16 DEF EntryInv
  <2>3. Places(q)' = Places(q)
    BY <2>1 DEF Places
  <2>4. ASSUME NEW j \in Places(q) PROVE req[q].wrote[j] # writes + 1 /\ req[q].records[j] # req[s].records[k]
    <3>1. req[q].wrote[j] \in 1..writes
      BY <2>1 DEF BatchIsRight
    <3>2. q \in Writing
      <4>1. req[q].wrote # <<>>
        BY <2>4 DEF Places
      <4>. QED
        BY <1>16, <4>1 DEF Writing, Active, RInv, RequestsAreTyped, IsRequest
    <3>3. req[q].records[j] \in Touched(q)
      BY DEF Touched, Places
    <3>4. CASE dialect = "sqlite"
      <4>1. s \in Writing
        BY <1>1, <3>2, <3>4 DEF Blocking
      <4>. QED
        BY <3>2, <3>4, <4>1 DEF RInv, SessionsAreApart
    <3>5. CASE dialect # "sqlite"
      BY <1>1, <1>6, <3>1, <3>2, <3>3, <3>5 DEF Blocking, Current
    <3>. QED
      BY <3>4, <3>5
  <2>5. ASSUME NEW i \in Places(s)', NEW j \in Places(q)'
        PROVE  req'[s].wrote[i] # req'[q].wrote[j] /\ req'[s].records[i] # req'[q].records[j]
    <3>1. CASE i \in Places(s)
      BY <1>4, <1>5, <1>7, <2>1, <2>2, <2>3, <3>1 DEF AreApart
    <3>2. CASE i = k
      BY <1>4, <1>5, <1>7, <2>1, <2>3, <2>4, <3>2
    <3>. QED
      BY <1>7, <3>1, <3>2
  <2>6. \A x \in ToSet(req'[s].records) \cap ToSet(req'[q].records) : ~Alone(x)'
    BY <1>1, <1>4, <1>5, <2>1, <2>2 DEF AreApart, Alone
  <2>. QED
    BY <2>5, <2>6 DEF AreApart
<1>p. PassedAreOlder(s)'
  <2>1. ASSUME NEW i \in Places(s)', NEW x \in Records, NEW u \in unaudited[x]
        PROVE  u # req'[s].wrote[i] /\ (x = req'[s].records[i] => u < req'[s].wrote[i])
    <3>1. CASE i \in Places(s)
      <4>1. u # req[s].wrote[i] /\ (x = req[s].records[i] => u < req[s].wrote[i])
        BY <1>3, <3>1 DEF TransactionIsRight, PassedAreOlder
      <4>. QED
        BY <1>4, <1>5, <1>7, <3>1, <4>1
    <3>2. CASE i = k
      <4>1. u \in 1..writes
        BY DEF EntryInv, PassedHaveNone
      <4>. QED
        BY <1>6, <1>7, <3>2, <4>1
    <3>. QED
      BY <1>7, <3>1, <3>2
  <2>. QED
    BY <1>1, <2>1 DEF PassedAreOlder
<1>17. TransactionIsRight(s)'
  BY <1>9, <1>12, <1>13, <1>14, <1>15, <1>p DEF TransactionIsRight
<1>18. \A x \in Records : \A column \in Columns : HasLast(OwnOf(s, x, column))'
  BY <1>10 DEF OwnOf, EntryInv, LastsAreThere
<1>. QED
  BY <1>1, <1>5, <1>16, <1>17, <1>18 DEF WorksOn

\* A request that goes on between two changes of rows.
LEMMA GoingOnKeepsEntries ==
  ASSUME RInv, EntryInv, NEW s \in Sessions, Active(s),
         \A q \in Sessions \ {s} : req'[q] = req[q] /\ own'[q] = own[q] /\ toInsert'[q] = toInsert[q],
         UNCHANGED <<log, value, unaudited, titles, overlapped>>,
         req'[s].records = req[s].records, req'[s].op = req[s].op, req'[s].old = req[s].old,
         req'[s].wrote = req[s].wrote,
         req'[s].k \in 1..Len(req[s].records),
         Len(req[s].wrote) = IF req'[s].at = "change" THEN req'[s].k - 1 ELSE req'[s].k,
         req'[s].skipped \subseteq 1..Computed(s)',
         EntriesDescribe(s)', EntriesAreComplete(s)',
         \A e \in own'[s] : e \in own[s] \/ \A f \in log : f.id < e.id,
         \A x \in Records : \A column \in Columns : HasLast(OwnOf(s, x, column))'
  PROVE  WorksOn(s)
<1>1. TransactionIsRight(s)
  BY DEF EntryInv
<1>2. Places(s)' = Places(s) /\ writes' = writes /\ \A w : Title(w)' = Title(w)
  BY DEF Places, writes, Title
<1>3. BatchIsRight(s)'
  <2>1. \A i \in Places(s) : req[s].wrote[i] \in 1..writes /\ (req[s].op # "delete" => Title(req[s].wrote[i]) # NoContent)
    BY <1>1 DEF TransactionIsRight, BatchIsRight
  <2>2. \A i \in Places(s)' : /\ req'[s].wrote[i] \in 1..writes'
                              /\ req'[s].op # "delete" => Title(req[s].wrote[i])' # NoContent
    BY <1>2, <2>1 DEF Title
  <2>. QED
    BY <1>1, <1>2, <2>2 DEF TransactionIsRight, BatchIsRight
<1>4. LogIsOlder(s)'
  <2>1. \A i \in Places(s) : \A f \in log :
          /\ f.change.write # req[s].wrote[i]
          /\ f.change.record = req[s].records[i] =>
               /\ f.change.write < req[s].wrote[i]
               /\ \A e \in own[s] : e.change.record = f.change.record => f.id < e.id
    BY <1>1 DEF TransactionIsRight, LogIsOlder
  <2>. QED
    BY <1>2, <2>1 DEF LogIsOlder
<1>5. OldsAreValues(s)'
  BY <1>1 DEF TransactionIsRight, OldsAreValues, Alone
<1>6. ASSUME NEW q \in Sessions \ {s}, Active(q) PROVE AreApart(s, q)'
  <2>1. AreApart(s, q) /\ req'[q] = req[q]
    BY <1>6 DEF EntryInv
  <2>2. Places(q)' = Places(q) /\ \A x : Alone(x)' <=> Alone(x)
    BY <2>1 DEF Places, Alone
  <2>3. \A x \in ToSet(req'[s].records) \cap ToSet(req'[q].records) : ~Alone(x)'
    BY <2>1, <2>2 DEF AreApart
  <2>. QED
    BY <1>2, <2>1, <2>2, <2>3 DEF AreApart
<1>7. PassedAreOlder(s)'
  BY <1>1, <1>2 DEF TransactionIsRight, PassedAreOlder
<1>. QED
  BY <1>3, <1>4, <1>5, <1>6, <1>7 DEF WorksOn, TransactionIsRight

\* What describes a write does so as long as neither the request nor the titles change.
LEMMA DescribesStays ==
  ASSUME NEW s, titles' = titles, req'[s].records = req[s].records, req'[s].op = req[s].op,
         req'[s].old = req[s].old, req'[s].wrote = req[s].wrote
  PROVE  /\ Places(s)' = Places(s)
         /\ \A i : OldAt(s, i)' = OldAt(s, i) /\ NewAt(s, i)' = NewAt(s, i)
         /\ \A v, w : ColumnsOf(v, w)' = ColumnsOf(v, w)
         /\ \A c, i : Describes(c, s, i) => Describes(c, s, i)'
<1>1. /\ Places(s)' = Places(s)
      /\ \A i : OldAt(s, i)' = OldAt(s, i) /\ NewAt(s, i)' = NewAt(s, i)
      /\ \A v, w : ColumnsOf(v, w)' = ColumnsOf(v, w)
  BY DEF Places, OldAt, NewAt, NewValue, ColumnsOf, Differing, Title
<1>2. ASSUME NEW c, NEW i, Describes(c, s, i) PROVE Describes(c, s, i)'
  <2>1. PICK cs : cs = ColumnsOf(c.old, c.new)
    OBVIOUS
  <2>2. c.column \in cs
    BY <1>2, <2>1 DEF Describes
  <2>3. cs = ColumnsOf(c.old, c.new)'
    BY <1>1, <2>1
  <2>. QED
    BY <1>1, <1>2, <2>2, <2>3 DEF Describes
<1>. QED
  BY <1>1, <1>2

LEMMA NextRecordKeepsEntries ==
  ASSUME RInv, EntryInv, NEW s \in Sessions, NextRecord(s)
  PROVE  WorksOn(s)
<1>. DEFINE r == [req[s] EXCEPT !.at = "change", !.k = @ + 1]
            k == req[s].k
<1>1. /\ req[s].at = "insert" /\ toInsert[s] = <<>> /\ k < Len(req[s].records)
      /\ UNCHANGED <<dialect, value, unaudited, titles, overlapped, log, own, toInsert>>
  BY DEF NextRecord, auditVars
<1>2. req' = [req EXCEPT ![s] = r]
  BY DEF NextRecord
<1>3. IsRequest(req[s]) /\ TransactionIsRight(s) /\ BatchIsRight(s) /\ Active(s)
  BY <1>1 DEF RInv, RequestsAreTyped, EntryInv, Active, TransactionIsRight
<1>4. /\ r.at = "change" /\ r.records = req[s].records /\ r.k = k + 1 /\ r.old = req[s].old /\ r.op = req[s].op
      /\ r.wrote = req[s].wrote /\ r.skipped = req[s].skipped
  BY <1>3 DEF IsRequest, RequestFields
<1>. HIDE DEF r
<1>5. req'[s] = r /\ \A q \in Sessions \ {s} : req'[q] = req[q]
  BY <1>2 DEF RInv, RequestsAreTyped
<1>6. k \in Nat /\ k + 1 \in 1..Len(req[s].records) /\ Len(req[s].wrote) = k
  BY <1>1, <1>3, BatchFacts DEF BatchIsRight
<1>7. /\ Places(s)' = Places(s) /\ Computed(s)' = Computed(s) /\ Audited(s)' = Audited(s)
      /\ \A i : OldAt(s, i)' = OldAt(s, i) /\ NewAt(s, i)' = NewAt(s, i)
      /\ \A v, w : ColumnsOf(v, w)' = ColumnsOf(v, w)
  BY <1>1, <1>4, <1>5, <1>6 DEF Places, Computed, Audited, OldAt, NewAt, NewValue, ColumnsOf, Differing, Title
<1>a. req'[s].skipped \subseteq 1..Computed(s)'
  BY <1>3, <1>4, <1>5, <1>7 DEF BatchIsRight
<1>8. EntriesDescribe(s)'
  <2>1. \A e \in own[s] : \E i \in Audited(s) : Describes(e.change, s, i)
    BY <1>3 DEF TransactionIsRight, EntriesDescribe
  <2>2. \A e \in own[s] : \E i \in Audited(s) : Describes(e.change, s, i)'
    BY <1>1, <1>4, <1>5, <2>1, DescribesStays
  <2>3. own'[s] = own[s] /\ toInsert'[s] = <<>>
    BY <1>1
  <2>. QED
    BY <1>7, <2>2, <2>3 DEF EntriesDescribe
<1>9. EntriesAreComplete(s)'
  <2>1. ASSUME NEW i \in Audited(s)', NEW column \in ColumnsOf(OldAt(s, i), NewAt(s, i))'
        PROVE  \E e \in own'[s] : e.change.write = req'[s].wrote[i] /\ e.change.column = column
    <3>1. i \in Audited(s) /\ column \in ColumnsOf(OldAt(s, i), NewAt(s, i))
      BY <1>1, <1>7, <2>1 DEF ColumnsOf, Differing, Title
    <3>. QED
      BY <1>1, <1>3, <1>4, <1>5, <3>1 DEF TransactionIsRight, EntriesAreComplete
  <2>. QED
    BY <2>1 DEF EntriesAreComplete
<1>10. \A x \in Records : \A column \in Columns : HasLast(OwnOf(s, x, column))'
  BY <1>1 DEF OwnOf, EntryInv, LastsAreThere
<1>11. /\ req'[s].records = req[s].records /\ req'[s].op = req[s].op /\ req'[s].old = req[s].old
       /\ req'[s].wrote = req[s].wrote /\ req'[s].k \in 1..Len(req[s].records)
       /\ Len(req[s].wrote) = IF req'[s].at = "change" THEN req'[s].k - 1 ELSE req'[s].k
  BY <1>4, <1>5, <1>6
<1>12. /\ UNCHANGED <<log, value, unaudited, titles, overlapped>>
       /\ \A q \in Sessions \ {s} : req'[q] = req[q] /\ own'[q] = own[q] /\ toInsert'[q] = toInsert[q]
       /\ \A e \in own'[s] : e \in own[s]
  BY <1>1, <1>5
<1>. QED
  BY <1>3, <1>11, <1>a, <1>12, <1>8, <1>9, <1>10, GoingOnKeepsEntries

\* The hook returns without an entry.
LEMMA AuditSkipsKeepsEntries ==
  ASSUME RInv, EntryInv, NEW s \in Sessions, AuditSkips(s)
  PROVE  WorksOn(s)
<1>. DEFINE r == [req[s] EXCEPT !.at = "insert", !.skipped = @ \cup {req[s].k}]
            k == req[s].k
<1>1. /\ req[s].at = "audit" /\ UNCHANGED <<dialect, value, unaudited, titles, overlapped, log, own, toInsert>>
  BY DEF AuditSkips, auditVars
<1>2. req' = [req EXCEPT ![s] = r]
  BY DEF AuditSkips
<1>3. IsRequest(req[s]) /\ TransactionIsRight(s) /\ BatchIsRight(s) /\ Active(s)
  BY <1>1 DEF RInv, RequestsAreTyped, EntryInv, Active, TransactionIsRight
<1>4. /\ r.at = "insert" /\ r.records = req[s].records /\ r.k = k /\ r.old = req[s].old /\ r.op = req[s].op
      /\ r.wrote = req[s].wrote /\ r.skipped = req[s].skipped \cup {k}
  BY <1>3 DEF IsRequest, RequestFields
<1>. HIDE DEF r
<1>5. req'[s] = r /\ \A q \in Sessions \ {s} : req'[q] = req[q]
  BY <1>2 DEF RInv, RequestsAreTyped
<1>6. k \in Nat /\ k \in 1..Len(req[s].records) /\ Len(req[s].wrote) = k
  BY <1>1, <1>3, BatchFacts DEF BatchIsRight
<1>7. toInsert[s] = <<>>
  BY <1>1 DEF RInv, SessionsAreApart
<1>8. Audited(s)' = Audited(s) /\ req'[s].skipped \subseteq 1..Computed(s)'
  <2>1. Computed(s) = k - 1 /\ Computed(s)' = k
    BY <1>1, <1>4, <1>5 DEF Computed
  <2>2. req[s].skipped \subseteq 1..(k - 1)
    BY <1>3, <2>1 DEF BatchIsRight
  <2>. QED
    BY <1>4, <1>5, <1>6, <2>1, <2>2 DEF Audited
<1>9. /\ \A i : OldAt(s, i)' = OldAt(s, i) /\ NewAt(s, i)' = NewAt(s, i)
      /\ \A v, w : ColumnsOf(v, w)' = ColumnsOf(v, w)
      /\ \A c, i : Describes(c, s, i) => Describes(c, s, i)'
  BY <1>1, <1>4, <1>5, DescribesStays
<1>10. EntriesDescribe(s)'
  <2>1. \A e \in own[s] : \E i \in Audited(s) : Describes(e.change, s, i)'
    BY <1>3, <1>9 DEF TransactionIsRight, EntriesDescribe
  <2>2. own'[s] = own[s] /\ toInsert'[s] = <<>>
    BY <1>1, <1>7
  <2>. QED
    BY <1>8, <2>1, <2>2 DEF EntriesDescribe
<1>11. EntriesAreComplete(s)'
  <2>1. ASSUME NEW i \in Audited(s)', NEW column \in ColumnsOf(OldAt(s, i), NewAt(s, i))'
        PROVE  \E e \in own'[s] : e.change.write = req'[s].wrote[i] /\ e.change.column = column
    <3>1. i \in Audited(s) /\ column \in ColumnsOf(OldAt(s, i), NewAt(s, i))
      BY <1>1, <1>8, <1>9, <2>1 DEF ColumnsOf, Differing, Title
    <3>. QED
      BY <1>1, <1>3, <1>4, <1>5, <1>7, <3>1 DEF TransactionIsRight, EntriesAreComplete
  <2>. QED
    BY <2>1 DEF EntriesAreComplete
<1>12. \A x \in Records : \A column \in Columns : HasLast(OwnOf(s, x, column))'
  BY <1>1 DEF OwnOf, EntryInv, LastsAreThere
<1>. QED
  BY <1>1, <1>3, <1>4, <1>5, <1>6, <1>8, <1>10, <1>11, <1>12, GoingOnKeepsEntries

\* The hook computes an entry for each column that differs.
LEMMA AuditKeepsEntries ==
  ASSUME RInv, EntryInv, NEW s \in Sessions, Audit(s)
  PROVE  WorksOn(s)
<1>. DEFINE r == [req[s] EXCEPT !.at = "insert"]
            k == req[s].k
            w == req[s].wrote[k]
            old == req[s].old[Current(s)]
            columns == Differing(old, NewValue(s, w))
            changes == [i \in DOMAIN columns |->
              [record |-> Current(s), column |-> columns[i], old |-> old, new |-> NewValue(s, w), write |-> w]]
            t == [i \in DOMAIN changes |-> [id |-> 0, sum |-> sums + i, change |-> changes[i],
                                            prev |-> IF i = 1 THEN LatestChecksum(s) ELSE sums + i - 1]]
<1>1. /\ req[s].at = "audit" /\ Compute(s, changes)
      /\ UNCHANGED <<dialect, value, unaudited, titles, overlapped>>
  BY DEF Audit
<1>2. /\ req' = [req EXCEPT ![s] = r] /\ toInsert' = [toInsert EXCEPT ![s] = t] /\ UNCHANGED <<log, own>>
  BY <1>1 DEF Audit, Compute
<1>3. IsRequest(req[s]) /\ TransactionIsRight(s) /\ BatchIsRight(s) /\ Active(s)
  BY <1>1 DEF RInv, RequestsAreTyped, EntryInv, Active, TransactionIsRight
<1>4. /\ r.at = "insert" /\ r.records = req[s].records /\ r.k = k /\ r.old = req[s].old /\ r.op = req[s].op
      /\ r.wrote = req[s].wrote /\ r.skipped = req[s].skipped
  BY <1>3 DEF IsRequest, RequestFields
<1>. HIDE DEF r
<1>5. req'[s] = r /\ \A q \in Sessions \ {s} : req'[q] = req[q]
  BY <1>2 DEF RInv, RequestsAreTyped
<1>6. k \in Nat /\ k \in 1..Len(req[s].records) /\ Len(req[s].wrote) = k /\ k \in Places(s)
  <2>1. k \in 1..Len(req[s].records) /\ Len(req[s].records) \in Nat
    BY <1>3, BatchFacts
  <2>2. Len(req[s].wrote) = k
    BY <1>1, <1>3 DEF BatchIsRight
  <2>. QED
    BY <2>1, <2>2 DEF Places
<1>7. /\ Places(s)' = Places(s)
      /\ \A i : OldAt(s, i)' = OldAt(s, i) /\ NewAt(s, i)' = NewAt(s, i)
      /\ \A v, u : ColumnsOf(v, u)' = ColumnsOf(v, u)
      /\ Computed(s)' = k /\ Computed(s) = k - 1
  BY <1>1, <1>4, <1>5, <1>6 DEF Places, Computed, OldAt, NewAt, NewValue, ColumnsOf, Differing, Title
<1>a. Audited(s)' = Audited(s) \cup {k} /\ req'[s].skipped \subseteq 1..Computed(s)'
  <2>1. req[s].skipped \subseteq 1..(k - 1)
    BY <1>3, <1>7 DEF BatchIsRight
  <2>. QED
    BY <1>4, <1>5, <1>6, <1>7, <2>1 DEF Audited
<1>8. /\ toInsert'[s] = t /\ (\A q \in Sessions \ {s} : toInsert'[q] = toInsert[q]) /\ own'[s] = own[s]
      /\ toInsert[s] = <<>>
  BY <1>1, <1>2 DEF RInv, EntriesAreNumbered, SessionsAreApart
<1>9. \E n \in {1, 2} : DOMAIN columns = 1..n
  BY DEF Differing
<1>10. PICK n \in {1, 2} : DOMAIN t = 1..n /\ DOMAIN columns = 1..n
  BY <1>9
<1>11. Len(t) = n
  <2>. DEFINE u == t
  <2>1. u = [i \in 1..n |-> u[i]]
    BY <1>10
  <2>2. DOMAIN u = 1..n
    BY <1>10
  <2>. HIDE DEF u
  <2>3. u \in Seq({u[i] : i \in 1..n})
    BY <2>1, IsASeq
  <2>4. Len(u) = n
    BY <2>2, <2>3, LenProperties
  <2>. QED
    BY <2>4 DEF u
<1>12. old = OldAt(s, k) /\ NewValue(s, w) = NewAt(s, k) /\ Current(s) = req[s].records[k]
  BY DEF OldAt, NewAt, Current
<1>13. /\ ColumnsOf(old, NewValue(s, w)) = {columns[i] : i \in 1..n}
  BY <1>10 DEF ColumnsOf, ToSet
<1>14. \A i \in 1..n :
        /\ t[i].change.record = Current(s) /\ t[i].change.column = columns[i] /\ t[i].change.old = old
        /\ t[i].change.new = NewValue(s, w) /\ t[i].change.write = w
  BY <1>10
<1>. HIDE DEF t, columns, changes
<1>15. EntriesDescribe(s)'
  <2>1. \A e \in own[s] : \E i \in Audited(s) : Describes(e.change, s, i)
    BY <1>3 DEF TransactionIsRight, EntriesDescribe
  <2>2. \A e \in own[s] : \E i \in Audited(s)' : Describes(e.change, s, i)'
    BY <1>1, <1>a, <1>4, <1>5, <2>1, DescribesStays
  <2>3. ASSUME NEW j \in 1..n PROVE Describes(t[j].change, s, k)
    <3>1. PICK c : c = t[j].change
      OBVIOUS
    <3>2. c.record = Current(s) /\ c.column = columns[j] /\ c.old = old /\ c.new = NewValue(s, w) /\ c.write = w
      BY <1>14, <3>1
    <3>3. c.column \in ColumnsOf(old, NewValue(s, w))
      BY <1>13, <3>2
    <3>4. c.old = OldAt(s, k) /\ c.new = NewAt(s, k) /\ c.record = req[s].records[k] /\ c.write = req[s].wrote[k]
      BY <1>12, <3>2
    <3>5. c.column \in ColumnsOf(c.old, c.new)
      BY <3>2, <3>3
    <3>. QED
      BY <3>1, <3>4, <3>5 DEF Describes
  <2>4. ASSUME NEW j \in 1..Len(toInsert[s])'
        PROVE  req'[s].k \in Audited(s)' /\ Describes(toInsert[s][j].change, s, req[s].k)'
    <3>1. PICK c, h : c = t[j].change /\ h = k
      OBVIOUS
    <3>2. Describes(c, s, h)
      BY <1>8, <1>11, <2>3, <2>4, <3>1
    <3>3. Describes(c, s, h)'
      BY <1>1, <1>4, <1>5, <3>2, DescribesStays
    <3>4. c = toInsert'[s][j].change /\ h = req'[s].k
      BY <1>4, <1>5, <1>8, <3>1
    <3>. QED
      BY <1>a, <3>1, <3>3, <3>4 DEF Describes, OldAt, NewAt, ColumnsOf, Differing, NewValue, Title
  <2>. QED
    BY <1>7, <1>8, <2>2, <2>4 DEF EntriesDescribe
<1>16. EntriesAreComplete(s)'
  <2>1. ASSUME NEW i \in Audited(s)', NEW column \in ColumnsOf(OldAt(s, i), NewAt(s, i))'
        PROVE  \/ \E e \in own'[s] : e.change.write = req'[s].wrote[i] /\ e.change.column = column
               \/ i = req'[s].k /\ \E j \in 1..Len(toInsert'[s]) : toInsert'[s][j].change.column = column
    <3>1. column \in ColumnsOf(OldAt(s, i), NewAt(s, i))
      BY <1>1, <1>7, <2>1 DEF ColumnsOf, Differing, Title
    <3>2. CASE i = k
      <4>1. PICK j \in 1..n : column = columns[j]
        BY <1>12, <1>13, <3>1, <3>2
      <4>2. t[j].change.column = column
        BY <1>14, <4>1
      <4>. QED
        BY <1>4, <1>5, <1>8, <1>11, <3>2, <4>2
    <3>3. CASE i # k
      <4>1. i \in Audited(s)
        BY <1>a, <2>1, <3>3
      <4>. QED
        <5>1. \E e \in own[s] : e.change.write = req[s].wrote[i] /\ e.change.column = column
          BY <1>3, <3>1, <3>3, <4>1 DEF TransactionIsRight, EntriesAreComplete
        <5>. QED
          BY <1>4, <1>5, <1>8, <5>1
    <3>. QED
      BY <3>2, <3>3
  <2>. QED
    BY <2>1 DEF EntriesAreComplete
<1>17. \A x \in Records : \A column \in Columns : HasLast(OwnOf(s, x, column))'
  BY <1>8 DEF OwnOf, EntryInv, LastsAreThere
<1>. HIDE DEF t
<1>. QED
  BY <1>1, <1>2, <1>3, <1>4, <1>5, <1>6, <1>a, <1>8, <1>15, <1>16, <1>17, GoingOnKeepsEntries

\* An entry that is flushed gets the highest id.
LEMMA AuditInsertsKeepsEntries ==
  ASSUME RInv, EntryInv, NEW s \in Sessions, AuditInserts(s)
  PROVE  WorksOn(s)
<1>. DEFINE t == toInsert[s]
            n == [Head(t) EXCEPT !.id = ids + 1]
            k == req[s].k
<1>1. /\ req[s].at = "insert" /\ t # <<>> /\ UNCHANGED <<log, value, unaudited, titles, overlapped, req>>
      /\ own' = [own EXCEPT ![s] = @ \cup {n}] /\ toInsert' = [toInsert EXCEPT ![s] = Tail(t)]
  BY DEF AuditInserts, InsertEntry, recordVars
<1>2. IsRequest(req[s]) /\ TransactionIsRight(s) /\ BatchIsRight(s) /\ Active(s)
  BY <1>1 DEF RInv, RequestsAreTyped, EntryInv, Active, TransactionIsRight
<1>3. /\ own'[s] = own[s] \cup {n} /\ toInsert'[s] = Tail(t)
      /\ \A q \in Sessions \ {s} : own'[q] = own[q] /\ toInsert'[q] = toInsert[q]
  BY <1>1 DEF RInv, EntriesAreNumbered
<1>b. IsBatch(t)
  BY DEF RInv, LinksAreSound
<1>4. PICK S : t \in Seq(S)
  BY <1>b DEF IsBatch
<1>5. /\ Head(t) = t[1] /\ Len(t) \in Nat \ {0} /\ Len(Tail(t)) = Len(t) - 1
      /\ \A i \in 1..Len(t) - 1 : Tail(t)[i] = t[i + 1]
  BY <1>1, <1>4
<1>6. DOMAIN Head(t) = EntryFields
  BY <1>5, <1>b DEF IsBatch
<1>7. n.id = ids + 1 /\ n.change = t[1].change
  BY <1>5, <1>6 DEF EntryFields
<1>8. ids \in Nat /\ \A f \in AllEntries : f.id \in Nat /\ f.id <= ids
  BY DEF RInv, EntriesAreNumbered
<1>. HIDE DEF n
<1>9. n.id \in Nat /\ (\A f \in log : f.id < n.id) /\ (\A f \in own[s] : f.id \in Nat /\ f.id < n.id)
  BY <1>7, <1>8 DEF AllEntries
<1>10. k \in Nat /\ k \in 1..Len(req[s].records) /\ Len(req[s].wrote) = k /\ k \in Places(s)
  BY <1>1, <1>2, BatchFacts DEF BatchIsRight, Places
<1>11. /\ Places(s)' = Places(s) /\ Computed(s)' = Computed(s) /\ Audited(s)' = Audited(s)
       /\ \A i : OldAt(s, i)' = OldAt(s, i) /\ NewAt(s, i)' = NewAt(s, i)
       /\ \A v, u : ColumnsOf(v, u)' = ColumnsOf(v, u)
       /\ req'[s].skipped \subseteq 1..Computed(s)'
  BY <1>1, <1>2 DEF BatchIsRight, Audited, Places, Computed, OldAt, NewAt, NewValue, ColumnsOf, Differing, Title
<1>12. \A c, i : Describes(c, s, i) => Describes(c, s, i)'
  BY <1>1, <1>11 DEF Describes, ColumnsOf, Differing, Title
<1>13. \A j \in 1..Len(t) : k \in Audited(s) /\ Describes(t[j].change, s, k)
  BY <1>2 DEF TransactionIsRight, EntriesDescribe
<1>14. EntriesDescribe(s)'
  <2>1. \A e \in own[s] : \E i \in Audited(s) : Describes(e.change, s, i)
    BY <1>2 DEF TransactionIsRight, EntriesDescribe
  <2>2. Describes(n.change, s, k)
    BY <1>5, <1>7, <1>13
  <2>k. k \in Audited(s)
    <3>1. 1 \in 1..Len(t)
      BY <1>5
    <3>. QED
      BY <1>13, <3>1
  <2>3. \A e \in own'[s] : \E i \in Audited(s)' : Describes(e.change, s, i)'
    BY <1>3, <1>11, <1>12, <2>1, <2>2, <2>k
  <2>4. ASSUME NEW j \in 1..Len(toInsert[s])'
        PROVE  req'[s].k \in Audited(s)' /\ Describes(toInsert[s][j].change, s, req[s].k)'
    <3>1. PICK c, h : c = t[j + 1].change /\ h = k
      OBVIOUS
    <3>2. Describes(c, s, h) /\ h \in Audited(s)
      <4>1. j \in 1..Len(Tail(t))
        BY <1>3, <2>4
      <4>2. j + 1 \in 1..Len(t)
        BY <1>5, <4>1
      <4>. QED
        BY <1>13, <3>1, <4>2
    <3>3. Describes(c, s, h)'
      BY <1>12, <3>2
    <3>4. c = toInsert'[s][j].change /\ h = req'[s].k
      BY <1>1, <1>3, <1>5, <2>4, <3>1
    <3>. QED
      BY <1>11, <3>2, <3>3, <3>4 DEF Describes, OldAt, NewAt, ColumnsOf, Differing, NewValue, Title
  <2>. QED
    BY <1>11, <2>3, <2>4 DEF EntriesDescribe
<1>15. EntriesAreComplete(s)'
  <2>1. ASSUME NEW i \in Audited(s)', NEW column \in ColumnsOf(OldAt(s, i), NewAt(s, i))'
        PROVE  \/ \E e \in own'[s] : e.change.write = req'[s].wrote[i] /\ e.change.column = column
               \/ i = req'[s].k /\ \E j \in 1..Len(toInsert'[s]) : toInsert'[s][j].change.column = column
    <3>1. i \in Audited(s) /\ column \in ColumnsOf(OldAt(s, i), NewAt(s, i))
      BY <1>1, <1>11, <2>1 DEF ColumnsOf, Differing, Title
    <3>2. \/ \E e \in own[s] : e.change.write = req[s].wrote[i] /\ e.change.column = column
          \/ i = k /\ \E j \in 1..Len(t) : t[j].change.column = column
      BY <1>2, <3>1 DEF TransactionIsRight, EntriesAreComplete
    <3>3. CASE \E e \in own[s] : e.change.write = req[s].wrote[i] /\ e.change.column = column
      BY <1>1, <1>3, <3>3
    <3>4. ASSUME i = k, NEW j \in 1..Len(t), t[j].change.column = column
          PROVE  \/ \E e \in own'[s] : e.change.write = req'[s].wrote[i] /\ e.change.column = column
                 \/ i = req'[s].k /\ \E h \in 1..Len(toInsert'[s]) : toInsert'[s][h].change.column = column
      <4>1. CASE j = 1
        <5>1. n.change.column = column /\ n.change.write = req[s].wrote[i]
          BY <1>5, <1>7, <1>13, <3>4, <4>1 DEF Describes
        <5>. QED
          BY <1>1, <1>3, <5>1
      <4>2. CASE j # 1
        <5>1. j - 1 \in 1..Len(t) - 1 /\ (j - 1) + 1 = j
          BY <1>5, <4>2
        <5>2. j - 1 \in 1..Len(toInsert'[s]) /\ toInsert'[s][j - 1] = t[j]
          BY <1>3, <1>5, <5>1
        <5>. QED
          BY <1>1, <3>4, <5>2
      <4>. QED
        BY <4>1, <4>2
    <3>. QED
      BY <3>2, <3>3, <3>4
  <2>. QED
    BY <2>1 DEF EntriesAreComplete
<1>16. ASSUME NEW x \in Records, NEW column \in Columns PROVE HasLast(OwnOf(s, x, column))'
  <2>1. CASE n.change.record = x /\ n.change.column = column
    <3>1. OwnOf(s, x, column)' = OwnOf(s, x, column) \cup {n}
      BY <1>3, <2>1 DEF OwnOf
    <3>2. PICK E : E = OwnOf(s, x, column)
      OBVIOUS
    <3>3. HasLast(E \cup {n})
      BY <1>9, <3>2, LastIsNew DEF OwnOf
    <3>. QED
      BY <3>1, <3>2, <3>3 DEF HasLast
  <2>2. CASE ~(n.change.record = x /\ n.change.column = column)
    <3>1. OwnOf(s, x, column)' = OwnOf(s, x, column)
      BY <1>3, <2>2 DEF OwnOf
    <3>. QED
      BY <3>1 DEF EntryInv, LastsAreThere, HasLast
  <2>. QED
    BY <2>1, <2>2
<1>17. \A e \in own'[s] : e \in own[s] \/ \A f \in log : f.id < e.id
  BY <1>3, <1>9
<1>. HIDE DEF t
<1>. QED
  BY <1>1, <1>2, <1>3, <1>10, <1>11, <1>14, <1>15, <1>16, <1>17, GoingOnKeepsEntries

-----------------------------------------------------------------------------
(* The commit.                                                              *)

\* The entries of a record that a commit adds come after those that are there.
LEMMA LastOfBoth ==
  ASSUME NEW E, NEW O, HasLast(E), HasLast(O),
         \A e \in E \cup O : e.id \in Nat, \A e, f \in E \cup O : e.id = f.id => e = f,
         \A e \in E, o \in O : e.id < o.id
  PROVE  HasLast(E \cup O) /\ (O # {} => LastOf(E \cup O) = LastOf(O))
<1>1. CASE O = {}
  <2>1. E \cup O = E
    BY <1>1
  <2>. QED
    BY <1>1, <2>1
<1>2. CASE O # {}
  <2>1. LastOf(O) \in O /\ \A f \in O : f.id <= LastOf(O).id
    BY <1>2, LastIsThere
  <2>2. PICK l \in O : l = LastOf(O)
    BY <2>1
  <2>3. \A f \in E \cup O : f.id <= l.id
    <3>1. \A f \in O : f.id <= l.id
      BY <2>1, <2>2
    <3>. QED
      BY <3>1
  <2>4. HasLast(E \cup O)
    BY <2>2, <2>3 DEF HasLast
  <2>5. LastOf(E \cup O) \in E \cup O /\ \A f \in E \cup O : f.id <= LastOf(E \cup O).id
    BY <2>2, <2>4, LastIsThere
  <2>6. PICK m \in E \cup O : m = LastOf(E \cup O)
    BY <2>5
  <2>7. l.id <= m.id /\ m.id <= l.id /\ l.id \in Nat /\ m.id \in Nat
    BY <2>2, <2>3, <2>5, <2>6
  <2>8. l.id = m.id
    BY <2>7
  <2>9. l = m
    BY <2>2, <2>6, <2>8
  <2>. QED
    BY <2>2, <2>4, <2>6, <2>9
<1>. QED
  BY <1>1, <1>2

\* What a session is about to commit.
CommitsWell(s) ==
  /\ Audited(s) \subseteq Places(s)
  /\ \A e \in own[s] : \E i \in Audited(s) : Describes(e.change, s, i)
  /\ \A i \in Places(s) :
       /\ req[s].records[i] \in Records /\ req[s].records[i] \in ToSet(req[s].records)
       /\ req[s].wrote[i] \in 1..writes /\ OldAt(s, i) \in 0..writes /\ NewAt(s, i) \in 0..writes
       /\ NewAt(s, i) # 0 => Title(NewAt(s, i)) # NoContent
       /\ Written(s)[req[s].records[i]] = NewAt(s, i)
       /\ i \in Audited(s) => \A column \in ColumnsOf(OldAt(s, i), NewAt(s, i)) :
            \E e \in own[s] : e.change.write = req[s].wrote[i] /\ e.change.column = column
       /\ \A j \in Places(s) : i = j <=> req[s].records[i] = req[s].records[j]
       /\ \A j \in Places(s) : i = j <=> req[s].wrote[i] = req[s].wrote[j]
  /\ \A x \in Records : (\A i \in Places(s) : x # req[s].records[i]) => Written(s)[x] = value[x]
  /\ ToSet(req[s].records) \subseteq {req[s].records[i] : i \in Places(s)}
  /\ Written(s) \in [Records -> 0..writes]
  /\ DOMAIN Passed(s) = Records
  /\ \A x \in Records : \A u : u \in Passed(s)[x] <=>
       u \in unaudited[x] \/ \E i \in Places(s) \ Audited(s) : x = req[s].records[i] /\ u = req[s].wrote[i]

LEMMA CommitFacts ==
  ASSUME RInv, EntryInv, NEW s \in Sessions, req[s].at = "insert", toInsert[s] = <<>>,
         req[s].k = Len(req[s].records)
  PROVE  CommitsWell(s)
<1>. DEFINE n == Len(req[s].records)
<1>1. IsRequest(req[s]) /\ TransactionIsRight(s) /\ BatchIsRight(s) /\ Active(s)
  BY DEF RInv, RequestsAreTyped, EntryInv, Active, TransactionIsRight
<1>2. writes \in Nat
  BY DEF RInv, RequestsAreTyped, writes
<1>3. /\ n \in Nat /\ Len(req[s].wrote) = n /\ Places(s) = 1..n /\ Computed(s) = n
      /\ DOMAIN req[s].records = 1..n
      /\ \A i \in 1..n : req[s].records[i] \in Records /\ req[s].records[i] \in ToSet(req[s].records)
      /\ \A i, j \in 1..n : req[s].records[i] = req[s].records[j] => i = j
  BY <1>1, BatchFacts DEF BatchIsRight, Places, Computed
<1>4. DOMAIN req[s].wrote = 1..n
  <2>1. req[s].wrote \in Seq(Nat)
    BY <1>1 DEF IsRequest
  <2>. QED
    BY <1>3, <2>1, LenProperties
<1>. HIDE DEF n
<1>5. \A i, j \in Places(s) : req[s].wrote[i] = req[s].wrote[j] => i = j
  BY <1>1 DEF BatchIsRight
<1>6. \A e \in own[s] : \E i \in Audited(s) : Describes(e.change, s, i)
  BY <1>1 DEF TransactionIsRight, EntriesDescribe
<1>a. Audited(s) \subseteq Places(s) /\ req[s].skipped = Places(s) \ Audited(s)
  <2>1. req[s].skipped \subseteq 1..Computed(s)
    BY <1>1 DEF BatchIsRight
  <2>. QED
    BY <1>3, <2>1 DEF Audited
<1>7. ASSUME NEW i \in Places(s)
      PROVE  /\ req[s].wrote[i] \in 1..writes /\ OldAt(s, i) \in 0..writes /\ NewAt(s, i) \in 0..writes
             /\ NewAt(s, i) # 0 => Title(NewAt(s, i)) # NoContent
  <2>1. /\ req[s].wrote[i] \in 1..writes
        /\ req[s].op # "delete" => Title(req[s].wrote[i]) # NoContent
    BY <1>1 DEF BatchIsRight
  <2>2. OldAt(s, i) \in 0..writes /\ NewAt(s, i) \in 0..writes
    BY <1>1, <1>2, <1>3, NumbersAreWrites DEF n
  <2>. QED
    BY <2>1, <2>2 DEF NewAt, NewValue
<1>8. ASSUME NEW i \in Audited(s)
      PROVE  \A column \in ColumnsOf(OldAt(s, i), NewAt(s, i)) :
               \E e \in own[s] : e.change.write = req[s].wrote[i] /\ e.change.column = column
  BY <1>1, <1>3 DEF TransactionIsRight, EntriesAreComplete
<1>9. Touched(s) = {req[s].records[i] : i \in Places(s)}
  BY DEF Touched, Places
<1>10. ASSUME NEW i \in Places(s) PROVE Written(s)[req[s].records[i]] = NewAt(s, i)
  <2>. DEFINE x == req[s].records[i]
              P(w) == \E j \in DOMAIN req[s].wrote : req[s].wrote[j] = w /\ req[s].records[j] = x
              c == CHOOSE w \in ToSet(req[s].wrote) : P(w)
  <2>1. req[s].wrote[i] \in ToSet(req[s].wrote) /\ P(req[s].wrote[i])
    BY <1>3, <1>4 DEF ToSet
  <2>2. P(c)
    BY <2>1
  <2>3. PICK j \in 1..n : req[s].wrote[j] = c /\ req[s].records[j] = x
    BY <1>4, <2>2
  <2>4. j = i
    BY <1>3, <2>3
  <2>5. c = req[s].wrote[i]
    BY <2>3, <2>4
  <2>6. x \in Touched(s) /\ x \in Records
    BY <1>3, <1>9
  <2>7. Written(s)[x] = NewValue(s, c)
    BY <2>6 DEF Written
  <2>. QED
    BY <2>5, <2>7 DEF NewAt
<1>11. ASSUME NEW x \in Records, \A i \in Places(s) : x # req[s].records[i] PROVE Written(s)[x] = value[x]
  <2>1. x \notin Touched(s)
    BY <1>9, <1>11
  <2>. QED
    BY <2>1 DEF Written
<1>12. ToSet(req[s].records) \subseteq {req[s].records[i] : i \in Places(s)}
  BY <1>3 DEF ToSet
<1>13. Written(s) \in [Records -> 0..writes]
  <2>1. \A x \in Records : Written(s)[x] \in 0..writes
    <3>1. value \in [Records -> 0..writes]
      BY DEF EntryInv
    <3>. QED
      BY <1>7, <1>10, <1>11, <3>1
  <2>2. Written(s) = [x \in Records |-> Written(s)[x]]
    BY DEF Written
  <2>. QED
    BY <2>1, <2>2
<1>14. /\ DOMAIN Passed(s) = Records
       /\ \A x \in Records : \A u : u \in Passed(s)[x] <=>
            u \in unaudited[x] \/ \E i \in Places(s) \ Audited(s) : x = req[s].records[i] /\ u = req[s].wrote[i]
  BY <1>a DEF Passed
<1>. QED
  BY <1>3, <1>5, <1>6, <1>a, <1>7, <1>8, <1>10, <1>11, <1>12, <1>13, <1>14 DEF CommitsWell

\* The log after the commit, for one record and one column.
LEMMA EntriesGrow ==
  ASSUME RInv, EntryInv, NEW s \in Sessions, Active(s), CommitsWell(s), log' = log \cup own[s],
         NEW x \in Records, NEW column \in Columns
  PROVE  LET E == EntriesOf(x, column)
             O == OwnOf(s, x, column) IN
         /\ EntriesOf(x, column)' = E \cup O
         /\ HasLast(E) /\ HasLast(O) /\ HasLast(E \cup O)
         /\ O # {} => LastOf(E \cup O) = LastOf(O) /\ LastOf(O) \in O
         /\ \A e \in O : \E i \in Places(s) : x = req[s].records[i] /\ Describes(e.change, s, i)
         /\ \A f \in E, e \in O : f.id < e.id /\ f.change.write < e.change.write
<1>. DEFINE E == EntriesOf(x, column)
            O == OwnOf(s, x, column)
<1>1. EntriesOf(x, column)' = E \cup O
  BY DEF EntriesOf, OwnOf
<1>2. HasLast(E) /\ HasLast(O)
  BY DEF EntryInv, LastsAreThere
<1>3. \A e \in O : \E i \in Places(s) : x = req[s].records[i] /\ Describes(e.change, s, i)
  BY DEF CommitsWell, OwnOf, Describes
<1>4. \A f \in E, e \in O : f.id < e.id /\ f.change.write < e.change.write
  <2>1. SUFFICES ASSUME NEW f \in E, NEW e \in O PROVE f.id < e.id /\ f.change.write < e.change.write
    OBVIOUS
  <2>2. PICK i \in Places(s) : x = req[s].records[i] /\ Describes(e.change, s, i)
    BY <1>3
  <2>3. f \in log /\ f.change.record = x /\ e \in own[s] /\ e.change.record = x /\ e.change.write = req[s].wrote[i]
    BY <2>2 DEF EntriesOf, OwnOf, Describes
  <2>4. LogIsOlder(s)
    BY DEF EntryInv, TransactionIsRight
  <2>. QED
    BY <2>2, <2>3, <2>4 DEF LogIsOlder
<1>5. /\ \A e \in E \cup O : e.id \in Nat
      /\ \A e, f \in E \cup O : e.id = f.id => e = f
  <2>1. E \cup O \subseteq AllEntries
    BY DEF EntriesOf, OwnOf, AllEntries
  <2>. QED
    BY <2>1 DEF RInv, EntriesAreNumbered
<1>. HIDE DEF E, O
<1>6. HasLast(E \cup O) /\ (O # {} => LastOf(E \cup O) = LastOf(O))
  BY <1>2, <1>4, <1>5, LastOfBoth
<1>7. O # {} => LastOf(O) \in O
  BY <1>2, LastIsThere
<1>. QED
  BY <1>1, <1>2, <1>3, <1>4, <1>6, <1>7 DEF E, O

\* What the commit adds to the writes that have been passed over.
LEMMA PassedGrow ==
  ASSUME RInv, EntryInv, NEW s \in Sessions, Active(s), CommitsWell(s), unaudited' = Passed(s), NEW x \in Records
  PROVE  /\ unaudited[x] \subseteq unaudited'[x]
         /\ (\A i \in Places(s) : x # req[s].records[i]) => unaudited'[x] = unaudited[x]
         /\ \A i \in Places(s) : x = req[s].records[i] =>
              \/ i \in Audited(s)
              \/ \A column : \E w \in unaudited'[x] : \A f \in EntriesOf(x, column) : f.change.write < w
<1>1. unaudited[x] \subseteq unaudited'[x]
  BY DEF CommitsWell
<1>u. \A u : u \in unaudited'[x] <=>
        u \in unaudited[x] \/ \E i \in Places(s) \ Audited(s) : x = req[s].records[i] /\ u = req[s].wrote[i]
  BY DEF CommitsWell
<1>s. unaudited[x] \in SUBSET (1..writes) /\ unaudited' = [y \in Records |-> unaudited'[y]]
  BY DEF EntryInv, PassedHaveNone, Passed
<1>2. ASSUME \A i \in Places(s) : x # req[s].records[i] PROVE unaudited'[x] = unaudited[x]
  <2>1. \A u : u \in unaudited'[x] <=> u \in unaudited[x]
    BY <1>u, <1>2
  <2>. QED
    BY <2>1
<1>3. ASSUME NEW i \in Places(s), x = req[s].records[i], i \notin Audited(s), NEW column
      PROVE  \E w \in unaudited'[x] : \A f \in EntriesOf(x, column) : f.change.write < w
  <2>1. req[s].wrote[i] \in unaudited'[x]
    BY <1>3 DEF CommitsWell
  <2>2. \A f \in EntriesOf(x, column) : f.change.write < req[s].wrote[i]
    BY <1>3 DEF EntryInv, TransactionIsRight, LogIsOlder, EntriesOf
  <2>. QED
    BY <2>1, <2>2
<1>. QED
  BY <1>1, <1>2, <1>3

\* They have no entries.
LEMMA CommitKeepsPassed ==
  ASSUME RInv, EntryInv, NEW s \in Sessions, Active(s), CommitsWell(s), log' = log \cup own[s],
         unaudited' = Passed(s), titles' = titles
  PROVE  PassedHaveNone'
<1>1. writes' = writes
  BY DEF writes
<1>u. ASSUME NEW x \in Records, NEW u \in unaudited'[x]
      PROVE  u \in unaudited[x] \/ \E i \in Places(s) \ Audited(s) : x = req[s].records[i] /\ u = req[s].wrote[i]
  BY <1>u DEF CommitsWell
<1>2. ASSUME NEW x \in Records, NEW u \in unaudited'[x] PROVE u \in 1..writes
  <2>1. CASE u \in unaudited[x]
    BY <2>1 DEF EntryInv, PassedHaveNone
  <2>2. CASE \E i \in Places(s) : u = req[s].wrote[i]
    BY <2>2 DEF CommitsWell
  <2>. QED
    BY <1>u, <1>2, <2>1, <2>2
<1>3. unaudited' \in [Records -> SUBSET (1..writes)]
  <2>1. unaudited' = [x \in Records |-> unaudited'[x]]
    BY DEF Passed
  <2>. QED
    BY <1>2, <2>1
<1>4. ASSUME NEW e \in log', NEW x \in Records, e.change.write \in unaudited'[x] PROVE FALSE
  <2>1. \/ e.change.write \in unaudited[x]
        \/ \E i \in Places(s) \ Audited(s) : e.change.write = req[s].wrote[i]
    BY <1>u, <1>4
  <2>2. CASE e \in log
    <3>1. e.change.write \notin unaudited[x]
      BY <2>2 DEF EntryInv, PassedHaveNone
    <3>2. \A i \in Places(s) : e.change.write # req[s].wrote[i]
      BY <2>2 DEF EntryInv, TransactionIsRight, LogIsOlder
    <3>. QED
      BY <2>1, <3>1, <3>2
  <2>3. CASE e \in own[s]
    <3>1. PICK j \in Audited(s) : Describes(e.change, s, j)
      BY <2>3 DEF CommitsWell
    <3>2. j \in Places(s) /\ e.change.write = req[s].wrote[j]
      BY <3>1 DEF CommitsWell, Describes
    <3>3. e.change.write \notin unaudited[x]
      BY <3>2 DEF EntryInv, TransactionIsRight, PassedAreOlder
    <3>4. \A i \in Places(s) : req[s].wrote[i] = req[s].wrote[j] => i = j
      BY <3>2 DEF CommitsWell
    <3>. QED
      BY <2>1, <3>1, <3>2, <3>3, <3>4
  <2>. QED
    BY <1>4, <2>2, <2>3
<1>. QED
  BY <1>1, <1>3, <1>4 DEF PassedHaveNone

\* The log stays complete.
LEMMA CommitKeepsLogComplete ==
  ASSUME RInv, EntryInv, NEW s \in Sessions, Active(s), CommitsWell(s), log' = log \cup own[s], titles' = titles
  PROVE  LogIsComplete'
<1>1. writes' = writes /\ \A v, w : ColumnsOf(v, w)' = ColumnsOf(v, w)
  BY DEF writes, ColumnsOf, Differing, Title
<1>2. \A e \in own[s], f \in log : e.change.write # f.change.write
  <2>1. LogIsOlder(s)
    BY DEF EntryInv, TransactionIsRight
  <2>. QED
    BY <2>1 DEF LogIsOlder, CommitsWell, Describes
<1>3. ASSUME NEW e \in log', NEW cs, cs = ColumnsOf(e.change.old, e.change.new)
      PROVE  /\ e.change.record \in Records
             /\ e.change.write \in 1..writes /\ e.change.old \in 0..writes /\ e.change.new \in 0..writes
             /\ e.change.column \in cs
             /\ \A column \in cs : \E f \in log' : f.change.write = e.change.write /\ f.change.column = column
             /\ \A f \in log' : f.change.write = e.change.write =>
                  f.change.old = e.change.old /\ f.change.new = e.change.new
  <2>1. CASE e \in log
    <3>1. /\ e.change.record \in Records
          /\ e.change.write \in 1..writes /\ e.change.old \in 0..writes /\ e.change.new \in 0..writes
          /\ e.change.column \in cs
          /\ \A column \in cs : \E f \in log : f.change.write = e.change.write /\ f.change.column = column
          /\ \A f \in log : f.change.write = e.change.write =>
               f.change.old = e.change.old /\ f.change.new = e.change.new
      BY <1>3, <2>1 DEF EntryInv, LogIsComplete
    <3>. QED
      BY <1>2, <2>1, <3>1
  <2>2. CASE e \in own[s]
    <3>1. PICK i \in Audited(s) : Describes(e.change, s, i)
      BY <2>2 DEF CommitsWell
    <3>i. i \in Places(s)
      BY DEF CommitsWell
    <3>2. /\ e.change.write = req[s].wrote[i] /\ e.change.old = OldAt(s, i) /\ e.change.new = NewAt(s, i)
          /\ e.change.column \in cs /\ cs = ColumnsOf(OldAt(s, i), NewAt(s, i))
      BY <1>3, <3>1 DEF Describes
    <3>3. ASSUME NEW f \in own[s], f.change.write = e.change.write
          PROVE  f.change.old = e.change.old /\ f.change.new = e.change.new
      <4>1. PICK j \in Places(s) : Describes(f.change, s, j)
        BY DEF CommitsWell
      <4>2. f.change.write = req[s].wrote[j] /\ f.change.old = OldAt(s, j) /\ f.change.new = NewAt(s, j)
        BY <4>1 DEF Describes
      <4>3. \A a, b \in Places(s) : req[s].wrote[a] = req[s].wrote[b] => a = b
        BY DEF CommitsWell
      <4>4. req[s].wrote[i] = req[s].wrote[j]
        BY <3>2, <3>3, <4>2
      <4>5. i = j
        BY <3>i, <4>3, <4>4
      <4>. QED
        BY <3>2, <4>2, <4>5
    <3>4. \A column \in cs : \E f \in own[s] : f.change.write = e.change.write /\ f.change.column = column
      BY <3>2, <3>i DEF CommitsWell
    <3>. QED
      <4>1. /\ req[s].wrote[i] \in 1..writes /\ OldAt(s, i) \in 0..writes /\ NewAt(s, i) \in 0..writes
            /\ e.change.record \in Records
        BY <3>1, <3>i DEF CommitsWell, Describes
      <4>2. \A f \in log' : f.change.write = e.change.write => f \in own[s]
        BY <1>2, <2>2
      <4>3. \A column \in cs : \E f \in log' : f.change.write = e.change.write /\ f.change.column = column
        BY <3>4
      <4>. QED
        BY <3>2, <3>3, <4>1, <4>2, <4>3
  <2>. QED
    BY <2>1, <2>2
<1>4. ASSUME NEW e \in log'
      PROVE  /\ e.change.record \in Records
             /\ e.change.write \in 1..writes' /\ e.change.old \in 0..writes' /\ e.change.new \in 0..writes'
             /\ e.change.column \in ColumnsOf(e.change.old, e.change.new)'
             /\ \A column \in ColumnsOf(e.change.old, e.change.new)' :
                  \E f \in log' : f.change.write = e.change.write /\ f.change.column = column
             /\ \A f \in log' : f.change.write = e.change.write =>
                  f.change.old = e.change.old /\ f.change.new = e.change.new
  <2>1. PICK cs : cs = ColumnsOf(e.change.old, e.change.new)
    OBVIOUS
  <2>2. cs = ColumnsOf(e.change.old, e.change.new)'
    BY <1>1, <2>1
  <2>. QED
    BY <1>1, <1>3, <2>1, <2>2
<1>. QED
  BY <1>4 DEF LogIsComplete

\* A write that has been passed over has added none.
LEMMA OwnAreAudited ==
  ASSUME NEW s, CommitsWell(s), NEW i \in Places(s) \ Audited(s), NEW column
  PROVE  OwnOf(s, req[s].records[i], column) = {}
<1>. SUFFICES ASSUME NEW e \in own[s], e.change.record = req[s].records[i] PROVE FALSE
  BY DEF OwnOf
<1>1. PICK j \in Audited(s) : Describes(e.change, s, j)
  BY DEF CommitsWell
<1>2. j \in Places(s) /\ req[s].records[j] = req[s].records[i]
  BY <1>1 DEF CommitsWell, Describes
<1>. QED
  BY <1>1, <1>2 DEF CommitsWell

\* The value of a record is what the last entry of its updated_at says.
LEMMA CommitKeepsValues ==
  ASSUME RInv, EntryInv, NEW s \in Sessions, Active(s), CommitsWell(s), log' = log \cup own[s],
         value' = Written(s), unaudited' = Passed(s), titles' = titles, overlapped' = overlapped
  PROVE  ValuesAreLast' /\ LastEntryIsCurrent'
<1>0. \A w : Title(w)' = Title(w)
  BY DEF Title
<1>1. ASSUME NEW x \in Records, NEW E, E = EntriesOf(x, "updated_at")'
      PROVE  Overdue(x, E)' \/ value'[x] = IF E = {} THEN 0 ELSE LastOf(E).change.new
  <2>1. PICK F, O : F = EntriesOf(x, "updated_at") /\ O = OwnOf(s, x, "updated_at")
    OBVIOUS
  <2>2. "updated_at" \in Columns
    BY DEF Columns
  <2>3. /\ E = F \cup O /\ (O # {} => LastOf(E) = LastOf(O) /\ LastOf(O) \in O)
        /\ \A e \in O : \E i \in Places(s) : x = req[s].records[i] /\ Describes(e.change, s, i)
    BY <1>1, <2>1, <2>2, EntriesGrow
  <2>4. Overdue(x, F) \/ value[x] = IF F = {} THEN 0 ELSE LastOf(F).change.new
    BY <2>1 DEF EntryInv, ValuesAreLast
  <2>9. CASE \E i \in Places(s) \ Audited(s) : x = req[s].records[i]
    <3>1. PICK i \in Places(s) \ Audited(s) : x = req[s].records[i]
      BY <2>9
    <3>2. \E w \in unaudited'[x] : \A f \in F : f.change.write < w
      BY <2>1, <3>1, PassedGrow
    <3>3. O = {}
      BY <2>1, <3>1, OwnAreAudited
    <3>. QED
      BY <2>3, <3>2, <3>3 DEF Overdue
  <2>5. CASE \E i \in Audited(s) : x = req[s].records[i]
    <3>1. PICK i \in Audited(s) : x = req[s].records[i] /\ i \in Places(s)
      BY <2>5 DEF CommitsWell
    <3>2. O # {}
      <4>. "updated_at" \in ColumnsOf(OldAt(s, i), NewAt(s, i))
        BY ColumnsFacts
      <4>1. PICK e \in own[s] : e.change.write = req[s].wrote[i] /\ e.change.column = "updated_at"
        BY <3>1 DEF CommitsWell
      <4>2. PICK j \in Places(s) : Describes(e.change, s, j)
        BY DEF CommitsWell
      <4>3. \A a, b \in Places(s) : req[s].wrote[a] = req[s].wrote[b] => a = b
        BY DEF CommitsWell
      <4>4. i = j
        BY <3>1, <4>1, <4>2, <4>3 DEF Describes
      <4>. QED
        BY <2>1, <3>1, <4>1, <4>2, <4>4 DEF OwnOf, Describes
    <3>3. PICK j \in Places(s) : x = req[s].records[j] /\ Describes(LastOf(O).change, s, j)
      BY <2>3, <3>2
    <3>4. i = j
      <4>1. \A a, b \in Places(s) : req[s].records[a] = req[s].records[b] => a = b
        BY DEF CommitsWell
      <4>. QED
        BY <3>1, <3>3, <4>1
    <3>5. value'[x] = NewAt(s, i)
      BY <3>1 DEF CommitsWell
    <3>6. E # {} /\ LastOf(E).change.new = NewAt(s, i)
      BY <2>3, <3>2, <3>3, <3>4 DEF Describes
    <3>. QED
      BY <3>5, <3>6
  <2>6. CASE \A i \in Places(s) : x # req[s].records[i]
    <3>1. O = {}
      BY <2>3, <2>6
    <3>2. value'[x] = value[x]
      BY <2>6 DEF CommitsWell
    <3>3. E = F
      BY <2>3, <3>1
    <3>4. unaudited'[x] = unaudited[x]
      BY <2>6, PassedGrow
    <3>. QED
      BY <2>4, <3>2, <3>3, <3>4 DEF Overdue
  <2>. QED
    BY <2>5, <2>6, <2>9
<1>2. ValuesAreLast'
  BY <1>1 DEF ValuesAreLast
<1>3. ASSUME NEW x \in Records PROVE CurrentAt(x, "updated_at")'
  <2>1. PICK E : E = EntriesOf(x, "updated_at")'
    OBVIOUS
  <2>2. Overdue(x, E)' \/ value'[x] = IF E = {} THEN 0 ELSE LastOf(E).change.new
    BY <1>1, <2>1
  <2>. QED
    BY <2>1, <2>2 DEF CurrentAt, Overdue
<1>4. ASSUME NEW x \in Records, Alone(x)' PROVE CurrentAt(x, "title")'
  <2>1. PICK F, O, G : F = EntriesOf(x, "title") /\ O = OwnOf(s, x, "title") /\ G = EntriesOf(x, "title")'
    OBVIOUS
  <2>2. "title" \in Columns /\ Alone(x)
    BY <1>4 DEF Columns, Alone
  <2>3. /\ G = F \cup O /\ (O # {} => LastOf(G) = LastOf(O) /\ LastOf(O) \in O)
        /\ \A e \in O : \E i \in Places(s) : x = req[s].records[i] /\ Describes(e.change, s, i)
    BY <2>1, <2>2, EntriesGrow
  <2>4. \/ Overdue(x, F)
        \/ /\ value[x] # 0 => F # {}
           /\ F # {} => Title(LastOf(F).change.new) = Title(value[x])
    BY <2>1, <2>2 DEF EntryInv, LastEntryIsCurrent
  <2>l. PICK late \in BOOLEAN : late <=> \E w \in unaudited'[x] : \A e \in G : e.change.write < w
    OBVIOUS
  <2>a. G = F => (Overdue(x, F) => late)
    BY <2>l, PassedGrow DEF Overdue
  <2>5. PICK v : v = value'[x]
    OBVIOUS
  <2>6. late \/ ((v # 0 => G # {}) /\ (G # {} => Title(LastOf(G).change.new) = Title(v)))
    <3>1. CASE O # {}
      <4>1. PICK i \in Places(s) : x = req[s].records[i] /\ Describes(LastOf(O).change, s, i)
        BY <2>3, <3>1
      <4>2. v = NewAt(s, i)
        BY <2>5, <4>1 DEF CommitsWell
      <4>. QED
        BY <2>3, <3>1, <4>1, <4>2 DEF Describes
    <3>4. ASSUME O = {}, NEW i \in Places(s) \ Audited(s), x = req[s].records[i] PROVE late
      <4>1. \E w \in unaudited'[x] : \A f \in F : f.change.write < w
        BY <2>1, <3>4, PassedGrow
      <4>. QED
        BY <2>3, <2>l, <3>4, <4>1
    <3>2. ASSUME O = {}, NEW i \in Audited(s), i \in Places(s), x = req[s].records[i]
          PROVE  late \/ ((v # 0 => G # {}) /\ (G # {} => Title(LastOf(G).change.new) = Title(v)))
      <4>1. v = NewAt(s, i) /\ (v # 0 => Title(v) # NoContent)
        BY <2>5, <3>2 DEF CommitsWell
      <4>2. OldAt(s, i) = value[x]
        <5>1. OldsAreValues(s) /\ x \in ToSet(req[s].records)
          BY <3>2 DEF EntryInv, TransactionIsRight, CommitsWell
        <5>. QED
          BY <2>2, <3>2, <5>1 DEF OldsAreValues, OldAt
      <4>3. Title(value[x]) = Title(v)
        <5>1. SUFFICES ASSUME Title(value[x]) # Title(v) PROVE FALSE
          OBVIOUS
        <5>2. "title" \in ColumnsOf(OldAt(s, i), NewAt(s, i))
          BY <4>1, <4>2, <5>1, ColumnsFacts
        <5>3. PICK e \in own[s] : e.change.write = req[s].wrote[i] /\ e.change.column = "title"
          BY <3>2, <5>2 DEF CommitsWell
        <5>4. PICK j \in Places(s) : Describes(e.change, s, j)
          BY DEF CommitsWell
        <5>5. \A a, b \in Places(s) : req[s].wrote[a] = req[s].wrote[b] => a = b
          BY DEF CommitsWell
        <5>6. i = j
          BY <3>2, <5>3, <5>4, <5>5 DEF Describes
        <5>7. e \in O
          BY <2>1, <3>2, <5>3, <5>4, <5>6 DEF OwnOf, Describes
        <5>. QED
          BY <3>2, <5>7
      <4>4. v # 0 => value[x] # 0
        BY <4>1, <4>3 DEF Title
      <4>5. G = F
        BY <2>3, <3>2
      <4>6. Overdue(x, F) => late
        BY <2>a, <4>5
      <4>7. ~Overdue(x, F) => (v # 0 => G # {}) /\ (G # {} => Title(LastOf(G).change.new) = Title(v))
        BY <2>4, <4>3, <4>4, <4>5
      <4>. QED
        BY <4>6, <4>7
    <3>3. CASE \A i \in Places(s) : x # req[s].records[i]
      <4>1. v = value[x]
        BY <2>5, <3>3 DEF CommitsWell
      <4>2. O = {}
        BY <2>3, <3>3
      <4>3. G = F
        BY <2>3, <4>2
      <4>4. Overdue(x, F) => late
        BY <2>a, <4>3
      <4>5. ~Overdue(x, F) => (v # 0 => G # {}) /\ (G # {} => Title(LastOf(G).change.new) = Title(v))
        BY <2>4, <4>1, <4>3
      <4>. QED
        BY <4>4, <4>5
    <3>5. Audited(s) \subseteq Places(s)
      BY DEF CommitsWell
    <3>. QED
      BY <3>1, <3>2, <3>3, <3>4, <3>5
  <2>7. PICK w : w = LastOf(G).change.new
    OBVIOUS
  <2>8. late \/ (G # {} => Title(w)' = Title(v)')
    BY <1>0, <2>6, <2>7
  <2>. QED
    BY <2>1, <2>5, <2>6, <2>7, <2>8, <2>l DEF CurrentAt, Title, Overdue
<1>5. LastEntryIsCurrent'
  BY <1>3, <1>4 DEF LastEntryIsCurrent, CurrentAt, Columns, Overdue
<1>. QED
  BY <1>2, <1>5

LEMMA CommitKeepsOlds ==
  ASSUME RInv, EntryInv, NEW s \in Sessions, Active(s), CommitsWell(s), log' = log \cup own[s],
         unaudited' = Passed(s), overlapped' = overlapped
  PROVE  OldIsPrevious'
<1>1. ASSUME NEW e \in log', Alone(e.change.record), NEW B,
             B = {f \in EntriesOf(e.change.record, "updated_at")' : f.change.write < e.change.write}
      PROVE  \/ e.change.old = IF B = {} THEN 0 ELSE LastOf(B).change.new
             \/ \E w \in unaudited'[e.change.record] : w < e.change.write /\ \A f \in B : f.change.write < w
  <2>1. PICK x : x = e.change.record
    OBVIOUS
  <2>2. x \in Records /\ "updated_at" \in Columns
    <3>1. e \in log => x \in Records
      BY <2>1 DEF EntryInv, LogIsComplete
    <3>2. ASSUME e \in own[s] PROVE x \in Records
      <4>1. PICK i \in Places(s) : Describes(e.change, s, i)
        BY <3>2 DEF CommitsWell
      <4>. QED
        BY <2>1, <4>1 DEF CommitsWell, Describes
    <3>. QED
      BY <1>1, <3>1, <3>2 DEF Columns
  <2>3. PICK F, O : F = EntriesOf(x, "updated_at") /\ O = OwnOf(s, x, "updated_at")
    OBVIOUS
  <2>4. /\ B = {f \in F \cup O : f.change.write < e.change.write}
        /\ \A f \in O : \E i \in Places(s) : x = req[s].records[i] /\ Describes(f.change, s, i)
    BY <1>1, <2>1, <2>2, <2>3, EntriesGrow
  <2>n. \A f \in log : f.change.write \in Nat
    BY DEF EntryInv, LogIsComplete
  <2>o. \A i \in Places(s) : req[s].wrote[i] \in Nat
    BY DEF CommitsWell
  <2>p. \A i \in Places(s), f \in log : f.change.record = req[s].records[i] => f.change.write < req[s].wrote[i]
    BY DEF EntryInv, TransactionIsRight, LogIsOlder
  <2>5. CASE e \in log
    <3>1. \A f \in O : ~(f.change.write < e.change.write)
      <4>1. SUFFICES ASSUME NEW f \in O, f.change.write < e.change.write PROVE FALSE
        OBVIOUS
      <4>2. PICK i \in Places(s) : x = req[s].records[i] /\ Describes(f.change, s, i)
        BY <2>4
      <4>3. f.change.write = req[s].wrote[i] /\ e.change.write < req[s].wrote[i]
        BY <2>1, <2>p, <2>5, <4>2 DEF Describes
      <4>4. e.change.write \in Nat /\ req[s].wrote[i] \in Nat
        BY <2>n, <2>o, <2>5
      <4>. QED
        BY <4>1, <4>3, <4>4
    <3>2. B = {f \in EntriesOf(e.change.record, "updated_at") : f.change.write < e.change.write}
      BY <2>1, <2>3, <2>4, <3>1
    <3>3. \/ e.change.old = IF B = {} THEN 0 ELSE LastOf(B).change.new
          \/ \E w \in unaudited[e.change.record] : w < e.change.write /\ \A f \in B : f.change.write < w
      BY <1>1, <2>5, <3>2 DEF EntryInv, OldIsPrevious
    <3>4. unaudited[e.change.record] \subseteq unaudited'[e.change.record]
      BY <2>1, <2>2, PassedGrow
    <3>. QED
      BY <3>3, <3>4
  <2>6. CASE e \in own[s]
    <3>1. PICK i \in Places(s) : Describes(e.change, s, i)
      BY <2>6 DEF CommitsWell
    <3>p. \A u \in unaudited[x] : u < req[s].wrote[i]
      <4>1. x = req[s].records[i]
        BY <2>1, <3>1 DEF Describes
      <4>. QED
        BY <2>2, <4>1 DEF EntryInv, TransactionIsRight, PassedAreOlder
    <3>2. x = req[s].records[i] /\ e.change.write = req[s].wrote[i] /\ e.change.old = OldAt(s, i)
      BY <2>1, <3>1 DEF Describes
    <3>3. \A f \in F : f.change.write < e.change.write
      BY <2>3, <2>p, <3>2 DEF EntriesOf
    <3>4. \A f \in O : ~(f.change.write < e.change.write)
      <4>1. SUFFICES ASSUME NEW f \in O, f.change.write < e.change.write PROVE FALSE
        OBVIOUS
      <4>2. PICK j \in Places(s) : x = req[s].records[j] /\ Describes(f.change, s, j)
        BY <2>4
      <4>3. \A a, b \in Places(s) : req[s].records[a] = req[s].records[b] => a = b
        BY DEF CommitsWell
      <4>4. i = j
        BY <3>2, <4>2, <4>3
      <4>5. f.change.write = e.change.write /\ e.change.write \in Nat
        BY <2>o, <3>2, <4>2, <4>4 DEF Describes
      <4>. QED
        BY <4>1, <4>5
    <3>5. B = F
      BY <2>4, <3>3, <3>4
    <3>6. OldAt(s, i) = value[x]
      <4>1. OldsAreValues(s) /\ x \in ToSet(req[s].records)
        BY <3>2 DEF EntryInv, TransactionIsRight, CommitsWell
      <4>. QED
        BY <1>1, <2>1, <3>2, <4>1 DEF OldsAreValues, OldAt
    <3>7. Overdue(x, F) \/ value[x] = IF F = {} THEN 0 ELSE LastOf(F).change.new
      BY <2>2, <2>3 DEF EntryInv, ValuesAreLast
    <3>8. unaudited[x] \subseteq unaudited'[x]
      BY <2>2, PassedGrow
    <3>9. CASE Overdue(x, F)
      BY <2>1, <3>p, <3>2, <3>5, <3>8, <3>9 DEF Overdue
    <3>10. CASE value[x] = IF F = {} THEN 0 ELSE LastOf(F).change.new
      BY <3>2, <3>5, <3>6, <3>10
    <3>. QED
      BY <3>7, <3>9, <3>10
  <2>. QED
    BY <1>1, <2>5, <2>6
<1>2. \A x : Alone(x)' = Alone(x)
  BY DEF Alone
<1>. QED
  BY <1>1, <1>2 DEF OldIsPrevious

\* The commit as a whole.
LEMMA CommitKeepsEntries ==
  ASSUME RInv, EntryInv, NEW s \in Sessions, Commit(s)
  PROVE  EntryInv'
<1>. DEFINE r == [req[s] EXCEPT !.at = "publish", !.skipped = {}]
<1>1. /\ req[s].at = "insert" /\ toInsert[s] = <<>> /\ req[s].k = Len(req[s].records)
      /\ value' = Written(s) /\ unaudited' = Passed(s) /\ log' = log \cup own[s] /\ own' = [own EXCEPT ![s] = {}]
      /\ UNCHANGED <<dialect, titles, overlapped, toInsert>>
  BY DEF Commit, CommitLog
<1>2. req' = [req EXCEPT ![s] = r]
  BY DEF Commit
<1>3. IsRequest(req[s]) /\ Active(s) /\ CommitsWell(s)
  BY <1>1, CommitFacts DEF RInv, RequestsAreTyped, Active
<1>4. r.at = "publish"
  BY <1>3 DEF IsRequest, RequestFields
<1>. HIDE DEF r
<1>5. /\ req'[s] = r /\ own'[s] = {}
      /\ \A q \in Sessions \ {s} : req'[q] = req[q] /\ own'[q] = own[q] /\ toInsert'[q] = toInsert[q]
  BY <1>1, <1>2 DEF RInv, RequestsAreTyped, EntriesAreNumbered
<1>6. ~Active(s)' /\ \A q \in Sessions \ {s} : Active(q)' <=> Active(q)
  BY <1>4, <1>5 DEF Active
<1>7. ASSUME NEW q \in Sessions, Active(q)' PROVE TransactionIsRight(q)'
  <2>1. q # s /\ Active(q) /\ TransactionIsRight(q) /\ (toInsert[q] # <<>> => req[q].at = "insert")
    BY <1>6, <1>7 DEF EntryInv, RInv, SessionsAreApart
  <2>2. AreApart(s, q)
    BY <1>3, <2>1 DEF EntryInv
  <2>3. \A x \in ToSet(req[q].records) : Alone(x)' => value'[x] = value[x]
    <3>1. SUFFICES ASSUME NEW x \in ToSet(req[q].records), Alone(x)' PROVE value'[x] = value[x]
      OBVIOUS
    <3>2. x \notin ToSet(req[s].records)
      BY <1>1, <2>2, <3>1 DEF AreApart, Alone
    <3>3. \A i \in Places(s) : x # req[s].records[i]
      BY <1>3, <3>2 DEF CommitsWell
    <3>4. x \in Records
      <4>1. BatchIsRight(q)
        BY <2>1 DEF TransactionIsRight
      <4>2. \E i \in 1..Len(req[q].records) : x = req[q].records[i]
        BY <4>1, BatchFacts DEF ToSet
      <4>. QED
        BY <4>1, <4>2, BatchFacts
    <3>. QED
      BY <1>1, <1>3, <3>3, <3>4 DEF CommitsWell
  <2>4. \A f \in log' : f \in log \/ \A i \in Places(q) : /\ f.change.write # req[q].wrote[i]
                                                          /\ f.change.record # req[q].records[i]
    <3>1. SUFFICES ASSUME NEW f \in own[s]
                   PROVE \A i \in Places(q) : /\ f.change.write # req[q].wrote[i]
                                              /\ f.change.record # req[q].records[i]
      BY <1>1
    <3>2. PICK j \in Places(s) : Describes(f.change, s, j)
      BY <1>3 DEF CommitsWell
    <3>3. f.change.write = req[s].wrote[j] /\ f.change.record = req[s].records[j]
      BY <3>2 DEF Describes
    <3>. QED
      BY <2>2, <3>3 DEF AreApart
  <2>a. ASSUME NEW x \in Records, NEW u \in unaudited'[x]
        PROVE  u \in unaudited[x] \/ \A i \in Places(q) : u # req[q].wrote[i] /\ x # req[q].records[i]
    <3>1. u \in unaudited[x] \/ \E j \in Places(s) : x = req[s].records[j] /\ u = req[s].wrote[j]
      BY <1>1, <1>3, <2>a DEF CommitsWell
    <3>. QED
      BY <2>2, <3>1 DEF AreApart
  <2>5. titles \in Seq(Contents \cup {NoContent})
    BY DEF RInv, RequestsAreTyped
  <2>6. /\ req'[q] = req[q] /\ own'[q] = own[q] /\ toInsert'[q] = toInsert[q] /\ overlapped \subseteq overlapped'
        /\ titles' = titles
    BY <1>1, <1>5, <2>1
  <2>. QED
    BY <2>1, <2>3, <2>4, <2>a, <2>5, <2>6, OthersStayRight
<1>8. ASSUME NEW p \in Sessions, NEW q \in Sessions, p # q, Active(p)', Active(q)' PROVE AreApart(p, q)'
  <2>1. p # s /\ q # s /\ AreApart(p, q)
    BY <1>6, <1>8 DEF EntryInv
  <2>2. req'[p] = req[p] /\ req'[q] = req[q] /\ overlapped' = overlapped
    BY <1>1, <1>5, <2>1
  <2>. QED
    BY <2>1, <2>2 DEF AreApart, Places, Alone
<1>9. LogIsComplete'
  BY <1>1, <1>3, CommitKeepsLogComplete
<1>10. ASSUME NEW x \in Records, NEW column \in Columns
       PROVE  HasLast(EntriesOf(x, column))' /\ \A q \in Sessions : HasLast(OwnOf(q, x, column))'
  <2>1. HasLast(EntriesOf(x, column))'
    <3>1. PICK E, O : E = EntriesOf(x, column) /\ O = OwnOf(s, x, column)
      OBVIOUS
    <3>2. EntriesOf(x, column)' = E \cup O /\ HasLast(E \cup O)
      BY <1>1, <1>3, <3>1, EntriesGrow
    <3>. QED
      BY <3>2 DEF HasLast
  <2>2. ASSUME NEW q \in Sessions PROVE HasLast(OwnOf(q, x, column))'
    <3>1. CASE q = s
      BY <1>5, <3>1 DEF OwnOf, HasLast
    <3>2. CASE q # s
      <4>1. OwnOf(q, x, column)' = OwnOf(q, x, column)
        BY <1>5, <3>2 DEF OwnOf
      <4>. QED
        BY <4>1 DEF EntryInv, LastsAreThere, HasLast
    <3>. QED
      BY <3>1, <3>2
  <2>. QED
    BY <2>1, <2>2
<1>11. LastsAreThere'
  BY <1>10 DEF LastsAreThere, HasLast
<1>12. ValuesAreLast' /\ LastEntryIsCurrent'
  BY <1>1, <1>3, CommitKeepsValues
<1>13. OldIsPrevious'
  BY <1>1, <1>3, CommitKeepsOlds
<1>14. value' \in [Records -> 0..writes']
  <2>1. writes' = writes
    BY <1>1 DEF writes
  <2>. QED
    BY <1>1, <1>3, <2>1 DEF CommitsWell
<1>15. PassedHaveNone'
  BY <1>1, <1>3, CommitKeepsPassed
<1>. QED
  BY <1>7, <1>8, <1>9, <1>11, <1>12, <1>13, <1>14, <1>15 DEF EntryInv

-----------------------------------------------------------------------------
(* The steps.                                                               *)

LEMMA RequestKeepsEntries ==
  ASSUME RInv, EntryInv, NEW s \in Sessions, Request(s) PROVE EntryInv'
<1>1. ASSUME NEW xs \in Batches, Create(s, xs) \/ Update(s, xs) \/ Delete(s, xs) PROVE WorksOn(s)
  <2>1. PICK op \in Ops : Start(s, op, xs)
    BY <1>1 DEF Create, Update, Delete, Ops
  <2>. QED
    BY <2>1, StartKeepsEntries
<1>2. ASSUME NEW title \in Contents \cup {NoContent}, Change(s, title) PROVE WorksOn(s)
  BY <1>2, ChangeKeepsEntries
<1>3. CASE ChangeMisses(s) \/ Deadlock(s) \/ Rollback(s) \/ ChangeTimesOut(s)
  <2>1. Ends(s) /\ UNCHANGED <<log, value, unaudited, titles, overlapped>>
    BY <1>3 DEF ChangeMisses, Deadlock, Rollback, ChangeTimesOut, RollbackLog, auditVars
  <2>2. own'[s] \in {own[s], {}} /\ \A q \in Sessions \ {s} : own'[q] = own[q] /\ toInsert'[q] = toInsert[q]
    <3>1. CASE RollbackLog(s)
      BY <3>1 DEF RollbackLog, RInv, EntriesAreNumbered
    <3>2. CASE UNCHANGED auditVars
      BY <3>2 DEF auditVars
    <3>. QED
      BY <1>3, <3>1, <3>2 DEF ChangeMisses, Deadlock, Rollback, ChangeTimesOut
  <2>3. ~Active(s)' /\ \A q \in Sessions \ {s} : req'[q] = req[q]
    BY <2>1, IdleIsRequest DEF Ends, Active, RInv, RequestsAreTyped
  <2>. QED
    BY <2>1, <2>2, <2>3, EndKeepsEntries, WorkingKeeps
<1>4. CASE PublishEvent(s)
  <2>1. UNCHANGED <<log, value, unaudited, titles, overlapped, own, toInsert>>
    BY <1>4 DEF PublishEvent, auditVars
  <2>2. \A q \in Sessions \ {s} : req'[q] = req[q]
    BY <1>4 DEF PublishEvent, Ends, RInv, RequestsAreTyped
  <2>3. ~Active(s)'
    <3>1. CASE Ends(s)
      BY <3>1, IdleIsRequest DEF Ends, Active, RInv, RequestsAreTyped
    <3>2. CASE req' = [req EXCEPT ![s].wrote = Tail(@)]
      <4>1. req'[s] = [req[s] EXCEPT !.wrote = Tail(@)] /\ IsRequest(req[s]) /\ req[s].at = "publish"
        BY <1>4, <3>2 DEF RInv, RequestsAreTyped, PublishEvent
      <4>2. req'[s].at = "publish"
        BY <4>1 DEF IsRequest, RequestFields
      <4>. QED
        BY <4>2 DEF Active
    <3>. QED
      BY <1>4, <3>1, <3>2 DEF PublishEvent
  <2>. QED
    BY <2>1, <2>2, <2>3, EndKeepsEntries, WorkingKeeps
<1>5. CASE NextRecord(s)
  BY <1>5, NextRecordKeepsEntries, WorkingKeeps
<1>6. CASE Audit(s)
  BY <1>6, AuditKeepsEntries, WorkingKeeps
<1>7. CASE AuditInserts(s)
  BY <1>7, AuditInsertsKeepsEntries, WorkingKeeps
<1>8. CASE Commit(s)
  BY <1>8, CommitKeepsEntries
<1>9. CASE AuditSkips(s)
  BY <1>9, AuditSkipsKeepsEntries, WorkingKeeps
<1>. QED
  BY <1>1, <1>2, <1>3, <1>4, <1>5, <1>6, <1>7, <1>8, <1>9, WorkingKeeps DEF Request

\* The clients and the broadcasts touch none of it.
LEMMA ElsewhereKeepsEntries == ASSUME RInv, EntryInv, UNCHANGED <<recordVars, auditVars>> PROVE EntryInv'
<1>1. UNCHANGED <<value, unaudited, req, titles, overlapped, log, own, toInsert>>
  BY DEF recordVars, auditVars
<1>2. ASSUME NEW s \in Sessions, Active(s)' PROVE TransactionIsRight(s)'
  <2>1. TransactionIsRight(s) /\ (toInsert[s] # <<>> => req[s].at = "insert")
    BY <1>1, <1>2 DEF EntryInv, RInv, SessionsAreApart, Active
  <2>2. titles \in Seq(Contents \cup {NoContent})
    BY DEF RInv, RequestsAreTyped
  <2>. QED
    BY <1>1, <2>1, <2>2, OthersStayRight
<1>3. /\ LogIsComplete' /\ ValuesAreLast' /\ LastEntryIsCurrent' /\ OldIsPrevious' /\ PassedHaveNone'
      /\ value' \in [Records -> 0..writes']
  BY <1>1, LogStaysRight
<1>4. ASSUME NEW p \in Sessions, NEW q \in Sessions, p # q, Active(p)', Active(q)' PROVE AreApart(p, q)'
  <2>1. AreApart(p, q)
    BY <1>1, <1>4 DEF EntryInv, Active
  <2>. QED
    BY <1>1, <2>1 DEF AreApart, Places, Alone
<1>5. LastsAreThere'
  <2>1. ASSUME NEW x \in Records, NEW column \in Columns
        PROVE  HasLast(EntriesOf(x, column))' /\ \A q \in Sessions : HasLast(OwnOf(q, x, column))'
    BY <1>1 DEF EntryInv, LastsAreThere, EntriesOf, OwnOf, HasLast
  <2>. QED
    BY <2>1 DEF LastsAreThere, HasLast
<1>. QED
  BY <1>2, <1>3, <1>4, <1>5 DEF EntryInv

LEMMA InitHasEntries == Init => EntryInv
<1>. SUFFICES ASSUME Init PROVE EntryInv
  OBVIOUS
<1>1. /\ log = {} /\ own = [s \in Sessions |-> {}] /\ toInsert = [s \in Sessions |-> <<>>]
      /\ value = [x \in Records |-> 0] /\ req = [s \in Sessions |-> Idle] /\ titles = <<>>
      /\ unaudited = [x \in Records |-> {}]
  BY DEF Init, AuditInit
<1>2. \A s \in Sessions : ~Active(s)
  BY <1>1, IdleIsRequest DEF Active
<1>3. writes \in Nat
  BY <1>1 DEF writes
<1>4. \A x, column : EntriesOf(x, column) = {}
  BY <1>1 DEF EntriesOf
<1>5. \A s \in Sessions : \A x, column : OwnOf(s, x, column) = {}
  BY <1>1 DEF OwnOf
<1>6. LogIsComplete /\ OldIsPrevious
  BY <1>1 DEF LogIsComplete, OldIsPrevious
<1>7. LastsAreThere
  BY <1>4, <1>5 DEF LastsAreThere, HasLast
<1>8. ValuesAreLast /\ LastEntryIsCurrent
  BY <1>1, <1>4 DEF ValuesAreLast, LastEntryIsCurrent
<1>9. value \in [Records -> 0..writes] /\ PassedHaveNone
  BY <1>1, <1>3 DEF PassedHaveNone
<1>. QED
  BY <1>2, <1>6, <1>7, <1>8, <1>9 DEF EntryInv

LEMMA EntryInvHolds == Spec => []EntryInv
<1>1. RInv /\ EntryInv /\ [Next]_vars => EntryInv'
  <2>1. ASSUME RInv, EntryInv, Next PROVE EntryInv'
    BY <2>1, RequestKeepsEntries, ElsewhereKeepsEntries DEF Next
  <2>2. ASSUME RInv, EntryInv, UNCHANGED vars PROVE EntryInv'
    BY <2>2, ElsewhereKeepsEntries DEF vars
  <2>. QED
    BY <2>1, <2>2
<1>. QED
  BY <1>1, InitHasEntries, RInvHolds, PTL DEF Spec

\* Unless the audit hook has passed over a later write, the last entry about a record is of
\* its last write whatever overlaps, and shows its title as long as no requests for the record
\* have overlapped: for any dialect, batches and sessions.
THEOREM LastEntryIsCurrentHolds == Spec => []LastEntryIsCurrent
<1>1. EntryInv => LastEntryIsCurrent
  BY DEF EntryInv
<1>. QED
  BY <1>1, EntryInvHolds, PTL

\* The old value that an entry shows is what the entry before it left, unless the audit hook
\* has passed over a write between the two, as long as no requests for the record have
\* overlapped: what a request reads at its start is still there when it commits.
THEOREM OldIsPreviousHolds == Spec => []OldIsPrevious
<1>1. EntryInv => OldIsPrevious
  BY DEF EntryInv
<1>. QED
  BY <1>1, EntryInvHolds, PTL

-----------------------------------------------------------------------------
(* What the clients hear.                                                   *)

HeardInv == EventsAreAudited /\ BroadcastsAreTyped

\* Removing an element moves those after it down by one.
LEMMA RemoveAtFacts ==
  ASSUME NEW S, NEW ts \in Seq(S), NEW i \in 1..Len(ts)
  PROVE  /\ RemoveAt(ts, i) \in Seq(S) /\ Len(RemoveAt(ts, i)) = Len(ts) - 1
         /\ \A j \in 1..(Len(ts) - 1) : RemoveAt(ts, i)[j] = IF j < i THEN ts[j] ELSE ts[j + 1]
<1>. DEFINE a == SubSeq(ts, 1, i - 1)
            b == SubSeq(ts, i + 1, Len(ts))
<1>1. Len(ts) \in Nat /\ i \in Nat
  BY LenProperties
<1>2. /\ a \in Seq(S) /\ Len(a) = i - 1 /\ \A j \in 1..(i - 1) : a[j] = ts[j]
  <2>1. \A j \in 1..(i - 1) : j \in 1..Len(ts)
    BY <1>1
  <2>2. i - 1 \in Nat /\ i - 1 <= Len(ts)
    BY <1>1
  <2>. QED
    BY <1>1, <2>1, <2>2, SubSeqProperties
<1>3. /\ b \in Seq(S) /\ Len(b) = Len(ts) - i /\ \A j \in 1..(Len(ts) - i) : b[j] = ts[i + j]
  BY <1>1, SubSeqProperties
<1>4. RemoveAt(ts, i) = a \o b
  BY DEF RemoveAt
<1>. HIDE DEF a, b
<1>5. /\ a \o b \in Seq(S) /\ Len(a \o b) = Len(a) + Len(b)
      /\ \A j \in 1..(Len(a) + Len(b)) : (a \o b)[j] = IF j <= Len(a) THEN a[j] ELSE b[j - Len(a)]
  <2>1. a \in Seq(S) /\ b \in Seq(S)
    BY <1>2, <1>3
  <2>. QED
    BY <2>1, ConcatProperties
<1>6. Len(a) + Len(b) = Len(ts) - 1
  BY <1>1, <1>2, <1>3
<1>7. ASSUME NEW j \in 1..(Len(ts) - 1) PROVE (a \o b)[j] = IF j < i THEN ts[j] ELSE ts[j + 1]
  <2>1. CASE j < i
    <3>1. j \in 1..(i - 1) /\ j <= Len(a)
      BY <1>1, <1>2, <2>1
    <3>. QED
      BY <1>2, <1>5, <1>6, <2>1, <3>1
  <2>2. CASE ~(j < i)
    <3>1. j - Len(a) \in 1..(Len(ts) - i) /\ i + (j - Len(a)) = j + 1 /\ ~(j <= Len(a))
      BY <1>1, <1>2, <2>2
    <3>. QED
      BY <1>3, <1>5, <1>6, <2>2, <3>1
  <2>. QED
    BY <2>1, <2>2
<1>. QED
  BY <1>4, <1>5, <1>6, <1>7

\* The tasks after a broadcast has ended or gone on.
LEMMA TasksAfter ==
  ASSUME NEW S, NEW ts \in Seq(S), NEW i \in 1..Len(ts)
  PROVE  /\ RemoveAt(ts, i) \in Seq(S)
         /\ \A j \in 1..Len(RemoveAt(ts, i)) : \E k \in 1..Len(ts) : RemoveAt(ts, i)[j] = ts[k]
<1>. DEFINE us == RemoveAt(ts, i)
<1>1. /\ us \in Seq(S) /\ Len(us) = Len(ts) - 1
      /\ \A j \in 1..(Len(ts) - 1) : us[j] = IF j < i THEN ts[j] ELSE ts[j + 1]
  BY RemoveAtFacts
<1>. HIDE DEF us
<1>2. \A j \in 1..(Len(ts) - 1) : j \in 1..Len(ts) /\ j + 1 \in 1..Len(ts)
  BY LenProperties
<1>3. \A j \in 1..(Len(ts) - 1) : \E k \in 1..Len(ts) : us[j] = ts[k]
  BY <1>1, <1>2
<1>. QED
  BY <1>1, <1>3 DEF us

\* A broadcast hands on the event of a task.
LEMMA GoOnKeepsHeard ==
  ASSUME HeardInv, UNCHANGED <<log, req, unaudited>>, NEW i \in DOMAIN tasks, NEW todo,
         GoOn(i, todo) \/ (tasks' = RemoveAt(tasks, i) /\ UNCHANGED heard)
  PROVE  HeardInv'
<1>1. PICK S : tasks \in Seq(S)
  BY DEF HeardInv, BroadcastsAreTyped
<1>2. i \in 1..Len(tasks) /\ DOMAIN tasks = 1..Len(tasks) /\ Len(tasks) \in Nat
  BY <1>1, LenProperties
<1>3. /\ \A w : IsAudited(w)' = IsAudited(w)
      /\ \A s \in Sessions : Places(s)' = Places(s)
  BY DEF IsAudited, Places
<1>4. IsAudited(tasks[i].event)
  BY <1>2 DEF HeardInv, EventsAreAudited
<1>5. /\ \E T : tasks' \in Seq(T)
      /\ \A j \in 1..Len(tasks') : DOMAIN tasks'[j] = TaskFields /\ IsAudited(tasks'[j].event)
  <2>1. CASE tasks' = RemoveAt(tasks, i)
    <3>1. \A k \in 1..Len(tasks) : DOMAIN tasks[k] = TaskFields /\ IsAudited(tasks[k].event)
      BY DEF HeardInv, BroadcastsAreTyped, EventsAreAudited
    <3>2. /\ tasks' \in Seq(S)
          /\ \A j \in 1..Len(tasks') : \E k \in 1..Len(tasks) : tasks'[j] = tasks[k]
      BY <1>1, <1>2, <2>1, TasksAfter
    <3>. QED
      BY <3>1, <3>2
  <2>2. ASSUME NEW next, NEW size, tasks' = [tasks EXCEPT ![i] = [@ EXCEPT !.begun = TRUE, !.todo = next, !.size = size]]
        PROVE  /\ \E T : tasks' \in Seq(T)
               /\ \A j \in 1..Len(tasks') : DOMAIN tasks'[j] = TaskFields /\ IsAudited(tasks'[j].event)
    <3>. DEFINE t == [tasks[i] EXCEPT !.begun = TRUE, !.todo = next, !.size = size]
    <3>1. DOMAIN tasks[i] = TaskFields
      BY <1>2 DEF HeardInv, BroadcastsAreTyped
    <3>2. DOMAIN t = TaskFields /\ t.event = tasks[i].event
      BY <3>1 DEF TaskFields
    <3>3. tasks' = [tasks EXCEPT ![i] = t]
      BY <2>2
    <3>. HIDE DEF t
    <3>4. /\ DOMAIN tasks' = 1..Len(tasks) /\ tasks'[i] = t
          /\ \A j \in 1..Len(tasks) : j # i => tasks'[j] = tasks[j]
      BY <1>2, <3>3
    <3>5. tasks' \in Seq(S \cup {t}) /\ Len(tasks') = Len(tasks)
      <4>1. \A j \in 1..Len(tasks) : tasks[j] \in S
        BY <1>1, ElementOfSeq
      <4>2. tasks' \in [1..Len(tasks) -> S \cup {t}]
        BY <1>2, <3>3, <3>4, <4>1
      <4>3. tasks' \in Seq(S \cup {t})
        BY <1>2, <4>2, SeqDef
      <4>. QED
        BY <1>2, <3>4, <4>3, LenProperties
    <3>6. ASSUME NEW j \in 1..Len(tasks') PROVE DOMAIN tasks'[j] = TaskFields /\ IsAudited(tasks'[j].event)
      <4>1. CASE j = i
        BY <1>4, <3>2, <3>4, <4>1
      <4>2. CASE j # i
        BY <3>4, <3>5, <4>2 DEF HeardInv, BroadcastsAreTyped, EventsAreAudited
      <4>. QED
        BY <4>1, <4>2
    <3>. QED
      BY <3>5, <3>6
  <2>. QED
    BY <2>1, <2>2 DEF GoOn
<1>6. \/ heard' = heard
      \/ \E c : heard' = [heard EXCEPT ![c] = Append(@, tasks[i].event)]
  BY DEF GoOn
<1>7. heard' = [c \in Clients |-> heard'[c]] /\
      \A c \in Clients : heard'[c] = heard[c] \/ heard'[c] = Append(heard[c], tasks[i].event)
  BY <1>6 DEF HeardInv, BroadcastsAreTyped
<1>8. ASSUME NEW c \in Clients
      PROVE  /\ \E T : heard'[c] \in Seq(T)
             /\ \A k \in 1..Len(heard'[c]) : IsAudited(heard'[c][k])
  <2>1. PICK T : heard[c] \in Seq(T)
    BY DEF HeardInv, BroadcastsAreTyped
  <2>2. \A k \in 1..Len(heard[c]) : IsAudited(heard[c][k])
    BY DEF HeardInv, EventsAreAudited
  <2>3. CASE heard'[c] = heard[c]
    BY <2>1, <2>2, <2>3
  <2>4. CASE heard'[c] = Append(heard[c], tasks[i].event)
    <3>. DEFINE w == tasks[i].event
                h == heard[c]
    <3>1. h \in Seq(T \cup {w}) /\ w \in T \cup {w}
      <4>1. \A k \in 1..Len(h) : h[k] \in T \cup {w}
        BY <2>1, ElementOfSeq
      <4>2. h \in [1..Len(h) -> T \cup {w}] /\ Len(h) \in Nat
        BY <2>1, <4>1, LenProperties
      <4>. QED
        BY <4>2, SeqDef
    <3>. HIDE DEF w, h
    <3>2. /\ Append(h, w) \in Seq(T \cup {w}) /\ Len(Append(h, w)) = Len(h) + 1 /\ Len(h) \in Nat
          /\ \A k \in 1..Len(h) : Append(h, w)[k] = h[k]
          /\ Append(h, w)[Len(h) + 1] = w
      BY <3>1, AppendProperties, LenProperties
    <3>3. heard'[c] = Append(h, w) /\ IsAudited(w) /\ \A k \in 1..Len(h) : IsAudited(h[k])
      BY <1>4, <2>2, <2>4 DEF w, h
    <3>4. \A k \in 1..(Len(h) + 1) : k \in 1..Len(h) \/ k = Len(h) + 1
      BY <3>2
    <3>. QED
      BY <3>2, <3>3, <3>4
  <2>. QED
    BY <1>7, <2>3, <2>4
<1>. QED
  BY <1>3, <1>5, <1>7, <1>8 DEF HeardInv, EventsAreAudited, BroadcastsAreTyped

\* What stands in the log stays there; a commit puts its writes there, the event follows.
LEMMA RequestKeepsHeard ==
  ASSUME RInv, EntryInv, HeardInv, NEW s \in Sessions, Request(s) PROVE HeardInv'
<1>1. ASSUME ~PublishEvent(s) PROVE UNCHANGED <<tasks, heard>>
  BY <1>1 DEF Request, Create, Update, Delete, Start, Change, ChangeMisses, ChangeTimesOut, Deadlock,
     NextRecord, Audit, AuditSkips, AuditInserts, Commit, Rollback, realtimeVars
<1>2. log \subseteq log'
  BY DEF Request, Create, Update, Delete, Start, Change, ChangeMisses, ChangeTimesOut, Deadlock, NextRecord,
     Audit, AuditSkips, AuditInserts, Commit, Rollback, PublishEvent, Compute, InsertEntry, RollbackLog, CommitLog, auditVars
<1>p. \A x \in Records : unaudited[x] \subseteq unaudited'[x]
  <2>1. CASE Commit(s)
    BY <2>1 DEF Commit, Passed
  <2>2. CASE ~Commit(s)
    <3>1. unaudited' = unaudited
      BY <2>2 DEF Request, Create, Update, Delete, Start, Change, ChangeMisses, ChangeTimesOut, Deadlock, NextRecord,
         Audit, AuditSkips, AuditInserts, Rollback, PublishEvent, recordVars
    <3>. QED
      BY <3>1
  <2>. QED
    BY <2>1, <2>2
<1>3. \A w : IsAudited(w) => IsAudited(w)'
  BY <1>2, <1>p DEF IsAudited
<1>4. \A q \in Sessions \ {s} : req'[q] = req[q]
  BY DEF Request, Create, Update, Delete, Start, Change, ChangeMisses, ChangeTimesOut, Deadlock, NextRecord,
     Audit, AuditSkips, AuditInserts, Commit, Rollback, PublishEvent, Ends, recordVars, RInv, RequestsAreTyped
<1>5. CASE PublishEvent(s)
  <2>. DEFINE t == [event |-> Head(req[s].wrote), begun |-> FALSE, todo |-> <<>>, size |-> 0]
  <2>1. /\ req[s].at = "publish" /\ IsRequest(req[s]) /\ tasks' = Append(tasks, t) /\ UNCHANGED <<heard, log, unaudited>>
    BY <1>5 DEF PublishEvent, Publish, RInv, RequestsAreTyped, auditVars
  <2>2. PICK ws \in Seq(Nat) : ws = req[s].wrote /\ ws # <<>>
    BY <2>1 DEF IsRequest
  <2>3. /\ Len(ws) \in Nat /\ Head(ws) = ws[1] /\ Len(ws) >= 1
        /\ Len(Tail(ws)) = Len(ws) - 1 /\ \A i \in 1..(Len(ws) - 1) : Tail(ws)[i] = ws[i + 1]
    BY <2>2, HeadTailProperties, LenProperties
  <2>4. \A i \in 1..Len(ws) : IsAudited(ws[i])
    BY <2>1, <2>2 DEF HeardInv, EventsAreAudited, Places
  <2>5. IsAudited(t.event) /\ DOMAIN t = TaskFields
    BY <2>2, <2>3, <2>4 DEF TaskFields
  <2>6. PICK S : tasks \in Seq(S)
    BY DEF HeardInv, BroadcastsAreTyped
  <2>. HIDE DEF t
  <2>7. /\ Len(tasks) \in Nat /\ tasks' \in Seq(S \cup {t}) /\ Len(tasks') = Len(tasks) + 1
        /\ \A j \in 1..Len(tasks) : tasks'[j] = tasks[j]
        /\ tasks'[Len(tasks) + 1] = t
    <3>1. \A j \in 1..Len(tasks) : tasks[j] \in S \cup {t}
      BY <2>6, ElementOfSeq
    <3>2. tasks \in [1..Len(tasks) -> S \cup {t}] /\ Len(tasks) \in Nat
      BY <2>6, <3>1, LenProperties
    <3>3. tasks \in Seq(S \cup {t}) /\ t \in S \cup {t}
      BY <3>2, SeqDef
    <3>. QED
      BY <2>1, <3>2, <3>3, AppendProperties
  <2>8. ASSUME NEW j \in 1..Len(tasks') PROVE DOMAIN tasks'[j] = TaskFields /\ IsAudited(tasks'[j].event)
    <3>1. CASE j = Len(tasks) + 1
      BY <2>5, <2>7, <3>1
    <3>2. CASE j # Len(tasks) + 1
      <4>1. j \in 1..Len(tasks)
        BY <2>7, <3>2
      <4>. QED
        BY <2>7, <4>1 DEF HeardInv, BroadcastsAreTyped, EventsAreAudited
    <3>. QED
      BY <3>1, <3>2
  <2>9. req'[s].at = "publish" => \A i \in Places(s)' : IsAudited(req'[s].wrote[i])
    <3>1. CASE Ends(s)
      BY <3>1, IdleIsRequest DEF Ends, RInv, RequestsAreTyped
    <3>2. CASE req' = [req EXCEPT ![s].wrote = Tail(@)]
      <4>1. req'[s] = [req[s] EXCEPT !.wrote = Tail(@)]
        BY <3>2 DEF RInv, RequestsAreTyped
      <4>2. req'[s].wrote = Tail(ws)
        BY <2>1, <2>2, <4>1 DEF IsRequest, RequestFields
      <4>3. Places(s)' = 1..(Len(ws) - 1)
        BY <2>3, <4>2 DEF Places
      <4>4. \A i \in 1..(Len(ws) - 1) : i + 1 \in 1..Len(ws)
        BY <2>3
      <4>. QED
        BY <2>3, <2>4, <4>2, <4>3, <4>4
    <3>. QED
      BY <1>5, <3>1, <3>2 DEF PublishEvent
  <2>10. ASSUME NEW q \in Sessions, req'[q].at = "publish" PROVE \A i \in Places(q)' : IsAudited(req'[q].wrote[i])
    <3>1. CASE q = s
      BY <2>9, <2>10, <3>1
    <3>2. CASE q # s
      BY <1>4, <2>10, <3>2 DEF HeardInv, EventsAreAudited, Places
    <3>. QED
      BY <3>1, <3>2
  <2>. QED
    <3>1. \A w : IsAudited(w)' <=> IsAudited(w)
      BY <2>1 DEF IsAudited
    <3>2. \A c \in Clients : \A i \in 1..Len(heard'[c]) : IsAudited(heard'[c][i])
      BY <2>1 DEF HeardInv, EventsAreAudited
    <3>3. EventsAreAudited'
      BY <2>8, <2>10, <3>1, <3>2 DEF EventsAreAudited
    <3>4. BroadcastsAreTyped'
      BY <2>1, <2>7, <2>8 DEF HeardInv, BroadcastsAreTyped
    <3>. QED
      BY <3>3, <3>4 DEF HeardInv
<1>6. CASE ~PublishEvent(s)
  <2>1. BroadcastsAreTyped'
    BY <1>1, <1>6 DEF HeardInv, BroadcastsAreTyped
  <2>2. req'[s].at = "publish" => \A i \in Places(s)' : IsAudited(req[s].wrote[i])'
    <3>1. CASE Commit(s)
      <4>1. /\ req[s].at = "insert" /\ toInsert[s] = <<>> /\ req[s].k = Len(req[s].records)
            /\ log' = log \cup own[s] /\ unaudited' = Passed(s)
            /\ req' = [req EXCEPT ![s].at = "publish", ![s].skipped = {}]
        BY <3>1 DEF Commit, CommitLog
      <4>2. CommitsWell(s) /\ IsRequest(req[s])
        BY <4>1, CommitFacts DEF RInv, RequestsAreTyped
      <4>3. req'[s].wrote = req[s].wrote /\ Places(s)' = Places(s)
        BY <4>1, <4>2 DEF RInv, RequestsAreTyped, IsRequest, RequestFields, Places
      <4>4. ASSUME NEW i \in Places(s)
            PROVE  (\E e \in log' : e.change.write = req[s].wrote[i]) \/ \E x \in Records : req[s].wrote[i] \in unaudited'[x]
        <5>1. CASE i \in Audited(s)
          <6>1. "updated_at" \in ColumnsOf(OldAt(s, i), NewAt(s, i))
            BY ColumnsFacts
          <6>2. \E e \in own[s] : e.change.write = req[s].wrote[i]
            BY <4>2, <5>1, <6>1 DEF CommitsWell
          <6>. QED
            BY <4>1, <6>2
        <5>2. CASE i \notin Audited(s)
          <6>1. req[s].records[i] \in Records
            BY <4>2 DEF CommitsWell
          <6>2. req[s].wrote[i] \in unaudited'[req[s].records[i]]
            BY <4>1, <4>2, <5>2, <6>1 DEF CommitsWell
          <6>. QED
            BY <6>1, <6>2
        <5>. QED
          BY <5>1, <5>2
      <4>. QED
        BY <4>3, <4>4 DEF IsAudited
    <3>2. CASE ~Commit(s)
      <4>1. IsRequest(req[s]) /\ req = [q \in Sessions |-> req[q]]
        BY DEF RInv, RequestsAreTyped
      <4>2. req'[s].at # "publish"
        <5>1. ASSUME NEW xs \in Batches, NEW op, Start(s, op, xs) PROVE req'[s].at # "publish"
          BY <4>1, <5>1 DEF Start, Idle
        <5>2. CASE Ends(s)
          BY <4>1, <5>2, IdleIsRequest DEF Ends
        <5>3. ASSUME NEW title, Change(s, title) PROVE req'[s].at # "publish"
          <6>1. req'[s] = [req[s] EXCEPT !.at = "audit", !.wrote = Append(@, writes + 1)]
            BY <4>1, <5>3 DEF Change
          <6>. QED
            BY <4>1, <6>1 DEF IsRequest, RequestFields
        <5>4. CASE NextRecord(s)
          <6>1. req'[s] = [req[s] EXCEPT !.at = "change", !.k = @ + 1]
            BY <4>1, <5>4 DEF NextRecord
          <6>. QED
            BY <4>1, <6>1 DEF IsRequest, RequestFields
        <5>5. CASE Audit(s)
          <6>1. req'[s] = [req[s] EXCEPT !.at = "insert"]
            BY <4>1, <5>5 DEF Audit
          <6>. QED
            BY <4>1, <6>1 DEF IsRequest, RequestFields
        <5>6. CASE AuditInserts(s)
          BY <5>6 DEF AuditInserts, recordVars
        <5>7. CASE AuditSkips(s)
          <6>1. req'[s] = [req[s] EXCEPT !.at = "insert", !.skipped = @ \cup {req[s].k}]
            BY <4>1, <5>7 DEF AuditSkips
          <6>. QED
            BY <4>1, <6>1 DEF IsRequest, RequestFields
        <5>. QED
          BY <1>6, <3>2, <5>1, <5>2, <5>3, <5>4, <5>5, <5>6, <5>7
          DEF Request, Create, Update, Delete, ChangeMisses, ChangeTimesOut, Deadlock, Rollback
      <4>. QED
        BY <4>2
    <3>. QED
      BY <3>1, <3>2
  <2>3. ASSUME NEW q \in Sessions, req'[q].at = "publish" PROVE \A i \in Places(q)' : IsAudited(req[q].wrote[i])'
    <3>1. CASE q = s
      BY <2>2, <2>3, <3>1
    <3>2. CASE q # s
      <4>1. req'[q] = req[q] /\ Places(q)' = Places(q)
        BY <1>4, <3>2 DEF Places
      <4>2. \A i \in Places(q) : IsAudited(req[q].wrote[i])
        BY <2>3, <4>1 DEF HeardInv, EventsAreAudited
      <4>3. ASSUME NEW i \in Places(q)' PROVE IsAudited(req[q].wrote[i])'
        <5>1. PICK w : w = req[q].wrote[i]
          OBVIOUS
        <5>2. IsAudited(w)'
          BY <1>3, <4>1, <4>2, <5>1
        <5>. QED
          BY <4>1, <5>1, <5>2 DEF IsAudited
      <4>. QED
        BY <4>3
    <3>. QED
      BY <3>1, <3>2
  <2>4. /\ \A i \in 1..Len(tasks') : IsAudited(tasks[i].event)'
        /\ \A c \in Clients : \A i \in 1..Len(heard'[c]) : IsAudited(heard[c][i])'
    <3>1. tasks' = tasks /\ heard' = heard
      BY <1>1, <1>6
    <3>2. /\ \A i \in 1..Len(tasks) : IsAudited(tasks[i].event)
          /\ \A c \in Clients : \A i \in 1..Len(heard[c]) : IsAudited(heard[c][i])
      BY DEF HeardInv, EventsAreAudited
    <3>. QED
      BY <1>2, <1>p, <3>1, <3>2 DEF IsAudited
  <2>. QED
    BY <2>1, <2>3, <2>4 DEF HeardInv, EventsAreAudited
<1>. QED
  BY <1>5, <1>6

\* Who connects, leaves or subscribes has heard what it has heard.
LEMMA ClientsKeepHeard ==
  ASSUME HeardInv, UNCHANGED <<tasks, heard, log, req, unaudited>> PROVE HeardInv'
BY DEF HeardInv, EventsAreAudited, BroadcastsAreTyped, IsAudited, Places

LEMMA HeardInvHolds == Spec => []HeardInv
<1>1. Init => HeardInv
  <2>. SUFFICES ASSUME Init PROVE HeardInv
    OBVIOUS
  <2>1. req = [s \in Sessions |-> Idle] /\ heard = [c \in Clients |-> <<>>] /\ tasks = <<>>
    BY DEF Init, RealtimeInit
  <2>2. \A s \in Sessions : req[s].at # "publish"
    BY <2>1, IdleIsRequest
  <2>3. <<>> \in Seq({}) /\ Len(<<>>) = 0
    OBVIOUS
  <2>4. EventsAreAudited
    BY <2>1, <2>2, <2>3 DEF EventsAreAudited
  <2>5. BroadcastsAreTyped
    BY <2>1, <2>3 DEF BroadcastsAreTyped
  <2>. QED
    BY <2>4, <2>5 DEF HeardInv
<1>2. RInv /\ EntryInv /\ HeardInv /\ [Next]_vars => HeardInv'
  <2>1. ASSUME RInv, EntryInv, HeardInv, NEW s \in Sessions, Request(s) PROVE HeardInv'
    BY <2>1, RequestKeepsHeard
  <2>2. ASSUME HeardInv, ClientMoves, UNCHANGED <<recordVars, auditVars>> PROVE HeardInv'
    BY <2>2, ClientsKeepHeard DEF ClientMoves, Connect, Disconnect, Subscribe, Unsubscribe, recordVars, auditVars
  <2>3. ASSUME HeardInv, Broadcast, UNCHANGED <<recordVars, auditVars>> PROVE HeardInv'
    <3>1. UNCHANGED <<log, req, unaudited>>
      BY <2>3 DEF recordVars, auditVars
    <3>2. PICK i \in DOMAIN tasks : BroadcastBegins(i) \/ SendEnds(i)
      BY <2>3 DEF Broadcast
    <3>3. PICK todo : GoOn(i, todo) \/ (tasks' = RemoveAt(tasks, i) /\ UNCHANGED heard)
      BY <3>2 DEF BroadcastBegins, SendEnds
    <3>. QED
      BY <2>3, <3>1, <3>3, GoOnKeepsHeard
  <2>4. ASSUME HeardInv, UNCHANGED vars PROVE HeardInv'
    BY <2>4, ClientsKeepHeard DEF vars, recordVars, auditVars, realtimeVars
  <2>. QED
    BY <2>1, <2>2, <2>3, <2>4 DEF Next
<1>. QED
  BY <1>1, <1>2, RInvHolds, EntryInvHolds, PTL DEF Spec

\* No client ever hears of a write that is not committed and in the audit log, with all the
\* columns it was taken to change, or else without any entry and one of those that the audit
\* hook passed over, however clients come and go and sends overtake each other.
THEOREM HeardIsAuditedHolds == Spec => []HeardIsAudited
<1>1. EntryInv /\ HeardInv => HeardIsAudited
  <2>. SUFFICES ASSUME EntryInv, HeardInv, NEW c \in Clients, NEW k \in DOMAIN heard[c]
                PROVE  LET E == {e \in log : e.change.write = heard[c][k]} IN
                       /\ (E = {}) = (\E x \in Records : heard[c][k] \in unaudited[x])
                       /\ \A e \in E : {f.change.column : f \in E} = ToSet(Differing(e.change.old, e.change.new))
    BY DEF HeardIsAudited
  <2>. DEFINE E == {e \in log : e.change.write = heard[c][k]}
  <2>1. IsAudited(heard[c][k])
    <3>1. PICK S : heard[c] \in Seq(S)
      BY DEF HeardInv, BroadcastsAreTyped
    <3>2. k \in 1..Len(heard[c])
      BY <3>1, LenProperties
    <3>. QED
      BY <3>2 DEF HeardInv, EventsAreAudited
  <2>2. (E = {}) = (\E x \in Records : heard[c][k] \in unaudited[x])
    <3>1. E # {} \/ \E x \in Records : heard[c][k] \in unaudited[x]
      BY <2>1 DEF IsAudited
    <3>2. \A e \in E : \A x \in Records : heard[c][k] \notin unaudited[x]
      BY DEF EntryInv, PassedHaveNone
    <3>. QED
      BY <3>1, <3>2
  <2>3. ASSUME NEW e \in E PROVE {f.change.column : f \in E} = ColumnsOf(e.change.old, e.change.new)
    <3>1. PICK cs : cs = ColumnsOf(e.change.old, e.change.new)
      OBVIOUS
    <3>2. \A column \in cs : \E f \in E : f.change.column = column
      <4>1. e \in log /\ e.change.write = heard[c][k]
        OBVIOUS
      <4>2. \A column \in cs : \E f \in log : f.change.write = e.change.write /\ f.change.column = column
        BY <3>1, <4>1 DEF EntryInv, LogIsComplete
      <4>. QED
        BY <4>1, <4>2
    <3>3. ASSUME NEW f \in E PROVE f.change.column \in cs
      <4>1. f.change.old = e.change.old /\ f.change.new = e.change.new
        BY DEF EntryInv, LogIsComplete
      <4>2. f.change.column \in ColumnsOf(f.change.old, f.change.new)
        BY DEF EntryInv, LogIsComplete
      <4>. QED
        BY <3>1, <4>1, <4>2
    <3>. QED
      BY <3>1, <3>2, <3>3
  <2>. QED
    BY <2>2, <2>3 DEF ColumnsOf
<1>. QED
  BY <1>1, EntryInvHolds, HeardInvHolds, PTL

-----------------------------------------------------------------------------
(* Who hears of an event.  A broadcast has a list of clients that are yet to  *)
(* hear of it; SendInv says that a steady client is on that list, or has      *)
(* heard of the event exactly once.                                           *)

\* Where client c has heard of e.
Hears(c, e)     == {k \in DOMAIN heard[c] : heard[c][k] = e}
Unheard(c, e)   == Hears(c, e) = {}
HeardOnce(c, e) == \E k : Hears(c, e) = {k}

\* Who is steady is connected and subscribed; who has gone does not come back.
ClientsAreRight ==
  /\ active \in Seq(Clients) /\ \A i, j \in 1..Len(active) : active[i] = active[j] => i = j
  /\ \A i \in 1..Len(active) : active[i] \notin left
  /\ subs = [c \in Clients |-> subs[c]]
  /\ steady = [e \in Events |-> steady[e]]
  /\ \A e \in Events : steady[e] \subseteq {c \in Clients : Connected(c) /\ Watched \in subs[c]}

\* The clients todo are yet to hear of e, and the other steady ones have heard of it.
AwaitsOnly(todo, e) ==
  /\ todo \in Seq(Clients) /\ \A k, l \in 1..Len(todo) : todo[k] = todo[l] => k = l
  /\ \A k \in 1..Len(todo) : Connected(todo[k]) \/ todo[k] \in left
  /\ e \in Events \ disturbed => \A c \in steady[e] : IF Contains(todo, c) THEN Unheard(c, e) ELSE HeardOnce(c, e)

\* A broadcast that has begun has sent to the first client of its list.
TaskIsRight(t) ==
  IF t.begun
  THEN /\ t.todo # <<>> /\ t.todo \in Seq(Clients) /\ \A k, l \in 1..Len(t.todo) : t.todo[k] = t.todo[l] => k = l
       /\ \A k \in 1..Len(t.todo) : Connected(t.todo[k]) \/ t.todo[k] \in left
       /\ t.event \in Events \ disturbed =>
            /\ t.size = Cardinality(subs[t.todo[1]])
            /\ \A c \in steady[t.event] : IF Contains(Tail(t.todo), c) THEN Unheard(c, t.event) ELSE HeardOnce(c, t.event)
  ELSE \A c \in Clients : Unheard(c, t.event)

TasksAreRight ==
  /\ \A i \in 1..Len(tasks) : TaskIsRight(tasks[i])
  /\ \A i, j \in 1..Len(tasks) : tasks[i].event = tasks[j].event => i = j

\* Nothing has been published of a write that is still to be published, or to be made.
Unpublished(w) ==
  /\ \A i \in 1..Len(tasks) : tasks[i].event # w
  /\ \A c \in Clients : Unheard(c, w)
  /\ w \in Events => steady[w] = {}

PublishedOnce ==
  /\ \A s \in Sessions : \A i \in 1..Len(req[s].wrote) : req[s].wrote[i] \in 1..writes /\ Unpublished(req[s].wrote[i])
  /\ \A w \in Nat : w > writes => Unpublished(w)
  /\ \A p, q \in Sessions : \A i \in 1..Len(req[p].wrote), j \in 1..Len(req[q].wrote) :
       req[p].wrote[i] = req[q].wrote[j] => p = q /\ i = j

SendInv == ClientsAreRight /\ TasksAreRight /\ PublishedOnce /\ SteadyHears

\* What publishes nothing new leaves to the requests what they have still to publish.
LEMMA PublishedOnceStays ==
  ASSUME PublishedOnce, UNCHANGED <<req, titles>>, \A w : Unpublished(w) => Unpublished(w)'
  PROVE  PublishedOnce'
<1>1. writes' = writes
  BY DEF writes
<1>2. \A s \in Sessions : \A i \in 1..Len(req[s].wrote) :
        req[s].wrote[i] \in 1..writes /\ Unpublished(req[s].wrote[i])'
  BY DEF PublishedOnce
<1>3. \A w \in Nat : w > writes => Unpublished(w)'
  BY DEF PublishedOnce
<1>4. \A p, q \in Sessions : \A i \in 1..Len(req[p].wrote), j \in 1..Len(req[q].wrote) :
        req[p].wrote[i] = req[q].wrote[j] => p = q /\ i = j
  BY DEF PublishedOnce
<1>. QED
  BY <1>1, <1>2, <1>3, <1>4 DEF PublishedOnce

\* A non-empty set of numbers has a least one.
LEMMA LeastNumber == ASSUME NEW S \in SUBSET Nat, S # {} PROVE \E x \in S : \A y \in S : x <= y
<1>1. PICK x \in S : \A y \in S : <<y, x>> \notin OpToRel(<, Nat)
  BY NatLessThanWellFounded, WFMin
<1>2. ASSUME NEW y \in S PROVE x <= y
  <2>1. ASSUME y < x PROVE FALSE
    <3>1. <<y, x>> \in Nat \X Nat /\ <<y, x>>[1] < <<y, x>>[2]
      BY <2>1
    <3>2. <<y, x>> \in OpToRel(<, Nat)
      BY <3>1 DEF OpToRel
    <3>. QED
      BY <1>1, <3>2
  <2>2. x \in Nat /\ y \in Nat
    OBVIOUS
  <2>. QED
    BY <2>1, <2>2
<1>. QED
  BY <1>2

\* The clients that a broadcast goes on with, and those it passes over.
LEMMA MatchingFacts ==
  ASSUME NEW S, NEW todo \in Seq(S)
  PROVE  \/ /\ Matching(todo) = <<>>
            /\ \A k \in 1..Len(todo) : Watched \notin subs[todo[k]]
         \/ \E k \in 1..Len(todo) :
              /\ Matching(todo) \in Seq(S) /\ Len(Matching(todo)) = Len(todo) - k + 1
              /\ \A l \in 1..(Len(todo) - k + 1) : Matching(todo)[l] = todo[k + l - 1]
              /\ Watched \in subs[todo[k]]
              /\ \A l \in 1..(k - 1) : Watched \notin subs[todo[l]]
<1>. DEFINE wanted == {k \in DOMAIN todo : Watched \in subs[todo[k]]}
            first == CHOOSE k \in wanted : \A l \in wanted : k <= l
<1>1. DOMAIN todo = 1..Len(todo) /\ Len(todo) \in Nat
  BY LenProperties
<1>2. CASE wanted = {}
  BY <1>1, <1>2 DEF Matching
<1>3. CASE wanted # {}
  <2>1. \E k \in wanted : \A l \in wanted : k <= l
    <3>1. wanted \in SUBSET Nat
      BY <1>1
    <3>. QED
      BY <1>3, <3>1, LeastNumber
  <2>2. first \in wanted /\ \A l \in wanted : first <= l
    BY <2>1
  <2>3. Matching(todo) = SubSeq(todo, first, Len(todo))
    BY <1>3 DEF Matching
  <2>. HIDE DEF first
  <2>4. first \in 1..Len(todo) /\ Watched \in subs[todo[first]]
    BY <1>1, <2>2
  <2>5. \A l \in 1..(first - 1) : Watched \notin subs[todo[l]]
    <3>1. SUFFICES ASSUME NEW l \in 1..(first - 1), Watched \in subs[todo[l]] PROVE FALSE
      OBVIOUS
    <3>2. l \in wanted
      BY <1>1, <2>4, <3>1
    <3>. QED
      BY <1>1, <2>2, <2>4, <3>2
  <2>6. \A l \in first..Len(todo) : todo[l] \in S
    BY <1>1, <2>4, ElementOfSeq
  <2>7. /\ Matching(todo) \in Seq(S) /\ Len(Matching(todo)) = Len(todo) - first + 1
        /\ \A l \in 1..(Len(todo) - first + 1) : Matching(todo)[l] = todo[first + l - 1]
    BY <1>1, <2>3, <2>4, <2>6, SubSeqProperties
  <2>. QED
    BY <2>4, <2>5, <2>7
<1>. QED
  BY <1>2, <1>3

\* Who hears an event for the first time has heard it once.
LEMMA AppendHeard ==
  ASSUME NEW S, NEW h \in Seq(S), NEW e, NEW d
  PROVE  /\ d # e => {k \in DOMAIN Append(h, e) : Append(h, e)[k] = d} = {k \in DOMAIN h : h[k] = d}
         /\ {k \in DOMAIN h : h[k] = e} = {} => {k \in DOMAIN Append(h, e) : Append(h, e)[k] = e} = {Len(h) + 1}
<1>1. DOMAIN h = 1..Len(h) /\ Len(h) \in Nat /\ \A k \in 1..Len(h) : h[k] \in S \cup {e}
  BY LenProperties, ElementOfSeq
<1>2. h \in Seq(S \cup {e})
  BY <1>1, SeqDef
<1>3. /\ Append(h, e) \in Seq(S \cup {e}) /\ Len(Append(h, e)) = Len(h) + 1
      /\ \A k \in 1..Len(h) : Append(h, e)[k] = h[k]
      /\ Append(h, e)[Len(h) + 1] = e
  BY <1>2, AppendProperties
<1>4. DOMAIN Append(h, e) = 1..(Len(h) + 1)
  BY <1>3, LenProperties
<1>5. 1..(Len(h) + 1) = 1..Len(h) \cup {Len(h) + 1} /\ Len(h) + 1 \notin 1..Len(h)
  BY <1>1
<1>. QED
  BY <1>1, <1>3, <1>4, <1>5

\* A broadcast is as right as before while nobody hears its event, comes or goes.
LEMMA TaskStaysRight ==
  ASSUME ClientsAreRight, NEW t, TaskIsRight(t), UNCHANGED <<left, active, subs, steady, disturbed>>,
         \A c \in Clients : Hears(c, t.event)' = Hears(c, t.event)
  PROVE  TaskIsRight(t)'
<1>1. t.event \in Events => steady[t.event] \subseteq Clients
  BY DEF ClientsAreRight
<1>2. \A c \in Clients : (Unheard(c, t.event)' <=> Unheard(c, t.event)) /\ (HeardOnce(c, t.event)' <=> HeardOnce(c, t.event))
  BY DEF Unheard, HeardOnce
<1>3. \A c : Connected(c)' <=> Connected(c)
  BY DEF Connected
<1>. QED
  BY <1>1, <1>2, <1>3 DEF TaskIsRight

\* The set of one place has one element.
Count(h, e) == Cardinality({k \in DOMAIN h : h[k] = e})
LEMMA OnceIsOne == \A c, e : HeardOnce(c, e) => Count(heard[c], e) = 1
BY FS_Singleton DEF HeardOnce, Hears, Count

\* What SteadyHears says of one client and one event, before and after a step.
LEMMA SteadyHeard ==
  ASSUME SteadyHears, NEW e \in Events, e \notin Underway, e \notin disturbed, NEW c \in steady[e]
  PROVE  Count(heard[c], e) = 1
BY DEF SteadyHears, Count

LEMMA SteadyWillHear ==
  ASSUME \A e \in Events : e \notin Underway' /\ e \notin disturbed' =>
           \A c \in steady'[e] : Count(heard'[c], e) = 1
  PROVE  SteadyHears'
BY DEF SteadyHears, Count

\* A broadcast ends when all steady clients have heard of its event, or it was disturbed.
LEMMA EndedTaskKeepsSendInv ==
  ASSUME SendInv, HeardInv, UNCHANGED <<left, active, subs, heard, steady, disturbed, req, titles>>,
         NEW i \in 1..Len(tasks), tasks' = RemoveAt(tasks, i),
         tasks[i].event \in Events \ disturbed => \A c \in steady[tasks[i].event] : HeardOnce(c, tasks[i].event)
  PROVE  SendInv'
<1>1. PICK S : tasks \in Seq(S)
  BY DEF HeardInv, BroadcastsAreTyped
<1>2. /\ tasks' \in Seq(S) /\ Len(tasks') = Len(tasks) - 1 /\ Len(tasks) \in Nat
      /\ \A j \in 1..(Len(tasks) - 1) : tasks'[j] = IF j < i THEN tasks[j] ELSE tasks[j + 1]
  BY <1>1, RemoveAtFacts, LenProperties
<1>3. ASSUME NEW j \in 1..Len(tasks')
      PROVE  \E k \in 1..Len(tasks) : k # i /\ tasks'[j] = tasks[k] /\ k = IF j < i THEN j ELSE j + 1
  BY <1>2
<1>4. ASSUME NEW k \in 1..Len(tasks), k # i PROVE \E j \in 1..Len(tasks') : tasks'[j] = tasks[k]
  <2>1. CASE k < i
    <3>1. k \in 1..(Len(tasks) - 1)
      BY <1>2, <2>1
    <3>. QED
      BY <1>2, <2>1, <3>1
  <2>2. CASE ~(k < i)
    <3>1. k - 1 \in 1..(Len(tasks) - 1) /\ ~(k - 1 < i) /\ (k - 1) + 1 = k
      BY <1>2, <1>4, <2>2
    <3>. QED
      BY <1>2, <3>1
  <2>. QED
    BY <2>1, <2>2
<1>5. ClientsAreRight'
  BY DEF SendInv, ClientsAreRight, Connected
<1>6. \A c, e : Hears(c, e)' = Hears(c, e)
  BY DEF Hears
<1>7. TasksAreRight'
  <2>1. ASSUME NEW j \in 1..Len(tasks') PROVE TaskIsRight(tasks[j])'
    <3>1. PICK k \in 1..Len(tasks) : tasks'[j] = tasks[k]
      BY <1>3
    <3>2. PICK t : t = tasks[k]
      OBVIOUS
    <3>3. TaskIsRight(t)
      BY <3>2 DEF SendInv, TasksAreRight
    <3>4. TaskIsRight(t)'
      BY <1>6, <3>3, TaskStaysRight DEF SendInv
    <3>. QED
      BY <3>1, <3>2, <3>4
  <2>2. ASSUME NEW a \in 1..Len(tasks'), NEW b \in 1..Len(tasks'), tasks'[a].event = tasks'[b].event PROVE a = b
    <3>1. PICK k \in 1..Len(tasks) : tasks'[a] = tasks[k] /\ k = IF a < i THEN a ELSE a + 1
      BY <1>3
    <3>2. PICK l \in 1..Len(tasks) : tasks'[b] = tasks[l] /\ l = IF b < i THEN b ELSE b + 1
      BY <1>3
    <3>3. k = l
      BY <2>2, <3>1, <3>2 DEF SendInv, TasksAreRight
    <3>. QED
      BY <1>2, <3>1, <3>2, <3>3
  <2>. QED
    BY <2>1, <2>2 DEF TasksAreRight
<1>8. PublishedOnce'
  <2>1. ASSUME NEW w, Unpublished(w) PROVE Unpublished(w)'
    <3>1. \A j \in 1..Len(tasks') : tasks'[j].event # w
      BY <1>3, <2>1 DEF Unpublished
    <3>2. \A c \in Clients : Unheard(c, w)'
      BY <1>6, <2>1 DEF Unpublished, Unheard
    <3>. QED
      BY <2>1, <3>1, <3>2 DEF Unpublished
  <2>. QED
    BY <2>1, PublishedOnceStays DEF SendInv
<1>9. SteadyHears'
  <2>1. ASSUME NEW e \in Events, e \notin Underway', e \notin disturbed, NEW c \in steady[e] PROVE Count(heard[c], e) = 1
    <3>1. CASE e \in Underway
      <4>1. PICK k \in 1..Len(tasks) : e = tasks[k].event
        BY <1>1, <3>1, LenProperties DEF Underway
      <4>2. k = i
        <5>1. SUFFICES ASSUME k # i PROVE FALSE
          OBVIOUS
        <5>2. PICK j \in 1..Len(tasks') : tasks'[j] = tasks[k]
          BY <1>4, <5>1
        <5>3. j \in DOMAIN tasks'
          BY <1>2, LenProperties
        <5>4. e \in Underway'
          BY <4>1, <5>2, <5>3 DEF Underway
        <5>. QED
          BY <2>1, <5>4
      <4>3. HeardOnce(c, e)
        BY <2>1, <4>1, <4>2
      <4>. QED
        BY <4>3, OnceIsOne
    <3>2. CASE e \notin Underway
      BY <2>1, <3>2, SteadyHeard DEF SendInv
    <3>. QED
      BY <3>1, <3>2
  <2>2. \A e \in Events : e \notin Underway' /\ e \notin disturbed' => \A c \in steady'[e] : Count(heard'[c], e) = 1
    BY <2>1
  <2>. QED
    BY <2>2, SteadyWillHear
<1>. QED
  BY <1>5, <1>7, <1>8, <1>9 DEF SendInv

\* A broadcast goes on to the next subscribed client: those it passes over are not steady.
LEMMA GoOnKeepsSendInv ==
  ASSUME SendInv, HeardInv, UNCHANGED <<left, active, subs, steady, disturbed, req, titles>>,
         NEW i \in 1..Len(tasks), NEW todo, AwaitsOnly(todo, tasks[i].event), GoOn(i, todo)
  PROVE  SendInv'
<1>1. PICK S : tasks \in Seq(S)
  BY DEF HeardInv, BroadcastsAreTyped
<1>2. DOMAIN tasks = 1..Len(tasks) /\ Len(tasks) \in Nat
  BY <1>1, LenProperties
<1>3. PICK e : e = tasks[i].event
  OBVIOUS
<1>4. PICK next : next = Matching(todo)
  OBVIOUS
<1>5. todo \in Seq(Clients) /\ \A k, l \in 1..Len(todo) : todo[k] = todo[l] => k = l
  BY DEF AwaitsOnly
<1>6. \A d \in Events : \A c \in steady[d] : c \in Clients /\ Connected(c) /\ Watched \in subs[c]
  BY DEF SendInv, ClientsAreRight
<1>7. CASE next = <<>> /\ \A k \in 1..Len(todo) : Watched \notin subs[todo[k]]
  <2>1. tasks' = RemoveAt(tasks, i) /\ UNCHANGED heard
    BY <1>4, <1>7 DEF GoOn
  <2>2. e \in Events \ disturbed => \A c \in steady[e] : HeardOnce(c, e)
    <3>1. SUFFICES ASSUME e \in Events \ disturbed, NEW c \in steady[e] PROVE HeardOnce(c, e)
      OBVIOUS
    <3>2. ~Contains(todo, c)
      BY <1>6, <1>7, <3>1 DEF Contains
    <3>. QED
      BY <1>3, <3>1, <3>2 DEF AwaitsOnly
  <2>. QED
    BY <1>3, <2>1, <2>2, EndedTaskKeepsSendInv
<1>8. ASSUME NEW k \in 1..Len(todo), next \in Seq(Clients), Len(next) = Len(todo) - k + 1,
             \A l \in 1..(Len(todo) - k + 1) : next[l] = todo[k + l - 1],
             Watched \in subs[todo[k]], \A l \in 1..(k - 1) : Watched \notin subs[todo[l]]
      PROVE  SendInv'
  <2>. DEFINE c == todo[k]
  <2>1. Len(todo) \in Nat /\ k \in Nat /\ Len(next) \in Nat \ {0}
    BY <1>5, <1>8, LenProperties
  <2>2. next # <<>> /\ next[1] = c /\ c \in Clients /\ Head(next) = c
    <3>1. 1 \in 1..(Len(todo) - k + 1) /\ k + 1 - 1 = k
      BY <2>1
    <3>2. next[1] = c
      BY <1>8, <3>1
    <3>3. next # <<>> /\ Head(next) = next[1]
      BY <1>8, <2>1
    <3>. QED
      BY <1>5, <3>2, <3>3, ElementOfSeq
  <2>t. PICK t : t = [tasks[i] EXCEPT !.begun = TRUE, !.todo = next, !.size = Cardinality(subs[c])]
    OBVIOUS
  <2>3. /\ tasks' = [tasks EXCEPT ![i] = t]
        /\ heard' = IF Connected(c) THEN [heard EXCEPT ![c] = Append(@, e)] ELSE heard
    BY <1>3, <1>4, <2>2, <2>t DEF GoOn
  <2>4. t.begun = TRUE /\ t.todo = next /\ t.size = Cardinality(subs[c]) /\ t.event = e
    BY <1>3, <2>t DEF HeardInv, BroadcastsAreTyped, TaskFields
  <2>5. /\ DOMAIN tasks' = 1..Len(tasks) /\ tasks'[i] = t
        /\ \A j \in 1..Len(tasks) : j # i => tasks'[j] = tasks[j]
    BY <1>2, <2>3
  <2>6. Len(tasks') = Len(tasks)
    <3>1. \A j \in 1..Len(tasks) : tasks[j] \in S
      BY <1>1, ElementOfSeq
    <3>2. tasks' \in [1..Len(tasks) -> S \cup {t}]
      BY <1>2, <2>3, <2>5, <3>1
    <3>3. tasks' \in Seq(S \cup {t})
      BY <1>2, <3>2, SeqDef
    <3>. QED
      BY <1>2, <2>5, <3>3, LenProperties
  <2>7. \A j \in 1..Len(tasks) : tasks'[j].event = tasks[j].event
    BY <1>3, <2>4, <2>5
  <2>8. /\ \A d \in Clients : \A w : d # c \/ w # e => Hears(d, w)' = Hears(d, w)
        /\ Connected(c) /\ Unheard(c, e) => HeardOnce(c, e)'
    <3>1. PICK T : heard[c] \in Seq(T)
      BY <2>2 DEF HeardInv, BroadcastsAreTyped
    <3>2. heard = [d \in Clients |-> heard[d]]
      BY DEF HeardInv, BroadcastsAreTyped
    <3>3. ASSUME NEW d \in Clients, d # c, NEW w PROVE Hears(d, w)' = Hears(d, w)
      BY <2>3, <3>2, <3>3 DEF Hears
    <3>4. ASSUME NEW w, w # e PROVE Hears(c, w)' = Hears(c, w)
      <4>1. heard'[c] = heard[c] \/ heard'[c] = Append(heard[c], e)
        BY <2>2, <2>3, <3>2
      <4>2. CASE heard'[c] = heard[c]
        BY <4>2 DEF Hears
      <4>3. CASE heard'[c] = Append(heard[c], e)
        BY <3>1, <3>4, <4>3, AppendHeard DEF Hears
      <4>. QED
        BY <4>1, <4>2, <4>3
    <3>5. ASSUME Connected(c), Unheard(c, e) PROVE HeardOnce(c, e)'
      <4>1. heard'[c] = Append(heard[c], e)
        BY <2>2, <2>3, <3>2, <3>5
      <4>2. Hears(c, e)' = {Len(heard[c]) + 1}
        BY <3>1, <3>5, <4>1, AppendHeard DEF Hears, Unheard
      <4>. QED
        BY <4>2 DEF HeardOnce
    <3>. QED
      BY <3>3, <3>4, <3>5
  <2>9. ClientsAreRight'
    BY DEF SendInv, ClientsAreRight, Connected
  <2>10. TasksAreRight'
    <3>1. TaskIsRight(t)'
      <4>1. /\ \A a, b \in 1..Len(next) : next[a] = next[b] => a = b
            /\ \A a \in 1..Len(next) : Connected(next[a]) \/ next[a] \in left
        <5>1. \A a \in 1..Len(next) : k + a - 1 \in 1..Len(todo) /\ next[a] = todo[k + a - 1]
          BY <1>8, <2>1
        <5>2. ASSUME NEW a \in 1..Len(next), NEW b \in 1..Len(next), next[a] = next[b] PROVE a = b
          <6>1. k + a - 1 = k + b - 1
            BY <1>5, <5>1, <5>2
          <6>. QED
            BY <2>1, <6>1
        <5>3. \A a \in 1..Len(todo) : Connected(todo[a]) \/ todo[a] \in left
          BY DEF AwaitsOnly
        <5>. QED
          BY <5>1, <5>2, <5>3
      <4>2. ASSUME e \in Events \ disturbed, NEW d \in steady[e]
            PROVE  IF Contains(Tail(next), d) THEN Unheard(d, e)' ELSE HeardOnce(d, e)'
        <5>1. /\ d \in Clients /\ Connected(d) /\ Watched \in subs[d]
              /\ IF Contains(todo, d) THEN Unheard(d, e) ELSE HeardOnce(d, e)
          BY <1>3, <1>6, <4>2 DEF AwaitsOnly
        <5>2. Contains(Tail(next), d) <=> \E l \in 1..Len(todo) : k < l /\ todo[l] = d
          <6>1. /\ Len(Tail(next)) = Len(todo) - k
                /\ \A a \in 1..(Len(todo) - k) : Tail(next)[a] = next[a + 1]
            BY <1>8, <2>1, <2>2, HeadTailProperties
          <6>2. \A a \in 1..(Len(todo) - k) : Tail(next)[a] = todo[k + a]
            <7>1. ASSUME NEW a \in 1..(Len(todo) - k) PROVE a + 1 \in 1..(Len(todo) - k + 1) /\ k + (a + 1) - 1 = k + a
              BY <2>1
            <7>. QED
              BY <1>8, <6>1, <7>1
          <6>3. \A l \in 1..Len(todo) : k < l => l - k \in 1..(Len(todo) - k) /\ k + (l - k) = l
            BY <2>1
          <6>4. \A a \in 1..(Len(todo) - k) : k + a \in 1..Len(todo) /\ k < k + a
            BY <2>1
          <6>5. Contains(Tail(next), d) <=> \E a \in 1..(Len(todo) - k) : todo[k + a] = d
            BY <6>1, <6>2 DEF Contains
          <6>6. ASSUME NEW l \in 1..Len(todo), k < l, todo[l] = d PROVE \E a \in 1..(Len(todo) - k) : todo[k + a] = d
            BY <6>3, <6>6
          <6>. QED
            BY <6>4, <6>5, <6>6
        <5>3. CASE Contains(Tail(next), d)
          <6>1. PICK l \in 1..Len(todo) : k < l /\ todo[l] = d
            BY <5>2, <5>3
          <6>2. Contains(todo, d) /\ d # c
            BY <1>5, <2>1, <6>1 DEF Contains
          <6>. QED
            BY <2>8, <5>1, <5>3, <6>2 DEF Unheard
        <5>4. CASE ~Contains(Tail(next), d) /\ d = c
          <6>1. Contains(todo, d)
            BY <5>4 DEF Contains
          <6>. QED
            BY <2>8, <5>1, <5>4, <6>1
        <5>5. CASE ~Contains(Tail(next), d) /\ d # c
          <6>1. ~Contains(todo, d)
            <7>1. SUFFICES ASSUME NEW l \in 1..Len(todo), todo[l] = d PROVE FALSE
              BY DEF Contains
            <7>2. l < k
              BY <2>1, <5>2, <5>5, <7>1
            <7>3. l \in 1..(k - 1)
              BY <2>1, <7>2
            <7>. QED
              BY <1>8, <5>1, <7>1, <7>3
          <6>. QED
            BY <2>8, <5>1, <5>5, <6>1 DEF HeardOnce
        <5>. QED
          BY <5>3, <5>4, <5>5
      <4>. QED
        BY <1>8, <2>2, <2>4, <4>1, <4>2 DEF TaskIsRight, Connected
    <3>2. ASSUME NEW j \in 1..Len(tasks), j # i PROVE TaskIsRight(tasks[j])'
      <4>1. PICK u : u = tasks[j]
        OBVIOUS
      <4>2. TaskIsRight(u) /\ u.event # e
        BY <1>3, <3>2, <4>1 DEF SendInv, TasksAreRight
      <4>3. TaskIsRight(u)'
        BY <2>8, <4>2, TaskStaysRight DEF SendInv
      <4>. QED
        BY <2>5, <3>2, <4>1, <4>3
    <3>3. ASSUME NEW j \in 1..Len(tasks) PROVE TaskIsRight(tasks[j])'
      <4>1. CASE j = i
        BY <2>5, <3>1, <4>1
      <4>. QED
        BY <3>2, <4>1
    <3>4. \A a, b \in 1..Len(tasks) : tasks'[a].event = tasks'[b].event => a = b
      BY <2>7 DEF SendInv, TasksAreRight
    <3>. QED
      BY <2>6, <3>3, <3>4 DEF TasksAreRight
  <2>11. PublishedOnce'
    <3>1. \A w : Unpublished(w) => w # e
      BY <1>3 DEF Unpublished
    <3>2. \A w : Unpublished(w) => Unpublished(w)'
      BY <2>6, <2>7, <2>8, <3>1 DEF Unpublished, Unheard
    <3>. QED
      BY <3>2, PublishedOnceStays DEF SendInv
  <2>12. SteadyHears'
    <3>1. Underway' = Underway /\ e \in Underway
      BY <1>2, <1>3, <2>5, <2>7 DEF Underway
    <3>2. SUFFICES ASSUME NEW d \in Events \ disturbed, d \notin Underway, NEW a \in steady[d]
                   PROVE  Cardinality(Hears(a, d)') = 1
      BY <3>1 DEF SteadyHears, Hears
    <3>3. Hears(a, d)' = Hears(a, d)
      BY <1>6, <2>8, <3>1, <3>2
    <3>4. Cardinality(Hears(a, d)) = 1
      BY <3>2 DEF SendInv, SteadyHears, Hears
    <3>. QED
      BY <3>3, <3>4
  <2>. QED
    BY <2>9, <2>10, <2>11, <2>12 DEF SendInv
<1>9. \/ /\ next = <<>>
         /\ \A k \in 1..Len(todo) : Watched \notin subs[todo[k]]
      \/ \E k \in 1..Len(todo) :
           /\ next \in Seq(Clients) /\ Len(next) = Len(todo) - k + 1
           /\ \A l \in 1..(Len(todo) - k + 1) : next[l] = todo[k + l - 1]
           /\ Watched \in subs[todo[k]]
           /\ \A l \in 1..(k - 1) : Watched \notin subs[todo[l]]
  BY <1>4, <1>5, MatchingFacts
<1>. QED
  BY <1>7, <1>8, <1>9

\* Every step of a broadcast goes on with the clients of its list.
LEMMA BroadcastKeepsSendInv == SendInv /\ HeardInv /\ Broadcast /\ UNCHANGED <<req, titles>> => SendInv'
<1>. SUFFICES ASSUME SendInv, HeardInv, Broadcast, UNCHANGED <<req, titles>> PROVE SendInv'
  OBVIOUS
<1>1. PICK S : tasks \in Seq(S)
  BY DEF HeardInv, BroadcastsAreTyped
<1>2. DOMAIN tasks = 1..Len(tasks) /\ Len(tasks) \in Nat
  BY <1>1, LenProperties
<1>3. PICK i \in 1..Len(tasks) : BroadcastBegins(i) \/ SendEnds(i)
  BY <1>2 DEF Broadcast
<1>4. PICK t : t = tasks[i]
  OBVIOUS
<1>5. TaskIsRight(t) /\ ClientsAreRight
  BY <1>4 DEF SendInv, TasksAreRight
<1>6. CASE BroadcastBegins(i)
  <2>1. ~t.begun /\ GoOn(i, active) /\ UNCHANGED <<left, active, subs, moves, steady, disturbed>>
    BY <1>4, <1>6 DEF BroadcastBegins
  <2>2. AwaitsOnly(active, t.event)
    BY <1>5, <2>1 DEF AwaitsOnly, TaskIsRight, ClientsAreRight, Connected, Contains
  <2>. QED
    BY <1>4, <2>1, <2>2, GoOnKeepsSendInv
<1>7. CASE SendEnds(i)
  <2>1. t.begun /\ UNCHANGED <<left, active, subs, moves, steady, disturbed>>
    BY <1>4, <1>7 DEF SendEnds
  <2>2. /\ t.todo # <<>> /\ t.todo \in Seq(Clients) /\ \A k, l \in 1..Len(t.todo) : t.todo[k] = t.todo[l] => k = l
        /\ \A k \in 1..Len(t.todo) : Connected(t.todo[k]) \/ t.todo[k] \in left
        /\ t.event \in Events \ disturbed =>
             /\ t.size = Cardinality(subs[t.todo[1]])
             /\ \A c \in steady[t.event] : IF Contains(Tail(t.todo), c) THEN Unheard(c, t.event) ELSE HeardOnce(c, t.event)
    BY <1>5, <2>1 DEF TaskIsRight
  <2>3. Head(t.todo) = t.todo[1]
    BY <2>2
  <2>4. CASE Cardinality(subs[Head(t.todo)]) = t.size
    <3>1. GoOn(i, Tail(t.todo))
      BY <1>4, <1>7, <2>4 DEF SendEnds
    <3>2. /\ Tail(t.todo) \in Seq(Clients) /\ Len(Tail(t.todo)) = Len(t.todo) - 1 /\ Len(t.todo) \in Nat
          /\ \A k \in 1..(Len(t.todo) - 1) : Tail(t.todo)[k] = t.todo[k + 1]
      BY <2>2, HeadTailProperties, LenProperties
    <3>3. AwaitsOnly(Tail(t.todo), t.event)
      <4>1. \A k \in 1..(Len(t.todo) - 1) : k + 1 \in 1..Len(t.todo)
        BY <3>2
      <4>2. \A k, l \in 1..(Len(t.todo) - 1) : k + 1 = l + 1 => k = l
        BY <3>2
      <4>. QED
        BY <2>2, <3>2, <4>1, <4>2 DEF AwaitsOnly
    <3>. QED
      BY <1>4, <2>1, <3>1, <3>3, GoOnKeepsSendInv
  <2>5. CASE Cardinality(subs[Head(t.todo)]) # t.size
    <3>1. tasks' = RemoveAt(tasks, i) /\ UNCHANGED heard
      BY <1>4, <1>7, <2>5 DEF SendEnds
    <3>2. ~(t.event \in Events \ disturbed)
      BY <2>2, <2>3, <2>5
    <3>. QED
      BY <1>4, <2>1, <3>1, <3>2, EndedTaskKeepsSendInv
  <2>. QED
    BY <2>4, <2>5
<1>. QED
  BY <1>3, <1>6, <1>7

\* Clients come, go and change their subscriptions.
LEMMA ClientsKeepSendInv ==
  SendInv /\ HeardInv /\ ClientMoves /\ UNCHANGED <<req, titles>> => SendInv'
<1>. SUFFICES ASSUME SendInv, HeardInv, ClientMoves, UNCHANGED <<req, titles>> PROVE SendInv'
  OBVIOUS
<1>1. UNCHANGED <<heard, tasks>>
  BY DEF ClientMoves, Connect, Disconnect, Subscribe, Unsubscribe
<1>2. /\ active \in Seq(Clients) /\ \A i, j \in 1..Len(active) : active[i] = active[j] => i = j
      /\ \A i \in 1..Len(active) : active[i] \notin left
      /\ subs = [c \in Clients |-> subs[c]]
      /\ steady = [e \in Events |-> steady[e]]
      /\ \A e \in Events : \A c \in steady[e] : c \in Clients /\ Connected(c) /\ Watched \in subs[c]
  BY DEF SendInv, ClientsAreRight
<1>3. \A c, e : Hears(c, e)' = Hears(c, e)
  BY <1>1 DEF Hears
\* What a move may do to the broadcasts and to those who are steady.
<1>4. ASSUME ClientsAreRight', disturbed \subseteq disturbed',
             \A e \in Events : steady'[e] \subseteq steady[e],
             \A c : Connected(c) \/ c \in left => Connected(c)' \/ c \in left',
             \A i \in 1..Len(tasks) : LET t == tasks[i] IN
               t.begun /\ (Connected(t.todo[1]) \/ t.todo[1] \in left) =>
                 subs'[t.todo[1]] = subs[t.todo[1]] \/ t.event \in disturbed'
      PROVE  SendInv'
  <2>1. ASSUME NEW i \in 1..Len(tasks) PROVE TaskIsRight(tasks[i])'
    <3>1. PICK t : t = tasks[i]
      OBVIOUS
    <3>2. TaskIsRight(t)
      BY <3>1 DEF SendInv, TasksAreRight
    <3>3. t.event \in Events => \A c \in steady'[t.event] : c \in steady[t.event]
      BY <1>4
    <3>4. ASSUME ~t.begun PROVE TaskIsRight(t)'
      <4>1. \A c \in Clients : Unheard(c, t.event)
        BY <3>2, <3>4 DEF TaskIsRight
      <4>2. \A c \in Clients : Unheard(c, t.event)'
        BY <1>3, <4>1 DEF Unheard
      <4>. QED
        BY <3>4, <4>2 DEF TaskIsRight
    <3>5. ASSUME t.begun PROVE TaskIsRight(t)'
      <4>1. /\ t.todo # <<>> /\ t.todo \in Seq(Clients) /\ \A k, l \in 1..Len(t.todo) : t.todo[k] = t.todo[l] => k = l
            /\ \A k \in 1..Len(t.todo) : Connected(t.todo[k]) \/ t.todo[k] \in left
            /\ t.event \in Events \ disturbed =>
                 /\ t.size = Cardinality(subs[t.todo[1]])
                 /\ \A c \in steady[t.event] : IF Contains(Tail(t.todo), c) THEN Unheard(c, t.event) ELSE HeardOnce(c, t.event)
        BY <3>2, <3>5 DEF TaskIsRight
      <4>2. Connected(t.todo[1]) \/ t.todo[1] \in left
        BY <4>1, LenProperties
      <4>3. t.event \in Events \ disturbed' => subs'[t.todo[1]] = subs[t.todo[1]] /\ t.event \in Events \ disturbed
        BY <1>4, <3>1, <3>5, <4>2
      <4>4. \A c : (Unheard(c, t.event)' <=> Unheard(c, t.event)) /\ (HeardOnce(c, t.event)' <=> HeardOnce(c, t.event))
        BY <1>3 DEF Unheard, HeardOnce
      <4>5. \A k \in 1..Len(t.todo) : Connected(t.todo[k])' \/ t.todo[k] \in left'
        BY <1>4, <4>1
      <4>6. t.event \in Events \ disturbed' =>
              /\ t.size = Cardinality(subs'[t.todo[1]])
              /\ \A c \in steady'[t.event] : IF Contains(Tail(t.todo), c) THEN Unheard(c, t.event)' ELSE HeardOnce(c, t.event)'
        BY <3>3, <4>1, <4>3, <4>4
      <4>. QED
        BY <3>5, <4>1, <4>5, <4>6 DEF TaskIsRight
    <3>6. TaskIsRight(t)' => TaskIsRight(tasks[i])'
      BY <1>1, <3>1
    <3>. QED
      BY <3>4, <3>5, <3>6
  <2>2. TasksAreRight'
    BY <1>1, <2>1 DEF SendInv, TasksAreRight
  <2>3. PublishedOnce'
    <3>1. \A w : Unpublished(w) => Unpublished(w)'
      BY <1>1, <1>3, <1>4 DEF Unpublished, Unheard
    <3>. QED
      BY <3>1 DEF SendInv, PublishedOnce, writes
  <2>4. SteadyHears'
    <3>1. SUFFICES ASSUME NEW e \in Events \ disturbed', e \notin Underway', NEW c \in steady'[e]
                   PROVE  Cardinality({k \in DOMAIN heard'[c] : heard'[c][k] = e}) = 1
      BY DEF SteadyHears
    <3>2. e \in Events \ (Underway \cup disturbed) /\ c \in steady[e]
      BY <1>1, <1>4, <3>1 DEF Underway
    <3>. QED
      BY <1>1, <3>2 DEF SendInv, SteadyHears
  <2>. QED
    BY <1>4, <2>2, <2>3, <2>4 DEF SendInv
<1>5. ASSUME NEW c \in Clients, NEW K \in SUBSET Collections, Connect(c, K) PROVE SendInv'
  <2>1. /\ ~Connected(c) /\ c \notin left /\ active' = Append(active, c) /\ subs' = [subs EXCEPT ![c] = K]
        /\ UNCHANGED <<left, heard, tasks, steady, disturbed>>
    BY <1>5 DEF Connect
  <2>2. /\ active' \in Seq(Clients) /\ Len(active') = Len(active) + 1 /\ Len(active) \in Nat
        /\ \A i \in 1..Len(active) : active'[i] = active[i]
        /\ active'[Len(active) + 1] = c
    BY <1>2, <2>1, AppendProperties, LenProperties
  <2>3. \A i \in 1..Len(active') : i \in 1..Len(active) \/ i = Len(active) + 1
    BY <2>2
  <2>4. \A i \in 1..Len(active) : active[i] # c /\ i \in 1..Len(active')
    BY <2>1, <2>2 DEF Connected, Contains
  <2>5. \A d : Connected(d) => Connected(d)'
    BY <2>2, <2>4 DEF Connected, Contains
  <2>6. \A i, j \in 1..Len(active') : active'[i] = active'[j] => i = j
    BY <1>2, <2>2, <2>3, <2>4
  <2>7. \A i \in 1..Len(active') : active'[i] \notin left'
    BY <1>2, <2>1, <2>2, <2>3
  <2>8. subs' = [d \in Clients |-> subs'[d]] /\ \A d : d # c => subs'[d] = subs[d]
    <3>1. subs' = [subs EXCEPT ![c] = K] /\ subs = [d \in Clients |-> subs[d]]
      BY <1>2, <2>1
    <3>. QED
      BY <3>1
  <2>9. \A e \in Events : \A d \in steady[e] : d # c
    BY <1>2, <2>1
  <2>10. ASSUME NEW e \in Events, NEW d \in steady'[e]
         PROVE  d \in Clients /\ Connected(d)' /\ Watched \in subs'[d]
    <3>1. d \in steady[e] /\ d # c
      BY <2>1, <2>9
    <3>2. d \in Clients /\ Connected(d) /\ Watched \in subs[d]
      BY <1>2, <3>1
    <3>. QED
      BY <2>5, <2>8, <3>1, <3>2
  <2>11. ClientsAreRight'
    <3>1. steady' = [e \in Events |-> steady'[e]] /\ subs' = [d \in Clients |-> subs'[d]]
      BY <1>2, <2>1, <2>8
    <3>2. \A e \in Events : steady'[e] \subseteq {d \in Clients : Connected(d)' /\ Watched \in subs'[d]}
      BY <2>10
    <3>. QED
      BY <2>2, <2>6, <2>7, <3>1, <3>2 DEF ClientsAreRight
  <2>. QED
    BY <1>4, <2>1, <2>5, <2>8, <2>11
<1>6. ASSUME NEW c \in Clients, Disconnect(c) PROVE SendInv'
  <2>1. PICK i \in 1..Len(active) : active[i] = c /\ active' = RemoveAt(active, i)
    BY <1>2, <1>6, LenProperties DEF Disconnect
  <2>2. left' = left \cup {c} /\ steady' = [e \in Events |-> steady[e] \ {c}] /\ UNCHANGED <<subs, heard, tasks, disturbed>>
    BY <1>6 DEF Disconnect
  <2>3. /\ active' \in Seq(Clients) /\ Len(active') = Len(active) - 1 /\ Len(active) \in Nat
        /\ \A j \in 1..(Len(active) - 1) : active'[j] = IF j < i THEN active[j] ELSE active[j + 1]
    BY <1>2, <2>1, RemoveAtFacts, LenProperties
  <2>4. ASSUME NEW j \in 1..Len(active')
        PROVE  \E k \in 1..Len(active) : k # i /\ active'[j] = active[k] /\ k = IF j < i THEN j ELSE j + 1
    <3>1. j \in 1..(Len(active) - 1) /\ i \in 1..Len(active) /\ Len(active) \in Nat
      BY <2>1, <2>3
    <3>2. CASE j < i
      <4>1. active'[j] = active[j]
        BY <2>3, <3>1, <3>2
      <4>. QED
        BY <3>1, <3>2, <4>1
    <3>3. CASE ~(j < i)
      <4>1. active'[j] = active[j + 1] /\ j + 1 \in 1..Len(active) /\ j + 1 # i
        BY <2>3, <3>1, <3>3
      <4>. QED
        BY <3>3, <4>1
    <3>. QED
      BY <3>2, <3>3
  <2>5. ASSUME NEW k \in 1..Len(active), k # i PROVE \E j \in 1..Len(active') : active'[j] = active[k]
    <3>1. CASE k < i
      <4>1. k \in 1..(Len(active) - 1)
        BY <2>3, <3>1
      <4>. QED
        BY <2>3, <3>1, <4>1
    <3>2. CASE ~(k < i)
      <4>1. k - 1 \in 1..(Len(active) - 1) /\ ~(k - 1 < i) /\ (k - 1) + 1 = k
        BY <2>3, <2>5, <3>2
      <4>. QED
        BY <2>3, <4>1
    <3>. QED
      BY <3>1, <3>2
  <2>6. \A d : Connected(d) /\ d # c => Connected(d)'
    BY <2>1, <2>5 DEF Connected, Contains
  <2>7. ASSUME NEW a \in 1..Len(active'), NEW b \in 1..Len(active'), active'[a] = active'[b] PROVE a = b
    <3>1. PICK k \in 1..Len(active) : active'[a] = active[k] /\ k = IF a < i THEN a ELSE a + 1
      BY <2>4
    <3>2. PICK l \in 1..Len(active) : active'[b] = active[l] /\ l = IF b < i THEN b ELSE b + 1
      BY <2>4
    <3>3. k = l
      BY <1>2, <2>7, <3>1, <3>2
    <3>. QED
      BY <2>3, <3>1, <3>2, <3>3
  <2>8. \A j \in 1..Len(active') : active'[j] \notin left'
    BY <1>2, <2>1, <2>2, <2>4
  <2>9. steady' = [e \in Events |-> steady'[e]] /\ \A e \in Events : steady'[e] = steady[e] \ {c}
    BY <2>2
  <2>10. \A e \in Events : \A d \in steady'[e] : d \in Clients /\ Connected(d)' /\ Watched \in subs'[d]
    BY <1>2, <2>2, <2>6, <2>9
  <2>11. ClientsAreRight'
    BY <1>2, <2>2, <2>3, <2>7, <2>8, <2>9, <2>10 DEF ClientsAreRight
  <2>12. \A d : Connected(d) \/ d \in left => Connected(d)' \/ d \in left'
    BY <2>2, <2>6
  <2>. QED
    BY <1>4, <2>2, <2>9, <2>11, <2>12
<1>7. ASSUME NEW c \in Clients, NEW k \in Collections, Subscribe(c, k) \/ Unsubscribe(c, k) PROVE SendInv'
  <2>1. /\ UNCHANGED <<left, active, heard, tasks>>
        /\ \E K : subs' = [subs EXCEPT ![c] = K]
        /\ subs' = subs \/ disturbed' = disturbed \cup BeingSentTo(c)
        /\ disturbed \subseteq disturbed'
    <3>1. CASE Subscribe(c, k)
      <4>1. /\ subs' = [subs EXCEPT ![c] = @ \cup {k}] /\ UNCHANGED <<left, active, heard, tasks>>
            /\ disturbed' = IF k \in subs[c] THEN disturbed ELSE disturbed \cup BeingSentTo(c)
        BY <3>1 DEF Subscribe
      <4>2. k \in subs[c] => subs' = subs
        BY <1>2, <4>1
      <4>. QED
        BY <4>1, <4>2
    <3>2. CASE Unsubscribe(c, k)
      BY <3>2 DEF Unsubscribe
    <3>. QED
      BY <1>7, <3>1, <3>2
  <2>2. subs' = [d \in Clients |-> subs'[d]] /\ \A d : d # c => subs'[d] = subs[d]
    BY <1>2, <2>1
  <2>3. \A d : Connected(d)' <=> Connected(d)
    BY <2>1 DEF Connected
  <2>4. /\ steady' = [e \in Events |-> steady'[e]]
        /\ \A e \in Events : steady'[e] \subseteq steady[e] /\ \A d \in steady'[e] : Watched \in subs'[d]
    <3>1. CASE Subscribe(c, k)
      <4>1. subs' = [subs EXCEPT ![c] = @ \cup {k}] /\ UNCHANGED steady
        BY <3>1 DEF Subscribe
      <4>2. \A d \in Clients : subs[d] \subseteq subs'[d]
        BY <1>2, <4>1
      <4>. QED
        BY <1>2, <4>1, <4>2
    <3>2. CASE Unsubscribe(c, k)
      <4>1. /\ subs' = [subs EXCEPT ![c] = @ \ {k}]
            /\ steady' = IF k = Watched THEN [e \in Events |-> steady[e] \ {c}] ELSE steady
        BY <3>2 DEF Unsubscribe
      <4>2. \A d \in Clients : d # c \/ k # Watched => (Watched \in subs[d] => Watched \in subs'[d])
        BY <1>2, <4>1
      <4>. QED
        BY <1>2, <4>1, <4>2
    <3>. QED
      BY <1>7, <3>1, <3>2
  <2>5. \A e \in Events : \A d \in steady'[e] : d \in Clients /\ Connected(d)' /\ Watched \in subs'[d]
    BY <1>2, <2>3, <2>4
  <2>6. ClientsAreRight'
    BY <1>2, <2>1, <2>2, <2>4, <2>5 DEF ClientsAreRight
  <2>7. ASSUME NEW i \in 1..Len(tasks), tasks[i].begun
        PROVE  subs'[tasks[i].todo[1]] = subs[tasks[i].todo[1]] \/ tasks[i].event \in disturbed'
    <3>1. CASE tasks[i].todo[1] = c /\ disturbed' = disturbed \cup BeingSentTo(c)
      <4>1. i \in DOMAIN tasks
        <5>1. PICK S : tasks \in Seq(S)
          BY DEF HeardInv, BroadcastsAreTyped
        <5>. QED
          BY <5>1, LenProperties
      <4>2. Head(tasks[i].todo) = c
        <5>1. tasks[i].todo \in Seq(Clients) /\ tasks[i].todo # <<>>
          BY <2>7 DEF SendInv, TasksAreRight, TaskIsRight
        <5>. QED
          BY <3>1, <5>1
      <4>3. tasks[i].event \in BeingSentTo(c)
        BY <2>7, <4>1, <4>2 DEF BeingSentTo
      <4>. QED
        BY <3>1, <4>3
    <3>2. CASE tasks[i].todo[1] # c \/ subs' = subs
      BY <2>2, <3>2
    <3>. QED
      BY <2>1, <3>1, <3>2
  <2>. QED
    BY <1>4, <2>1, <2>3, <2>4, <2>6, <2>7
<1>. QED
  BY <1>5, <1>6, <1>7 DEF ClientMoves

\* What is not sent to anybody changes nothing of who has heard.
LEMMA SteadyStays ==
  ASSUME SteadyHears, UNCHANGED <<heard, disturbed>>,
         \A d \in Events \ disturbed : d \notin Underway' => d \notin Underway /\ steady'[d] = steady[d]
  PROVE  SteadyHears'
<1>1. ASSUME NEW d \in Events \ (Underway' \cup disturbed'), NEW c \in steady'[d]
      PROVE  Cardinality({k \in DOMAIN heard'[c] : heard'[c][k] = d}) = 1
  <2>1. d \in Events \ (Underway \cup disturbed) /\ c \in steady[d]
    BY <1>1
  <2>2. Cardinality({k \in DOMAIN heard[c] : heard[c][k] = d}) = 1
    BY <2>1 DEF SteadyHears
  <2>. QED
    BY <2>2
<1>. QED
  BY <1>1, Zenon DEF SteadyHears

\* Nor does what the requests do before they publish.
LEMMA QuietKeepsSendInv ==
  ASSUME SendInv, UNCHANGED <<left, active, subs, heard, tasks, steady, disturbed>>
  PROVE  ClientsAreRight' /\ TasksAreRight' /\ SteadyHears' /\ \A w : Unpublished(w)' <=> Unpublished(w)
<1>1. ClientsAreRight'
  BY DEF SendInv, ClientsAreRight, Connected
<1>2. \A c, w : Hears(c, w)' = Hears(c, w)
  BY DEF Hears
<1>3. TasksAreRight'
  <2>1. ASSUME NEW i \in 1..Len(tasks) PROVE TaskIsRight(tasks[i])'
    <3>1. PICK t : t = tasks[i]
      OBVIOUS
    <3>2. TaskIsRight(t)
      BY <3>1 DEF SendInv, TasksAreRight
    <3>3. TaskIsRight(t)'
      BY <1>2, <3>2, TaskStaysRight DEF SendInv
    <3>. QED
      BY <3>1, <3>3
  <2>. QED
    BY <2>1 DEF SendInv, TasksAreRight
<1>4. SteadyHears'
  <2>1. Underway' = Underway
    BY DEF Underway
  <2>2. SteadyHears
    BY DEF SendInv
  <2>. QED
    BY <2>1, <2>2, SteadyStays
<1>5. \A w : Unpublished(w)' <=> Unpublished(w)
  BY <1>2 DEF Unpublished, Unheard
<1>. QED
  BY <1>1, <1>3, <1>4, <1>5

\* An event is published of each write once, after it was made.
LEMMA RequestKeepsSendInv ==
  ASSUME RInv, EntryInv, HeardInv, SendInv, NEW s \in Sessions, Request(s) PROVE SendInv'
<1>1. \A q \in Sessions \ {s} : req'[q] = req[q]
  BY DEF Request, Create, Update, Delete, Start, Change, ChangeMisses, ChangeTimesOut, Deadlock, NextRecord,
     Audit, AuditSkips, AuditInserts, Commit, Rollback, PublishEvent, Ends, recordVars, RInv, RequestsAreTyped
<1>2. /\ req = [q \in Sessions |-> req[q]] /\ \A q \in Sessions : IsRequest(req[q])
      /\ titles \in Seq(Contents \cup {NoContent}) /\ writes \in Nat
  BY LenProperties DEF RInv, RequestsAreTyped, writes
<1>3. PICK ws \in Seq(Nat) : ws = req[s].wrote
  BY <1>2 DEF IsRequest
<1>4. \A q \in Sessions : \A i \in 1..Len(req[q].wrote) :
        /\ req[q].wrote[i] \in 1..writes /\ Unpublished(req[q].wrote[i])
        /\ \A p \in Sessions : \A j \in 1..Len(req[p].wrote) : req[q].wrote[i] = req[p].wrote[j] => q = p /\ i = j
  <2>1. PublishedOnce
    BY DEF SendInv
  <2>2. \A q \in Sessions : \A i \in 1..Len(req[q].wrote) :
          req[q].wrote[i] \in 1..writes /\ Unpublished(req[q].wrote[i])
    BY <2>1 DEF PublishedOnce
  <2>3. \A q, p \in Sessions : \A i \in 1..Len(req[q].wrote), j \in 1..Len(req[p].wrote) :
          req[q].wrote[i] = req[p].wrote[j] => q = p /\ i = j
    BY <2>1 DEF PublishedOnce
  <2>. QED
    BY <2>2, <2>3
<1>5. CASE PublishEvent(s)
  <2>1. PICK e : e = Head(ws)
    OBVIOUS
  <2>2. PICK t : t = [event |-> e, begun |-> FALSE, todo |-> <<>>, size |-> 0]
    OBVIOUS
  <2>3. /\ tasks' = Append(tasks, t) /\ steady' = [steady EXCEPT ![e] = {c \in ToSet(active) : Watched \in subs[c]}]
        /\ UNCHANGED <<left, active, subs, heard, disturbed, titles>> /\ req[s].at = "publish"
        /\ Ends(s) \/ req' = [req EXCEPT ![s].wrote = Tail(@)]
    BY <1>3, <1>5, <2>1, <2>2 DEF PublishEvent, Publish
  <2>4. ws # <<>>
    BY <1>2, <1>3, <2>3 DEF IsRequest
  <2>5. /\ Len(ws) \in Nat /\ e = ws[1] /\ 1 \in 1..Len(ws)
        /\ Tail(ws) \in Seq(Nat) /\ Len(Tail(ws)) = Len(ws) - 1 /\ \A i \in 1..(Len(ws) - 1) : Tail(ws)[i] = ws[i + 1]
    BY <1>3, <2>1, <2>4, HeadTailProperties, LenProperties
  <2>6. e \in 1..writes /\ Unpublished(e)
    BY <1>3, <1>4, <2>5
  <2>7. PICK S : tasks \in Seq(S)
    BY DEF HeardInv, BroadcastsAreTyped
  <2>8. /\ Len(tasks) \in Nat /\ DOMAIN tasks = 1..Len(tasks)
        /\ Len(tasks') = Len(tasks) + 1 /\ DOMAIN tasks' = 1..(Len(tasks) + 1)
        /\ \A j \in 1..Len(tasks) : tasks'[j] = tasks[j]
        /\ tasks'[Len(tasks) + 1] = t
    <3>1. \A j \in 1..Len(tasks) : tasks[j] \in S \cup {t}
      BY <2>7, ElementOfSeq
    <3>2. tasks \in [1..Len(tasks) -> S \cup {t}] /\ Len(tasks) \in Nat
      BY <2>7, <3>1, LenProperties
    <3>3. tasks \in Seq(S \cup {t}) /\ t \in S \cup {t}
      BY <3>2, SeqDef
    <3>4. /\ Append(tasks, t) \in Seq(S \cup {t}) /\ Len(Append(tasks, t)) = Len(tasks) + 1
          /\ \A j \in 1..Len(tasks) : Append(tasks, t)[j] = tasks[j]
          /\ Append(tasks, t)[Len(tasks) + 1] = t
      BY <3>3, AppendProperties
    <3>5. DOMAIN Append(tasks, t) = 1..(Len(tasks) + 1)
      BY <3>4, LenProperties
    <3>. QED
      BY <2>3, <3>2, <3>4, <3>5
  <2>9. \A c, w : Hears(c, w)' = Hears(c, w)
    BY <2>3 DEF Hears
  <2>10. \A w : w # e => steady'[w] = steady[w]
    BY <2>3 DEF SendInv, ClientsAreRight
  <2>11. ClientsAreRight'
    <3>1. ToSet(active) \subseteq Clients /\ \A c \in ToSet(active) : Connected(c)
      <4>1. active \in Seq(Clients) /\ DOMAIN active = 1..Len(active)
        BY LenProperties DEF SendInv, ClientsAreRight
      <4>2. \A i \in 1..Len(active) : active[i] \in Clients
        BY <4>1, ElementOfSeq
      <4>. QED
        BY <4>1, <4>2 DEF ToSet, Connected, Contains
    <3>2. /\ steady' = [d \in Events |-> steady'[d]]
          /\ \A d \in Events : \A c \in steady'[d] : c \in Clients /\ Connected(c) /\ Watched \in subs[c]
      BY <2>3, <3>1 DEF SendInv, ClientsAreRight
    <3>3. \A c : Connected(c)' <=> Connected(c)
      BY <2>3 DEF Connected
    <3>. QED
      BY <2>3, <3>2, <3>3 DEF SendInv, ClientsAreRight
  <2>12. TasksAreRight'
    <3>1. ASSUME NEW i \in 1..Len(tasks) PROVE TaskIsRight(tasks[i])' /\ tasks'[i].event # e
      <4>1. PICK u : u = tasks[i]
        OBVIOUS
      <4>2. TaskIsRight(u) /\ u.event # e
        BY <2>6, <4>1 DEF SendInv, TasksAreRight, Unpublished
      <4>3. \A c : (Unheard(c, u.event)' <=> Unheard(c, u.event)) /\ (HeardOnce(c, u.event)' <=> HeardOnce(c, u.event))
        BY <2>9 DEF Unheard, HeardOnce
      <4>4. \A c : Connected(c)' <=> Connected(c)
        BY <2>3 DEF Connected
      <4>5. steady'[u.event] = steady[u.event]
        BY <2>10, <4>2
      <4>6. TaskIsRight(u)'
        BY <2>3, <4>2, <4>3, <4>4, <4>5 DEF TaskIsRight
      <4>. QED
        BY <2>8, <4>1, <4>2, <4>6
    <3>2. TaskIsRight(t)' /\ t.event = e
      <4>1. \A c \in Clients : Unheard(c, e)'
        BY <2>6, <2>9 DEF Unpublished, Unheard
      <4>. QED
        BY <2>2, <4>1 DEF TaskIsRight
    <3>3. \A i \in 1..Len(tasks') : i \in 1..Len(tasks) \/ i = Len(tasks) + 1
      BY <2>8
    <3>4. ASSUME NEW i \in 1..Len(tasks') PROVE TaskIsRight(tasks[i])'
      <4>1. CASE i = Len(tasks) + 1
        BY <2>8, <3>2, <4>1
      <4>. QED
        BY <3>1, <3>3, <4>1
    <3>5. \A i, j \in 1..Len(tasks') : tasks'[i].event = tasks'[j].event => i = j
      <4>1. \A i, j \in 1..Len(tasks) : tasks'[i].event = tasks'[j].event => i = j
        BY <2>8 DEF SendInv, TasksAreRight
      <4>. QED
        BY <2>8, <3>1, <3>2, <3>3, <4>1
    <3>. QED
      BY <3>4, <3>5 DEF TasksAreRight
  <2>13. \A w : Unpublished(w) /\ w # e => Unpublished(w)'
    <3>1. SUFFICES ASSUME NEW w, Unpublished(w), w # e PROVE Unpublished(w)'
      OBVIOUS
    <3>2. ASSUME NEW i \in 1..Len(tasks') PROVE tasks'[i].event # w
      <4>1. CASE i = Len(tasks) + 1
        BY <2>2, <2>8, <3>1, <4>1
      <4>2. CASE i # Len(tasks) + 1
        <5>1. i \in 1..Len(tasks)
          BY <2>8, <4>2
        <5>. QED
          BY <2>8, <3>1, <5>1 DEF Unpublished
      <4>. QED
        BY <4>1, <4>2
    <3>. QED
      BY <2>9, <2>10, <3>1, <3>2 DEF Unpublished, Unheard
  <2>14. writes' = writes
    BY <2>3 DEF writes
  <2>15. \A i \in 1..Len(req'[s].wrote) : i + 1 \in 1..Len(ws) /\ req'[s].wrote[i] = ws[i + 1] /\ ws[i + 1] # e
    <3>1. \A i \in 1..(Len(ws) - 1) : i + 1 \in 1..Len(ws) /\ i + 1 # 1
      BY <2>5
    <3>2. \A i \in 1..(Len(ws) - 1) : ws[i + 1] # e
      BY <1>3, <1>4, <2>5, <3>1
    <3>3. CASE Ends(s)
      <4>1. req'[s].wrote = <<>>
        BY <1>2, <3>3 DEF Ends, Idle
      <4>. QED
        BY <4>1
    <3>4. CASE req' = [req EXCEPT ![s].wrote = Tail(@)]
      <4>1. req'[s] = [req[s] EXCEPT !.wrote = Tail(@)]
        BY <1>2, <3>4
      <4>2. req'[s].wrote = Tail(ws)
        BY <1>2, <1>3, <4>1 DEF IsRequest, RequestFields
      <4>. QED
        BY <2>5, <3>1, <3>2, <4>2
    <3>. QED
      BY <2>3, <3>3, <3>4
  <2>16. PublishedOnce'
    <3>1. ASSUME NEW q \in Sessions, NEW i \in 1..Len(req'[q].wrote)
          PROVE  \E k \in 1..Len(req[q].wrote) : /\ req'[q].wrote[i] = req[q].wrote[k] /\ req[q].wrote[k] # e
                                                /\ k = IF q = s THEN i + 1 ELSE i
      <4>1. CASE q = s
        BY <1>3, <2>15, <4>1
      <4>2. CASE q # s
        <5>1. req'[q] = req[q]
          BY <1>1, <4>2
        <5>2. req[q].wrote[i] # e
          BY <1>3, <1>4, <2>5, <4>2, <5>1
        <5>. QED
          BY <4>2, <5>1, <5>2
      <4>. QED
        BY <4>1, <4>2
    <3>2. ASSUME NEW q \in Sessions, NEW i \in 1..Len(req'[q].wrote)
          PROVE  req'[q].wrote[i] \in 1..writes' /\ Unpublished(req[q].wrote[i])'
      <4>1. PICK k \in 1..Len(req[q].wrote) : req'[q].wrote[i] = req[q].wrote[k] /\ req[q].wrote[k] # e
        BY <3>1
      <4>2. PICK w : w = req[q].wrote[k]
        OBVIOUS
      <4>3. w \in 1..writes /\ Unpublished(w)'
        BY <1>4, <2>13, <4>1, <4>2
      <4>. QED
        BY <2>14, <4>1, <4>2, <4>3
    <3>3. ASSUME NEW p \in Sessions, NEW q \in Sessions, NEW i \in 1..Len(req'[p].wrote), NEW j \in 1..Len(req'[q].wrote),
                 req'[p].wrote[i] = req'[q].wrote[j]
          PROVE  p = q /\ i = j
      <4>1. PICK k \in 1..Len(req[p].wrote) : req'[p].wrote[i] = req[p].wrote[k] /\ k = IF p = s THEN i + 1 ELSE i
        BY <3>1
      <4>2. PICK l \in 1..Len(req[q].wrote) : req'[q].wrote[j] = req[q].wrote[l] /\ l = IF q = s THEN j + 1 ELSE j
        BY <3>1
      <4>3. req[p].wrote[k] = req[q].wrote[l]
        BY <3>3, <4>1, <4>2
      <4>4. p = q /\ k = l
        BY <1>4, <4>3
      <4>. QED
        BY <4>1, <4>2, <4>4
    <3>4. \A w \in Nat : w > writes' => Unpublished(w)'
      <4>1. \A w \in Nat : w > writes => Unpublished(w) /\ w # e
        BY <1>2, <2>6 DEF SendInv, PublishedOnce
      <4>. QED
        BY <2>13, <2>14, <4>1
    <3>. QED
      BY <3>2, <3>3, <3>4 DEF PublishedOnce
  <2>17. SteadyHears'
    <3>1. e \in Underway'
      <4>1. Len(tasks) + 1 \in DOMAIN tasks' /\ tasks'[Len(tasks) + 1].event = e
        BY <2>2, <2>8
      <4>. QED
        BY <4>1 DEF Underway
    <3>2. Underway \subseteq Underway'
      <4>1. \A i \in DOMAIN tasks : i \in DOMAIN tasks' /\ tasks'[i] = tasks[i]
        BY <2>8
      <4>. QED
        BY <4>1 DEF Underway
    <3>3. SteadyHears
      BY DEF SendInv
    <3>4. \A d \in Events \ disturbed : d \notin Underway' => d \notin Underway /\ steady'[d] = steady[d]
      BY <2>10, <3>1, <3>2
    <3>. QED
      BY <2>3, <3>3, <3>4, SteadyStays
  <2>. QED
    BY <2>11, <2>12, <2>16, <2>17 DEF SendInv
<1>6. CASE ~PublishEvent(s)
  <2>1. UNCHANGED realtimeVars
    BY <1>6 DEF Request, Create, Update, Delete, Start, Change, ChangeMisses, ChangeTimesOut, Deadlock, NextRecord,
       Audit, AuditSkips, AuditInserts, Commit, Rollback
  <2>2. ClientsAreRight' /\ TasksAreRight' /\ SteadyHears' /\ \A w : Unpublished(w)' <=> Unpublished(w)
    BY <2>1, QuietKeepsSendInv DEF realtimeVars
  <2>3. \/ writes' = writes /\ req'[s].wrote \in {ws, <<>>}
        \/ writes' = writes + 1 /\ req'[s].wrote = Append(ws, writes + 1)
    <3>1. ASSUME NEW xs, NEW op, Start(s, op, xs) PROVE writes' = writes /\ req'[s].wrote = <<>>
      <4>1. UNCHANGED titles /\ req'[s] = [Idle EXCEPT !.at = "change", !.op = op, !.records = xs,
                                              !.old = [x \in Records |-> IF x \in ToSet(xs) THEN value[x] ELSE 0]]
        BY <1>2, <3>1 DEF Start
      <4>2. req'[s].wrote = <<>>
        BY <4>1 DEF Idle
      <4>. QED
        BY <4>1, <4>2 DEF writes
    <3>3. ASSUME NEW title \in Contents \cup {NoContent}, Change(s, title)
          PROVE  writes' = writes + 1 /\ req'[s].wrote = Append(ws, writes + 1)
      <4>1. titles' = Append(titles, title) /\ req'[s] = [req[s] EXCEPT !.at = "audit", !.wrote = Append(@, writes + 1)]
        BY <1>2, <3>3 DEF Change
      <4>2. writes' = writes + 1
        BY <1>2, <4>1, AppendProperties DEF writes
      <4>. QED
        BY <1>2, <1>3, <4>1, <4>2 DEF IsRequest, RequestFields
    <3>4. CASE NextRecord(s)
      <4>1. req'[s] = [req[s] EXCEPT !.at = "change", !.k = @ + 1] /\ UNCHANGED titles
        BY <1>2, <3>4 DEF NextRecord
      <4>. QED
        BY <1>2, <1>3, <4>1 DEF IsRequest, RequestFields, writes
    <3>5. CASE Audit(s)
      <4>1. req'[s] = [req[s] EXCEPT !.at = "insert"] /\ UNCHANGED titles
        BY <1>2, <3>5 DEF Audit
      <4>. QED
        BY <1>2, <1>3, <4>1 DEF IsRequest, RequestFields, writes
    <3>6. CASE Commit(s)
      <4>1. req'[s] = [req[s] EXCEPT !.at = "publish", !.skipped = {}] /\ UNCHANGED titles
        BY <1>2, <3>6 DEF Commit
      <4>. QED
        BY <1>2, <1>3, <4>1 DEF IsRequest, RequestFields, writes
    <3>7. CASE AuditInserts(s)
      BY <1>3, <3>7 DEF AuditInserts, recordVars, writes
    <3>9. CASE AuditSkips(s)
      <4>1. req'[s] = [req[s] EXCEPT !.at = "insert", !.skipped = @ \cup {req[s].k}] /\ UNCHANGED titles
        BY <1>2, <3>9 DEF AuditSkips
      <4>. QED
        BY <1>2, <1>3, <4>1 DEF IsRequest, RequestFields, writes
    <3>8. CASE ChangeMisses(s) \/ ChangeTimesOut(s) \/ Deadlock(s) \/ Rollback(s)
      <4>1. UNCHANGED titles /\ Ends(s)
        BY <3>8 DEF ChangeMisses, ChangeTimesOut, Deadlock, Rollback
      <4>2. req'[s].wrote = <<>>
        BY <1>2, <4>1 DEF Ends, Idle
      <4>. QED
        BY <4>1, <4>2 DEF writes
    <3>. QED
      BY <1>6, <3>1, <3>3, <3>4, <3>5, <3>6, <3>7, <3>8, <3>9 DEF Request, Create, Update, Delete
  <2>4. PublishedOnce'
    <3>1. writes' >= writes /\ writes' \in Nat
      BY <1>2, <2>3
    <3>2. \A w \in Nat : w > writes' => Unpublished(w)'
      BY <1>2, <2>2, <3>1 DEF SendInv, PublishedOnce
    <3>3. ASSUME NEW q \in Sessions, NEW i \in 1..Len(req'[q].wrote)
          PROVE  \/ i \in 1..Len(req[q].wrote) /\ req'[q].wrote[i] = req[q].wrote[i]
                 \/ q = s /\ i = Len(ws) + 1 /\ req'[q].wrote[i] = writes + 1 /\ writes' = writes + 1
      <4>1. CASE q # s
        BY <1>1, <4>1
      <4>2. CASE q = s /\ req'[s].wrote = ws
        BY <1>3, <4>2
      <4>3. CASE q = s /\ req'[s].wrote = <<>>
        BY <4>3
      <4>4. CASE q = s /\ req'[s].wrote = Append(ws, writes + 1) /\ writes' = writes + 1
        <5>1. /\ Len(Append(ws, writes + 1)) = Len(ws) + 1 /\ Len(ws) \in Nat
              /\ \A j \in 1..Len(ws) : Append(ws, writes + 1)[j] = ws[j]
              /\ Append(ws, writes + 1)[Len(ws) + 1] = writes + 1
          BY <1>2, <1>3, AppendProperties, LenProperties
        <5>2. i \in 1..Len(ws) \/ i = Len(ws) + 1
          BY <4>4, <5>1
        <5>. QED
          BY <1>3, <4>4, <5>1, <5>2
      <4>. QED
        BY <2>3, <4>1, <4>2, <4>3, <4>4
    <3>4. ASSUME NEW q \in Sessions, NEW i \in 1..Len(req'[q].wrote)
          PROVE  req'[q].wrote[i] \in 1..writes' /\ Unpublished(req[q].wrote[i])'
      <4>1. PICK w : w = req'[q].wrote[i]
        OBVIOUS
      <4>2. w \in 1..writes' /\ Unpublished(w)
        <5>1. CASE i \in 1..Len(req[q].wrote) /\ w = req[q].wrote[i]
          BY <1>2, <1>4, <3>1, <5>1
        <5>2. CASE w = writes + 1 /\ writes' = writes + 1
          <6>1. writes \in Nat /\ writes + 1 \in Nat /\ writes + 1 > writes /\ writes + 1 \in 1..(writes + 1)
            BY <1>2
          <6>2. Unpublished(writes + 1)
            BY <6>1 DEF SendInv, PublishedOnce
          <6>. QED
            BY <5>2, <6>1, <6>2
        <5>. QED
          BY <3>3, <4>1, <5>1, <5>2
      <4>. QED
        BY <2>2, <4>1, <4>2
    <3>5. ASSUME NEW p \in Sessions, NEW q \in Sessions, NEW i \in 1..Len(req'[p].wrote), NEW j \in 1..Len(req'[q].wrote),
                 req'[p].wrote[i] = req'[q].wrote[j]
          PROVE  p = q /\ i = j
      <4>1. \A r \in Sessions : \A k \in 1..Len(req[r].wrote) : req[r].wrote[k] # writes + 1
        <5>1. writes + 1 \notin 1..writes
          BY <1>2
        <5>. QED
          BY <1>4, <5>1
      <4>2. CASE i \in 1..Len(req[p].wrote) /\ req'[p].wrote[i] = req[p].wrote[i]
        <5>1. req[p].wrote[i] # writes + 1
          BY <4>1, <4>2
        <5>2. req'[q].wrote[j] # writes + 1
          BY <3>5, <4>2, <5>1
        <5>3. j \in 1..Len(req[q].wrote) /\ req'[q].wrote[j] = req[q].wrote[j]
          BY <3>3, <5>2
        <5>4. req[p].wrote[i] = req[q].wrote[j]
          BY <3>5, <4>2, <5>3
        <5>. QED
          BY <1>4, <4>2, <5>3, <5>4
      <4>3. CASE p = s /\ i = Len(ws) + 1 /\ req'[p].wrote[i] = writes + 1
        BY <3>3, <3>5, <4>1, <4>3
      <4>. QED
        BY <3>3, <4>2, <4>3
    <3>. QED
      BY <3>2, <3>4, <3>5 DEF PublishedOnce
  <2>. QED
    BY <2>2, <2>4 DEF SendInv
<1>. QED
  BY <1>5, <1>6

\* Nothing has been published, and nobody is connected.
LEMMA InitHasSendInv == Init => SendInv
<1>. SUFFICES ASSUME Init PROVE SendInv
  OBVIOUS
<1>1. /\ left = {} /\ active = <<>> /\ subs = [c \in Clients |-> {}] /\ heard = [c \in Clients |-> <<>>] /\ tasks = <<>>
      /\ steady = [e \in Events |-> {}] /\ req = [s \in Sessions |-> Idle] /\ titles = <<>>
  BY DEF Init, RealtimeInit
<1>2. Len(<<>>) = 0 /\ DOMAIN <<>> = {} /\ \A T : <<>> \in Seq(T)
  OBVIOUS
<1>3. ClientsAreRight
  BY <1>1, <1>2 DEF ClientsAreRight
<1>4. TasksAreRight
  BY <1>1, <1>2 DEF TasksAreRight
<1>5. \A s \in Sessions : Len(req[s].wrote) = 0
  BY <1>1, <1>2 DEF Idle
<1>6. \A w : Unpublished(w)
  BY <1>1, <1>2 DEF Unpublished, Unheard, Hears
<1>7. PublishedOnce
  BY <1>5, <1>6 DEF PublishedOnce
<1>8. SteadyHears
  BY <1>1 DEF SteadyHears
<1>. QED
  BY <1>3, <1>4, <1>7, <1>8 DEF SendInv

\* A client that is subscribed from the publishing of an event on hears it exactly once, whoever
\* else connects, leaves, subscribes or is slow while the broadcast goes on; only one that
\* changes its own subscriptions while it is being sent the event breaks the loop over them.
THEOREM SteadyHearsHolds == Spec => []SteadyHears
<1>1. RInv /\ EntryInv /\ HeardInv /\ SendInv /\ [Next]_vars => SendInv'
  <2>1. ASSUME RInv, EntryInv, HeardInv, SendInv, NEW s \in Sessions, Request(s) PROVE SendInv'
    BY <2>1, RequestKeepsSendInv
  <2>2. ASSUME HeardInv, SendInv, ClientMoves \/ Broadcast, UNCHANGED <<recordVars, auditVars>> PROVE SendInv'
    <3>1. UNCHANGED <<req, titles>>
      BY <2>2 DEF recordVars
    <3>. QED
      BY <2>2, <3>1, ClientsKeepSendInv, BroadcastKeepsSendInv
  <2>3. ASSUME SendInv, UNCHANGED vars PROVE SendInv'
    <3>1. UNCHANGED <<left, active, subs, heard, tasks, steady, disturbed, req, titles>>
      BY <2>3 DEF vars, recordVars, realtimeVars
    <3>2. ClientsAreRight' /\ TasksAreRight' /\ SteadyHears' /\ \A w : Unpublished(w)' <=> Unpublished(w)
      BY <2>3, <3>1, QuietKeepsSendInv
    <3>3. PublishedOnce'
      BY <2>3, <3>1, <3>2 DEF SendInv, PublishedOnce, writes
    <3>. QED
      BY <3>2, <3>3 DEF SendInv
  <2>. QED
    BY <2>1, <2>2, <2>3 DEF Next
<1>2. SendInv => SteadyHears
  BY DEF SendInv
<1>. QED
  BY <1>1, <1>2, InitHasSendInv, RInvHolds, EntryInvHolds, HeardInvHolds, PTL DEF Spec

-----------------------------------------------------------------------------
(* Part two.                                                                *)

USE PagingAssumption

(* The inductive invariant of a walk.                                       *)

Cursor == [v : Int, id : Int]
Walking == [is : {"on", "done"}, asker : Walkers, mode : {"cursor", "skip"}, desc : BOOLEAN,
            limit : Limits, cursor : Cursor, skip : Nat, seen : Seq(Ids), steady : SUBSET Ids,
            nullCut : BOOLEAN]

PagesTypeOK == rows \in Tables /\ walk \in {NoWalk} \cup Walking /\ touched \in Nat

ShownAt == 1..Len(walk.seen)
IsShown(id) == \E i \in ShownAt : walk.seen[i] = id

\* What nobody has touched is there to be listed.
SteadyIsListed == \A id \in walk.steady : id \in DOMAIN rows /\ Admits(walk.asker, rows[id])

ShownOnce == \A i, j \in ShownAt : walk.seen[i] = walk.seen[j] /\ walk.seen[i] \in walk.steady => i = j

ShownInOrder ==
  \A i, j \in ShownAt :
    /\ j < i
    /\ walk.seen[i] \in walk.steady
    /\ walk.seen[j] \in walk.steady
    /\ rows[walk.seen[i]].v # NoValue
    => ~Above(walk.desc, rows[walk.seen[i]].v, rows[walk.seen[j]].v)

\* Of what nobody has touched and has a value, exactly what is not after the cursor has
\* been shown, and nothing shown is behind the cursor.
CursorIsRight ==
  IF walk.cursor.v = NoValue THEN walk.seen = <<>>
  ELSE \A id \in walk.steady :
         /\ rows[id].v # NoValue => (IsShown(id) <=> ~After(walk.cursor, walk.desc, id))
         /\ IsShown(id) => ~Above(walk.desc, walk.cursor.v, rows[id].v)

AllShown == \A id \in walk.steady : rows[id].v # NoValue => IsShown(id)

WalkInv ==
  walk.is # "none" =>
    /\ SteadyIsListed
    /\ walk.mode = "cursor" /\ ~walk.nullCut =>
         /\ ShownOnce
         /\ ShownInOrder
         /\ walk.is = "on" => CursorIsRight
         /\ walk.is = "done" => AllShown

-----------------------------------------------------------------------------
(* Sequences that list a set.                                               *)

ListsAll(s, idSet) == /\ s \in Seq(idSet)
                    /\ \A id \in idSet : \E i \in 1..Len(s) : s[i] = id

\* An order of a set names each of its members.
LEMMA OrdersAreOnto ==
  ASSUME NEW idSet, IsFiniteSet(idSet), NEW desc, NEW byId, NEW s \in Orders(idSet, desc, byId)
  PROVE  ListsAll(s, idSet)
<1>. DEFINE n == Cardinality(idSet)
<1>1. n \in Nat
  BY FS_CardinalityType
<1>2. s \in [1..n -> idSet] /\ \A i, j \in 1..n : i < j => s[i] # s[j]
  BY DEF Orders
<1>3. s \in Seq(idSet) /\ Len(s) = n
  BY <1>1, <1>2
<1>4. s \in Injection(1..n, idSet)
  <2>. SUFFICES \A i, j \in 1..n : s[i] = s[j] => i = j
    BY <1>2 DEF Injection, IsInjective
  <2>. TAKE i, j \in 1..n
  <2>. QED
    BY <1>1, <1>2
<1>5. Cardinality(1..n) = n
  BY <1>1, FS_Interval
<1>6. s \in Surjection(1..n, idSet)
  BY <1>4, <1>5, FS_Injection
<1>. QED
  BY <1>1, <1>3, <1>6 DEF Surjection, ListsAll

LEMMA SeqOfSubset == ASSUME NEW T, NEW S \in SUBSET T, NEW s \in Seq(S) PROVE s \in Seq(T)
OBVIOUS

\* page is made of the first members of s, as many as there are up to limit.
IsFirst(page, s, limit, S) ==
  /\ page \in Seq(S) /\ Len(page) \in 0..Len(s)
  /\ Len(s) <= limit => Len(page) = Len(s)
  /\ Len(s) > limit => Len(page) = limit
  /\ \A i \in 1..Len(page) : page[i] = s[i]

LEMMA FirstPage ==
  ASSUME NEW S, NEW s \in Seq(S), NEW limit \in Nat \ {0}
  PROVE  IsFirst(Page(s, 0, limit), s, limit, S)
<1>. DEFINE m == IF Len(s) < limit THEN Len(s) ELSE limit
<1>1. Len(s) \in Nat /\ m \in 0..Len(s)
  OBVIOUS
<1>2. Page(s, 0, limit) = SubSeq(s, 1, m)
  BY <1>1 DEF Page
<1>3. \A i \in 1..m : s[i] \in S
  BY <1>1
<1>4. (Len(s) <= limit => m = Len(s)) /\ (Len(s) > limit => m = limit)
  BY <1>1
<1>. HIDE DEF m
<1>5. /\ SubSeq(s, 1, m) \in Seq(S) /\ Len(SubSeq(s, 1, m)) = m
      /\ \A i \in 1..m : SubSeq(s, 1, m)[i] = s[i]
  <2>1. m \in Int /\ m - 1 + 1 = m /\ (1 <= m \/ m = 0) /\ \A i \in 1..m : 1 + i - 1 = i
    BY <1>1
  <2>. QED
    BY <1>3, <2>1, SubSeqProperties
<1>. QED
  BY <1>1, <1>2, <1>4, <1>5 DEF IsFirst

\* A sequence behind another.
LEMMA Joined ==
  ASSUME NEW S, NEW s \in Seq(S), NEW t \in Seq(S)
  PROVE  /\ s \o t \in Seq(S) /\ Len(s \o t) = Len(s) + Len(t)
         /\ \A i \in 1..Len(s) : (s \o t)[i] = s[i]
         /\ \A i \in 1..Len(t) : (s \o t)[Len(s) + i] = t[i]
OBVIOUS

-----------------------------------------------------------------------------
(* The types are kept.                                                      *)

\* A table maps ids to records.
LEMMA TablesAreFunctions ==
  ASSUME NEW t \in Tables
  PROVE  /\ DOMAIN t \in SUBSET Ids /\ IsFiniteSet(DOMAIN t)
         /\ \A id \in DOMAIN t : t[id] \in RecordData /\ t[id].v \in Int
<1>1. PICK S \in SUBSET Ids : t \in [S -> RecordData]
  BY DEF Tables
<1>2. IsFiniteSet(S)
  BY FS_Subset
<1>. QED
  BY <1>1, <1>2

\* The records that a page is read from.
LEMMA CandidatesAreIds ==
  ASSUME PagesTypeOK, NEW a, NEW S \in SUBSET Candidates(a)
  PROVE  S \in SUBSET Ids /\ S \subseteq DOMAIN rows /\ IsFiniteSet(S)
<1>1. S \subseteq DOMAIN rows
  BY DEF Candidates
<1>2. DOMAIN rows \in SUBSET Ids
  BY TablesAreFunctions DEF PagesTypeOK
<1>. QED
  BY <1>1, <1>2, FS_Subset

\* A walk under way or over is typed.
LEMMA WalkIsTyped ==
  ASSUME PagesTypeOK, walk.is # "none" PROVE walk \in Walking
BY DEF PagesTypeOK, NoWalk

LEMMA PageKeepsTypes ==
  ASSUME PagesTypeOK, NextPage PROVE PagesTypeOK'
<1>. DEFINE C == {id \in Candidates(walk.asker) : After(walk.cursor, walk.desc, id)}
<1>1. PICK s \in Orders(C, walk.desc, TRUE) :
        LET page == Page(s, 0, walk.limit)
            more == Len(s) > walk.limit
            last == IF page = <<>> THEN NoCursor ELSE [v |-> rows[page[Len(page)]].v, id |-> page[Len(page)]]
        IN walk' = [walk EXCEPT !.is = IF more THEN "on" ELSE "done", !.cursor = last, !.seen = @ \o page,
                                !.nullCut = @ \/ (more /\ last.v = NoValue)]
  BY DEF NextPage
<1>. DEFINE page == Page(s, 0, walk.limit)
            last == IF page = <<>> THEN NoCursor ELSE [v |-> rows[page[Len(page)]].v, id |-> page[Len(page)]]
<1>2. walk \in Walking /\ walk.limit \in Nat \ {0}
  BY WalkIsTyped DEF NextPage, Walking
<1>3. C \in SUBSET Ids /\ C \subseteq DOMAIN rows /\ IsFiniteSet(C)
  <2>. HIDE DEF C
  <2>1. C \subseteq Candidates(walk.asker)
    BY DEF C
  <2>. QED
    BY <2>1, CandidatesAreIds
<1>. HIDE DEF C
<1>4. s \in Seq(C)
  BY <1>3, OrdersAreOnto DEF ListsAll
<1>5. page \in Seq(C) /\ Len(page) \in Nat
  BY <1>2, <1>4, FirstPage DEF IsFirst
<1>6. last \in Cursor
  <2>1. CASE page = <<>>
    BY <2>1 DEF NoCursor, Cursor
  <2>2. CASE page # <<>>
    <3>. DEFINE id == page[Len(page)]
    <3>1. id \in C
      <4>. HIDE DEF page
      <4>. QED
        BY <2>2, <1>5
    <3>2. rows[id].v \in Int /\ id \in Int
      BY <3>1, <1>3, TablesAreFunctions DEF PagesTypeOK
    <3>. QED
      BY <2>2, <3>2 DEF Cursor
  <2>. QED
    BY <2>1, <2>2
<1>7. walk.seen \o page \in Seq(Ids)
  <2>. HIDE DEF page
  <2>1. walk.seen \in Seq(Ids) /\ page \in Seq(Ids)
    BY <1>2, <1>3, <1>5 DEF Walking
  <2>. QED
    BY <2>1
<1>8. walk' \in Walking
  <2>1. walk' = [walk EXCEPT !.is = IF Len(s) > walk.limit THEN "on" ELSE "done", !.cursor = last,
                             !.seen = walk.seen \o page,
                             !.nullCut = walk.nullCut \/ (Len(s) > walk.limit /\ last.v = NoValue)]
    BY <1>1
  <2>. HIDE DEF page, last
  <2>. QED
    BY <2>1, <1>2, <1>6, <1>7 DEF Walking
<1>. QED
  BY <1>8 DEF NextPage, PagesTypeOK

LEMMA OffsetKeepsTypes ==
  ASSUME PagesTypeOK, NextOffset PROVE PagesTypeOK'
<1>. DEFINE C == Candidates(walk.asker)
<1>1. PICK s \in Orders(C, walk.desc, FALSE) :
        walk' = [walk EXCEPT !.is = IF walk.skip + walk.limit < Len(s) THEN "on" ELSE "done",
                             !.skip = @ + walk.limit, !.seen = @ \o Page(s, walk.skip, walk.limit)]
  BY DEF NextOffset
<1>2. walk \in Walking /\ walk.limit \in Nat /\ walk.skip \in Nat /\ walk.seen \in Seq(Ids)
  BY WalkIsTyped DEF NextOffset, Walking
<1>3. C \in SUBSET Ids /\ IsFiniteSet(C)
  <2>1. C \subseteq Candidates(walk.asker)
    OBVIOUS
  <2>. HIDE DEF C
  <2>. QED
    BY <2>1, CandidatesAreIds
<1>. HIDE DEF C
<1>4. s \in Seq(Ids)
  <2>1. s \in Seq(C)
    BY <1>3, OrdersAreOnto DEF ListsAll
  <2>. QED
    BY <2>1, <1>3, SeqOfSubset
<1>5. Page(s, walk.skip, walk.limit) \in Seq(Ids)
  BY <1>2, <1>4, SubSeqProperties DEF Page
<1>6. walk.seen \o Page(s, walk.skip, walk.limit) \in Seq(Ids)
  BY <1>2, <1>5
<1>7. walk' \in Walking
  <2>. DEFINE seen == walk.seen \o Page(s, walk.skip, walk.limit)
              is   == IF walk.skip + walk.limit < Len(s) THEN "on" ELSE "done"
              skip == walk.skip + walk.limit
  <2>1. walk' = [walk EXCEPT !.is = is, !.skip = skip, !.seen = seen]
    BY <1>1
  <2>2. seen \in Seq(Ids) /\ is \in {"on", "done"} /\ skip \in Nat
    BY <1>2, <1>6
  <2>. HIDE DEF seen, is, skip
  <2>. QED
    BY <2>1, <2>2, <1>2 DEF Walking
<1>. QED
  BY <1>7 DEF NextOffset, PagesTypeOK

LEMMA WriteKeepsTypes ==
  ASSUME PagesTypeOK, NEW id, NEW t \in Tables, Write(id, t) PROVE PagesTypeOK'
<1>1. walk \in Walking
  BY WalkIsTyped DEF Write
<1>2. walk' \in Walking
  BY <1>1 DEF Write, Walking
<1>. QED
  BY <1>2 DEF Write, PagesTypeOK

\* A write of a record leaves a table, in which the other records are as they were.
LEMMA WritesAreApart ==
  ASSUME PagesTypeOK, NEW id \in Ids,
         RemoveRow(id) \/ \E r \in RecordData : Insert(id, r) \/ Edit(id, r)
  PROVE  /\ rows' \in Tables /\ Write(id, rows')
         /\ \A x \in DOMAIN rows \ {id} : x \in DOMAIN rows' /\ rows'[x] = rows[x]
<1>1. PICK S \in SUBSET Ids : rows \in [S -> RecordData]
  BY DEF PagesTypeOK, Tables
<1>2. ASSUME NEW r \in RecordData, Insert(id, r)
      PROVE  /\ rows' \in Tables /\ Write(id, rows')
             /\ \A x \in DOMAIN rows \ {id} : x \in DOMAIN rows' /\ rows'[x] = rows[x]
  <2>1. rows' = [i \in S \cup {id} |-> IF i = id THEN r ELSE rows[i]]
    BY <1>1, <1>2 DEF Insert, Write
  <2>2. rows' \in [S \cup {id} -> RecordData]
    BY <1>1, <2>1
  <2>3. Write(id, rows')
    BY <1>2 DEF Insert, Write
  <2>4. rows' \in Tables
    BY <2>2 DEF Tables
  <2>5. \A x \in S \ {id} : x \in DOMAIN rows' /\ rows'[x] = rows[x]
    BY <2>1
  <2>. QED
    BY <1>1, <2>3, <2>4, <2>5
<1>3. ASSUME NEW r \in RecordData, Edit(id, r)
      PROVE  /\ rows' \in Tables /\ Write(id, rows')
             /\ \A x \in DOMAIN rows \ {id} : x \in DOMAIN rows' /\ rows'[x] = rows[x]
  <2>1. rows' \in [S -> RecordData]
    BY <1>1, <1>3 DEF Edit, Write
  <2>. QED
    BY <1>1, <1>3, <2>1 DEF Edit, Write, Tables
<1>4. CASE RemoveRow(id)
  <2>1. rows' \in [S \ {id} -> RecordData]
    BY <1>1, <1>4 DEF RemoveRow, Write
  <2>. QED
    BY <1>1, <1>4, <2>1 DEF RemoveRow, Write, Tables
<1>. QED
  BY <1>2, <1>3, <1>4

LEMMA PagesTypeOKHolds == PagesSpec => []PagesTypeOK
<1>1. PagesInit => PagesTypeOK
  BY DEF PagesInit, PagesTypeOK
<1>2. ASSUME PagesTypeOK, [PagesNext]_pageVars PROVE PagesTypeOK'
  <2>1. ASSUME NEW a \in Walkers, NEW m \in {"cursor", "skip"}, NEW desc \in BOOLEAN, NEW l \in Limits,
               StartWalk(a, m, desc, l)
        PROVE  PagesTypeOK'
    <3>1. Candidates(a) \in SUBSET Ids
      <4>1. Candidates(a) \in SUBSET Candidates(a)
        OBVIOUS
      <4>. QED
        BY <4>1, <1>2, CandidatesAreIds
    <3>2. walk' \in Walking
      BY <2>1, <3>1 DEF StartWalk, Walking, NoCursor, Cursor
    <3>. QED
      BY <1>2, <2>1, <3>2 DEF StartWalk, PagesTypeOK
  <2>2. CASE NextPage
    BY <1>2, <2>2, PageKeepsTypes
  <2>3. CASE NextOffset
    BY <1>2, <2>3, OffsetKeepsTypes
  <2>4. ASSUME NEW id \in Ids, RemoveRow(id) \/ \E r \in RecordData : Insert(id, r) \/ Edit(id, r)
        PROVE  PagesTypeOK'
    BY <1>2, <2>4, WritesAreApart, WriteKeepsTypes
  <2>5. CASE UNCHANGED pageVars
    BY <1>2, <2>5 DEF pageVars, PagesTypeOK
  <2>. QED
    BY <1>2, <2>1, <2>2, <2>3, <2>4, <2>5 DEF PagesNext
<1>. QED
  BY <1>1, <1>2, PTL DEF PagesSpec

-----------------------------------------------------------------------------
(* The next page.                                                           *)

\* Sorted by value, then by id.
Before(desc, x, y) ==
  \/ Above(desc, rows[x].v, rows[y].v)
  \/ rows[x].v = rows[y].v /\ Above(desc, x, y)

\* What a page is read from has not been shown, comes after all that has, and
\* is all that is left.
LEMMA PageIsNext ==
  ASSUME PagesTypeOK, walk \in Walking, SteadyIsListed, CursorIsRight
  PROVE  LET C == {id \in Candidates(walk.asker) : After(walk.cursor, walk.desc, id)} IN
         /\ \A x \in walk.steady : IsShown(x) => x \notin C
         /\ \A x \in walk.steady : rows[x].v # NoValue => x \in C \/ IsShown(x)
         /\ \A x \in walk.steady, y \in C :
              IsShown(x) => /\ ~Above(walk.desc, rows[y].v, rows[x].v)
                            /\ rows[x].v # NoValue => Before(walk.desc, x, y)
<1>. DEFINE C == {id \in Candidates(walk.asker) : After(walk.cursor, walk.desc, id)}
<1>1. CASE walk.cursor.v = NoValue
  <2>1. walk.seen = <<>> /\ \A x : ~IsShown(x)
    BY <1>1 DEF CursorIsRight, IsShown, ShownAt
  <2>2. \A x \in walk.steady : x \in C
    BY <1>1 DEF SteadyIsListed, Candidates, After
  <2>. QED
    BY <2>1, <2>2
<1>2. CASE walk.cursor.v # NoValue
  <2>1. \A x \in walk.steady : x \in Candidates(walk.asker) /\ x \in Ids /\ x \in Int /\ rows[x].v \in Int
    BY TablesAreFunctions DEF SteadyIsListed, Candidates, PagesTypeOK
  <2>2. \A y \in Candidates(walk.asker) : y \in Int /\ rows[y].v \in Int
    BY TablesAreFunctions DEF Candidates, PagesTypeOK
  <2>3. walk.cursor.v \in Int /\ walk.cursor.id \in Int /\ walk.desc \in BOOLEAN
    BY DEF Walking, Cursor
  <2>4. ASSUME NEW x \in walk.steady, IsShown(x) PROVE x \notin C
    BY <1>2, <2>4 DEF CursorIsRight, After
  <2>5. ASSUME NEW x \in walk.steady, rows[x].v # NoValue PROVE x \in C \/ IsShown(x)
    BY <1>2, <2>1, <2>5 DEF CursorIsRight
  <2>6. ASSUME NEW x \in walk.steady, NEW y \in C, IsShown(x)
        PROVE  ~Above(walk.desc, rows[y].v, rows[x].v)
    BY <1>2, <2>1, <2>2, <2>3, <2>6 DEF CursorIsRight, After, Above
  <2>7. ASSUME NEW x \in walk.steady, NEW y \in C, IsShown(x), rows[x].v # NoValue
        PROVE  Before(walk.desc, x, y)
    <3>1. ~After(walk.cursor, walk.desc, x) /\ After(walk.cursor, walk.desc, y)
      BY <1>2, <2>7 DEF CursorIsRight
    <3>2. x \in Int /\ rows[x].v \in Int /\ y \in Int /\ rows[y].v \in Int
      BY <2>1, <2>2
    <3>. QED
      BY <1>2, <2>3, <2>7, <3>1, <3>2 DEF After, Above, Before
  <2>. QED
    BY <2>4, <2>5, <2>6, <2>7
<1>. QED
  BY <1>1, <1>2

LEMMA PageKeepsWalkInv ==
  ASSUME PagesTypeOK, WalkInv, NextPage PROVE WalkInv'
<1>. DEFINE C == {id \in Candidates(walk.asker) : After(walk.cursor, walk.desc, id)}
<1>1. PICK s \in Orders(C, walk.desc, TRUE) :
        LET page == Page(s, 0, walk.limit)
            more == Len(s) > walk.limit
            last == IF page = <<>> THEN NoCursor ELSE [v |-> rows[page[Len(page)]].v, id |-> page[Len(page)]]
        IN walk' = [walk EXCEPT !.is = IF more THEN "on" ELSE "done", !.cursor = last, !.seen = @ \o page,
                                !.nullCut = @ \/ (more /\ last.v = NoValue)]
  BY DEF NextPage
<1>. DEFINE page == Page(s, 0, walk.limit)
            more == Len(s) > walk.limit
            last == IF page = <<>> THEN NoCursor ELSE [v |-> rows[page[Len(page)]].v, id |-> page[Len(page)]]
            m    == Len(page)
            n    == Len(walk.seen)
<1>2. /\ walk \in Walking /\ walk.limit \in Nat \ {0} /\ walk.desc \in BOOLEAN /\ walk.seen \in Seq(Ids)
      /\ walk.is = "on" /\ walk.mode = "cursor" /\ UNCHANGED rows
  BY WalkIsTyped DEF NextPage, Walking
<1>3. /\ walk'.is = IF more THEN "on" ELSE "done"
      /\ walk'.mode = "cursor" /\ walk'.asker = walk.asker /\ walk'.steady = walk.steady
      /\ walk'.desc = walk.desc /\ walk'.cursor = last /\ walk'.seen = walk.seen \o page
      /\ walk'.nullCut = (walk.nullCut \/ (more /\ last.v = NoValue))
  BY <1>1, <1>2 DEF Walking
<1>4. SteadyIsListed /\ SteadyIsListed'
  BY <1>2, <1>3 DEF WalkInv, SteadyIsListed
<1>. SUFFICES ASSUME ~walk.nullCut, ~(more /\ last.v = NoValue)
              PROVE  ShownOnce' /\ ShownInOrder' /\ (walk'.is = "on" => CursorIsRight') /\ (walk'.is = "done" => AllShown')
  BY <1>2, <1>3, <1>4 DEF WalkInv
<1>5. ShownOnce /\ ShownInOrder /\ CursorIsRight
  BY <1>2 DEF WalkInv
<1>6. /\ \A x \in walk.steady : IsShown(x) => x \notin C
      /\ \A x \in walk.steady : rows[x].v # NoValue => x \in C \/ IsShown(x)
      /\ \A x \in walk.steady, y \in C :
           IsShown(x) => /\ ~Above(walk.desc, rows[y].v, rows[x].v)
                         /\ rows[x].v # NoValue => Before(walk.desc, x, y)
  BY <1>2, <1>4, <1>5, PageIsNext
<1>7. C \in SUBSET Ids /\ IsFiniteSet(C) /\ \A x \in C : x \in Int /\ rows[x].v \in Int
  <2>1. C \in SUBSET Candidates(walk.asker)
    OBVIOUS
  <2>2. C \in SUBSET Ids /\ C \subseteq DOMAIN rows /\ IsFiniteSet(C)
    <3>. HIDE DEF C
    <3>. QED
      BY <2>1, CandidatesAreIds
  <2>. HIDE DEF C
  <2>. QED
    BY <2>2, TablesAreFunctions DEF PagesTypeOK
<1>8. \A x \in walk.steady : x \in Int /\ rows[x].v \in Int
  BY <1>4, TablesAreFunctions DEF SteadyIsListed, PagesTypeOK
<1>9. \A x \in C : After(walk.cursor, walk.desc, x)
  OBVIOUS
<1>. HIDE DEF C, page, last, more, m
<1>10. /\ s \in Seq(C) /\ Len(s) \in Nat
       /\ \A id \in C : \E i \in 1..Len(s) : s[i] = id
  <2>1. ListsAll(s, C)
    BY <1>7, OrdersAreOnto
  <2>. QED
    BY <2>1 DEF ListsAll
<1>11. \A i, j \in 1..Len(s) : i < j => s[i] # s[j] /\ Before(walk.desc, s[i], s[j])
  <2>1. DOMAIN s = 1..Len(s)
    BY <1>10
  <2>. QED
    BY <2>1 DEF Orders, Before
<1>12. /\ page \in Seq(C) /\ Len(page) = m /\ m \in 0..Len(s)
       /\ \A i \in 1..m : page[i] = s[i] /\ s[i] \in C
       /\ more => m = walk.limit
       /\ ~more => m = Len(s)
  <2>1. IsFirst(page, s, walk.limit, C)
    BY <1>2, <1>10, FirstPage DEF page
  <2>2. /\ page \in Seq(C) /\ Len(page) = m /\ m \in 0..Len(s)
        /\ more => m = walk.limit
        /\ ~more => m = Len(s)
        /\ \A i \in 1..m : page[i] = s[i]
    BY <1>2, <1>10, <2>1 DEF IsFirst, m, more
  <2>3. ASSUME NEW i \in 1..m PROVE s[i] \in C
    <3>1. i \in 1..Len(s)
      BY <1>10, <2>2
    <3>. QED
      BY <1>10, <3>1
  <2>. QED
    BY <2>2, <2>3
<1>13. more => m = walk.limit /\ m \in 1..Len(s) /\ last = [v |-> rows[s[m]].v, id |-> s[m]]
  <2>. SUFFICES ASSUME more PROVE m = walk.limit /\ m \in 1..Len(s) /\ last = [v |-> rows[s[m]].v, id |-> s[m]]
    OBVIOUS
  <2>1. m = walk.limit /\ m \in 1..Len(s)
    BY <1>2, <1>12
  <2>2. page # <<>> /\ Len(page) = m /\ page[m] = s[m]
    BY <1>12, <2>1, <1>2
  <2>. QED
    BY <2>1, <2>2 DEF last
<1>. HIDE DEF n
<1>14. /\ n \in Nat /\ m \in Nat /\ ShownAt = 1..n /\ ShownAt' = 1..(n + m)
       /\ \A i \in 1..n : walk'.seen[i] = walk.seen[i]
       /\ \A k \in 1..m : walk'.seen[n + k] = s[k]
  <2>1. walk.seen \in Seq(Ids) /\ page \in Seq(Ids)
    BY <1>2, <1>7, <1>12, SeqOfSubset
  <2>2. n \in Nat /\ m \in Nat /\ Len(page) = m /\ ShownAt = 1..n
    BY <1>2, <1>10, <1>12 DEF n, ShownAt
  <2>3. /\ Len(walk.seen \o page) = n + m
        /\ \A i \in 1..n : (walk.seen \o page)[i] = walk.seen[i]
        /\ \A i \in 1..m : (walk.seen \o page)[n + i] = page[i]
    <3>1. /\ Len(walk.seen \o page) = Len(walk.seen) + Len(page)
          /\ \A i \in 1..Len(walk.seen) : (walk.seen \o page)[i] = walk.seen[i]
          /\ \A i \in 1..Len(page) : (walk.seen \o page)[Len(walk.seen) + i] = page[i]
      BY <2>1, Joined
    <3>. QED
      BY <2>2, <3>1 DEF n
  <2>4. walk'.seen = walk.seen \o page
    BY <1>3
  <2>. QED
    BY <1>12, <2>2, <2>3, <2>4 DEF ShownAt
<1>15. ASSUME NEW i \in ShownAt'
       PROVE  \/ i \in ShownAt /\ walk'.seen[i] = walk.seen[i] /\ IsShown(walk'.seen[i])
              \/ \E k \in 1..m : i = n + k /\ walk'.seen[i] = s[k]
  <2>1. CASE i \in 1..n
    BY <1>14, <2>1 DEF IsShown
  <2>2. CASE i \notin 1..n
    <3>. DEFINE k == i - n
    <3>1. k \in 1..m /\ i = n + k
      BY <1>14, <2>2
    <3>. HIDE DEF k
    <3>. QED
      BY <1>14, <3>1
  <2>. QED
    BY <2>1, <2>2
<1>16. \A x \in walk.steady : IsShown(x)' <=> IsShown(x) \/ \E i \in 1..m : s[i] = x
  <2>. TAKE x \in walk.steady
  <2>1. ASSUME IsShown(x)' PROVE IsShown(x) \/ \E i \in 1..m : s[i] = x
    <3>1. PICK i \in ShownAt' : walk'.seen[i] = x
      BY <2>1 DEF IsShown
    <3>. QED
      BY <1>15, <3>1
  <2>2. ASSUME IsShown(x) PROVE IsShown(x)'
    <3>1. PICK i \in ShownAt : walk.seen[i] = x
      BY <2>2 DEF IsShown
    <3>2. walk'.seen[i] = x /\ i \in ShownAt'
      BY <1>14, <3>1
    <3>. QED
      BY <3>2 DEF IsShown
  <2>3. ASSUME NEW i \in 1..m, s[i] = x PROVE IsShown(x)'
    <3>1. walk'.seen[n + i] = x
      BY <1>14, <2>3
    <3>2. n + i \in ShownAt'
      BY <1>14
    <3>. QED
      BY <3>1, <3>2 DEF IsShown
  <2>. QED
    BY <2>1, <2>2, <2>3
<1>17. ASSUME NEW i \in ShownAt', NEW j \in ShownAt', j < i,
              walk'.seen[i] \in walk.steady, walk'.seen[j] \in walk.steady
       PROVE  /\ walk'.seen[i] # walk'.seen[j]
              /\ rows[walk'.seen[i]].v # NoValue => ~Above(walk.desc, rows[walk'.seen[i]].v, rows[walk'.seen[j]].v)
  <2>1. CASE i \in ShownAt
    <3>1. j \in ShownAt /\ j \in Int /\ i \in Int
      BY <1>14, <1>17, <2>1
    <3>2. walk'.seen[i] = walk.seen[i] /\ walk'.seen[j] = walk.seen[j]
      BY <1>14, <2>1, <3>1
    <3>3. walk.seen[i] # walk.seen[j]
      BY <1>5, <1>17, <2>1, <3>1, <3>2 DEF ShownOnce
    <3>. QED
      BY <1>5, <1>17, <2>1, <3>1, <3>2, <3>3 DEF ShownInOrder
  <2>2. ASSUME NEW k \in 1..m, i = n + k, walk'.seen[i] = s[k], IsShown(walk'.seen[j])
        PROVE  /\ walk'.seen[i] # walk'.seen[j]
               /\ ~Above(walk.desc, rows[walk'.seen[i]].v, rows[walk'.seen[j]].v)
    <3>1. walk'.seen[i] \in C
      BY <1>12, <2>2
    <3>. QED
      BY <1>6, <1>17, <2>2, <3>1
  <2>3. ASSUME NEW k \in 1..m, i = n + k, walk'.seen[i] = s[k],
               NEW l \in 1..m, j = n + l, walk'.seen[j] = s[l]
        PROVE  /\ walk'.seen[i] # walk'.seen[j]
               /\ ~Above(walk.desc, rows[walk'.seen[i]].v, rows[walk'.seen[j]].v)
    <3>1. l < k /\ l \in 1..Len(s) /\ k \in 1..Len(s)
      <4>1. n \in Nat /\ n + l < n + k
        BY <1>14, <1>17, <2>3
      <4>2. m \in Nat /\ m <= Len(s)
        BY <1>10, <1>12
      <4>. QED
        BY <1>10, <4>1, <4>2
    <3>2. s[l] # s[k] /\ Before(walk.desc, s[l], s[k])
      BY <1>11, <3>1
    <3>3. rows[s[l]].v \in Int /\ rows[s[k]].v \in Int
      BY <1>7, <1>12
    <3>. QED
      BY <2>3, <3>2, <3>3, <1>2 DEF Before, Above
  <2>. QED
    BY <1>15, <2>1, <2>2, <2>3
<1>18. ShownOnce'
  <2>. SUFFICES ASSUME NEW i \in ShownAt', NEW j \in ShownAt',
                       walk'.seen[i] = walk'.seen[j], walk'.seen[i] \in walk.steady
                PROVE  i = j
    BY <1>3 DEF ShownOnce
  <2>1. i \in Int /\ j \in Int
    BY <1>14
  <2>. QED
    BY <1>17, <2>1
<1>19. ShownInOrder'
  BY <1>2, <1>3, <1>17 DEF ShownInOrder
<1>20. ASSUME walk'.is = "on" PROVE CursorIsRight'
  <2>1. more
    BY <1>3, <1>20
  <2>. DEFINE c == s[m]
  <2>2. walk'.cursor = [v |-> rows[c].v, id |-> c] /\ rows[c].v # NoValue /\ c \in C /\ m \in 1..Len(s)
    BY <1>3, <1>12, <1>13, <2>1
  <2>3. c \in Int /\ rows[c].v \in Int
    BY <1>7, <2>2
  <2>4. ASSUME NEW x \in walk.steady, IsShown(x)'
        PROVE  /\ ~Above(walk.desc, rows[c].v, rows[x].v)
               /\ rows[x].v # NoValue => x = c \/ Before(walk.desc, x, c)
    <3>1. CASE IsShown(x)
      BY <1>6, <2>2, <3>1
    <3>2. ASSUME NEW i \in 1..m, s[i] = x PROVE x = c \/ Before(walk.desc, x, c)
      <4>1. i \in 1..Len(s) /\ (i < m \/ i = m)
        BY <1>12, <3>2
      <4>. QED
        BY <1>11, <2>2, <3>2, <4>1
    <3>3. ASSUME NEW i \in 1..m, s[i] = x PROVE ~Above(walk.desc, rows[c].v, rows[x].v)
      BY <3>2, <3>3, <1>2, <1>8, <2>3 DEF Before, Above
    <3>. QED
      BY <1>16, <2>4, <3>1, <3>2, <3>3
  <2>5. ASSUME NEW x \in walk.steady, rows[x].v # NoValue
        PROVE  IsShown(x)' <=> ~(Above(walk.desc, rows[c].v, rows[x].v) \/ (rows[c].v = rows[x].v /\ Above(walk.desc, c, x)))
    <3>1. x \in Int /\ rows[x].v \in Int
      BY <1>8
    <3>2. ASSUME IsShown(x)'
          PROVE  ~(Above(walk.desc, rows[c].v, rows[x].v) \/ (rows[c].v = rows[x].v /\ Above(walk.desc, c, x)))
      BY <1>2, <2>3, <2>4, <2>5, <3>1, <3>2 DEF Before, Above
    <3>3. ASSUME ~IsShown(x)' PROVE Before(walk.desc, c, x)
      <4>1. x \in C /\ ~\E i \in 1..m : s[i] = x
        BY <1>6, <1>16, <2>5, <3>3
      <4>2. PICK i \in 1..Len(s) : s[i] = x
        BY <1>10, <4>1
      <4>3. m < i
        BY <1>12, <4>1, <4>2
      <4>. QED
        BY <1>11, <2>2, <4>2, <4>3
    <3>. QED
      BY <3>2, <3>3 DEF Before
  <2>. HIDE DEF c
  <2>. QED
    BY <1>2, <1>3, <2>2, <2>4, <2>5 DEF CursorIsRight, After, Above
<1>21. ASSUME walk'.is = "done" PROVE AllShown'
  <2>1. m = Len(s)
    BY <1>3, <1>12, <1>21
  <2>. QED
    BY <1>2, <1>3, <1>6, <1>10, <1>16, <2>1 DEF AllShown
<1>. QED
  BY <1>18, <1>19, <1>20, <1>21

\* What a walk has established speaks only of records that nobody touches.
LEMMA WriteKeepsWalkInv ==
  ASSUME PagesTypeOK, WalkInv, NEW id \in Ids,
         RemoveRow(id) \/ \E r \in RecordData : Insert(id, r) \/ Edit(id, r)
  PROVE  WalkInv'
<1>1. /\ Write(id, rows')
      /\ \A x \in DOMAIN rows \ {id} : x \in DOMAIN rows' /\ rows'[x] = rows[x]
  BY WritesAreApart
<1>2. walk \in Walking /\ walk.is = "on"
  BY <1>1, WalkIsTyped DEF Write
<1>3. walk' = [walk EXCEPT !.steady = walk.steady \ {id}]
  BY <1>1 DEF Write
<1>4. /\ walk'.is = "on" /\ walk'.mode = walk.mode /\ walk'.asker = walk.asker /\ walk'.desc = walk.desc
      /\ walk'.cursor = walk.cursor /\ walk'.seen = walk.seen /\ walk'.nullCut = walk.nullCut
      /\ walk'.steady = walk.steady \ {id}
  BY <1>2, <1>3 DEF Walking
<1>5. \A x \in walk'.steady : /\ x \in walk.steady /\ x \in DOMAIN rows'
                              /\ rows'[x] = rows[x] /\ Admits(walk.asker, rows'[x])
  BY <1>1, <1>2, <1>4 DEF WalkInv, SteadyIsListed
<1>6. SteadyIsListed'
  BY <1>4, <1>5 DEF SteadyIsListed
<1>. SUFFICES ASSUME walk.mode = "cursor", ~walk.nullCut
              PROVE  ShownOnce' /\ ShownInOrder' /\ CursorIsRight'
  BY <1>4, <1>6 DEF WalkInv
<1>7. ShownOnce /\ ShownInOrder /\ CursorIsRight
  BY <1>2 DEF WalkInv
<1>8. ShownAt' = ShownAt /\ \A x : IsShown(x)' <=> IsShown(x)
  BY <1>4 DEF ShownAt, IsShown
<1>9. ShownOnce'
  BY <1>4, <1>5, <1>7, <1>8 DEF ShownOnce
<1>10. ShownInOrder'
  BY <1>4, <1>5, <1>7, <1>8 DEF ShownInOrder
<1>11. \A x \in walk'.steady : After(walk.cursor, walk.desc, x)' <=> After(walk.cursor, walk.desc, x)
  BY <1>4, <1>5 DEF After
<1>12. CursorIsRight'
  BY <1>4, <1>5, <1>7, <1>8, <1>11 DEF CursorIsRight
<1>. QED
  BY <1>9, <1>10, <1>12

LEMMA WalkInvHolds == PagesSpec => []WalkInv
<1>1. PagesInit => WalkInv
  BY DEF PagesInit, WalkInv, NoWalk
<1>2. ASSUME PagesTypeOK, WalkInv, [PagesNext]_pageVars PROVE WalkInv'
  <2>1. ASSUME NEW a \in Walkers, NEW m \in {"cursor", "skip"}, NEW desc \in BOOLEAN, NEW l \in Limits,
               StartWalk(a, m, desc, l)
        PROVE  WalkInv'
    <3>1. /\ walk'.is = "on" /\ walk'.asker = a /\ walk'.steady = Candidates(a) /\ walk'.seen = <<>>
          /\ walk'.cursor.v = NoValue /\ UNCHANGED rows
      BY <2>1 DEF StartWalk, NoCursor
    <3>2. SteadyIsListed'
      BY <3>1 DEF SteadyIsListed, Candidates
    <3>3. ShownOnce' /\ ShownInOrder' /\ CursorIsRight'
      BY <3>1 DEF ShownOnce, ShownInOrder, CursorIsRight, ShownAt
    <3>. QED
      BY <3>1, <3>2, <3>3 DEF WalkInv
  <2>2. CASE NextPage
    BY <1>2, <2>2, PageKeepsWalkInv
  <2>3. CASE NextOffset
    <3>1. walk \in Walking /\ walk.mode = "skip" /\ walk.is # "none"
      BY <1>2, <2>3, WalkIsTyped DEF NextOffset
    <3>2. walk'.mode = "skip" /\ walk'.asker = walk.asker /\ walk'.steady = walk.steady /\ UNCHANGED rows
      BY <2>3, <3>1 DEF NextOffset, Walking
    <3>. QED
      BY <1>2, <3>1, <3>2 DEF WalkInv, SteadyIsListed
  <2>4. ASSUME NEW id \in Ids, RemoveRow(id) \/ \E r \in RecordData : Insert(id, r) \/ Edit(id, r)
        PROVE  WalkInv'
    BY <1>2, <2>4, WriteKeepsWalkInv
  <2>5. CASE UNCHANGED pageVars
    BY <1>2, <2>5 DEF pageVars, WalkInv, SteadyIsListed, ShownOnce, ShownInOrder, CursorIsRight, AllShown,
                      IsShown, ShownAt, After
  <2>. QED
    BY <1>2, <2>1, <2>2, <2>3, <2>4, <2>5 DEF PagesNext
<1>. QED
  BY <1>1, <1>2, PagesTypeOKHolds, PTL DEF PagesSpec

-----------------------------------------------------------------------------
(* The theorems.                                                            *)

\* Tables, the walk and the counter keep their types: a cursor always has the value and
\* the id of a record (find_all_cursor, encode_cursor).
THEOREM PagesTypesHold == PagesSpec => []PagesTypeOK
BY PagesTypeOKHolds

\* A walk with cursors shows every record that nobody touches exactly once and in
\* order, whatever rule and filter admit, whatever is written between its pages and
\* wherever the database sorts nulls (find_all_cursor).
THEOREM SteadyRowsOnceHolds == PagesSpec => []SteadyRowsOnce
<1>1. ASSUME PagesTypeOK, WalkInv PROVE SteadyRowsOnce
  <2>. SUFFICES ASSUME walk.is = "done", walk.mode = "cursor", ~walk.nullCut, NEW id \in walk.steady
                PROVE  LET places == {i \in DOMAIN walk.seen : walk.seen[i] = id} IN
                       IF rows[id].v = NoValue THEN Cardinality(places) <= 1
                       ELSE /\ Cardinality(places) = 1
                            /\ \A other \in walk.steady : \A i \in places, j \in DOMAIN walk.seen :
                                 walk.seen[j] = other /\ j < i => ~Above(walk.desc, rows[id].v, rows[other].v)
    BY DEF SteadyRowsOnce
  <2>. DEFINE places == {i \in DOMAIN walk.seen : walk.seen[i] = id}
  <2>1. walk.seen \in Seq(Ids) /\ DOMAIN walk.seen = ShownAt
    BY <1>1, WalkIsTyped DEF Walking, ShownAt
  <2>2. ShownOnce /\ ShownInOrder /\ AllShown
    BY <1>1 DEF WalkInv
  <2>3. places = {} \/ \E i \in places : places = {i}
    BY <2>1, <2>2 DEF ShownOnce
  <2>4. Cardinality(places) <= 1 /\ (places # {} => Cardinality(places) = 1)
    <3>. HIDE DEF places
    <3>1. CASE places = {}
      BY <3>1, FS_EmptySet
    <3>2. ASSUME NEW i \in places, places = {i} PROVE Cardinality(places) = 1
      BY <3>2, FS_Singleton
    <3>. QED
      BY <2>3, <3>1, <3>2
  <2>5. rows[id].v # NoValue => places # {}
    BY <2>1, <2>2 DEF AllShown, IsShown
  <2>6. ASSUME rows[id].v # NoValue, NEW other \in walk.steady, NEW i \in places, NEW j \in DOMAIN walk.seen,
               walk.seen[j] = other, j < i
        PROVE  ~Above(walk.desc, rows[id].v, rows[other].v)
    BY <2>1, <2>2, <2>6 DEF ShownInOrder
  <2>. HIDE DEF places
  <2>. QED
    BY <2>4, <2>5, <2>6 DEF places
<1>. QED
  BY <1>1, PagesTypeOKHolds, WalkInvHolds, PTL
=============================================================================
