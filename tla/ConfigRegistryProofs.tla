------------------------ MODULE ConfigRegistryProofs ------------------------
(* Proofs about ConfigRegistry, for any tenants, providers, values, lifetime *)
(* of an entry and requests, and any number of resolutions.                  *)
EXTENDS ConfigRegistry, FiniteSetTheorems, TLAPS

USE ConfigAssumption

-----------------------------------------------------------------------------
(* Typing.  TypeOK needs RequestInv: what a request writes back is built     *)
(* from the row it has read.                                                 *)

\* What a row contributes is one of the contents that are kept track of.
LEMMA ResolvesTyped == \A x \in Row \cup {NoRow} : Resolves(x) \in Content
BY DEF Resolves, Content, Row

\* A key's system row is a key, and the row read as the account's own is one.
LEMMA SystemKey == \A k \in Keys : <<System, Provider(k)>> \in Keys
BY DEF Keys, Scopes, Provider

\* What a request may mean to leave is what maps some of the keys to rows.
LEMMA ChangesTyped ==
  /\ \A c \in Changes : DOMAIN c \subseteq Keys /\ \A k \in DOMAIN c : c[k] \in Row \cup {NoRow}
  /\ \A ks \in SUBSET Keys : [ks -> Row \cup {NoRow}] \subseteq Changes
BY DEF Changes

\* Adding a row to the changes.
LEMMA AddTyped ==
  ASSUME NEW c \in Changes, NEW k \in Keys, NEW x \in Row \cup {NoRow}
  PROVE  /\ Add(c, k, x) \in Changes
         /\ DOMAIN Add(c, k, x) = DOMAIN c \cup {k}
<1>1. Add(c, k, x) \in [DOMAIN c \cup {k} -> Row \cup {NoRow}]
  BY ChangesTyped DEF Add
<1>. QED
  BY <1>1, ChangesTyped DEF Add

\* What a request leaves in its row is a row or none.
LEMMA LeavesTyped ==
  ASSUME TypeOK, RequestInv, NEW a \in Admins, admin[a].at = "write"
  PROVE  Leaves(a) \in Row \cup {NoRow}
<1>. DEFINE k == admin[a].key  op == admin[a].op  saw == admin[a].saw
            x == IF k \in DOMAIN admin[a].new THEN admin[a].new[k] ELSE row[k]
<1>1. admin[a] \in Request
  BY DEF TypeOK, IdleAdmin
<1>2. k \in Keys /\ op \in Op /\ admin[a].new \in Changes
  BY <1>1 DEF Request
<1>3. CASE op.kind = "create"
  <2>1. op.enabled \in BOOLEAN /\ op.value \in Values
    BY <1>2, <1>3 DEF Op
  <2>. QED
    BY <2>1, <1>3 DEF Leaves, Row
<1>4. CASE op.kind = "delete" \/ row[k] = NoRow
  BY <1>3, <1>4 DEF Leaves
<1>5. CASE op.kind # "create" /\ op.kind # "delete" /\ row[k] # NoRow
  <2>1. saw \in Row
    BY <1>1, <1>5 DEF RequestInv, Request, IdleAdmin
  <2>2. x \in Row
    <3>1. k \in DOMAIN admin[a].new => admin[a].new[k] # NoRow
      BY <1>1 DEF RequestInv, Request, IdleAdmin
    <3>2. k \in DOMAIN admin[a].new => admin[a].new[k] \in Row
      BY <3>1, <1>2, ChangesTyped
    <3>3. row[k] \in Row
      BY <1>2, <1>5 DEF TypeOK, Table
    <3>. QED
      BY <3>2, <3>3
  <2>3. Written(a, x) \in Row
    <3>. HIDE DEF x
    <3>1. CASE op.kind = "status"
      <4>1. op.enabled \in BOOLEAN
        BY <1>2, <3>1 DEF Op
      <4>. QED
        BY <4>1, <3>1, <2>1, <2>2 DEF Written, Row
    <3>2. CASE op.kind = "values"
      <4>1. op.value \in Values \cup {Masked}
        BY <1>2, <3>2 DEF Op
      <4>. QED
        BY <4>1, <3>2, <2>1, <2>2 DEF Written, Row
    <3>3. CASE op.kind = "default"
      BY <3>3, <2>1, <2>2 DEF Written, Row
    <3>4. CASE op.kind = "undefault"
      BY <3>4, <2>1, <2>2 DEF Written, Row
    <3>. QED
      BY <1>2, <1>5, <3>1, <3>2, <3>3, <3>4 DEF Op
  <2>4. Leaves(a) = Written(a, x)
    BY <1>5 DEF Leaves
  <2>. QED
    BY <2>3, <2>4
<1>. QED
  BY <1>3, <1>4, <1>5

\* A request under way is a record, and so is a resolution.
LEMMA UnderWay ==
  ASSUME TypeOK
  PROVE  /\ \A a \in Admins : admin[a].at # "idle" => admin[a] \in Request
         /\ \A a \in Admins : admin[a] # IdleAdmin => admin[a] \in Request
         /\ \A r \in Readers : reader[r].at # "idle" => reader[r] \in Resolution
         /\ \A r \in Readers : reader[r] # IdleReader => reader[r] \in Resolution
         /\ \A a \in Admins : admin[a].at # "idle" => admin[a] # IdleAdmin
         /\ \A r \in Readers : reader[r].at # "idle" => reader[r] # IdleReader
BY DEF TypeOK, IdleAdmin, IdleReader

\* A resolution is typed, and touches no request.
LEMMA ReaderStepTyped ==
  ASSUME TypeOK, RequestInv, NEW r \in Readers,
         \/ \E k \in Queries : Miss(r, k)
         \/ ReadOwn(r) \/ ReadSystem(r) \/ Store(r)
  PROVE  TypeOK' /\ RequestInv'
<1>. USE DEF readVars
<1>. SUFFICES TypeOK'
  BY DEF Miss, ReadOwn, ReadSystem, Store, RequestInv
<1>. USE DEF TypeOK
<1>1. ASSUME NEW k \in Queries, Miss(r, k) PROVE TypeOK'
  <2>1. [at |-> "own", key |-> k, age |-> 0, value |-> Off] \in Resolution
    BY DEF Resolution, Content
  <2>. QED
    BY <1>1, <2>1 DEF Miss
<1>2. CASE ReadOwn(r)
  <2>1. reader[r] \in Resolution
    BY <1>2, UnderWay DEF ReadOwn
  <2>2. OwnRow(reader[r].key) \in Row \cup {NoRow}
    BY <2>1 DEF OwnRow, Resolution, Table
  <2>3. Resolves(OwnRow(reader[r].key)) \in Content
    BY <2>2, ResolvesTyped
  <2>4. reader' \in [Readers -> Resolution \cup {IdleReader}]
    BY <1>2, <2>1, <2>3 DEF ReadOwn, Resolution
  <2>5. UNCHANGED <<readVars, cache, settled>>
    BY <1>2 DEF ReadOwn
  <2>. QED
    BY <2>4, <2>5
<1>3. CASE ReadSystem(r)
  <2>1. reader[r] \in Resolution
    BY <1>3, UnderWay DEF ReadSystem
  <2>2. SystemRow(reader[r].key) \in Row \cup {NoRow}
    BY <2>1, SystemKey DEF SystemRow, Resolution, Table
  <2>3. Resolves(SystemRow(reader[r].key)) \in Content
    BY <2>2, ResolvesTyped
  <2>4. reader' \in [Readers -> Resolution \cup {IdleReader}]
    BY <1>3, <2>1, <2>3 DEF ReadSystem, Resolution
  <2>5. UNCHANGED <<readVars, cache, settled>>
    BY <1>3 DEF ReadSystem
  <2>. QED
    BY <2>4, <2>5
<1>4. CASE Store(r)
  <2>1. reader[r] \in Resolution
    BY <1>4, UnderWay DEF Store
  <2>2. TTL - reader[r].age > 0 =>
          [value |-> reader[r].value, left |-> TTL - reader[r].age] \in Entry
    BY <2>1 DEF Resolution, Entry
  <2>3. cache' \in [Keys -> Entry \cup {NoEntry}]
    BY <1>4, <2>2 DEF Store
  <2>4. reader' \in [Readers -> Resolution \cup {IdleReader}] /\ UNCHANGED <<readVars, settled>>
    BY <1>4 DEF Store
  <2>. QED
    BY <2>3, <2>4
<1>. QED
  BY <1>1, <1>2, <1>3, <1>4

\* A request is typed, and keeps what it must leave.
LEMMA AdminStepTyped ==
  ASSUME TypeOK, RequestInv, NEW a \in Admins,
         \/ \E q \in Requests : Begin(a, q[1], q[2])
         \/ ClearDefault(a) \/ Write(a) \/ WriteFails(a) \/ Commit(a) \/ Invalidate(a)
  PROVE  TypeOK' /\ RequestInv'
<1>. USE DEF TypeOK, writeVars
<1>1. ASSUME NEW q \in Requests, Begin(a, q[1], q[2]) PROVE TypeOK' /\ RequestInv'
  <2>. DEFINE k == q[1]  op == q[2]
              new == [at |-> IF op.kind = "default" THEN "clear" ELSE "write",
                      key |-> k, op |-> op, saw |-> row[k], new |-> NoChange]
  <2>1. k \in Keys /\ op \in Op
    OBVIOUS
  <2>2. NoChange \in Changes /\ DOMAIN NoChange = {}
    <3>1. NoChange \in [{} -> Row \cup {NoRow}] /\ {} \in SUBSET Keys
      BY DEF NoChange
    <3>. QED
      BY <3>1, ChangesTyped
  <2>3. new \in Request
    BY <2>1, <2>2 DEF Request, Table
  <2>4. admin' = [admin EXCEPT ![a] = new]
    BY <1>1 DEF Begin
  <2>5. admin' \in [Admins -> Request \cup {IdleAdmin}]
    BY <2>3, <2>4
  <2>6. requests' \in 0..MaxRequests
    BY <1>1 DEF Begin
  <2>7. overlapped' \subseteq Scopes
    BY <1>1, <2>1 DEF Begin, Scope, Keys
  <2>8. TypeOK'
    BY <1>1, <2>5, <2>6, <2>7 DEF Begin
  <2>9. RequestInv'
    <3>1. op.kind # "create" => row[k] # NoRow
      BY <1>1 DEF Begin
    <3>2. \A b \in Admins : admin'[b] = IF b = a THEN new ELSE admin[b]
      BY <2>4
    <3>. QED
      BY <3>1, <3>2, <2>2 DEF RequestInv
  <2>. QED
    BY <2>8, <2>9
<1>2. CASE ClearDefault(a)
  <2>. DEFINE old == {k \in Keys : /\ Scope(k) = Scope(admin[a].key)
                                   /\ row[k] # NoRow /\ row[k].default}
              new == [k \in old |-> [row[k] EXCEPT !.default = FALSE]]
  <2>1. admin[a] \in Request /\ admin[a] # IdleAdmin
    BY <1>2, UnderWay DEF ClearDefault
  <2>2. \A k \in old : new[k] \in Row
    <3>1. ASSUME NEW k \in old PROVE [row[k] EXCEPT !.default = FALSE] \in Row
      <4>1. row[k] \in Row
        BY DEF Table
      <4>. QED
        BY <4>1 DEF Row
    <3>. QED
      BY <3>1
  <2>3. new \in Changes
    <3>1. new \in [old -> Row \cup {NoRow}] /\ old \in SUBSET Keys
      BY <2>2
    <3>. QED
      BY <3>1, ChangesTyped
  <2>4. admin' = [admin EXCEPT ![a].at = "write", ![a].new = new]
    BY <1>2 DEF ClearDefault
  <2>. HIDE DEF new
  <2>5. admin' = [admin EXCEPT ![a] = [admin[a] EXCEPT !.at = "write", !.new = new]]
    BY <2>4, <2>1 DEF Request
  <2>6. [admin[a] EXCEPT !.at = "write", !.new = new] \in Request
    BY <2>1, <2>3 DEF Request
  <2>7. TypeOK'
    <3>1. UNCHANGED <<writeVars, cache, settled>>
      BY <1>2 DEF ClearDefault
    <3>2. admin' \in [Admins -> Request \cup {IdleAdmin}]
      BY <2>5, <2>6
    <3>. QED
      BY <3>1, <3>2
  <2>8. RequestInv'
    <3>1. \A k \in DOMAIN new : new[k] # NoRow
      BY <2>2 DEF new
    <3>. QED
      BY <3>1, <2>5, <2>1 DEF RequestInv, Request
  <2>. QED
    BY <2>7, <2>8
<1>3. CASE Write(a)
  <2>. DEFINE k == admin[a].key
              new == Add(admin[a].new, k, Leaves(a))
  <2>1. admin[a] \in Request /\ admin[a] # IdleAdmin /\ k \in Keys
    BY <1>3, UnderWay DEF Write, Request
  <2>2. new \in Changes
    BY <1>3, <2>1, AddTyped, LeavesTyped DEF Write, Request
  <2>3. admin' = [admin EXCEPT ![a].at = "commit", ![a].new = new]
    BY <1>3 DEF Write
  <2>4. cache' \in [Keys -> Entry \cup {NoEntry}]
    BY <1>3 DEF Write
  <2>. HIDE DEF new
  <2>5. admin' = [admin EXCEPT ![a] = [admin[a] EXCEPT !.at = "commit", !.new = new]]
    BY <2>3, <2>1 DEF Request
  <2>6. [admin[a] EXCEPT !.at = "commit", !.new = new] \in Request
    BY <2>1, <2>2 DEF Request
  <2>7. TypeOK'
    <3>1. UNCHANGED <<writeVars, settled>>
      BY <1>3 DEF Write
    <3>2. admin' \in [Admins -> Request \cup {IdleAdmin}]
      BY <2>5, <2>6
    <3>. QED
      BY <2>4, <3>1, <3>2
  <2>8. RequestInv'
    BY <2>5, <2>1 DEF RequestInv, Request
  <2>. QED
    BY <2>7, <2>8
<1>4. CASE WriteFails(a) \/ Invalidate(a)
  <2>1. admin' = [admin EXCEPT ![a] = IdleAdmin]
    BY <1>4 DEF WriteFails, Invalidate
  <2>2. RequestInv'
    BY <2>1 DEF RequestInv
  <2>3. cache' \in [Keys -> Entry \cup {NoEntry}]
    BY <1>4 DEF WriteFails, Invalidate
  <2>4. settled' \subseteq Keys
    <3>1. Invalidate(a) => admin[a] \in Request
      BY UnderWay DEF Invalidate
    <3>. QED
      BY <1>4, <3>1 DEF WriteFails, Invalidate, Request
  <2>. QED
    BY <1>4, <2>1, <2>2, <2>3, <2>4 DEF WriteFails, Invalidate
<1>5. CASE Commit(a)
  <2>. DEFINE new == admin[a].new
              changed == {k \in DOMAIN new : Resolves(new[k]) # Resolves(row[k])}
  <2>1. admin[a] \in Request /\ admin[a] # IdleAdmin
    BY <1>5, UnderWay DEF Commit
  <2>2. DOMAIN new \subseteq Keys /\ \A k \in DOMAIN new : new[k] \in Row \cup {NoRow}
    BY <2>1, ChangesTyped DEF Request
  <2>3. row' \in Table
    BY <1>5, <2>2 DEF Commit, Table
  <2>4. held' \in [Keys -> [Content -> 0..TTL]]
    <3>1. held' = [k \in Keys |-> IF k \in changed THEN [held[k] EXCEPT ![Resolves(new[k])] = 0]
                                  ELSE held[k]]
      BY <1>5, Zenon DEF Commit
    <3>2. ASSUME NEW k \in Keys
          PROVE  [held[k] EXCEPT ![Resolves(new[k])] = 0] \in [Content -> 0..TTL]
      <4>1. held[k] \in [Content -> 0..TTL] /\ 0 \in 0..TTL
        OBVIOUS
      <4>. HIDE DEF TypeOK, new
      <4>. QED
        BY <4>1
    <3>. HIDE DEF changed
    <3>. QED
      BY <3>1, <3>2
  <2>5. admin' = [admin EXCEPT ![a] = IF @.op.kind = "create" THEN IdleAdmin
                                      ELSE [@ EXCEPT !.at = "invalidate"]]
    BY <1>5 DEF Commit
  <2>6. [admin[a] EXCEPT !.at = "invalidate"] \in Request
    BY <2>1 DEF Request
  <2>7. TypeOK'
    <3>1. UNCHANGED <<serialised, cache, reader, requests, overlapped>>
      BY <1>5 DEF Commit
    <3>3. settled' \subseteq Keys
      BY <1>5 DEF Commit
    <3>2. admin' \in [Admins -> Request \cup {IdleAdmin}]
      BY <2>5, <2>6
    <3>. QED
      BY <2>3, <2>4, <3>1, <3>2, <3>3
  <2>8. RequestInv'
    BY <2>5, <2>1 DEF RequestInv, Request
  <2>. QED
    BY <2>7, <2>8
<1>. QED
  BY <1>1, <1>2, <1>3, <1>4, <1>5

\* Time keeps the types.
LEMMA TickTyped ==
  ASSUME TypeOK, RequestInv, Tick
  PROVE  TypeOK' /\ RequestInv'
<1>. USE DEF TypeOK, Tick
<1>1. cache' \in [Keys -> Entry \cup {NoEntry}]
  BY DEF Entry
<1>2. reader' \in [Readers -> Resolution \cup {IdleReader}]
  <2>1. ASSUME NEW r \in Readers, reader[r] # IdleReader
        PROVE  [reader[r] EXCEPT !.age = IF @ < TTL THEN @ + 1 ELSE TTL] \in Resolution
    <3>1. reader[r] \in Resolution /\ reader[r].age \in 0..TTL
      BY <2>1, UnderWay DEF Resolution
    <3>2. (IF reader[r].age < TTL THEN reader[r].age + 1 ELSE TTL) \in 0..TTL
      BY <3>1
    <3>. QED
      BY <3>1, <3>2 DEF Resolution
  <2>. QED
    BY <2>1
<1>3. held' \in [Keys -> [Content -> 0..TTL]]
  OBVIOUS
<1>. QED
  BY <1>1, <1>2, <1>3 DEF RequestInv

\* TypeOK with RequestInv is inductive.
LEMMA NextTyped == TypeOK /\ RequestInv /\ [Next]_vars => TypeOK' /\ RequestInv'
<1>1. CASE UNCHANGED vars
  BY <1>1 DEF vars, TypeOK, RequestInv
<1>. QED
  BY <1>1, ReaderStepTyped, AdminStepTyped, TickTyped DEF Next

\* It holds at first.
LEMMA InitTyped == Init => TypeOK /\ RequestInv
<1>. SUFFICES ASSUME Init PROVE TypeOK /\ RequestInv
  OBVIOUS
<1>1. row \in Table
  BY DEF Init
<1>2. \A k \in Keys, c \in Content : (IF c = Resolves(row[k]) THEN 0 ELSE TTL) \in 0..TTL
  OBVIOUS
<1>3. held \in [Keys -> [Content -> 0..TTL]]
  BY <1>2 DEF Init
<1>. QED
  BY <1>1, <1>3 DEF Init, TypeOK, RequestInv

\* Every variable stays in its type.
THEOREM TypeCorrect == Spec => []TypeOK
BY InitTyped, NextTyped, PTL DEF Spec

-----------------------------------------------------------------------------
(* Answers are recent.  AnswerInv says what a resolution under way has       *)
(* already established: without it nothing is known of what it will store.   *)

\* At first the tables hold what they hold, and nothing is cached.
LEMMA InitAnswerInv == Init => AnswerInv
<1>. SUFFICES ASSUME Init PROVE AnswerInv
  OBVIOUS
<1>1. \A k \in Keys : held[k][Resolves(row[k])] = 0
  <2>1. \A k \in Keys : Resolves(row[k]) \in Content
    BY ResolvesTyped DEF Init, Table
  <2>. QED
    BY <2>1 DEF Init
<1>. QED
  BY <1>1 DEF Init, AnswerInv, IdleReader, Live

\* An answer stays one when the history gets older by no more than its own age.
LEMMA StillAnswers ==
  ASSUME NEW h, NEW g, NEW k \in Keys, NEW v \in Content, NEW n, NEW m,
         \A i \in Keys, c \in Content : h[i][c] <= n => g[i][c] <= m,
         Answers(h, k, v, n)
  PROVE  Answers(g, k, v, m)
BY SystemKey DEF Answers, Content

\* A resolution finds what the rows hold at the moment it reads them.
LEMMA ReaderKeepsAnswerInv ==
  ASSUME TypeOK, AnswerInv, NEW r \in Readers,
         \/ \E k \in Queries : Miss(r, k)
         \/ ReadOwn(r) \/ ReadSystem(r) \/ Store(r)
  PROVE  AnswerInv'
<1>. USE DEF readVars
<1>1. ASSUME NEW k \in Queries, Miss(r, k) PROVE AnswerInv'
  BY <1>1 DEF Miss, TypeOK, AnswerInv, Answers, Live
<1>2. CASE ReadOwn(r)
  <2>. DEFINE k == reader[r].key  found == Resolves(OwnRow(k))
  <2>1. /\ reader[r] \in Resolution /\ k \in Keys
        /\ reader[r].age \in Nat
    BY <1>2, UnderWay DEF ReadOwn, Resolution
  <2>2. reader'[r].key = k /\ reader'[r].age = reader[r].age /\ reader'[r].value = found
    BY <1>2, <2>1 DEF ReadOwn, TypeOK, Resolution
  <2>3. reader'[r].at = IF found = Off THEN "system" ELSE "store"
    BY <1>2, <2>1 DEF ReadOwn, TypeOK, Resolution
  <2>4. Scope(k) # System => held[k][found] = 0
    BY <2>1 DEF AnswerInv, OwnRow
  <2>5. Scope(k) = System => found = Off
    BY DEF OwnRow, Resolves
  <2>6. \A s \in Readers \ {r} : reader'[s] = reader[s]
    BY <1>2 DEF ReadOwn, TypeOK
  <2>7. UNCHANGED <<row, held, cache>>
    BY <1>2 DEF ReadOwn
  <2>. HIDE DEF found, k
  <2>8. /\ found = Off => Scope(k) = System \/ held[k][Off] <= reader[r].age
        /\ found # Off => Answers(held, k, found, reader[r].age)
    BY <2>1, <2>4, <2>5 DEF Answers
  <2>. QED
    BY <2>2, <2>3, <2>6, <2>7, <2>8 DEF AnswerInv, Answers, Live
<1>3. CASE ReadSystem(r)
  <2>. DEFINE k == reader[r].key  found == Resolves(SystemRow(k))
  <2>1. /\ reader[r] \in Resolution /\ k \in Keys
        /\ reader[r].age \in Nat
    BY <1>3, UnderWay DEF ReadSystem, Resolution
  <2>2. /\ reader'[r].key = k /\ reader'[r].age = reader[r].age
        /\ reader'[r].value = found /\ reader'[r].at = "store"
    BY <1>3, <2>1 DEF ReadSystem, TypeOK, Resolution
  <2>3. held[<<System, Provider(k)>>][found] = 0
    BY <2>1, SystemKey DEF AnswerInv, SystemRow
  <2>4. Scope(k) = System \/ held[k][Off] <= reader[r].age
    BY <1>3 DEF AnswerInv, ReadSystem
  <2>6. \A s \in Readers \ {r} : reader'[s] = reader[s]
    BY <1>3 DEF ReadSystem, TypeOK
  <2>7. UNCHANGED <<row, held, cache>>
    BY <1>3 DEF ReadSystem
  <2>. HIDE DEF found, k
  <2>8. Answers(held, k, found, reader[r].age)
    BY <2>1, <2>3, <2>4 DEF Answers
  <2>. QED
    BY <2>2, <2>6, <2>7, <2>8 DEF AnswerInv, Answers, Live
<1>4. CASE Store(r)
  <2>. DEFINE k == reader[r].key  left == TTL - reader[r].age
  <2>1. /\ reader[r] \in Resolution /\ k \in Keys
        /\ reader[r].age \in 0..TTL
    BY <1>4, UnderWay DEF Store, Resolution
  <2>2. Answers(held, k, reader[r].value, reader[r].age)
    BY <1>4 DEF Store, AnswerInv
  <2>3. cache' = [cache EXCEPT ![k] = IF left > 0 THEN [value |-> reader[r].value, left |-> left]
                                      ELSE NoEntry]
    BY <1>4 DEF Store
  <2>4. TTL - left = reader[r].age
    BY <2>1
  <2>5. \A i \in Keys : Live(i)' => Answers(held, i, cache'[i].value, TTL - cache'[i].left)
    BY <2>1, <2>2, <2>3, <2>4 DEF AnswerInv, Live, TypeOK
  <2>6. \A s \in Readers : reader'[s] = IF s = r THEN IdleReader ELSE reader[s]
    BY <1>4 DEF Store, TypeOK
  <2>7. UNCHANGED <<row, held>>
    BY <1>4 DEF Store
  <2>. QED
    BY <2>5, <2>6, <2>7 DEF AnswerInv, Live, IdleReader
<1>. QED
  BY <1>1, <1>2, <1>3, <1>4

\* A request only removes entries and, when it commits, makes what it leaves the most
\* recent content.
LEMMA AdminKeepsAnswerInv ==
  ASSUME TypeOK, AnswerInv, NEW a \in Admins,
         \/ \E q \in Requests : Begin(a, q[1], q[2])
         \/ ClearDefault(a) \/ Write(a) \/ WriteFails(a) \/ Commit(a) \/ Invalidate(a)
  PROVE  AnswerInv'
<1>. USE DEF writeVars
<1>1. CASE ~Commit(a)
  <2>1. UNCHANGED <<row, held, reader>>
    BY <1>1 DEF Begin, ClearDefault, Write, WriteFails, Invalidate
  <2>2. \A k \in Keys : cache'[k] = cache[k] \/ cache'[k] = NoEntry
    BY <1>1 DEF Begin, ClearDefault, Write, WriteFails, Invalidate, TypeOK
  <2>. QED
    BY <2>1, <2>2 DEF AnswerInv, Answers, Live
<1>2. CASE Commit(a)
  <2>. DEFINE new == admin[a].new
              changed == {k \in DOMAIN new : Resolves(new[k]) # Resolves(row[k])}
  <2>1. admin[a] \in Request
    BY <1>2, UnderWay DEF Commit
  <2>2. DOMAIN new \subseteq Keys /\ \A k \in DOMAIN new : new[k] \in Row \cup {NoRow}
    BY <2>1, ChangesTyped DEF Request
  <2>3. \A k \in Keys : row'[k] = IF k \in DOMAIN new THEN new[k] ELSE row[k]
    BY <1>2 DEF Commit
  <2>4. held' = [k \in Keys |-> IF k \in changed THEN [held[k] EXCEPT ![Resolves(new[k])] = 0]
                                ELSE held[k]]
    BY <1>2, Zenon DEF Commit
  <2>5. \A k \in DOMAIN new : Resolves(new[k]) \in Content
    BY <2>2, ResolvesTyped
  <2>6. \A k \in Keys : held'[k][Resolves(row'[k])] = 0
    BY <2>2, <2>3, <2>4, <2>5 DEF AnswerInv, TypeOK
  <2>7. \A k \in Keys, c \in Content : held'[k][c] <= held[k][c]
    BY <2>4, <2>5 DEF TypeOK
  <2>8. UNCHANGED <<reader, cache>>
    BY <1>2 DEF Commit
  <2>9. ASSUME NEW i \in Keys, NEW c \in Content, NEW n \in 0..TTL, held[i][c] <= n
        PROVE  held'[i][c] <= n
    BY <2>4, <2>7, <2>9 DEF TypeOK
  <2>10. ASSUME NEW k \in Keys, NEW v \in Content, NEW n \in 0..TTL, Answers(held, k, v, n)
         PROVE  Answers(held', k, v, n)
    BY <2>9, <2>10, StillAnswers
  <2>11. \A r \in Readers :
           reader[r].at = "store" => Answers(held', reader[r].key, reader[r].value, reader[r].age)
    BY <2>10, UnderWay DEF AnswerInv, Resolution
  <2>12. \A k \in Keys : Live(k) => Answers(held', k, cache[k].value, TTL - cache[k].left)
    BY <2>10 DEF AnswerInv, Live, TypeOK, Entry
  <2>13. \A r \in Readers :
           reader[r].at = "system" =>
             Scope(reader[r].key) = System \/ held'[reader[r].key][Off] <= reader[r].age
    BY <2>9, UnderWay DEF AnswerInv, Resolution, Content
  <2>. QED
    BY <2>6, <2>8, <2>11, <2>12, <2>13 DEF AnswerInv, Live
<1>. QED
  BY <1>1, <1>2

\* Time adds at most one tick to the history, to every resolution and to every entry.
LEMMA Ageing ==
  ASSUME TypeOK, AnswerInv, Tick
  PROVE  /\ \A k \in Keys : held'[k][Resolves(row[k])] = 0
         /\ \A k \in Keys, c \in Content, n \in 0..TTL :
              held[k][c] <= n => held'[k][c] <= (IF n < TTL THEN n + 1 ELSE TTL)
         /\ \A r \in Readers :
              IF reader[r] = IdleReader THEN reader'[r] = IdleReader
              ELSE /\ reader'[r].at = reader[r].at /\ reader'[r].key = reader[r].key
                   /\ reader'[r].value = reader[r].value /\ reader'[r] # IdleReader
                   /\ reader'[r].age = IF reader[r].age < TTL THEN reader[r].age + 1 ELSE TTL
         /\ \A k \in Keys :
              Live(k)' => /\ Live(k) /\ cache'[k].value = cache[k].value
                          /\ cache[k].left \in 2..TTL /\ cache'[k].left = cache[k].left - 1
<1>1. \A k \in Keys : held'[k][Resolves(row[k])] = 0
  <2>1. \A k \in Keys : Resolves(row[k]) \in Content
    BY ResolvesTyped DEF TypeOK, Table
  <2>. QED
    BY <2>1 DEF Tick
<1>2. ASSUME NEW k \in Keys, NEW c \in Content, NEW n \in 0..TTL, held[k][c] <= n
      PROVE  held'[k][c] <= IF n < TTL THEN n + 1 ELSE TTL
  <2>1. held[k][c] \in 0..TTL
    BY DEF TypeOK
  <2>2. held'[k][c] = IF c = Resolves(row[k]) THEN 0
                      ELSE IF held[k][c] < TTL THEN held[k][c] + 1 ELSE TTL
    BY DEF Tick
  <2>. QED
    BY <1>2, <2>1, <2>2
<1>3. ASSUME NEW r \in Readers, reader[r] # IdleReader
      PROVE  /\ reader'[r].at = reader[r].at /\ reader'[r].key = reader[r].key
             /\ reader'[r].value = reader[r].value /\ reader'[r] # IdleReader
             /\ reader'[r].age = IF reader[r].age < TTL THEN reader[r].age + 1 ELSE TTL
  <2>1. reader[r] \in Resolution
    BY <1>3, UnderWay
  <2>2. reader'[r] = [reader[r] EXCEPT !.age = IF @ < TTL THEN @ + 1 ELSE TTL]
    BY <1>3 DEF Tick
  <2>. QED
    BY <2>1, <2>2 DEF Resolution, IdleReader
<1>4. \A r \in Readers : reader[r] = IdleReader => reader'[r] = IdleReader
  BY DEF Tick
<1>5. ASSUME NEW k \in Keys, cache'[k] # NoEntry
      PROVE  /\ cache[k] # NoEntry /\ cache'[k].value = cache[k].value
             /\ cache[k].left \in 2..TTL /\ cache'[k].left = cache[k].left - 1
  <2>1. cache[k] # NoEntry /\ cache[k].left # 1
    BY <1>5 DEF Tick
  <2>2. cache[k] \in Entry
    BY <2>1 DEF TypeOK
  <2>3. cache'[k] = [cache[k] EXCEPT !.left = @ - 1]
    BY <2>1 DEF Tick
  <2>. QED
    BY <2>1, <2>2, <2>3 DEF Entry
<1>. QED
  BY <1>1, <1>2, <1>3, <1>4, <1>5 DEF Live

\* A resolution and an entry grow old as fast as the history.
LEMMA TickKeepsAnswerInv == TypeOK /\ AnswerInv /\ Tick => AnswerInv'
<1>. SUFFICES ASSUME TypeOK, AnswerInv, Tick PROVE AnswerInv'
  OBVIOUS
<1>. DEFINE older(n) == IF n < TTL THEN n + 1 ELSE TTL
<1>1. row' = row
  BY DEF Tick
<1>2. ASSUME NEW k \in Keys, NEW v \in Content, NEW n \in 0..TTL, Answers(held, k, v, n)
      PROVE  Answers(held', k, v, older(n))
  BY <1>2, Ageing, StillAnswers
<1>3. ASSUME NEW r \in Readers, reader'[r].at # "idle"
      PROVE  /\ reader[r] \in Resolution /\ reader'[r].at = reader[r].at
             /\ reader'[r].key = reader[r].key /\ reader'[r].value = reader[r].value
             /\ reader'[r].age = older(reader[r].age)
  BY <1>3, Ageing, UnderWay DEF IdleReader
<1>4. ASSUME NEW r \in Readers, reader'[r].at = "store"
      PROVE  Answers(held', reader'[r].key, reader'[r].value, reader'[r].age)
  BY <1>2, <1>3, <1>4 DEF AnswerInv, Resolution
<1>5. ASSUME NEW r \in Readers, reader'[r].at = "system"
      PROVE  Scope(reader'[r].key) = System \/ held'[reader'[r].key][Off] <= reader'[r].age
  BY <1>3, <1>5, Ageing DEF AnswerInv, Resolution, Content
<1>6. ASSUME NEW k \in Keys, Live(k)'
      PROVE  Answers(held', k, cache'[k].value, TTL - cache'[k].left)
  <2>1. /\ Live(k) /\ cache[k] \in Entry /\ cache'[k].value = cache[k].value
        /\ cache[k].left \in 2..TTL /\ cache'[k].left = cache[k].left - 1
    BY <1>6, Ageing DEF Live, TypeOK
  <2>2. Answers(held, k, cache[k].value, TTL - cache[k].left)
    BY <2>1 DEF AnswerInv
  <2>3. TTL - cache[k].left \in 0..TTL /\ older(TTL - cache[k].left) = TTL - cache'[k].left
    BY <2>1
  <2>. QED
    BY <1>2, <2>1, <2>2, <2>3 DEF Entry
<1>. QED
  BY <1>1, <1>4, <1>5, <1>6, Ageing DEF AnswerInv

\* AnswerInv is inductive, together with the types.
LEMMA NextAnswerInv == TypeOK /\ AnswerInv /\ [Next]_vars => AnswerInv'
<1>1. CASE UNCHANGED vars
  BY <1>1 DEF vars, AnswerInv, Live
<1>. QED
  BY <1>1, ReaderKeepsAnswerInv, AdminKeepsAnswerInv, TickKeepsAnswerInv DEF Next

\* A live answer was put together from what the rows held within the last TTL.
THEOREM AnswersAreRecentHolds == Spec => []AnswersAreRecent
<1>1. TypeOK /\ AnswerInv => AnswersAreRecent
  <2>. SUFFICES ASSUME TypeOK, AnswerInv, NEW k \in Keys, Live(k)
                PROVE  LET v == cache[k].value sys == <<System, Provider(k)>> IN
                       \/ Scope(k) # System /\ v # Off /\ Recent(k, v)
                       \/ (Scope(k) = System \/ Recent(k, Off)) /\ Recent(sys, v)
    BY DEF AnswersAreRecent
  <2>1. cache[k].left \in 1..TTL /\ cache[k].value \in Content
    BY DEF TypeOK, Live, Entry
  <2>2. \A i \in Keys, c \in Content : held[i][c] <= TTL - cache[k].left => held[i][c] < TTL
    BY <2>1 DEF TypeOK
  <2>. QED
    BY <2>1, <2>2, SystemKey DEF AnswerInv, Answers, Recent, Content
<1>. QED
  BY <1>1, InitAnswerInv, NextAnswerInv, TypeCorrect, PTL DEF Spec

-----------------------------------------------------------------------------
(* A settled change is seen.  SettledInv follows the resolutions that began  *)
(* after the change, and rests on AnswerInv for the system's row.            *)

\* What agrees with an unchanged row goes on agreeing while the history gets older by no
\* more than its own age.
LEMMA StillAgrees ==
  ASSUME NEW x, NEW y, NEW h, NEW g, NEW k \in Keys, NEW v \in Content, NEW n, NEW m,
         Resolves(x) = Resolves(y),
         \A i \in Keys, c \in Content : h[i][c] <= n => g[i][c] <= m,
         Agrees(x, h, k, v, n)
  PROVE  Agrees(y, g, k, v, m)
BY SystemKey DEF Agrees

\* A resolution of a settled key reads the row as it stays.
LEMMA ReaderKeepsSettledInv ==
  ASSUME TypeOK, AnswerInv, SettledInv, NEW r \in Readers,
         \/ \E k \in Queries : Miss(r, k)
         \/ ReadOwn(r) \/ ReadSystem(r) \/ Store(r)
  PROVE  SettledInv'
<1>. USE DEF readVars
<1>1. ASSUME NEW k \in Queries, Miss(r, k) PROVE SettledInv'
  BY <1>1 DEF Miss, TypeOK, SettledInv, Live
<1>2. CASE ReadOwn(r)
  <2>. DEFINE k == reader[r].key  found == Resolves(OwnRow(k))
  <2>1. reader[r] \in Resolution /\ k \in Keys
    BY <1>2, UnderWay DEF ReadOwn, Resolution
  <2>2. /\ reader'[r].key = k /\ reader'[r].age = reader[r].age /\ reader'[r].value = found
        /\ reader'[r].at = IF found = Off THEN "system" ELSE "store"
    BY <1>2, <2>1 DEF ReadOwn, TypeOK, Resolution
  <2>3. /\ found = Off => Scope(k) = System \/ Resolves(row[k]) = Off
        /\ found # Off => found = Resolves(row[k])
    BY DEF OwnRow, Resolves
  <2>4. \A s \in Readers \ {r} : reader'[s] = reader[s]
    BY <1>2 DEF ReadOwn, TypeOK
  <2>5. UNCHANGED <<row, held, cache, settled>>
    BY <1>2 DEF ReadOwn
  <2>. HIDE DEF found, k
  <2>. QED
    BY <2>2, <2>3, <2>4, <2>5 DEF SettledInv, Agrees, Live
<1>3. CASE ReadSystem(r)
  <2>. DEFINE k == reader[r].key  found == Resolves(SystemRow(k))
  <2>1. reader[r] \in Resolution /\ reader[r] # IdleReader /\ k \in Keys /\ reader[r].age \in Nat
    BY <1>3, UnderWay DEF ReadSystem, Resolution
  <2>2. /\ reader'[r].key = k /\ reader'[r].age = reader[r].age
        /\ reader'[r].value = found /\ reader'[r].at = "store"
    BY <1>3, <2>1 DEF ReadSystem, TypeOK, Resolution
  <2>3. held[<<System, Provider(k)>>][found] = 0
    BY <2>1, SystemKey DEF AnswerInv, SystemRow
  <2>4. Scope(k) = System => found = Resolves(row[k])
    BY <2>1 DEF SystemRow, Scope, Provider, Keys
  <2>5. k \in settled => Scope(k) = System \/ Resolves(row[k]) = Off
    BY <1>3, <2>1 DEF ReadSystem, SettledInv
  <2>6. k \in settled => Agrees(row[k], held, k, found, reader[r].age)
    BY <2>1, <2>3, <2>4, <2>5 DEF Agrees
  <2>7. \A s \in Readers \ {r} : reader'[s] = reader[s]
    BY <1>3 DEF ReadSystem, TypeOK
  <2>8. UNCHANGED <<row, held, cache, settled>>
    BY <1>3 DEF ReadSystem
  <2>. HIDE DEF found, k
  <2>. QED
    BY <2>2, <2>6, <2>7, <2>8 DEF SettledInv, Live
<1>4. CASE Store(r)
  <2>. DEFINE k == reader[r].key  left == TTL - reader[r].age
  <2>1. /\ reader[r] \in Resolution /\ reader[r] # IdleReader /\ k \in Keys
        /\ reader[r].age \in 0..TTL
    BY <1>4, UnderWay DEF Store, Resolution
  <2>2. k \in settled => Agrees(row[k], held, k, reader[r].value, reader[r].age)
    BY <1>4, <2>1 DEF Store, SettledInv
  <2>3. cache' = [cache EXCEPT ![k] = IF left > 0 THEN [value |-> reader[r].value, left |-> left]
                                      ELSE NoEntry]
    BY <1>4 DEF Store
  <2>4. TTL - left = reader[r].age
    BY <2>1
  <2>5. \A i \in settled :
          Live(i)' => Agrees(row[i], held, i, cache'[i].value, TTL - cache'[i].left)
    BY <2>1, <2>2, <2>3, <2>4 DEF SettledInv, Live, TypeOK
  <2>6. \A s \in Readers : reader'[s] = IF s = r THEN IdleReader ELSE reader[s]
    BY <1>4 DEF Store, TypeOK
  <2>7. UNCHANGED <<row, held, settled>>
    BY <1>4 DEF Store
  <2>. QED
    BY <2>5, <2>6, <2>7 DEF SettledInv, Live
<1>. QED
  BY <1>1, <1>2, <1>3, <1>4

\* A request unsettles the keys it changes, and settles one by clearing its entry.
LEMMA AdminKeepsSettledInv ==
  ASSUME TypeOK, SettledInv, NEW a \in Admins,
         \/ \E q \in Requests : Begin(a, q[1], q[2])
         \/ ClearDefault(a) \/ Write(a) \/ WriteFails(a) \/ Commit(a) \/ Invalidate(a)
  PROVE  SettledInv'
<1>. USE DEF writeVars
<1>1. CASE ~Commit(a) /\ ~Invalidate(a)
  <2>1. UNCHANGED <<row, held, reader, settled>>
    BY <1>1 DEF Begin, ClearDefault, Write, WriteFails
  <2>2. \A k \in Keys : cache'[k] = cache[k] \/ cache'[k] = NoEntry
    BY <1>1 DEF Begin, ClearDefault, Write, WriteFails, TypeOK
  <2>3. settled \subseteq Keys
    BY DEF TypeOK
  <2>. QED
    BY <2>1, <2>2, <2>3 DEF SettledInv, Live
<1>2. CASE Invalidate(a)
  <2>. DEFINE k == admin[a].key
  <2>1. UNCHANGED <<row, held, reader>> /\ cache' = [cache EXCEPT ![k] = NoEntry]
    BY <1>2 DEF Invalidate
  <2>2. \/ settled' = settled
        \/ /\ settled' = settled \cup {k}
           /\ \A r \in Readers : reader[r] # IdleReader => reader[r].key # k
    BY <1>2 DEF Invalidate
  <2>3. settled \subseteq Keys /\ k \in Keys
    BY <1>2, UnderWay DEF TypeOK, Invalidate, Request
  <2>. HIDE DEF k
  <2>4. \A i \in Keys : cache'[i] = IF i = k THEN NoEntry ELSE cache[i]
    BY <2>1 DEF TypeOK
  <2>. QED
    BY <2>1, <2>2, <2>3, <2>4 DEF SettledInv, Live
<1>3. CASE Commit(a)
  <2>. DEFINE new == admin[a].new
              changed == {k \in DOMAIN new : Resolves(new[k]) # Resolves(row[k])}
  <2>1. admin[a] \in Request
    BY <1>3, UnderWay DEF Commit
  <2>2. DOMAIN new \subseteq Keys /\ \A k \in DOMAIN new : new[k] \in Row \cup {NoRow}
    BY <2>1, ChangesTyped DEF Request
  <2>3. \A k \in Keys : row'[k] = IF k \in DOMAIN new THEN new[k] ELSE row[k]
    BY <1>3 DEF Commit
  <2>4. held' = [k \in Keys |-> IF k \in changed THEN [held[k] EXCEPT ![Resolves(new[k])] = 0]
                                ELSE held[k]]
    BY <1>3, Zenon DEF Commit
  <2>5. UNCHANGED <<reader, cache>> /\ settled' = settled \ changed
    BY <1>3, Zenon DEF Commit
  <2>6. \A k \in settled' : k \in settled /\ k \in Keys /\ Resolves(row'[k]) = Resolves(row[k])
    BY <2>3, <2>5 DEF TypeOK
  <2>7. \A k \in DOMAIN new : Resolves(new[k]) \in Content
    BY <2>2, ResolvesTyped
  <2>8. \A k \in Keys, c \in Content : held'[k][c] <= held[k][c]
    BY <2>4, <2>7 DEF TypeOK
  <2>9. ASSUME NEW i \in Keys, NEW c \in Content, NEW n \in 0..TTL, held[i][c] <= n
        PROVE  held'[i][c] <= n
    BY <2>4, <2>8, <2>9 DEF TypeOK
  <2>10. ASSUME NEW k \in settled', NEW v \in Content, NEW n \in 0..TTL,
                Agrees(row[k], held, k, v, n)
         PROVE  Agrees(row'[k], held', k, v, n)
    <3>1. k \in Keys /\ Resolves(row[k]) = Resolves(row'[k])
      BY <2>6
    <3>2. \A i \in Keys, c \in Content : held[i][c] <= n => held'[i][c] <= n
      BY <2>9
    <3>. HIDE DEF changed, new
    <3>. QED
      BY <3>1, <3>2, <2>10, StillAgrees
  <2>11. ASSUME NEW r \in Readers, reader[r] # IdleReader, reader[r].key \in settled',
                reader[r].at = "store"
         PROVE  Agrees(row'[reader[r].key], held', reader[r].key, reader[r].value, reader[r].age)
    BY <2>6, <2>10, <2>11, UnderWay DEF SettledInv, Resolution
  <2>12. ASSUME NEW k \in settled', Live(k)
         PROVE  Agrees(row'[k], held', k, cache[k].value, TTL - cache[k].left)
    BY <2>6, <2>10, <2>12 DEF SettledInv, Live, TypeOK, Entry
  <2>. HIDE DEF changed, new
  <2>. QED
    BY <2>5, <2>6, <2>11, <2>12 DEF SettledInv, Live
<1>. QED
  BY <1>1, <1>2, <1>3

\* Time settles nothing and changes no row.
LEMMA TickKeepsSettledInv == TypeOK /\ AnswerInv /\ SettledInv /\ Tick => SettledInv'
<1>. SUFFICES ASSUME TypeOK, AnswerInv, SettledInv, Tick PROVE SettledInv'
  OBVIOUS
<1>. DEFINE older(n) == IF n < TTL THEN n + 1 ELSE TTL
<1>1. row' = row /\ settled' = settled /\ settled \subseteq Keys
  BY DEF Tick, TypeOK
<1>2. ASSUME NEW k \in Keys, NEW v \in Content, NEW n \in 0..TTL, Agrees(row[k], held, k, v, n)
      PROVE  Agrees(row[k], held', k, v, older(n))
  BY <1>2, Ageing, StillAgrees
<1>3. ASSUME NEW r \in Readers, reader'[r] # IdleReader
      PROVE  /\ reader[r] \in Resolution /\ reader[r] # IdleReader
             /\ reader'[r].at = reader[r].at /\ reader'[r].key = reader[r].key
             /\ reader'[r].value = reader[r].value /\ reader'[r].age = older(reader[r].age)
  BY <1>3, Ageing, UnderWay
<1>4. ASSUME NEW r \in Readers, reader'[r] # IdleReader, reader'[r].key \in settled,
             reader'[r].at = "store"
      PROVE  Agrees(row[reader'[r].key], held', reader'[r].key, reader'[r].value, reader'[r].age)
  BY <1>2, <1>3, <1>4 DEF SettledInv, Resolution
<1>5. ASSUME NEW r \in Readers, reader'[r] # IdleReader, reader'[r].key \in settled,
             reader'[r].at = "system"
      PROVE  Scope(reader'[r].key) = System \/ Resolves(row[reader'[r].key]) = Off
  BY <1>3, <1>5 DEF SettledInv
<1>6. ASSUME NEW k \in settled, Live(k)'
      PROVE  Agrees(row[k], held', k, cache'[k].value, TTL - cache'[k].left)
  <2>1. /\ k \in Keys /\ Live(k) /\ cache[k] \in Entry /\ cache'[k].value = cache[k].value
        /\ cache[k].left \in 2..TTL /\ cache'[k].left = cache[k].left - 1
    BY <1>1, <1>6, Ageing DEF Live, TypeOK
  <2>2. Agrees(row[k], held, k, cache[k].value, TTL - cache[k].left)
    BY <2>1 DEF SettledInv
  <2>3. TTL - cache[k].left \in 0..TTL /\ older(TTL - cache[k].left) = TTL - cache'[k].left
    BY <2>1
  <2>. QED
    BY <1>2, <2>1, <2>2, <2>3 DEF Entry
<1>. QED
  BY <1>1, <1>4, <1>5, <1>6 DEF SettledInv

\* Once a change has been invalidated with no resolution under way, the process answers
\* from the changed row.
THEOREM OwnChangeIsSeenHolds == Spec => []OwnChangeIsSeen
<1>1. Init => SettledInv
  BY DEF Init, SettledInv, Live
<1>2. TypeOK /\ AnswerInv /\ SettledInv /\ [Next]_vars => SettledInv'
  <2>1. CASE UNCHANGED vars
    BY <2>1 DEF vars, SettledInv, Live
  <2>. QED
    BY <2>1, ReaderKeepsSettledInv, AdminKeepsSettledInv, TickKeepsSettledInv DEF Next
<1>3. TypeOK /\ SettledInv => OwnChangeIsSeen
  <2>. SUFFICES ASSUME TypeOK, SettledInv, NEW k \in settled, Live(k)
                PROVE  IF Resolves(row[k]) # Off THEN cache[k].value = Resolves(row[k])
                       ELSE Recent(<<System, Provider(k)>>, cache[k].value)
    BY DEF OwnChangeIsSeen
  <2>1. cache[k].left \in 1..TTL /\ cache[k].value \in Content /\ k \in Keys
    BY DEF TypeOK, Live, Entry
  <2>2. \A i \in Keys, c \in Content : held[i][c] <= TTL - cache[k].left => held[i][c] < TTL
    BY <2>1 DEF TypeOK
  <2>. QED
    BY <2>1, <2>2, SystemKey DEF SettledInv, Agrees, Recent
<1>. QED
  BY <1>1, <1>2, <1>3, InitAnswerInv, NextAnswerInv, TypeCorrect, PTL DEF Spec

-----------------------------------------------------------------------------
(* The defaults of a scope.                                                 *)

IsDefault(x) == x # NoRow /\ x.default

Unique(t, s) ==
  \A k, l \in Keys : Scope(k) = s /\ Scope(l) = s /\ IsDefault(t[k]) /\ IsDefault(t[l]) => k = l

AllEnabled(t, s) == \A k \in Keys : Scope(k) = s /\ IsDefault(t[k]) => t[k].enabled

\* What is promised of the table t depends on whether requests on the scope have overlapped.
Guarded(s) == serialised \/ s \notin overlapped
IsSound(t, s) == (Guarded(s) => Unique(t, s)) /\ (s \notin overlapped => AllEnabled(t, s))

ScopeOf(a) == Scope(admin[a].key)

\* The table as request a will leave it.
After(a) == [k \in Keys |-> IF k \in DOMAIN admin[a].new THEN admin[a].new[k] ELSE row[k]]

\* a holds a lock that SQLite gives to one request at a time.
Holds(a) == admin[a].at = "commit" \/ (admin[a].at = "write" /\ admin[a].op.kind = "default")

\* What a request that sets a default has cleared, and what any of them will leave.
RequestIsSound(a) ==
  LET x == admin[a] s == ScopeOf(a) IN
  /\ \A k \in DOMAIN x.new : Scope(k) = s
  /\ x.at = "clear" => x.op.kind = "default"
  /\ x.op.kind = "default" => x.saw # NoRow /\ x.saw.enabled
  /\ x.at \in {"clear", "write"} /\ s \notin overlapped => x.saw = row[x.key]
  /\ x.at = "write" /\ x.op.kind # "default" => DOMAIN x.new = {}
  /\ x.at = "write" /\ x.op.kind = "default" =>
       /\ Guarded(s) => \A k \in Keys : Scope(k) = s => ~IsDefault(After(a)[k])
       /\ s \notin overlapped => After(a)[x.key].enabled
  /\ x.at = "commit" => IsSound(After(a), s)

OneHolder == serialised => \A a, b \in Admins : Holds(a) /\ Holds(b) => a = b

OneRequestEach ==
  \A a, b \in Admins :
    /\ admin[a] # IdleAdmin /\ admin[b] # IdleAdmin
    /\ ScopeOf(a) = ScopeOf(b) /\ ScopeOf(a) \notin overlapped
    => a = b

DefaultInv ==
  /\ \A s \in Scopes : IsSound(row, s)
  /\ OneHolder /\ OneRequestEach
  /\ \A a \in Admins : admin[a] # IdleAdmin => RequestIsSound(a)

\* A step that leaves the rows of its scope as they are does not concern a request.
LEMMA RequestStaysSound ==
  ASSUME NEW a \in Admins, admin[a] \in Request, RequestIsSound(a), admin'[a] = admin[a],
         \A k \in Keys : Scope(k) = ScopeOf(a) => row'[k] = row[k],
         serialised' = serialised, overlapped \subseteq overlapped'
  PROVE  RequestIsSound(a)'
<1>0. PICK s : s = ScopeOf(a)
  OBVIOUS
<1>1. ScopeOf(a)' = s /\ admin[a].key \in Keys /\ Scope(admin[a].key) = s
  BY <1>0 DEF ScopeOf, Request
<1>2. \A k \in Keys : Scope(k) = s => After(a)'[k] = After(a)[k]
  BY <1>0 DEF After
<1>3. (Guarded(s)' => Guarded(s)) /\ (s \notin overlapped' => s \notin overlapped)
  BY DEF Guarded
<1>4. After(a)'[admin[a].key] = After(a)[admin[a].key] /\ row'[admin[a].key] = row[admin[a].key]
  BY <1>0, <1>1, <1>2
<1>5. IsSound(After(a), s) => IsSound(After(a), s)'
  BY <1>2, <1>3 DEF IsSound, Unique, AllEnabled
<1>6. admin[a].at = "write" /\ admin[a].op.kind = "default" =>
        /\ Guarded(s)' => \A k \in Keys : Scope(k) = s => ~IsDefault(After(a)'[k])
        /\ s \notin overlapped' => After(a)'[admin[a].key].enabled
  BY <1>0, <1>2, <1>3, <1>4 DEF RequestIsSound
<1>7. admin[a].at = "commit" => IsSound(After(a), s)'
  BY <1>0, <1>5 DEF RequestIsSound
<1>8. /\ \A k \in DOMAIN admin[a].new : Scope(k) = s
      /\ admin[a].at = "clear" => admin[a].op.kind = "default"
      /\ admin[a].op.kind = "default" => admin[a].saw # NoRow /\ admin[a].saw.enabled
      /\ admin[a].at \in {"clear", "write"} /\ s \notin overlapped' => admin[a].saw = row'[admin[a].key]
      /\ admin[a].at = "write" /\ admin[a].op.kind # "default" => DOMAIN admin[a].new = {}
  BY <1>0, <1>3, <1>4 DEF RequestIsSound
<1>. QED
  BY <1>1, <1>6, <1>7, <1>8 DEF RequestIsSound

\* Nor does what happens elsewhere concern the table.
LEMMA TableStaysSound ==
  ASSUME NEW s, IsSound(row, s), \A k \in Keys : Scope(k) = s => row'[k] = row[k],
         serialised' = serialised, overlapped \subseteq overlapped'
  PROVE  IsSound(row, s)'
BY DEF IsSound, Guarded, Unique, AllEnabled

\* A request that moves on while the table stays.
LEMMA RequestMovesOn ==
  ASSUME TypeOK, TypeOK', DefaultInv, NEW a \in Admins,
         \A b \in Admins \ {a} : admin'[b] = admin[b],
         UNCHANGED <<serialised, row>>, overlapped \subseteq overlapped',
         admin'[a] # IdleAdmin => RequestIsSound(a)',
         serialised /\ Holds(a)' => \A b \in Admins \ {a} : ~Holds(b),
         admin'[a] # IdleAdmin /\ ScopeOf(a)' \notin overlapped' =>
           \A b \in Admins \ {a} : admin[b] # IdleAdmin => ScopeOf(b) # ScopeOf(a)'
  PROVE  DefaultInv'
<1>1. \A s \in Scopes : IsSound(row, s)'
  BY TableStaysSound DEF DefaultInv
<1>2. \A b \in Admins \ {a} : (Holds(b)' <=> Holds(b)) /\ ScopeOf(b)' = ScopeOf(b)
  BY DEF Holds, ScopeOf
<1>3. OneHolder'
  BY <1>2 DEF OneHolder, DefaultInv
<1>4. OneRequestEach'
  <2>. SUFFICES ASSUME NEW b \in Admins, NEW c \in Admins, admin'[b] # IdleAdmin, admin'[c] # IdleAdmin,
                       ScopeOf(b)' = ScopeOf(c)', ScopeOf(b)' \notin overlapped', b # c
                PROVE  FALSE
    BY DEF OneRequestEach
  <2>1. CASE b = a \/ c = a
    BY <1>2, <2>1
  <2>2. CASE b # a /\ c # a
    BY <1>2, <2>2 DEF OneRequestEach, DefaultInv
  <2>. QED
    BY <2>1, <2>2
<1>5. ASSUME NEW b \in Admins, admin'[b] # IdleAdmin PROVE RequestIsSound(b)'
  <2>1. CASE b = a
    BY <1>5, <2>1
  <2>2. CASE b # a
    <3>1. admin'[b] = admin[b] /\ admin[b] # IdleAdmin
      BY <1>5, <2>2
    <3>2. RequestIsSound(b) /\ admin[b] \in Request
      BY <3>1, UnderWay DEF DefaultInv
    <3>. QED
      BY <3>1, <3>2, RequestStaysSound
  <2>. QED
    BY <2>1, <2>2
<1>. QED
  BY <1>1, <1>3, <1>4, <1>5 DEF DefaultInv

\* A request that begins has read the row as it is.
LEMMA BeginKeepsDefaults ==
  ASSUME TypeOK, TypeOK', DefaultInv, NEW a \in Admins, NEW k \in Keys, NEW op \in Op, Begin(a, k, op)
  PROVE  DefaultInv'
<1>. DEFINE new == [at |-> IF op.kind = "default" THEN "clear" ELSE "write",
                    key |-> k, op |-> op, saw |-> row[k], new |-> NoChange]
<1>1. /\ admin' = [admin EXCEPT ![a] = new] /\ UNCHANGED <<serialised, row>>
      /\ op.kind = "default" => row[k] # NoRow /\ row[k].enabled
      /\ overlapped' = overlapped \cup
           {s \in {Scope(k)} : \E b \in Admins : admin[b] # IdleAdmin /\ Scope(admin[b].key) = s}
      /\ admin[a] = IdleAdmin
  BY DEF Begin
<1>2. DOMAIN NoChange = {}
  BY DEF NoChange
<1>3. admin'[a] = new /\ \A b \in Admins \ {a} : admin'[b] = admin[b]
  BY <1>1 DEF TypeOK
<1>4. /\ admin'[a].at = (IF op.kind = "default" THEN "clear" ELSE "write") /\ admin'[a].key = k
      /\ admin'[a].op = op /\ admin'[a].saw = row[k] /\ DOMAIN admin'[a].new = {}
  BY <1>2, <1>3
<1>. HIDE DEF new
<1>5. RequestIsSound(a)'
  BY <1>1, <1>4 DEF RequestIsSound
<1>6. ~Holds(a)'
  BY <1>4 DEF Holds
<1>7. ASSUME ScopeOf(a)' \notin overlapped', NEW b \in Admins \ {a}, admin[b] # IdleAdmin
      PROVE  ScopeOf(b) # ScopeOf(a)'
  BY <1>1, <1>4, <1>7 DEF ScopeOf
<1>. QED
  BY <1>1, <1>3, <1>5, <1>6, <1>7, RequestMovesOn

\* The lock of a request that goes on, and its scope.
LEMMA HolderIsAlone ==
  ASSUME TypeOK, NEW a \in Admins, NEW ks, Free(a, ks), serialised
  PROVE  \A b \in Admins \ {a} : ~Holds(b)
BY DEF Free, Holds

LEMMA SameScope ==
  ASSUME DefaultInv, NEW a \in Admins, admin[a] # IdleAdmin, ScopeOf(a)' = ScopeOf(a),
         overlapped' = overlapped, ScopeOf(a)' \notin overlapped'
  PROVE  \A b \in Admins \ {a} : admin[b] # IdleAdmin => ScopeOf(b) # ScopeOf(a)'
BY DEF DefaultInv, OneRequestEach

\* After the clearing no row of the scope is the default.
LEMMA ClearKeepsDefaults ==
  ASSUME TypeOK, TypeOK', DefaultInv, NEW a \in Admins, ClearDefault(a)
  PROVE  DefaultInv'
<1>. DEFINE old == {k \in Keys : /\ Scope(k) = Scope(admin[a].key)
                                 /\ row[k] # NoRow /\ row[k].default}
            new == [k \in old |-> [row[k] EXCEPT !.default = FALSE]]
<1>1. /\ admin[a].at = "clear" /\ Free(a, old)
      /\ admin' = [admin EXCEPT ![a].at = "write", ![a].new = new]
      /\ UNCHANGED <<serialised, row, overlapped>>
  BY DEF ClearDefault, writeVars
<1>2. admin[a] \in Request /\ admin[a] # IdleAdmin
  BY <1>1, UnderWay
<1>3. RequestIsSound(a)
  BY <1>2 DEF DefaultInv
<1>4. \A k \in old : k \in Keys /\ row[k] \in Row /\ Scope(k) = Scope(admin[a].key)
  BY DEF TypeOK, Table
<1>5. \A k \in old : new[k].default = FALSE /\ new[k].enabled = row[k].enabled /\ new[k] # NoRow
  <2>1. ASSUME NEW x \in Row
        PROVE  /\ [x EXCEPT !.default = FALSE].default = FALSE
               /\ [x EXCEPT !.default = FALSE].enabled = x.enabled
               /\ [x EXCEPT !.default = FALSE] \in Row
    BY DEF Row
  <2>. QED
    BY <1>4, <2>1
<1>6. DOMAIN new = old
  OBVIOUS
<1>7. \A k \in Keys \ old : Scope(k) = Scope(admin[a].key) => ~IsDefault(row[k])
  BY DEF IsDefault
<1>. HIDE DEF new, old
<1>8. /\ admin'[a] = [admin[a] EXCEPT !.at = "write", !.new = new]
      /\ \A b \in Admins \ {a} : admin'[b] = admin[b]
  BY <1>1, <1>2 DEF TypeOK, Request
<1>9. /\ admin'[a].at = "write" /\ admin'[a].key = admin[a].key /\ admin'[a].op = admin[a].op
      /\ admin'[a].saw = admin[a].saw /\ admin'[a].new = new
  BY <1>2, <1>8 DEF Request
<1>10. /\ \A k \in Keys : Scope(k) = Scope(admin[a].key) => ~IsDefault(After(a)'[k])
       /\ row[admin[a].key].enabled => After(a)'[admin[a].key].enabled
  <2>1. admin[a].key \in Keys
    BY <1>2 DEF Request
  <2>2. \A k \in Keys : After(a)'[k] = IF k \in old THEN new[k] ELSE row[k]
    BY <1>1, <1>6, <1>9 DEF After
  <2>3. \A k \in old : ~IsDefault(new[k])
    BY <1>5 DEF IsDefault
  <2>. QED
    BY <1>5, <1>7, <2>1, <2>2, <2>3
<1>s. PICK s : s = ScopeOf(a)
  OBVIOUS
<1>r. ScopeOf(a)' = s /\ s = Scope(admin[a].key)
  BY <1>9, <1>s DEF ScopeOf
<1>11. RequestIsSound(a)'
  <2>1. admin[a].op.kind = "default" /\ admin[a].saw # NoRow /\ admin[a].saw.enabled
    BY <1>1, <1>3 DEF RequestIsSound
  <2>2. s \notin overlapped => admin[a].saw = row[admin[a].key]
    BY <1>1, <1>3, <1>s DEF RequestIsSound
  <2>3. \A k \in DOMAIN new : Scope(k) = s
    BY <1>4, <1>6, <1>r
  <2>4. /\ \A k \in Keys : Scope(k) = s => ~IsDefault(After(a)'[k])
        /\ s \notin overlapped => After(a)'[admin[a].key].enabled
    BY <1>10, <1>r, <2>1, <2>2
  <2>. QED
    BY <1>1, <1>9, <1>r, <2>1, <2>2, <2>3, <2>4 DEF RequestIsSound
<1>12. serialised => \A b \in Admins \ {a} : ~Holds(b)
  BY <1>1, HolderIsAlone
<1>13. ScopeOf(a)' = ScopeOf(a)
  BY <1>9 DEF ScopeOf
<1>. QED
  BY <1>1, <1>2, <1>8, <1>11, <1>12, <1>13, SameScope, RequestMovesOn

\* What a request leaves in its row: only one that sets the default adds one, and none
\* leaves the default disabled that has read the row as it is.
LEMMA LeavesIsSound ==
  ASSUME TypeOK, RequestInv, NEW a \in Admins, admin[a].at = "write", RequestIsSound(a)
  PROVE  LET k == admin[a].key x == After(a)[k] IN
         /\ IsDefault(Leaves(a)) => IsDefault(row[k]) \/ admin[a].op.kind = "default"
         /\ ScopeOf(a) \notin overlapped /\ IsDefault(Leaves(a)) /\ (IsDefault(x) => x.enabled) => Leaves(a).enabled
<1>. DEFINE k == admin[a].key  op == admin[a].op  saw == admin[a].saw  x == After(a)[k]
<1>1. admin[a] \in Request /\ admin[a] # IdleAdmin
  BY UnderWay
<1>2. k \in Keys /\ op \in Op
  BY <1>1 DEF Request
<1>3. x = IF k \in DOMAIN admin[a].new THEN admin[a].new[k] ELSE row[k]
  BY <1>2 DEF After
<1>4. CASE op.kind = "create"
  BY <1>4 DEF Leaves, IsDefault
<1>5. CASE op.kind = "delete" \/ row[k] = NoRow
  BY <1>4, <1>5 DEF Leaves, IsDefault
<1>6. CASE op.kind # "create" /\ op.kind # "delete" /\ row[k] # NoRow
  <2>1. Leaves(a) = Written(a, x)
    BY <1>3, <1>6 DEF Leaves
  <2>2. saw \in Row /\ x \in Row
    <3>1. saw \in Row
      BY <1>1, <1>6 DEF RequestInv, Request
    <3>2. k \in DOMAIN admin[a].new => admin[a].new[k] # NoRow
      BY <1>1 DEF RequestInv
    <3>3. k \in DOMAIN admin[a].new => admin[a].new[k] \in Row
      BY <1>1, <3>2, ChangesTyped DEF Request
    <3>4. row[k] \in Row
      BY <1>2, <1>6 DEF TypeOK, Table
    <3>. QED
      BY <1>3, <3>1, <3>3, <3>4
  <2>3. op.kind # "default" => x = row[k]
    BY <1>3 DEF RequestIsSound
  <2>4. ScopeOf(a) \notin overlapped => saw = row[k]
    BY DEF RequestIsSound
  <2>5. ScopeOf(a) \notin overlapped /\ op.kind = "default" => x.enabled
    BY DEF RequestIsSound
  <2>6. row[k] \in Row
    BY <1>2, <1>6 DEF TypeOK, Table
  <2>x. x = After(a)[admin[a].key]
    OBVIOUS
  <2>. HIDE DEF x
  <2>7. CASE op.kind = "status"
    <3>1. op.enabled \in BOOLEAN
      BY <1>2, <2>7 DEF Op
    <3>2. Leaves(a) = [x EXCEPT !.enabled = IF saw.enabled = op.enabled THEN @ ELSE op.enabled,
                                !.default = IF ~op.enabled /\ saw.default THEN FALSE ELSE @]
      BY <2>1, <2>7 DEF Written
    <3>3. /\ Leaves(a).default = IF ~op.enabled /\ saw.default THEN FALSE ELSE x.default
          /\ Leaves(a).enabled = IF saw.enabled = op.enabled THEN x.enabled ELSE op.enabled
      BY <2>2, <3>2 DEF Row
    <3>4. saw.enabled \in BOOLEAN /\ saw.default \in BOOLEAN /\ x.default \in BOOLEAN /\ x.enabled \in BOOLEAN
      BY <2>2 DEF Row
    <3>. QED
      BY <1>6, <2>2, <2>3, <2>4, <2>7, <3>1, <3>3, <3>4 DEF IsDefault
  <2>8. CASE op.kind = "values"
    <3>1. Leaves(a).default = x.default /\ Leaves(a).enabled = x.enabled
      BY <2>1, <2>2, <2>8 DEF Written, Row
    <3>. QED
      BY <1>6, <2>x, <2>2, <2>3, <2>8, <3>1 DEF IsDefault
  <2>9. CASE op.kind = "default"
    <3>1. Leaves(a).enabled = x.enabled
      BY <2>1, <2>2, <2>9 DEF Written, Row
    <3>. QED
      BY <2>5, <2>9, <3>1
  <2>10. CASE op.kind = "undefault"
    <3>1. (Leaves(a).default => x.default) /\ Leaves(a).enabled = x.enabled
      BY <2>1, <2>2, <2>10 DEF Written, Row
    <3>. QED
      BY <1>6, <2>x, <2>2, <2>3, <2>10, <3>1 DEF IsDefault
  <2>. QED
    BY <1>2, <1>6, <2>7, <2>8, <2>9, <2>10 DEF Op, x
<1>. QED
  BY <1>4, <1>5, <1>6

\* The statement that changes the row of the request.
LEMMA WriteKeepsDefaults ==
  ASSUME TypeOK, TypeOK', RequestInv, DefaultInv, NEW a \in Admins, Write(a)
  PROVE  DefaultInv'
<1>. DEFINE k == admin[a].key
            new == Add(admin[a].new, k, Leaves(a))
<1>1. /\ admin[a].at = "write" /\ Free(a, {k})
      /\ admin' = [admin EXCEPT ![a].at = "commit", ![a].new = new]
      /\ UNCHANGED <<serialised, row, overlapped>>
  BY DEF Write, writeVars
<1>2. admin[a] \in Request /\ admin[a] # IdleAdmin /\ k \in Keys
  BY <1>1, UnderWay DEF Request
<1>3. RequestIsSound(a)
  BY <1>2 DEF DefaultInv
<1>. HIDE DEF new
<1>4. /\ admin'[a] = [admin[a] EXCEPT !.at = "commit", !.new = new]
      /\ \A b \in Admins \ {a} : admin'[b] = admin[b]
  BY <1>1, <1>2 DEF TypeOK, Request
<1>5. /\ admin'[a].at = "commit" /\ admin'[a].key = k /\ admin'[a].op = admin[a].op
      /\ admin'[a].saw = admin[a].saw /\ admin'[a].new = new
  BY <1>2, <1>4 DEF Request
<1>6. DOMAIN new = DOMAIN admin[a].new \cup {k}
  BY DEF new, Add
<1>7. \A l \in Keys : After(a)'[l] = IF l = k THEN Leaves(a) ELSE After(a)[l]
  BY <1>1, <1>5 DEF After, new, Add
<1>8. PICK s : s = ScopeOf(a) /\ s = Scope(k) /\ s \in Scopes
  BY <1>2 DEF ScopeOf, Scope, Keys
<1>9. /\ IsDefault(Leaves(a)) => IsDefault(row[k]) \/ admin[a].op.kind = "default"
      /\ s \notin overlapped /\ IsDefault(Leaves(a)) /\ (IsDefault(After(a)[k]) => After(a)[k].enabled) => Leaves(a).enabled
  BY <1>1, <1>3, <1>8, LeavesIsSound
<1>10. IsSound(row, s)
  BY <1>8 DEF DefaultInv
<1>11. admin[a].op.kind # "default" => \A l \in Keys : After(a)[l] = row[l]
  BY <1>1, <1>3 DEF RequestIsSound, After
<1>12. admin[a].op.kind = "default" /\ Guarded(s) => \A l \in Keys : Scope(l) = s => ~IsDefault(After(a)[l])
  BY <1>1, <1>3, <1>8 DEF RequestIsSound
<1>13. Guarded(s) => Unique(After(a)', s)
  BY <1>7, <1>8, <1>9, <1>10, <1>11, <1>12 DEF IsSound, Unique
<1>14. s \notin overlapped => AllEnabled(After(a)', s)
  BY <1>7, <1>8, <1>9, <1>10, <1>11, <1>12 DEF IsSound, AllEnabled, Guarded
<1>15. IsSound(After(a), s)'
  BY <1>1, <1>13, <1>14 DEF IsSound, Guarded
<1>16. ScopeOf(a)' = s
  BY <1>5, <1>8 DEF ScopeOf
<1>17. RequestIsSound(a)'
  BY <1>3, <1>5, <1>6, <1>8, <1>15, <1>16 DEF RequestIsSound
<1>18. serialised => \A b \in Admins \ {a} : ~Holds(b)
  BY <1>1, HolderIsAlone
<1>. QED
  BY <1>1, <1>2, <1>4, <1>8, <1>16, <1>17, <1>18, SameScope, RequestMovesOn

\* A request that has failed, or has cleared its entry, is done.
LEMMA EndKeepsDefaults ==
  ASSUME TypeOK, TypeOK', DefaultInv, NEW a \in Admins, WriteFails(a) \/ Invalidate(a)
  PROVE  DefaultInv'
<1>1. admin' = [admin EXCEPT ![a] = IdleAdmin] /\ UNCHANGED <<serialised, row, overlapped>>
  BY DEF WriteFails, Invalidate, writeVars
<1>2. admin'[a] = IdleAdmin /\ \A b \in Admins \ {a} : admin'[b] = admin[b]
  BY <1>1 DEF TypeOK
<1>3. ~Holds(a)'
  BY <1>2 DEF Holds, IdleAdmin
<1>. QED
  BY <1>1, <1>2, <1>3, RequestMovesOn

\* The commit makes the table what it was to become; nobody else counts on its scope.
LEMMA CommitKeepsDefaults ==
  ASSUME TypeOK, TypeOK', DefaultInv, NEW a \in Admins, Commit(a)
  PROVE  DefaultInv'
<1>1. /\ admin[a].at = "commit" /\ row' = After(a) /\ UNCHANGED <<serialised, overlapped>>
      /\ admin' = [admin EXCEPT ![a] = IF @.op.kind = "create" THEN IdleAdmin
                                       ELSE [@ EXCEPT !.at = "invalidate"]]
  BY DEF Commit, After
<1>2. admin[a] \in Request /\ admin[a] # IdleAdmin
  BY <1>1, UnderWay
<1>3. RequestIsSound(a)
  BY <1>2 DEF DefaultInv
<1>4. PICK s : s = ScopeOf(a)
  OBVIOUS
<1>5. /\ admin'[a] = IdleAdmin \/ admin'[a] = [admin[a] EXCEPT !.at = "invalidate"]
      /\ \A b \in Admins \ {a} : admin'[b] = admin[b]
  BY <1>1 DEF TypeOK
<1>6. admin'[a] # IdleAdmin => /\ admin'[a].at = "invalidate" /\ admin'[a].key = admin[a].key
                               /\ admin'[a].op = admin[a].op /\ admin'[a].saw = admin[a].saw
                               /\ admin'[a].new = admin[a].new
  BY <1>2, <1>5 DEF Request
<1>7. \A k \in Keys : Scope(k) # s => row'[k] = row[k]
  BY <1>1, <1>3, <1>4 DEF RequestIsSound, After
<1>8. ASSUME NEW t \in Scopes PROVE IsSound(row, t)'
  <2>1. CASE t = s
    BY <1>1, <1>3, <1>4, <2>1 DEF RequestIsSound, IsSound, Guarded
  <2>2. CASE t # s
    <3>1. \A k \in Keys : Scope(k) = t => row'[k] = row[k]
      BY <1>7, <2>2
    <3>2. IsSound(row, t)
      BY DEF DefaultInv
    <3>. QED
      BY <1>1, <3>1, <3>2, TableStaysSound
  <2>. QED
    BY <2>1, <2>2
<1>9. /\ Holds(a) /\ ~Holds(a)'
      /\ \A b \in Admins \ {a} : (Holds(b)' <=> Holds(b)) /\ ScopeOf(b)' = ScopeOf(b)
      /\ admin'[a] # IdleAdmin => ScopeOf(a)' = s
  BY <1>1, <1>4, <1>5, <1>6 DEF Holds, ScopeOf, IdleAdmin
<1>10. OneHolder'
  BY <1>1, <1>9 DEF OneHolder, DefaultInv
<1>11. OneRequestEach'
  BY <1>1, <1>2, <1>4, <1>5, <1>9 DEF OneRequestEach, DefaultInv
<1>12. ASSUME NEW b \in Admins, admin'[b] # IdleAdmin PROVE RequestIsSound(b)'
  <2>1. CASE b = a
    BY <1>3, <1>4, <1>6, <1>9, <1>12, <2>1 DEF RequestIsSound
  <2>2. CASE b # a
    <3>1. admin'[b] = admin[b] /\ admin[b] # IdleAdmin
      BY <1>5, <1>12, <2>2
    <3>2. RequestIsSound(b) /\ admin[b] \in Request
      BY <3>1, UnderWay DEF DefaultInv
    <3>3. CASE ScopeOf(b) # s
      <4>1. \A k \in Keys : Scope(k) = ScopeOf(b) => row'[k] = row[k]
        BY <1>7, <3>3
      <4>. QED
        BY <1>1, <3>1, <3>2, <4>1, RequestStaysSound
    <3>4. CASE ScopeOf(b) = s
      <4>1. s \in overlapped
        BY <1>2, <1>4, <2>2, <3>1, <3>4 DEF OneRequestEach, DefaultInv
      <4>2. serialised => ~Holds(b)
        BY <1>9, <2>2 DEF OneHolder, DefaultInv
      <4>3. ScopeOf(b)' = s
        BY <1>9, <2>2, <3>4
      <4>4. Holds(b) => ~Guarded(s)' /\ s \in overlapped'
        BY <1>1, <4>1, <4>2 DEF Guarded
      <4>5. admin[b].at = "commit" \/ (admin[b].at = "write" /\ admin[b].op.kind = "default") => Holds(b)
        BY DEF Holds
      <4>6. IsSound(After(b), s)' \/ Guarded(s)' \/ s \notin overlapped'
        BY DEF IsSound
      <4>. QED
        BY <1>1, <3>1, <3>2, <3>4, <4>1, <4>3, <4>4, <4>5, <4>6 DEF RequestIsSound
    <3>. QED
      BY <3>3, <3>4
  <2>. QED
    BY <2>1, <2>2
<1>. QED
  BY <1>8, <1>10, <1>11, <1>12 DEF DefaultInv

\* Resolutions and the passing of time touch neither rows nor requests.
LEMMA ElsewhereKeepsDefaults ==
  ASSUME DefaultInv, UNCHANGED <<serialised, row, admin, overlapped>>
  PROVE  DefaultInv'
<1>1. \A a \in Admins : After(a)' = After(a) /\ (Holds(a)' <=> Holds(a)) /\ ScopeOf(a)' = ScopeOf(a)
  BY DEF After, Holds, ScopeOf
<1>2. \A t, s : IsSound(t, s)' <=> IsSound(t, s)
  BY DEF IsSound, Guarded
<1>3. \A s \in Scopes : IsSound(row, s)'
  BY <1>2 DEF DefaultInv
<1>4. OneHolder' /\ OneRequestEach'
  BY <1>1 DEF DefaultInv, OneHolder, OneRequestEach
<1>5. ASSUME NEW a \in Admins, admin'[a] # IdleAdmin PROVE RequestIsSound(a)'
  <2>1. RequestIsSound(a)
    BY <1>5 DEF DefaultInv
  <2>. QED
    BY <1>1, <1>2, <2>1 DEF RequestIsSound, Guarded
<1>. QED
  BY <1>3, <1>4, <1>5 DEF DefaultInv

\* The tables a run starts with have one default in a scope at most, and it is enabled.
InitialRowsAreSound ==
  \A t \in InitialRows : \A s \in Scopes : Unique(t, s) /\ AllEnabled(t, s)

\* A scope has one default at most, on SQLite always, on PostgreSQL until two requests on the
\* scope overlap; and until then it is enabled, whatever is patched, deleted and created.
THEOREM DefaultsAreSoundHolds ==
  ASSUME InitialRowsAreSound
  PROVE  Spec => []DefaultsAreSound
<1>1. Init => DefaultInv
  <2>. SUFFICES ASSUME Init PROVE DefaultInv
    OBVIOUS
  <2>1. \A s \in Scopes : IsSound(row, s)
    BY DEF Init, InitialRowsAreSound, IsSound
  <2>2. \A a \in Admins : admin[a] = IdleAdmin /\ ~Holds(a)
    BY DEF Init, Holds, IdleAdmin
  <2>. QED
    BY <2>1, <2>2 DEF DefaultInv, OneHolder, OneRequestEach
<1>2. TypeOK /\ RequestInv /\ DefaultInv /\ [Next]_vars /\ TypeOK' => DefaultInv'
  <2>. SUFFICES ASSUME TypeOK, RequestInv, DefaultInv, [Next]_vars, TypeOK' PROVE DefaultInv'
    OBVIOUS
  <2>1. ASSUME NEW a \in Admins, NEW q \in Requests, Begin(a, q[1], q[2]) PROVE DefaultInv'
    <3>1. q[1] \in Keys /\ q[2] \in Op
      OBVIOUS
    <3>. QED
      BY <2>1, <3>1, BeginKeepsDefaults
  <2>2. ASSUME NEW a \in Admins, ClearDefault(a) \/ Write(a) \/ WriteFails(a) \/ Commit(a) \/ Invalidate(a)
        PROVE  DefaultInv'
    BY <2>2, ClearKeepsDefaults, WriteKeepsDefaults, EndKeepsDefaults, CommitKeepsDefaults
  <2>3. ASSUME NEW r \in Readers, (\E k \in Queries : Miss(r, k)) \/ ReadOwn(r) \/ ReadSystem(r) \/ Store(r)
        PROVE  DefaultInv'
    <3>1. UNCHANGED <<serialised, row, admin, overlapped>>
      BY <2>3 DEF Miss, ReadOwn, ReadSystem, Store, readVars
    <3>. QED
      BY <3>1, ElsewhereKeepsDefaults
  <2>4. CASE Tick \/ UNCHANGED vars
    <3>1. UNCHANGED <<serialised, row, admin, overlapped>>
      BY <2>4 DEF Tick, vars
    <3>. QED
      BY <3>1, ElsewhereKeepsDefaults
  <2>. QED
    BY <2>1, <2>2, <2>3, <2>4 DEF Next
<1>3. DefaultInv => DefaultsAreSound
  <2>. SUFFICES ASSUME DefaultInv, NEW s \in Scopes
                PROVE  /\ serialised \/ s \notin overlapped => Cardinality(Defaults(s)) <= 1
                       /\ s \notin overlapped => \A k \in Defaults(s) : row[k].enabled
    BY DEF DefaultsAreSound
  <2>1. IsSound(row, s)
    BY DEF DefaultInv
  <2>2. ASSUME Unique(row, s) PROVE Cardinality(Defaults(s)) <= 1
    <3>1. \A k, l \in Defaults(s) : k = l
      BY <2>2 DEF Unique, Defaults, IsDefault
    <3>2. CASE Defaults(s) = {}
      BY <3>2, FS_EmptySet
    <3>3. ASSUME NEW k \in Defaults(s) PROVE Cardinality(Defaults(s)) <= 1
      <4>1. Defaults(s) = {k}
        BY <3>1
      <4>2. Cardinality({k}) = 1
        BY FS_Singleton
      <4>. QED
        BY <4>1, <4>2
    <3>. QED
      BY <3>2, <3>3
  <2>3. s \notin overlapped => \A k \in Defaults(s) : row[k].enabled
    BY <2>1 DEF IsSound, AllEnabled, Defaults, IsDefault
  <2>. QED
    BY <2>1, <2>2, <2>3 DEF IsSound, Guarded
<1>. QED
  BY <1>1, <1>2, <1>3, InitTyped, NextTyped, PTL DEF Spec
=============================================================================
