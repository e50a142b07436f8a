------------------------- MODULE CollectionsProofs -------------------------
(***************************************************************************)
(* Proofs about the collections: types, RevisionIsApplied, ListedHasTable  *)
(* and NothingLeftOver.                                                    *)
(*                                                                         *)
(* Four invariants carry them.  RInv: a request, and a row, stand for      *)
(* files of the migration chain, applied or not.  CInv: as long as no file *)
(* was applied torn, a table has what the files since its last drop have   *)
(* added, and what a row lists was added since the collection's creation.  *)
(* HInv: a file of the chain belongs to at most one request.  GInv: as     *)
(* long as nothing has failed, creations and deletions of a name alternate *)
(* in the chain, and those that no request has any more balance the rows.  *)
(***************************************************************************)
EXTENDS Collections, SequenceTheorems, FiniteSetTheorems, WellFoundedInduction, TLAPS

-----------------------------------------------------------------------------
(* Induction, and the tables that a plan goes through.                      *)

\* A set of numbers that is not empty has a least one.
LEMMA LeastNumber == ASSUME NEW S \in SUBSET Nat, S # {} PROVE \E x \in S : \A y \in S : x <= y
<1>1. PICK x \in S : \A y \in S : <<y, x>> \notin OpToRel(<, Nat)
  BY NatLessThanWellFounded, WFMin
<1>2. ASSUME NEW y \in S PROVE x <= y
  <2>1. ASSUME y < x PROVE FALSE
    <3>1. <<y, x>> \in Nat \X Nat /\ <<y, x>>[1] < <<y, x>>[2]
      BY <2>1
    <3>2. <<y, x>> \in OpToRel(<, Nat)
      BY <3>1 DEF OpToRel
    <3>. QED
      BY <1>1, <3>2
  <2>2. x \in Nat /\ y \in Nat
    OBVIOUS
  <2>. QED
    BY <2>1, <2>2
<1>. QED
  BY <1>2

\* Induction along an interval, for a set instead of a predicate.
LEMMA Interval ==
  ASSUME NEW a \in Nat, NEW b \in Nat, NEW S,
         a \in S, \A k \in a..b : k \in S /\ k + 1 <= b => k + 1 \in S
  PROVE  \A k \in a..b : k \in S
<1>. SUFFICES ASSUME NEW k0 \in a..b, k0 \notin S PROVE FALSE
  OBVIOUS
<1>. DEFINE bad == {k \in a..b : k \notin S}
<1>1. bad \in SUBSET Nat /\ bad # {}
  OBVIOUS
<1>2. PICK x \in bad : \A y \in bad : x <= y
  BY <1>1, LeastNumber
<1>3. x \in a..b /\ x \notin S /\ x # a
  BY <1>2
<1>4. x - 1 \in a..b /\ x - 1 \notin bad
  BY <1>2, <1>3
<1>. QED
  BY <1>3, <1>4

-----------------------------------------------------------------------------
\* The tables that a plan goes through are what its files make of each other's.
LEMMA TablesExist ==
  ASSUME NEW r \in Requests, NEW a \in Nat, NEW b \in Nat, a <= b,
         req[r].from = a, req[r].upto = b
  PROVE  /\ TablesAfter(r)[a] = table
         /\ \A k \in a + 1..b : TablesAfter(r)[k] = Effect(TablesAfter(r)[k - 1], FileRead(r, k))
<1>. DEFINE Step(f, k) == IF k = a THEN table ELSE Effect(f[k - 1], FileRead(r, k))
            Is(f, n) == f = [k \in a..n |-> Step(f, k)]
            S == {n \in a..b : \E f : Is(f, n)}
<1>1. a \in S
  <2>1. Is([k \in a..a |-> table], a)
    OBVIOUS
  <2>. HIDE DEF Is
  <2>. QED
    BY <2>1
<1>2. ASSUME NEW n \in a..b, n \in S, n + 1 <= b PROVE n + 1 \in S
  <2>1. PICK f : Is(f, n)
    BY <1>2
  <2>. DEFINE g == [k \in a..n + 1 |-> IF k = n + 1 THEN Effect(f[n], FileRead(r, n + 1)) ELSE f[k]]
  <2>2. ASSUME NEW k \in a..n + 1 PROVE g[k] = Step(g, k)
    <3>1. CASE k = n + 1
      <4>1. g[k - 1] = f[n] /\ k # a
        BY <3>1
      <4>. QED
        BY <3>1, <4>1
    <3>2. CASE k = a
      <4>1. g[k] = f[k] /\ f[k] = Step(f, k)
        BY <2>1, <3>2
      <4>. QED
        BY <3>2, <4>1
    <3>3. CASE k # n + 1 /\ k # a
      <4>1. k \in a..n /\ k - 1 \in a..n
        BY <3>3
      <4>2. g[k] = f[k] /\ f[k] = Step(f, k) /\ g[k - 1] = f[k - 1]
        BY <2>1, <3>3, <4>1
      <4>. QED
        BY <3>3, <4>2
    <3>. QED
      BY <3>1, <3>2, <3>3
  <2>3. Is(g, n + 1)
    <3>. HIDE DEF Step
    <3>. QED
      BY <2>2
  <2>. HIDE DEF Is, g
  <2>. QED
    BY <1>2, <2>3
<1>3. b \in S
  <2>. HIDE DEF S
  <2>. QED
    BY <1>1, <1>2, Interval
<1>4. PICK f : Is(f, b)
  BY <1>3
<1>5. TablesAfter(r) = CHOOSE t : Is(t, b)
  BY DEF TablesAfter
<1>6. Is(TablesAfter(r), b)
  <2>. HIDE DEF Is
  <2>. QED
    BY <1>4, <1>5
<1>. QED
  BY <1>6

\* What the assumption on the constants is needed for most often.
LEMMA Basics ==
  /\ Virtual \subseteq Fields /\ Id \notin Fields /\ Id \notin Names /\ NoOne \notin Requests
  /\ MaxFiles \in Nat /\ MaxMishaps \in Nat
BY CollectionsAssumption

USE Basics

-----------------------------------------------------------------------------
(* The inductive invariant: requests and rows stand for files of the chain.  *)

Flying(q) == q.at \in {"inject", "apply", "execute"} /\ q.op # "upgrade"
Busy(q)   == q.at = "generate" \/ Flying(q)

Item  == [name : Names, fields : SUBSET Fields]
Write == [name : Names, id : 1..MaxFiles, fields : SUBSET Fields, rev : 1..MaxFiles, new : BOOLEAN]

Keys == {"at", "op", "name", "id", "fields", "old", "rev", "from", "upto", "torn", "todo",
         "batch", "strategy", "writes"}

IsRequest(q) ==
  /\ DOMAIN q = Keys
  /\ q.at \in At
  /\ q.op \in {"none", "create", "update", "delete", "upgrade"}
  /\ q.name \in Names \cup {Id}
  /\ q.id \in 0..MaxFiles /\ q.rev \in 0..MaxFiles
  /\ q.from \in 0..MaxFiles /\ q.upto \in 0..MaxFiles
  /\ q.fields \subseteq Fields /\ q.old \subseteq Fields
  /\ q.torn \in BOOLEAN /\ q.batch \in BOOLEAN
  /\ q.todo \in Seq(Item)
  /\ q.writes \subseteq Write

\* What is set when a request is where it is.
IsPlaced(q) ==
  /\ Busy(q) => q.name \in Names /\ q.op \in {"create", "update", "delete"}
  /\ q.at = "inject" => Flying(q)
  /\ q.at = "finalize" => q.name \in Names /\ ~q.batch
  /\ q.at \in {"item", "commit"} => q.op = "none"
  /\ q.at = "item" => q.batch /\ q.old = {}
  /\ q.at = "generate" /\ q.op = "create" => q.old = {}
  /\ q.batch => q.op \in {"none", "create", "update"}
  /\ q.writes # {} => q.at = "commit" \/ q.batch
  /\ q.at = "idle" => q.writes = {}
  /\ q.batch /\ Busy(q) => q.todo # <<>> /\ q.name = q.todo[1].name

\* A row: it belongs to migration id, its last migration is rev, and both are applied.
Stands(n, id, rev, fs, v) ==
  /\ id \in 1..rev /\ rev \in 1..v
  /\ fs[rev].name = n /\ fs[rev].op # "drop"

\* The file of a request in flight, and its place in the plan.
PlanFits(q, fs, v) ==
  /\ Busy(q) /\ q.op # "create" => q.id \in 1..v
  /\ Flying(q) => /\ q.rev \in 1..Len(fs)
                  /\ q.op # "create" => q.id < q.rev
                  /\ fs[q.rev].name = q.name
                  /\ fs[q.rev].op = FileOp(q.op)
  /\ q.at = "execute" => /\ q.from <= v /\ q.from <= q.upto /\ q.upto <= Len(fs)
                         /\ Flying(q) => q.rev <= q.upto
  /\ \A w \in q.writes : Stands(w.name, w.id, w.rev, fs, v)

RequestsFit ==
  /\ req = [r \in Requests |-> req[r]]
  /\ \A r \in Requests : IsRequest(req[r]) /\ IsPlaced(req[r]) /\ PlanFits(req[r], files, version)
  /\ writing # NoOne => req[writing].rev = Len(files)

RowsStand == \A n \in Names : row[n] # NoRow => Stands(n, row[n].id, row[n].rev, files, version)

RInv == TypeOK /\ RequestsFit /\ RowsStand

-----------------------------------------------------------------------------
IsTables(t) ==
  /\ t \in [Names -> SUBSET (Fields \cup {Id})]
  /\ \A n \in Names : t[n] # {} => Id \in t[n]

\* A file that can be applied makes tables of tables.
LEMMA EffectIsTables ==
  ASSUME NEW t, NEW f, IsTables(t), f.name \in Names, f.fields \subseteq Fields, Applicable(t, f),
         f.op \in {"create", "extend", "drop", "none"}
  PROVE  IsTables(Effect(t, f))
<1>1. CASE f.op = "none"
  BY <1>1 DEF Effect
<1>2. CASE f.op = "create"
  BY <1>2 DEF Effect, IsTables, Physical
<1>3. CASE f.op = "extend"
  BY <1>3 DEF Effect, IsTables, Physical, Applicable
<1>4. CASE f.op = "drop"
  BY <1>4 DEF Effect, IsTables
<1>. QED
  BY <1>1, <1>2, <1>3, <1>4

\* A file as a request has read it has the name and the fields of the file.
LEMMA FileReadFacts ==
  ASSUME files \in Seq(File), NEW r \in Requests, NEW k \in 1..Len(files)
  PROVE  /\ FileRead(r, k).name = files[k].name /\ FileRead(r, k).fields = files[k].fields
         /\ FileRead(r, k).name \in Names /\ FileRead(r, k).fields \subseteq Fields
         /\ FileRead(r, k).op \in {"create", "extend", "drop", "none"}
         /\ ~(req[r].torn /\ k = req[r].upto) => FileRead(r, k) = files[k]
<1>1. files[k] \in File
  OBVIOUS
<1>. QED
  BY <1>1 DEF FileRead, File

\* The tables of a plan, as far as it can be carried out.
LEMMA PlanIsTables ==
  ASSUME files \in Seq(File), IsTables(table), NEW r \in Requests, NEW a \in Nat, NEW b \in Nat,
         NEW k \in a..b, b <= Len(files), req[r].from = a, req[r].upto = b, Executable(r, k)
  PROVE  \A i \in a..k : IsTables(TablesAfter(r)[i])
<1>. DEFINE S == {i \in a..k : IsTables(TablesAfter(r)[i])}
<1>0. a <= b /\ k \in Nat
  OBVIOUS
<1>1. TablesAfter(r)[a] = table
  BY <1>0, TablesExist
<1>2. a \in S
  BY <1>1
<1>3. ASSUME NEW i \in a..k, i \in S, i + 1 <= k PROVE i + 1 \in S
  <2>1. i + 1 \in a + 1..b /\ i + 1 \in 1..Len(files) /\ i + 1 \in a + 1..k /\ (i + 1) - 1 = i
    BY <1>3
  <2>2. TablesAfter(r)[i + 1] = Effect(TablesAfter(r)[i], FileRead(r, i + 1))
    <3>1. \A j \in a + 1..b : TablesAfter(r)[j] = Effect(TablesAfter(r)[j - 1], FileRead(r, j))
      BY <1>0, TablesExist
    <3>2. TablesAfter(r)[i + 1] = Effect(TablesAfter(r)[(i + 1) - 1], FileRead(r, i + 1))
      BY <2>1, <3>1, Zenon
    <3>. QED
      BY <2>1, <3>2, Zenon
  <2>3. Applicable(TablesAfter(r)[i], FileRead(r, i + 1))
    BY <2>1 DEF Executable
  <2>4. IsTables(TablesAfter(r)[i + 1])
    BY <1>3, <2>1, <2>2, <2>3, FileReadFacts, EffectIsTables
  <2>. QED
    BY <2>1, <2>4
<1>4. \A i \in a..k : i \in S
  <2>. HIDE DEF S
  <2>. QED
    BY <1>0, <1>2, <1>3, Interval
<1>. QED
  BY <1>4

\* Somewhere a plan that cannot be carried out to its end has a first file that cannot.
LEMMA FirstFailure ==
  ASSUME NEW r \in Requests, NEW a \in Nat, NEW b \in Nat, a <= b,
         req[r].from = a, req[r].upto = b, ~Executable(r, b)
  PROVE  \E i \in a..b : Executable(r, i) /\ ~Executable(r, i + 1)
<1>. DEFINE S == {i \in a..b : Executable(r, i)}
<1>. SUFFICES ASSUME \A i \in a..b : Executable(r, i) => Executable(r, i + 1) PROVE FALSE
  OBVIOUS
<1>1. Executable(r, a)
  BY DEF Executable
<1>2. a \in S
  BY <1>1
<1>3. ASSUME NEW i \in a..b, i \in S, i + 1 <= b PROVE i + 1 \in S
  BY <1>3
<1>4. \A i \in a..b : i \in S
  <2>. HIDE DEF S
  <2>. QED
    BY <1>2, <1>3, Interval
<1>. QED
  BY <1>4

Grows(fs, gs) == Len(fs) <= Len(gs) /\ \A k \in 1..Len(fs) : gs[k] = fs[k]

\* What stands in the chain goes on standing in it when it grows.
LEMMA PlanGrows ==
  ASSUME NEW q, NEW fs \in Seq(File), NEW gs \in Seq(File), NEW v \in Nat, NEW u \in Nat,
         Grows(fs, gs), v <= u, v <= Len(fs), u <= Len(gs), IsRequest(q), PlanFits(q, fs, v)
  PROVE  PlanFits(q, gs, u)
<1>1. ASSUME NEW w \in q.writes PROVE Stands(w.name, w.id, w.rev, gs, u)
  <2>1. w \in Write /\ Stands(w.name, w.id, w.rev, fs, v)
    BY <1>1 DEF PlanFits, IsRequest
  <2>2. w.rev \in 1..v /\ w.rev \in 1..Len(fs) /\ gs[w.rev] = fs[w.rev] /\ w.rev \in 1..u
    BY <2>1 DEF Stands, Grows
  <2>. QED
    BY <2>1, <2>2 DEF Stands
<1>2. Flying(q) => q.rev \in 1..Len(gs) /\ gs[q.rev] = fs[q.rev]
  BY DEF PlanFits, Grows
<1>. QED
  BY <1>1, <1>2 DEF PlanFits, Grows, IsRequest

\* The requests after a step of request r that makes it q.
LEMMA RequestsStep ==
  ASSUME RInv, NEW r \in Requests, NEW q, Set(r, q), IsRequest(q), IsPlaced(q),
         files' \in Seq(File), version' \in Nat, Grows(files, files'),
         version <= version', version' <= Len(files'),
         PlanFits(q, files', version'),
         q.at = "inject" <=> writing' = r,
         writing' = r => q.rev = Len(files'),
         \A s \in Requests \ {r} : writing' = s => writing = s /\ files' = files,
         \A s \in Requests \ {r} : writing = s => writing' = s,
         writing' \in Requests \cup {NoOne}
  PROVE  /\ RequestsFit'
         /\ \A s \in Requests : writing' = s <=> req'[s].at = "inject"
         /\ \A s \in Requests : req'[s].at \in At
         /\ \A s \in Requests : req'[s].writes # {} => req'[s].at = "commit" \/ req'[s].batch
         /\ req'[r] = q /\ \A s \in Requests \ {r} : req'[s] = req[s]
<1>1. req' = [req EXCEPT ![r] = q] /\ req = [s \in Requests |-> req[s]]
  BY DEF Set, RInv, RequestsFit
<1>2. req'[r] = q /\ (\A s \in Requests \ {r} : req'[s] = req[s]) /\ req' = [s \in Requests |-> req'[s]]
  BY <1>1
<1>3. files \in Seq(File) /\ version \in Nat /\ version <= Len(files)
  BY DEF RInv, TypeOK
<1>4. ASSUME NEW s \in Requests
      PROVE  IsRequest(req'[s]) /\ IsPlaced(req'[s]) /\ PlanFits(req'[s], files', version')
  <2>1. CASE s = r
    BY <1>2, <2>1
  <2>2. CASE s # r
    <3>1. IsRequest(req[s]) /\ IsPlaced(req[s]) /\ PlanFits(req[s], files, version)
      BY DEF RInv, RequestsFit
    <3>2. PlanFits(req[s], files', version')
      BY <1>3, <3>1, PlanGrows
    <3>. QED
      BY <1>2, <2>2, <3>1, <3>2
  <2>. QED
    BY <2>1, <2>2
<1>5. writing' # NoOne => req'[writing'].rev = Len(files')
  BY <1>2 DEF RInv, RequestsFit
<1>6. ASSUME NEW s \in Requests PROVE writing' = s <=> req'[s].at = "inject"
  <2>1. writing = s <=> req[s].at = "inject"
    BY DEF RInv, TypeOK
  <2>. QED
    BY <1>2, <2>1
<1>7. RequestsFit'
  BY <1>2, <1>4, <1>5 DEF RequestsFit
<1>8. \A s \in Requests : req'[s].at \in At /\ (req'[s].writes # {} => req'[s].at = "commit" \/ req'[s].batch)
  BY <1>4 DEF IsRequest, IsPlaced
<1>. QED
  BY <1>2, <1>6, <1>7, <1>8

\* The rows after a step that leaves them alone.
LEMMA RowsKept ==
  ASSUME RInv, row' = row, files' \in Seq(File), version' \in Nat, Grows(files, files'),
         version <= version', version' <= Len(files')
  PROVE  RowsStand'
<1>1. ASSUME NEW n \in Names, row[n] # NoRow PROVE Stands(n, row[n].id, row[n].rev, files', version')
  <2>1. Stands(n, row[n].id, row[n].rev, files, version)
    BY <1>1 DEF RInv, RowsStand
  <2>2. version <= Len(files) /\ version \in Nat /\ row[n] \in Row
    BY DEF RInv, TypeOK
  <2>. QED
    BY <2>1, <2>2 DEF Stands, Grows, Row
<1>2. \A n \in Names : row'[n] # NoRow => Stands(n, row'[n].id, row'[n].rev, files', version')
  BY <1>1
<1>. QED
  BY <1>2 DEF RowsStand, NoRow

-----------------------------------------------------------------------------
(* The requests that the steps leave.                                       *)

\* The request that has not begun is one.
LEMMA IdleIsRequest == IsRequest(Idle) /\ IsPlaced(Idle) /\ ~Flying(Idle) /\ ~Busy(Idle)
<1>1. <<>> \in Seq(Item)
  BY EmptySeq
<1>2. IsRequest(Idle)
  <2>1. DOMAIN Idle = Keys
    BY DEF Idle, Keys
  <2>2. /\ Idle.at = "idle" /\ Idle.op = "none" /\ Idle.name = Id /\ Idle.id = 0 /\ Idle.rev = 0
        /\ Idle.fields = {} /\ Idle.old = {} /\ Idle.from = 0 /\ Idle.upto = 0
        /\ Idle.todo = <<>> /\ Idle.writes = {}
    BY DEF Idle
  <2>3. Idle.torn \in BOOLEAN /\ Idle.batch \in BOOLEAN
    BY DEF Idle
  <2>4. Idle.at \in At /\ Idle.op \in {"none", "create", "update", "delete", "upgrade"}
    BY <2>2 DEF At
  <2>5. Idle.id \in 0..MaxFiles /\ Idle.rev \in 0..MaxFiles /\ Idle.from \in 0..MaxFiles /\ Idle.upto \in 0..MaxFiles
    BY <2>2
  <2>. QED
    BY <1>1, <2>1, <2>2, <2>3, <2>4, <2>5 DEF IsRequest
<1>3. ~Flying(Idle) /\ ~Busy(Idle)
  BY DEF Idle, Flying, Busy
<1>4. IsPlaced(Idle)
  BY <1>3 DEF IsPlaced, Idle
<1>. QED
  BY <1>2, <1>3, <1>4

\* A step of r that changes nothing but the request and perhaps notes a failure.
LEMMA OnlyRequest ==
  ASSUME RInv, NEW r \in Requests, NEW q, Set(r, q), UNCHANGED <<db, disk, mishaps, torn>>,
         failed' \in SUBSET {"request", "import"},
         IsRequest(q), IsPlaced(q), PlanFits(q, files, version), req[r].at # "inject", q.at # "inject"
  PROVE  RInv' /\ req'[r] = q /\ \A s \in Requests \ {r} : req'[s] = req[s]
<1>1. /\ files \in Seq(File) /\ version \in Nat /\ version <= Len(files) /\ Len(files) \in Nat
      /\ writing \in Requests \cup {NoOne} /\ writing # r
  BY DEF RInv, TypeOK
<1>2. Grows(files, files') /\ files' = files /\ version' = version /\ writing' = writing /\ row' = row
  BY <1>1 DEF Grows, disk, db
<1>3. /\ RequestsFit'
      /\ \A s \in Requests : writing' = s <=> req'[s].at = "inject"
      /\ \A s \in Requests : req'[s].at \in At
      /\ \A s \in Requests : req'[s].writes # {} => req'[s].at = "commit" \/ req'[s].batch
      /\ req'[r] = q /\ \A s \in Requests \ {r} : req'[s] = req[s]
  BY <1>1, <1>2, RequestsStep
<1>4. RowsStand'
  BY <1>1, <1>2, RowsKept
<1>5. TypeOK'
  BY <1>3 DEF RInv, TypeOK, db, disk
<1>. QED
  BY <1>3, <1>4, <1>5 DEF RInv

\* The parts of the empty request.
LEMMA IdleParts ==
  /\ DOMAIN Idle = Keys
  /\ Idle.at = "idle" /\ Idle.op = "none" /\ Idle.name = Id /\ Idle.id = 0 /\ Idle.rev = 0
  /\ Idle.fields = {} /\ Idle.old = {} /\ Idle.from = 0 /\ Idle.upto = 0
  /\ Idle.todo = <<>> /\ Idle.writes = {} /\ Idle.torn = FALSE /\ Idle.batch = FALSE
BY DEF Idle, Keys

\* A request at the end of its work on a collection: nothing but the parts given is set.
Over(q, at, writes) ==
  /\ DOMAIN q = Keys /\ q.at = at /\ q.op = "none" /\ q.writes = writes
  /\ q.fields = {} /\ q.old = {} /\ q.from = 0 /\ q.upto = 0 /\ q.torn = FALSE

\* A request at the end of its work on a collection, or between two items, is one.
LEMMA OverIsRequest ==
  ASSUME NEW q, NEW at, NEW writes \in SUBSET Write, Over(q, at, writes),
         \/ /\ at = "item" /\ q.batch = TRUE /\ q.name = Id /\ q.id = 0 /\ q.rev = 0
            /\ q.todo \in Seq(Item)
         \/ /\ at = "idle" /\ q.batch = FALSE /\ q.name = Id /\ q.id = 0 /\ q.rev = 0
            /\ q.todo = <<>> /\ writes = {}
         \/ /\ at = "commit" /\ q.batch = FALSE /\ q.name = Id /\ q.id = 0 /\ q.rev = 0
            /\ q.todo = <<>>
         \/ /\ at = "finalize" /\ q.batch = FALSE /\ q.name \in Names /\ q.id \in 0..MaxFiles
            /\ q.rev \in 0..MaxFiles /\ q.todo = <<>> /\ writes = {}
  PROVE  IsRequest(q) /\ IsPlaced(q) /\ ~Flying(q) /\ ~Busy(q)
<1>1. <<>> \in Seq(Item)
  BY EmptySeq
<1>2. ~Flying(q) /\ ~Busy(q)
  BY DEF Over, Flying, Busy
<1>3. q.torn \in BOOLEAN /\ q.batch \in BOOLEAN
  BY DEF Over
<1>4. q.at \in At
  BY DEF Over, At
<1>5. IsRequest(q)
  <2>1. q.id \in 0..MaxFiles /\ q.rev \in 0..MaxFiles /\ q.name \in Names \cup {Id} /\ q.todo \in Seq(Item)
    <3>1. 0 \in 0..MaxFiles
      OBVIOUS
    <3>. QED
      BY <1>1, <3>1, Zenon
  <2>2. q.from \in 0..MaxFiles /\ q.upto \in 0..MaxFiles /\ q.fields \subseteq Fields /\ q.old \subseteq Fields
    BY DEF Over
  <2>3. q.writes \subseteq Write /\ DOMAIN q = Keys /\ q.op = "none"
    BY DEF Over
  <2>. QED
    BY <1>3, <1>4, <2>1, <2>2, <2>3 DEF IsRequest
<1>6. IsPlaced(q)
  BY <1>2 DEF IsPlaced, Over
<1>. QED
  BY <1>2, <1>5, <1>6

\* What NextItem leaves of r.
LEMMA NextItemRequest ==
  ASSUME NEW r \in Requests, IsRequest(req[r]), req[r].todo # <<>>, NEW W \in SUBSET Write, NextItem(r, W)
  PROVE  \E q : /\ Set(r, q) /\ Over(q, "item", W) /\ IsRequest(q) /\ IsPlaced(q) /\ ~Flying(q) /\ ~Busy(q)
                /\ q.batch = TRUE /\ q.todo = Tail(req[r].todo) /\ q.rev = 0
<1>. DEFINE q == [Idle EXCEPT !.at = "item", !.batch = TRUE, !.todo = Tail(req[r].todo),
                              !.strategy = req[r].strategy, !.writes = W]
<1>1. Set(r, q)
  BY DEF NextItem
<1>2. /\ Over(q, "item", W) /\ q.batch = TRUE /\ q.todo = Tail(req[r].todo) /\ q.name = Id
      /\ q.id = 0 /\ q.rev = 0
  BY IdleParts DEF Over, Keys
<1>3. Tail(req[r].todo) \in Seq(Item)
  BY DEF IsRequest
<1>4. IsRequest(q) /\ IsPlaced(q) /\ ~Flying(q) /\ ~Busy(q)
  <2>. HIDE DEF q
  <2>. QED
    BY <1>2, <1>3, OverIsRequest
<1>. QED
  <2>. HIDE DEF q
  <2>. QED
    BY <1>1, <1>2, <1>4

\* What a failure leaves of r.
LEMMA FailedRequest ==
  ASSUME RInv, NEW r \in Requests, Failed(r), req[r].at \in {"generate", "apply", "execute"}
  PROVE  /\ failed' \in SUBSET {"request", "import"} /\ failed' # {}
         /\ \E q : /\ Set(r, q) /\ IsRequest(q) /\ IsPlaced(q) /\ ~Flying(q) /\ ~Busy(q)
                   /\ q.writes = req[r].writes /\ q.rev = 0 /\ q.at \in {"item", "idle"}
                   /\ Over(q, q.at, q.writes)
                   /\ \/ q.batch = TRUE /\ q.todo = Tail(req[r].todo) /\ req[r].batch /\ req[r].todo # <<>>
                      \/ q.batch = FALSE /\ q.todo = <<>> /\ q.writes = {}
<1>1. IsRequest(req[r]) /\ IsPlaced(req[r]) /\ failed \in SUBSET {"request", "import"}
  BY DEF RInv, RequestsFit, TypeOK
<1>2. failed' \in SUBSET {"request", "import"} /\ failed' # {}
  BY <1>1 DEF Failed
<1>3. CASE req[r].batch
  <2>1. req[r].todo # <<>>
    BY <1>1, <1>3 DEF IsPlaced, Busy, Flying
  <2>2. NextItem(r, req[r].writes) /\ req[r].writes \in SUBSET Write
    BY <1>1, <1>3 DEF Failed, IsRequest
  <2>3. PICK q : /\ Set(r, q) /\ Over(q, "item", req[r].writes) /\ IsRequest(q) /\ IsPlaced(q)
                 /\ ~Flying(q) /\ ~Busy(q)
                 /\ q.batch = TRUE /\ q.todo = Tail(req[r].todo) /\ q.rev = 0
    BY <1>1, <2>1, <2>2, NextItemRequest
  <2>4. q.at = "item" /\ q.writes = req[r].writes
    BY <2>3 DEF Over
  <2>. QED
    BY <1>2, <1>3, <2>1, <2>3, <2>4
<1>4. CASE ~req[r].batch
  <2>1. Set(r, Idle) /\ req[r].writes = {}
    BY <1>1, <1>4 DEF Failed, IsPlaced
  <2>2. Over(Idle, "idle", {})
    BY IdleParts DEF Over
  <2>. QED
    BY <1>2, <2>1, <2>2, IdleIsRequest, IdleParts
<1>. QED
  BY <1>3, <1>4

\* The row that r is to write is one.
LEMMA NewRowFacts ==
  ASSUME RInv, NEW r \in Requests, Flying(req[r]), req[r].op \in {"create", "update"}
  PROVE  /\ NewRow(r) \in Write
         /\ NewRow(r).name = req[r].name /\ NewRow(r).rev = req[r].rev /\ NewRow(r).fields = req[r].fields
         /\ NewRow(r).new = (req[r].op = "create")
         /\ req[r].op = "create" => NewRow(r).id = req[r].rev
         /\ req[r].op = "update" => NewRow(r).id = req[r].id
         /\ req[r].rev \in 1..Len(files)
         /\ \A v \in Nat : req[r].rev <= v => Stands(NewRow(r).name, NewRow(r).id, NewRow(r).rev, files, v)
<1>1. IsRequest(req[r]) /\ IsPlaced(req[r]) /\ PlanFits(req[r], files, version)
  BY DEF RInv, RequestsFit
<1>2. version \in Nat /\ Len(files) \in Nat /\ Len(files) <= MaxFiles /\ version <= Len(files)
  BY DEF RInv, TypeOK
<1>3. /\ NewRow(r).name = req[r].name /\ NewRow(r).rev = req[r].rev /\ NewRow(r).fields = req[r].fields
      /\ NewRow(r).new = (req[r].op = "create")
      /\ req[r].op = "create" => NewRow(r).id = req[r].rev
      /\ req[r].op = "update" => NewRow(r).id = req[r].id
  BY DEF NewRow
<1>4. /\ req[r].name \in Names /\ req[r].rev \in 1..Len(files) /\ req[r].rev \in 1..MaxFiles
      /\ files[req[r].rev].name = req[r].name /\ files[req[r].rev].op \in {"create", "extend"}
      /\ req[r].op = "update" => req[r].id \in 1..MaxFiles /\ req[r].id < req[r].rev
  BY <1>1, <1>2 DEF IsPlaced, PlanFits, Busy, FileOp
<1>5. NewRow(r) \in Write
  BY <1>1, <1>4 DEF NewRow, Write, IsRequest
<1>6. \A v \in Nat : req[r].rev <= v => Stands(NewRow(r).name, NewRow(r).id, NewRow(r).rev, files, v)
  BY <1>3, <1>4 DEF Stands
<1>. QED
  BY <1>3, <1>4, <1>5, <1>6

\* What the end of a migration leaves of r.
LEMMA AppliedRequest ==
  ASSUME RInv, NEW r \in Requests, Applied(r), req[r].at = "execute"
  PROVE  \E q : /\ Set(r, q) /\ IsRequest(q) /\ IsPlaced(q) /\ ~Flying(q) /\ ~Busy(q)
                /\ Over(q, q.at, q.writes)
                /\ \/ /\ req[r].op = "upgrade" /\ q.at = "idle" /\ q.writes = {} /\ q.rev = 0
                      /\ q.batch = FALSE /\ q.todo = <<>>
                   \/ /\ Flying(req[r]) /\ req[r].op = "delete" /\ q.at = "finalize" /\ q.writes = {}
                      /\ q.name = req[r].name /\ q.id = req[r].id /\ q.rev = req[r].rev
                      /\ q.batch = FALSE /\ q.todo = <<>> /\ req[r].writes = {}
                   \/ /\ Flying(req[r]) /\ req[r].op \in {"create", "update"} /\ q.rev = 0
                      /\ q.at \in {"item", "commit"}
                      /\ q.writes = req[r].writes \cup {NewRow(r)}
                      /\ \/ q.batch = TRUE /\ q.todo = Tail(req[r].todo) /\ req[r].batch /\ req[r].todo # <<>>
                         \/ q.batch = FALSE /\ q.todo = <<>> /\ req[r].writes = {}
<1>1. IsRequest(req[r]) /\ IsPlaced(req[r])
  BY DEF RInv, RequestsFit
<1>2. CASE req[r].op = "upgrade"
  <2>1. Set(r, Idle)
    BY <1>2 DEF Applied
  <2>2. Over(Idle, "idle", {})
    BY IdleParts DEF Over
  <2>. QED
    BY <1>2, <2>1, <2>2, IdleIsRequest, IdleParts
<1>3. CASE req[r].op # "upgrade"
  <2>0. Flying(req[r]) /\ Busy(req[r]) /\ req[r].op \in {"create", "update", "delete"} /\ req[r].name \in Names
    BY <1>1, <1>3 DEF Flying, Busy, IsPlaced
  <2>1. CASE req[r].op = "delete"
    <3>. DEFINE q == [Idle EXCEPT !.at = "finalize", !.name = req[r].name, !.id = req[r].id, !.rev = req[r].rev]
    <3>1. Set(r, q)
      BY <2>1 DEF Applied
    <3>2. /\ Over(q, "finalize", {}) /\ q.batch = FALSE /\ q.todo = <<>> /\ q.at = "finalize" /\ q.writes = {}
          /\ q.name = req[r].name /\ q.id = req[r].id /\ q.rev = req[r].rev
      BY IdleParts DEF Over, Keys
    <3>3. req[r].id \in 0..MaxFiles /\ req[r].rev \in 0..MaxFiles /\ req[r].writes = {}
      BY <1>1, <2>1 DEF IsRequest, IsPlaced
    <3>. HIDE DEF q
    <3>4. IsRequest(q) /\ IsPlaced(q) /\ ~Flying(q) /\ ~Busy(q)
      BY <2>0, <3>2, <3>3, OverIsRequest
    <3>. QED
      BY <2>0, <2>1, <3>1, <3>2, <3>3, <3>4
  <2>2. CASE req[r].op \in {"create", "update"} /\ req[r].batch
    <3>1. NextItem(r, req[r].writes \cup {NewRow(r)}) /\ req[r].todo # <<>>
      BY <1>1, <2>0, <2>2 DEF Applied, IsPlaced
    <3>2. req[r].writes \cup {NewRow(r)} \in SUBSET Write
      BY <1>1, <2>0, <2>2, NewRowFacts DEF IsRequest
    <3>3. PICK q : /\ Set(r, q) /\ Over(q, "item", req[r].writes \cup {NewRow(r)}) /\ IsRequest(q) /\ IsPlaced(q)
                   /\ ~Flying(q) /\ ~Busy(q) /\ q.batch = TRUE /\ q.todo = Tail(req[r].todo) /\ q.rev = 0
      BY <1>1, <3>1, <3>2, NextItemRequest
    <3>4. q.at = "item" /\ q.writes = req[r].writes \cup {NewRow(r)}
      BY <3>3 DEF Over
    <3>. QED
      BY <2>0, <2>2, <3>1, <3>3, <3>4
  <2>3. CASE req[r].op \in {"create", "update"} /\ ~req[r].batch
    <3>. DEFINE q == [Idle EXCEPT !.at = "commit", !.writes = {NewRow(r)}]
    <3>1. Set(r, q) /\ req[r].writes = {}
      BY <1>1, <2>3 DEF Applied, IsPlaced
    <3>2. /\ Over(q, "commit", {NewRow(r)}) /\ q.batch = FALSE /\ q.todo = <<>> /\ q.at = "commit"
          /\ q.writes = {NewRow(r)} /\ q.name = Id /\ q.id = 0 /\ q.rev = 0
      BY IdleParts DEF Over, Keys
    <3>3. NewRow(r) \in Write
      BY <2>0, <2>3, NewRowFacts
    <3>. HIDE DEF q
    <3>4. IsRequest(q) /\ IsPlaced(q) /\ ~Flying(q) /\ ~Busy(q)
      BY <3>2, <3>3, OverIsRequest
    <3>. QED
      BY <2>0, <2>3, <3>1, <3>2, <3>4
  <2>. QED
    BY <2>0, <2>1, <2>2, <2>3
<1>. QED
  BY <1>2, <1>3

\* An import brings a sequence of items.
LEMMA ImportsAreItems == \A items \in Imports : items \in Seq(Item)
<1>. SUFFICES ASSUME NEW items \in Imports PROVE items \in Seq(Item)
  OBVIOUS
<1>1. items \in Seq([name : Names, fields : Schemas]) /\ Schemas \subseteq SUBSET Fields
  BY CollectionsAssumption
<1>2. \A k \in 1..Len(items) : items[k] \in Item
  <2>1. ASSUME NEW k \in 1..Len(items) PROVE items[k] \in Item
    <3>1. items[k] \in [name : Names, fields : Schemas]
      BY <1>1, ElementOfSeq
    <3>. QED
      BY <1>1, <3>1 DEF Item
  <2>. QED
    BY <2>1
<1>3. items = [k \in 1..Len(items) |-> items[k]] /\ Len(items) \in Nat
  BY <1>1
<1>. QED
  BY <1>2, <1>3, SeqDef

\* What a step that begins or reads leaves of the request: a request that is to generate.
LEMMA ReadRequest ==
  ASSUME NEW q, DOMAIN q = Keys, q.at = "generate", q.op \in {"create", "update", "delete"},
         q.name \in Names, q.id \in 0..MaxFiles, q.rev \in 0..MaxFiles,
         q.from \in 0..MaxFiles, q.upto \in 0..MaxFiles,
         q.fields \subseteq Fields, q.old \subseteq Fields, q.torn \in BOOLEAN, q.batch \in BOOLEAN,
         q.todo \in Seq(Item), q.writes \in SUBSET Write,
         q.batch \/ q.writes = {}, q.op = "create" => q.old = {},
         q.batch => q.op # "delete" /\ q.todo # <<>> /\ q.name = q.todo[1].name
  PROVE  IsRequest(q) /\ IsPlaced(q) /\ ~Flying(q)
<1>1. q.at \in At
  BY DEF At
<1>2. IsRequest(q)
  BY <1>1 DEF IsRequest
<1>3. ~Flying(q)
  BY DEF Flying
<1>4. IsPlaced(q)
  BY <1>3 DEF IsPlaced
<1>. QED
  BY <1>2, <1>3, <1>4

\* The types and facts that the first invariant gives, in the form the proofs use them.
LEMMA RState ==
  ASSUME RInv
  PROVE  /\ files \in Seq(File) /\ version \in Nat /\ Len(files) \in Nat /\ version <= Len(files)
         /\ Len(files) <= MaxFiles /\ Grows(files, files)
         /\ writing \in Requests \cup {NoOne} /\ failed \in SUBSET {"request", "import"}
         /\ row \in [Names -> Row] /\ IsTables(table) /\ populated \in SUBSET Names /\ torn \in BOOLEAN
         /\ mishaps \in 0..MaxMishaps
         /\ req = [r \in Requests |-> req[r]]
         /\ \A r \in Requests : /\ IsRequest(req[r]) /\ IsPlaced(req[r]) /\ PlanFits(req[r], files, version)
                                /\ writing = r <=> req[r].at = "inject"
         /\ \A n \in Names : row[n] # NoRow =>
              Stands(n, row[n].id, row[n].rev, files, version) /\ row[n].id \in 1..version
<1>1. TypeOK /\ RequestsFit /\ RowsStand
  BY DEF RInv
<1>2. files \in Seq(File) /\ version \in 0..Len(files) /\ Len(files) \in Nat
  BY <1>1 DEF TypeOK
<1>3. \A n \in Names : row[n] # NoRow =>
        Stands(n, row[n].id, row[n].rev, files, version) /\ row[n].id \in 1..version
  BY <1>1, <1>2 DEF RowsStand, Stands
<1>4. IsTables(table)
  BY <1>1 DEF TypeOK, IsTables
<1>. QED
  BY <1>1, <1>2, <1>3, <1>4 DEF TypeOK, RequestsFit, Grows

\* Each request-only step makes r into some q.
Turned(r, q) ==
  /\ Set(r, q) /\ IsRequest(q) /\ IsPlaced(q) /\ PlanFits(q, files, version)
  /\ req[r].at # "inject" /\ q.at # "inject"

\* The request that has begun a creation.
LEMMA CreateReadTurns ==
  ASSUME RInv, NEW r \in Requests, NEW n \in Names, NEW S \in Schemas, CreateRead(r, n, S)
  PROVE  \E q : /\ Turned(r, q) /\ q.at = "generate" /\ q.op = "create" /\ q.name = n /\ q.old = {}
                /\ q.writes = {} /\ q.todo = <<>> /\ ~q.batch /\ req[r].at = "idle"
<1>. DEFINE q == [Idle EXCEPT !.at = "generate", !.op = "create", !.name = n, !.fields = S]
<1>1. Set(r, q) /\ req[r].at = "idle"
  BY DEF CreateRead, Begin
<1>2. S \subseteq Fields /\ <<>> \in Seq(Item)
  BY CollectionsAssumption, EmptySeq
<1>3. /\ DOMAIN q = Keys /\ q.at = "generate" /\ q.op = "create" /\ q.name = n /\ q.id = 0 /\ q.rev = 0
      /\ q.from = 0 /\ q.upto = 0 /\ q.fields = S /\ q.old = {} /\ q.torn = FALSE /\ q.batch = FALSE
      /\ q.todo = <<>> /\ q.writes = {}
  BY IdleParts DEF Keys
<1>. HIDE DEF q
<1>zero. 0 \in 0..MaxFiles
  OBVIOUS
<1>flags. q.torn \in BOOLEAN /\ q.batch \in BOOLEAN
  BY <1>3, Zenon
<1>4. IsRequest(q) /\ IsPlaced(q) /\ ~Flying(q)
  BY <1>2, <1>3, <1>zero, <1>flags, ReadRequest
<1>5. PlanFits(q, files, version)
  BY <1>3, <1>4 DEF PlanFits, Busy
<1>. QED
  BY <1>1, <1>3, <1>4, <1>5 DEF Turned

\* The request that has begun an update: it has the row as it read it.
LEMMA UpdateReadTurns ==
  ASSUME RInv, NEW r \in Requests, NEW n \in Names, NEW S \in Schemas, UpdateRead(r, n, S)
  PROVE  \E q : /\ Turned(r, q) /\ q.at = "generate" /\ q.op = "update" /\ q.name = n
                /\ q.writes = {} /\ q.todo = <<>> /\ ~q.batch /\ req[r].at = "idle"
                /\ row[n] # NoRow /\ q.id = row[n].id /\ q.old = row[n].fields
<1>. DEFINE q == [Idle EXCEPT !.at = "generate", !.op = "update", !.name = n, !.id = row[n].id,
                         !.fields = S, !.old = row[n].fields]
<1>1. Set(r, q) /\ req[r].at = "idle" /\ row[n] # NoRow
  BY DEF UpdateRead, Begin
<1>2. S \subseteq Fields /\ <<>> \in Seq(Item) /\ row[n].id \in 1..version /\ row[n].fields \subseteq Fields
  BY <1>1, RState, CollectionsAssumption, EmptySeq DEF Row
<1>3. /\ DOMAIN q = Keys /\ q.at = "generate" /\ q.op = "update" /\ q.name = n /\ q.id = row[n].id /\ q.rev = 0
      /\ q.from = 0 /\ q.upto = 0 /\ q.fields = S /\ q.old = row[n].fields /\ q.torn = FALSE /\ q.batch = FALSE
      /\ q.todo = <<>> /\ q.writes = {}
  BY IdleParts DEF Keys
<1>. HIDE DEF q
<1>4. row[n].id \in 0..MaxFiles
  BY <1>2, RState
<1>zero. 0 \in 0..MaxFiles
  OBVIOUS
<1>flags. q.torn \in BOOLEAN /\ q.batch \in BOOLEAN
  BY <1>3, Zenon
<1>5. IsRequest(q) /\ IsPlaced(q) /\ ~Flying(q)
  BY <1>2, <1>3, <1>4, <1>zero, <1>flags, ReadRequest
<1>6. PlanFits(q, files, version)
  BY <1>2, <1>3, <1>5 DEF PlanFits, Busy
<1>. QED
  BY <1>1, <1>3, <1>5, <1>6 DEF Turned

\* The request that has begun a deletion.
LEMMA DeleteReadTurns ==
  ASSUME RInv, NEW r \in Requests, NEW n \in Names, DeleteRead(r, n)
  PROVE  \E q : /\ Turned(r, q) /\ q.at = "generate" /\ q.op = "delete" /\ q.name = n
                /\ q.writes = {} /\ q.todo = <<>> /\ ~q.batch /\ req[r].at = "idle"
<1>. DEFINE q == [Idle EXCEPT !.at = "generate", !.op = "delete", !.name = n, !.id = row[n].id]
<1>1. Set(r, q) /\ req[r].at = "idle" /\ row[n] # NoRow
  BY DEF DeleteRead, Begin
<1>2. <<>> \in Seq(Item) /\ row[n].id \in 1..version /\ row[n].id \in 0..MaxFiles
  BY <1>1, RState, EmptySeq
<1>3. /\ DOMAIN q = Keys /\ q.at = "generate" /\ q.op = "delete" /\ q.name = n /\ q.id = row[n].id /\ q.rev = 0
      /\ q.from = 0 /\ q.upto = 0 /\ q.fields = {} /\ q.old = {} /\ q.torn = FALSE /\ q.batch = FALSE
      /\ q.todo = <<>> /\ q.writes = {}
  BY IdleParts DEF Keys
<1>. HIDE DEF q
<1>zero. 0 \in 0..MaxFiles
  OBVIOUS
<1>flags. q.torn \in BOOLEAN /\ q.batch \in BOOLEAN
  BY <1>3, Zenon
<1>5. IsRequest(q) /\ IsPlaced(q) /\ ~Flying(q)
  BY <1>2, <1>3, <1>zero, <1>flags, ReadRequest
<1>6. PlanFits(q, files, version)
  BY <1>2, <1>3, <1>5 DEF PlanFits, Busy
<1>. QED
  BY <1>1, <1>3, <1>5, <1>6 DEF Turned

\* The request that has begun an import.
LEMMA ImportStartTurns ==
  ASSUME RInv, NEW r \in Requests, NEW items \in Imports, NEW strategy, ImportStart(r, items, strategy)
  PROVE  \E q : /\ Turned(r, q) /\ q.at = "item" /\ ~Busy(q) /\ q.writes = {} /\ q.todo = items
                /\ q.batch /\ req[r].at = "idle"
<1>. DEFINE q == [Idle EXCEPT !.at = "item", !.batch = TRUE, !.todo = items, !.strategy = strategy]
<1>1. Set(r, q) /\ req[r].at = "idle"
  BY DEF ImportStart, Begin
<1>2. items \in Seq(Item)
  BY ImportsAreItems
<1>3. /\ Over(q, "item", {}) /\ q.at = "item" /\ q.batch = TRUE /\ q.name = Id /\ q.id = 0 /\ q.rev = 0
      /\ q.todo = items /\ q.writes = {}
  BY IdleParts DEF Over, Keys
<1>. HIDE DEF q
<1>4. IsRequest(q) /\ IsPlaced(q) /\ ~Flying(q) /\ ~Busy(q)
  BY <1>2, <1>3, OverIsRequest
<1>5. PlanFits(q, files, version)
  BY <1>3, <1>4 DEF PlanFits
<1>. QED
  BY <1>1, <1>3, <1>4, <1>5 DEF Turned

\* The request of `migrate upgrade`.
LEMMA UpgradeStartTurns ==
  ASSUME RInv, NEW r \in Requests, UpgradeStart(r)
  PROVE  \E q : /\ Turned(r, q) /\ q.at = "apply" /\ q.op = "upgrade" /\ q.writes = {} /\ q.todo = <<>>
                /\ ~q.batch /\ req[r].at = "idle"
<1>. DEFINE q == [Idle EXCEPT !.at = "apply", !.op = "upgrade"]
<1>1. Set(r, q) /\ req[r].at = "idle"
  BY DEF UpgradeStart, Begin
<1>2. <<>> \in Seq(Item)
  BY EmptySeq
<1>3. /\ DOMAIN q = Keys /\ q.at = "apply" /\ q.op = "upgrade" /\ q.name = Id /\ q.id = 0 /\ q.rev = 0
      /\ q.from = 0 /\ q.upto = 0 /\ q.fields = {} /\ q.old = {} /\ q.torn = FALSE /\ q.batch = FALSE
      /\ q.todo = <<>> /\ q.writes = {}
  BY IdleParts DEF Keys
<1>. HIDE DEF q
<1>zero. 0 \in 0..MaxFiles
  OBVIOUS
<1>flags. q.torn \in BOOLEAN /\ q.batch \in BOOLEAN
  BY <1>3, Zenon
<1>4. q.at \in At /\ ~Flying(q) /\ ~Busy(q)
  BY <1>3 DEF At, Flying, Busy
<1>5. IsRequest(q)
  BY <1>2, <1>3, <1>4, <1>zero, <1>flags DEF IsRequest
<1>6. IsPlaced(q) /\ PlanFits(q, files, version)
  BY <1>3, <1>4 DEF IsPlaced, PlanFits
<1>. QED
  BY <1>1, <1>3, <1>5, <1>6 DEF Turned

\* An import that takes its next item goes on to its migration, or leaves the item out.
LEMMA ImportItemTurns ==
  ASSUME RInv, NEW r \in Requests, ImportItem(r)
  PROVE  \E q : /\ Turned(r, q) /\ q.writes = req[r].writes /\ q.batch /\ req[r].at = "item" /\ req[r].batch
                /\ \/ q.at = "item" /\ ~Busy(q) /\ req[r].todo # <<>> /\ q.todo = Tail(req[r].todo)
                   \/ /\ q.at = "generate" /\ q.todo = req[r].todo
                      /\ \/ q.op = "create" /\ q.old = {}
                         \/ q.op = "update" /\ row[q.name] # NoRow /\ q.id = row[q.name].id /\ q.old = row[q.name].fields
<1>. DEFINE item == Head(req[r].todo)
            old  == row[item.name]
            go   == [req[r] EXCEPT !.at = "generate", !.name = item.name, !.fields = item.fields]
<1>1. /\ IsRequest(req[r]) /\ IsPlaced(req[r]) /\ PlanFits(req[r], files, version)
      /\ req[r].at = "item" /\ req[r].todo # <<>>
  BY RState DEF ImportItem
<1>2. item \in Item /\ req[r].writes \in SUBSET Write /\ item = req[r].todo[1] /\ req[r].todo \in Seq(Item)
  BY <1>1 DEF IsRequest
<1>3. item.name \in Names /\ item.fields \subseteq Fields
  BY <1>2 DEF Item
<1>4. req[r].batch /\ req[r].op = "none"
  BY <1>1 DEF IsPlaced
<1>5. \/ old = NoRow /\ Set(r, [go EXCEPT !.op = "create"])
      \/ old # NoRow /\ Set(r, [go EXCEPT !.op = "update", !.id = old.id, !.old = old.fields])
      \/ NextItem(r, req[r].writes)
  BY DEF ImportItem
<1>6. CASE NextItem(r, req[r].writes)
  <2>1. PICK q : /\ Set(r, q) /\ Over(q, "item", req[r].writes) /\ IsRequest(q) /\ IsPlaced(q)
                 /\ ~Flying(q) /\ ~Busy(q) /\ q.batch = TRUE /\ q.todo = Tail(req[r].todo) /\ q.rev = 0
    BY <1>1, <1>2, <1>6, NextItemRequest
  <2>2. q.at = "item" /\ q.writes = req[r].writes
    BY <2>1 DEF Over
  <2>3. PlanFits(q, files, version)
    BY <1>1, <2>1, <2>2 DEF PlanFits
  <2>. QED
    BY <1>1, <1>4, <2>1, <2>2, <2>3 DEF Turned
<1>7. CASE Set(r, [go EXCEPT !.op = "create"])
  <2>. DEFINE q == [go EXCEPT !.op = "create"]
  <2>1. DOMAIN q = Keys /\ q.at = "generate" /\ q.op = "create" /\ q.name = item.name /\ q.fields = item.fields
        /\ q.id = req[r].id /\ q.rev = req[r].rev /\ q.from = req[r].from /\ q.upto = req[r].upto /\ q.old = req[r].old
        /\ q.torn = req[r].torn /\ q.batch = req[r].batch /\ q.todo = req[r].todo /\ q.writes = req[r].writes
    BY <1>1 DEF IsRequest, Keys
  <2>. HIDE DEF q, item, go
  <2>2. q.old = {}
    BY <1>1, <2>1 DEF IsPlaced
  <2>3. q.torn \in BOOLEAN /\ q.batch \in BOOLEAN /\ q.batch
    BY <1>1, <1>4, <2>1 DEF IsRequest
  <2>4. IsRequest(q) /\ IsPlaced(q) /\ ~Flying(q)
    <3>1. /\ q.id \in 0..MaxFiles /\ q.rev \in 0..MaxFiles /\ q.from \in 0..MaxFiles /\ q.upto \in 0..MaxFiles
          /\ q.old \subseteq Fields /\ q.fields \subseteq Fields /\ q.name \in Names
      BY <1>1, <1>3, <2>1 DEF IsRequest
    <3>2. q.todo \in Seq(Item) /\ q.writes \in SUBSET Write /\ q.todo # <<>> /\ q.name = q.todo[1].name
      BY <1>1, <1>2, <2>1
    <3>. QED
      BY <2>1, <2>2, <2>3, <3>1, <3>2, ReadRequest
  <2>5. PlanFits(q, files, version)
    BY <1>1, <2>1, <2>4 DEF PlanFits, Busy
  <2>6. Set(r, q)
    BY <1>7 DEF q
  <2>. QED
    BY <1>1, <1>4, <2>1, <2>2, <2>3, <2>4, <2>5, <2>6 DEF Turned
<1>8. CASE old # NoRow /\ Set(r, [go EXCEPT !.op = "update", !.id = old.id, !.old = old.fields])
  <2>. DEFINE q == [go EXCEPT !.op = "update", !.id = old.id, !.old = old.fields]
  <2>1. DOMAIN q = Keys /\ q.at = "generate" /\ q.op = "update" /\ q.name = item.name /\ q.fields = item.fields
        /\ q.id = old.id /\ q.rev = req[r].rev /\ q.from = req[r].from /\ q.upto = req[r].upto /\ q.old = old.fields
        /\ q.torn = req[r].torn /\ q.batch = req[r].batch /\ q.todo = req[r].todo /\ q.writes = req[r].writes
    BY <1>1 DEF IsRequest, Keys
  <2>2. old.id \in 1..version /\ old.id \in 0..MaxFiles /\ old.fields \subseteq Fields
    <3>1. old \in Row /\ old.id \in 1..version
      BY <1>3, <1>8, RState
    <3>. QED
      BY <3>1 DEF Row
  <2>6. Set(r, q) /\ row[q.name] # NoRow /\ q.id = row[q.name].id /\ q.old = row[q.name].fields
    BY <1>8, <2>1
  <2>. HIDE DEF q, item, go, old
  <2>3. q.torn \in BOOLEAN /\ q.batch \in BOOLEAN /\ q.batch
    BY <1>1, <1>4, <2>1 DEF IsRequest
  <2>4. IsRequest(q) /\ IsPlaced(q) /\ ~Flying(q)
    <3>1. /\ q.id \in 0..MaxFiles /\ q.rev \in 0..MaxFiles /\ q.from \in 0..MaxFiles /\ q.upto \in 0..MaxFiles
          /\ q.old \subseteq Fields /\ q.fields \subseteq Fields /\ q.name \in Names
      BY <1>1, <1>3, <2>1, <2>2 DEF IsRequest
    <3>2. q.todo \in Seq(Item) /\ q.writes \in SUBSET Write /\ q.todo # <<>> /\ q.name = q.todo[1].name
      BY <1>1, <1>2, <2>1
    <3>. QED
      BY <2>1, <2>3, <3>1, <3>2, ReadRequest
  <2>5. PlanFits(q, files, version)
    BY <1>1, <2>1, <2>2, <2>4 DEF PlanFits, Busy
  <2>. QED
    BY <1>1, <1>4, <2>1, <2>3, <2>4, <2>5, <2>6 DEF Turned
<1>. QED
  BY <1>5, <1>6, <1>7, <1>8

\* An import without items left goes on to its commit.
LEMMA ImportEndsTurns ==
  ASSUME RInv, NEW r \in Requests, ImportEnds(r)
  PROVE  \E q : /\ Turned(r, q) /\ q.at = "commit" /\ q.writes = req[r].writes /\ q.todo = <<>>
                /\ ~Busy(q) /\ ~Flying(req[r]) /\ req[r].at = "item"
<1>. DEFINE q == [req[r] EXCEPT !.at = "commit"]
<1>1. /\ IsRequest(req[r]) /\ IsPlaced(req[r]) /\ PlanFits(req[r], files, version)
      /\ req[r].at = "item" /\ req[r].todo = <<>>
  BY RState DEF ImportEnds
<1>2. /\ DOMAIN q = Keys /\ q.at = "commit" /\ q.op = req[r].op /\ q.name = req[r].name /\ q.fields = req[r].fields
      /\ q.id = req[r].id /\ q.rev = req[r].rev /\ q.from = req[r].from /\ q.upto = req[r].upto /\ q.old = req[r].old
      /\ q.torn = req[r].torn /\ q.batch = req[r].batch /\ q.todo = req[r].todo /\ q.writes = req[r].writes
  BY <1>1 DEF IsRequest, Keys
<1>3. Set(r, q)
  BY DEF ImportEnds
<1>. HIDE DEF q
<1>4. IsRequest(q) /\ ~Busy(q) /\ ~Flying(q) /\ ~Flying(req[r])
  BY <1>1, <1>2 DEF IsRequest, Busy, Flying, At
<1>5. IsPlaced(q)
  BY <1>1, <1>2, <1>4 DEF IsPlaced
<1>6. PlanFits(q, files, version)
  BY <1>1, <1>2, <1>4 DEF PlanFits
<1>. QED
  BY <1>1, <1>2, <1>3, <1>4, <1>5, <1>6 DEF Turned

\* An upgrade that has read its plan keeps all else.
LEMMA LoadPlanTurns ==
  ASSUME RInv, NEW r \in Requests, LoadPlan(r)
  PROVE  \E q : /\ Turned(r, q) /\ q.at = "execute" /\ req[r].at = "apply" /\ q.writes = req[r].writes /\ q.todo = req[r].todo
                /\ q.op = req[r].op /\ q.name = req[r].name /\ q.id = req[r].id /\ q.rev = req[r].rev
                /\ q.fields = req[r].fields /\ q.batch = req[r].batch /\ q.torn = (writing # NoOne)
                /\ q.upto = Len(files) /\ (Flying(q) <=> Flying(req[r])) /\ (Busy(q) <=> Busy(req[r]))
<1>. DEFINE q == [req[r] EXCEPT !.at = "execute", !.from = version, !.upto = Len(files),
                                !.torn = writing # NoOne]
<1>1. IsRequest(req[r]) /\ IsPlaced(req[r]) /\ PlanFits(req[r], files, version) /\ req[r].at = "apply"
  BY RState DEF LoadPlan
<1>2. /\ DOMAIN q = Keys /\ q.at = "execute" /\ q.op = req[r].op /\ q.name = req[r].name /\ q.fields = req[r].fields
      /\ q.id = req[r].id /\ q.rev = req[r].rev /\ q.from = version /\ q.upto = Len(files) /\ q.old = req[r].old
      /\ q.batch = req[r].batch /\ q.todo = req[r].todo /\ q.writes = req[r].writes
  BY <1>1 DEF IsRequest, Keys
<1>3. q.torn = (writing # NoOne) /\ q.torn \in BOOLEAN
  BY <1>1 DEF IsRequest, Keys
<1>4. Set(r, q)
  BY DEF LoadPlan
<1>. HIDE DEF q
<1>5. q.from \in 0..MaxFiles /\ q.upto \in 0..MaxFiles /\ version <= Len(files) /\ version \in Nat /\ Len(files) \in Nat
  BY <1>2, RState
<1>6. IsRequest(q) /\ (Flying(q) <=> Flying(req[r])) /\ (Busy(q) <=> Busy(req[r]))
  BY <1>1, <1>2, <1>3, <1>5 DEF IsRequest, Busy, Flying, At
<1>7. IsPlaced(q)
  BY <1>1, <1>2, <1>6 DEF IsPlaced
<1>8. PlanFits(q, files, version)
  BY <1>1, <1>2, <1>5, <1>6 DEF PlanFits
<1>. QED
  BY <1>1, <1>2, <1>3, <1>4, <1>6, <1>7, <1>8 DEF Turned

\* A request that has failed fits the chain, however far it has come meanwhile.
LEMMA FailedTurns ==
  ASSUME RInv, NEW r \in Requests, Failed(r), req[r].at \in {"generate", "apply", "execute"}
  PROVE  /\ failed' \in SUBSET {"request", "import"} /\ failed' # {}
         /\ \E q : /\ Set(r, q) /\ IsRequest(q) /\ IsPlaced(q) /\ ~Flying(q) /\ ~Busy(q)
                   /\ q.writes = req[r].writes /\ q.rev = 0 /\ q.at \in {"item", "idle"}
                   /\ Over(q, q.at, q.writes)
                   /\ \/ q.batch = TRUE /\ q.todo = Tail(req[r].todo) /\ req[r].batch /\ req[r].todo # <<>>
                      \/ q.batch = FALSE /\ q.todo = <<>> /\ q.writes = {}
                   /\ \A v \in Nat : version <= v /\ v <= Len(files) => PlanFits(q, files, v)
<1>1. IsPlaced(req[r]) /\ PlanFits(req[r], files, version) /\ version \in Nat /\ files \in Seq(File) /\ Grows(files, files)
      /\ version <= Len(files)
  BY RState
<1>2. PICK q : /\ Set(r, q) /\ IsRequest(q) /\ IsPlaced(q) /\ ~Flying(q) /\ ~Busy(q)
               /\ q.writes = req[r].writes /\ q.rev = 0 /\ q.at \in {"item", "idle"}
               /\ Over(q, q.at, q.writes)
               /\ \/ q.batch = TRUE /\ q.todo = Tail(req[r].todo) /\ req[r].batch /\ req[r].todo # <<>>
                  \/ q.batch = FALSE /\ q.todo = <<>> /\ q.writes = {}
  BY FailedRequest, Zenon
<1>3. PlanFits(q, files, version)
  BY <1>1, <1>2 DEF PlanFits
<1>4. \A v \in Nat : version <= v /\ v <= Len(files) => PlanFits(q, files, v)
  BY <1>1, <1>2, <1>3, PlanGrows
<1>. QED
  BY <1>2, <1>4, FailedRequest

\* A file is written for r, and r has it.
LEMMA GenerateSteps ==
  ASSUME RInv, NEW r \in Requests, Generate(r)
  PROVE  \E q, f : /\ Set(r, q) /\ f \in File /\ files' = Append(files, f) /\ writing = NoOne /\ writing' = r
                   /\ f.op = FileOp(req[r].op) /\ f.name = req[r].name /\ f.fields = req[r].fields \ req[r].old
                   /\ req[r].at = "generate" /\ q.at = "inject" /\ q.rev = Len(files) + 1
                   /\ q.op = req[r].op /\ q.name = req[r].name /\ q.id = req[r].id /\ q.fields = req[r].fields
                   /\ q.batch = req[r].batch /\ q.todo = req[r].todo /\ q.writes = req[r].writes
                   /\ IsRequest(q) /\ IsPlaced(q) /\ PlanFits(q, files', version) /\ Flying(q) /\ Grows(files, files')
                   /\ files' \in Seq(File) /\ Len(files') = Len(files) + 1 /\ Len(files') <= MaxFiles
                   /\ files'[Len(files) + 1] = f
<1>. DEFINE q == [req[r] EXCEPT !.at = "inject", !.rev = Len(files) + 1, !.old = {}]
            f == [op |-> FileOp(req[r].op), name |-> req[r].name, fields |-> req[r].fields \ req[r].old]
<1>1. /\ IsRequest(req[r]) /\ IsPlaced(req[r]) /\ PlanFits(req[r], files, version) /\ req[r].at = "generate"
      /\ files \in Seq(File) /\ Len(files) \in Nat /\ version \in Nat /\ version <= Len(files) /\ Grows(files, files)
  BY RState DEF Generate
<1>2. writing = NoOne /\ writing' = r /\ files' = Append(files, f) /\ Set(r, q) /\ Len(files) < MaxFiles /\ version' = version
  BY DEF Generate, LoopFree, db
<1>3. /\ DOMAIN q = Keys /\ q.at = "inject" /\ q.op = req[r].op /\ q.name = req[r].name /\ q.fields = req[r].fields
      /\ q.id = req[r].id /\ q.rev = Len(files) + 1 /\ q.from = req[r].from /\ q.upto = req[r].upto /\ q.old = {}
      /\ q.torn = req[r].torn /\ q.batch = req[r].batch /\ q.todo = req[r].todo /\ q.writes = req[r].writes
  BY <1>1 DEF IsRequest, Keys
<1>4. f.op = FileOp(req[r].op) /\ f.name = req[r].name /\ f.fields = req[r].fields \ req[r].old
  OBVIOUS
<1>5. req[r].op \in {"create", "update", "delete"} /\ req[r].name \in Names
  BY <1>1 DEF IsPlaced, Busy
<1>6. f \in File
  BY <1>1, <1>5 DEF File, FileOp, IsRequest
<1>. HIDE DEF q, f
<1>7. q.rev \in 0..MaxFiles
  BY <1>1, <1>2, <1>3
<1>8. IsRequest(q) /\ Flying(q) /\ Busy(q) /\ Busy(req[r])
  BY <1>1, <1>3, <1>5, <1>7 DEF IsRequest, Busy, Flying, At
<1>9. IsPlaced(q)
  BY <1>1, <1>3, <1>5, <1>8 DEF IsPlaced
<1>10. /\ files' \in Seq(File) /\ Len(files') = Len(files) + 1 /\ files'[Len(files) + 1] = f
       /\ \A k \in 1..Len(files) : files'[k] = files[k]
  BY <1>1, <1>2, <1>6
<1>11. Grows(files, files') /\ Len(files') <= MaxFiles
  BY <1>1, <1>2, <1>10 DEF Grows
<1>12. \A w \in q.writes : Stands(w.name, w.id, w.rev, files', version)
  <2>1. PlanFits(req[r], files', version)
    BY <1>1, <1>10, <1>11, PlanGrows
  <2>. QED
    BY <1>3, <2>1 DEF PlanFits
<1>13. PlanFits(q, files', version)
  <2>1. q.op # "create" => q.id \in 1..version /\ q.id < q.rev
    BY <1>1, <1>3, <1>8 DEF PlanFits
  <2>2. q.rev \in 1..Len(files') /\ files'[q.rev].name = q.name /\ files'[q.rev].op = FileOp(q.op)
    BY <1>1, <1>3, <1>4, <1>10
  <2>. QED
    BY <1>3, <1>12, <2>1, <2>2 DEF PlanFits
<1>. QED
  BY <1>1, <1>2, <1>3, <1>4, <1>6, <1>8, <1>9, <1>10, <1>11, <1>13

\* The file gets its body, and its request goes on.
LEMMA InjectSteps ==
  ASSUME RInv, NEW r \in Requests, Inject(r)
  PROVE  \E q : /\ Set(r, q) /\ writing = r /\ writing' = NoOne /\ files' = files
                /\ req[r].at = "inject" /\ q.at = "apply" /\ q.rev = req[r].rev
                /\ q.op = req[r].op /\ q.name = req[r].name /\ q.id = req[r].id /\ q.fields = req[r].fields
                /\ q.batch = req[r].batch /\ q.todo = req[r].todo /\ q.writes = req[r].writes
                /\ IsRequest(q) /\ IsPlaced(q) /\ PlanFits(q, files, version)
                /\ (Flying(q) <=> Flying(req[r])) /\ (Busy(q) <=> Busy(req[r]))
<1>. DEFINE q == [req[r] EXCEPT !.at = "apply"]
<1>1. /\ IsRequest(req[r]) /\ IsPlaced(req[r]) /\ PlanFits(req[r], files, version) /\ req[r].at = "inject"
  BY RState DEF Inject
<1>2. writing = r /\ writing' = NoOne /\ files' = files /\ Set(r, q)
  BY DEF Inject
<1>3. /\ DOMAIN q = Keys /\ q.at = "apply" /\ q.op = req[r].op /\ q.name = req[r].name /\ q.fields = req[r].fields
      /\ q.id = req[r].id /\ q.rev = req[r].rev /\ q.from = req[r].from /\ q.upto = req[r].upto /\ q.old = req[r].old
      /\ q.torn = req[r].torn /\ q.batch = req[r].batch /\ q.todo = req[r].todo /\ q.writes = req[r].writes
  BY <1>1 DEF IsRequest, Keys
<1>. HIDE DEF q
<1>4. IsRequest(q) /\ (Flying(q) <=> Flying(req[r])) /\ (Busy(q) <=> Busy(req[r]))
  BY <1>1, <1>3 DEF IsRequest, Busy, Flying, At
<1>5. IsPlaced(q)
  BY <1>1, <1>3, <1>4 DEF IsPlaced
<1>6. PlanFits(q, files, version)
  BY <1>1, <1>3, <1>4 DEF PlanFits
<1>. QED
  BY <1>1, <1>2, <1>3, <1>4, <1>5, <1>6

\* The range of a plan.
LEMMA PlanRange ==
  ASSUME RInv, NEW r \in Requests, req[r].at = "execute"
  PROVE  /\ req[r].from \in Nat /\ req[r].upto \in Nat /\ req[r].from <= req[r].upto
         /\ req[r].upto <= Len(files) /\ req[r].from <= version
         /\ Flying(req[r]) => req[r].rev \in 1..req[r].upto
<1>1. IsRequest(req[r]) /\ PlanFits(req[r], files, version)
  BY RState
<1>. QED
  BY <1>1 DEF IsRequest, PlanFits

\* An upgrade as far as file k, which can be carried out, leaves tables.
LEMMA UpgradeStep ==
  ASSUME RInv, NEW r \in Requests, req[r].at = "execute", NEW k \in req[r].from..req[r].upto,
         req[r].from = version \/ k = req[r].from, Executable(r, k), UpgradeTo(r, k)
  PROVE  /\ IsTables(table') /\ populated' \in SUBSET Names
         /\ version' = IF k = req[r].from THEN version ELSE k
         /\ version <= version' /\ version' <= Len(files) /\ version' \in Nat
         /\ k = req[r].from => table' = table
<1>1. /\ files \in Seq(File) /\ IsTables(table) /\ populated \in SUBSET Names /\ version \in Nat /\ Len(files) \in Nat
      /\ version <= Len(files)
  BY RState
<1>2. /\ req[r].from \in Nat /\ req[r].upto \in Nat /\ req[r].from <= req[r].upto /\ req[r].upto <= Len(files)
  BY PlanRange
<1>3. \A i \in req[r].from..k : IsTables(TablesAfter(r)[i])
  BY <1>1, <1>2, PlanIsTables
<1>4. TablesAfter(r)[req[r].from] = table
  BY <1>2, TablesExist
<1>5. IsTables(table')
  BY <1>2, <1>3 DEF UpgradeTo
<1>6. populated' \in SUBSET Names /\ version' = IF k = req[r].from THEN version ELSE k
  BY <1>1 DEF UpgradeTo
<1>7. k = req[r].from => table' = table
  BY <1>4 DEF UpgradeTo
<1>. QED
  BY <1>1, <1>2, <1>5, <1>6, <1>7

\* An upgrade that succeeds applies its whole plan.
LEMMA ExecuteSteps ==
  ASSUME RInv, NEW r \in Requests, Execute(r)
  PROVE  /\ req[r].at = "execute" /\ Applied(r) /\ UNCHANGED <<row, disk, mishaps, failed>>
         /\ IsTables(table') /\ populated' \in SUBSET Names /\ torn' \in BOOLEAN
         /\ version <= version' /\ version' <= Len(files) /\ version' \in Nat
         /\ req[r].upto <= version'
         /\ \/ req[r].from = req[r].upto /\ version' = version /\ table' = table
            \/ /\ req[r].from = version /\ req[r].from < req[r].upto /\ version' = req[r].upto
               /\ Executable(r, req[r].upto) /\ table' = TablesAfter(r)[req[r].upto]
               /\ req[r].torn => torn'
         /\ torn => torn'
<1>1. /\ req[r].at = "execute" /\ Applied(r) /\ UNCHANGED <<row, disk, mishaps, failed>>
      /\ UpgradeTo(r, req[r].upto) /\ torn' = (torn \/ (req[r].torn /\ req[r].from < req[r].upto))
      /\ req[r].from = req[r].upto \/ (req[r].from = version /\ Executable(r, req[r].upto))
  BY DEF Execute
<1>2. /\ req[r].from \in Nat /\ req[r].upto \in Nat /\ req[r].from <= req[r].upto /\ req[r].upto <= Len(files)
      /\ req[r].from <= version /\ torn \in BOOLEAN /\ req[r].torn \in BOOLEAN
  BY <1>1, PlanRange, RState DEF IsRequest
<1>3. req[r].from = req[r].upto => Executable(r, req[r].upto)
  BY <1>2 DEF Executable
<1>4. /\ IsTables(table') /\ populated' \in SUBSET Names
      /\ version' = IF req[r].upto = req[r].from THEN version ELSE req[r].upto
      /\ version <= version' /\ version' <= Len(files) /\ version' \in Nat
      /\ req[r].upto = req[r].from => table' = table
  BY <1>1, <1>2, <1>3, UpgradeStep
<1>5. torn' \in BOOLEAN /\ (torn => torn') /\ (req[r].from < req[r].upto /\ req[r].torn => torn')
  BY <1>1, <1>2
<1>6. table' = TablesAfter(r)[req[r].upto]
  BY <1>1 DEF UpgradeTo
<1>. QED
  BY <1>1, <1>2, <1>4, <1>5, <1>6

\* One that fails applies some of its plan, never the last file of it.
LEMMA ExecuteFailsSteps ==
  ASSUME RInv, NEW r \in Requests, ExecuteFails(r)
  PROVE  /\ req[r].at = "execute" /\ Failed(r) /\ UNCHANGED <<row, disk, mishaps, torn>>
         /\ IsTables(table') /\ populated' \in SUBSET Names
         /\ version <= version' /\ version' <= Len(files) /\ version' \in Nat
         /\ \/ version' = version /\ table' = table
            \/ /\ req[r].from = version /\ version < version' /\ version' < req[r].upto
               /\ Executable(r, version') /\ table' = TablesAfter(r)[version']
<1>1. req[r].at = "execute" /\ Failed(r) /\ UNCHANGED <<row, disk, mishaps, torn>> /\ req[r].from < req[r].upto
  BY DEF ExecuteFails
<1>2. /\ req[r].from \in Nat /\ req[r].upto \in Nat /\ req[r].from <= req[r].upto /\ req[r].upto <= Len(files)
      /\ req[r].from <= version /\ version \in Nat /\ version <= Len(files) /\ Len(files) \in Nat
      /\ IsTables(table) /\ populated \in SUBSET Names
  BY <1>1, PlanRange, RState
<1>3. CASE UNCHANGED <<table, version, populated>>
  BY <1>1, <1>2, <1>3 DEF IsTables
<1>4. CASE ~UNCHANGED <<table, version, populated>>
  <2>. DEFINE P(i) == Executable(r, i) /\ ~Executable(r, i + 1)
              k == CHOOSE i \in req[r].from..req[r].upto : P(i)
              to == IF Dialect = "sqlite" THEN k ELSE req[r].from
  <2>1. req[r].from = version /\ ~Executable(r, req[r].upto) /\ UpgradeTo(r, to)
    BY <1>4 DEF ExecuteFails
  <2>2. \E i \in req[r].from..req[r].upto : P(i)
    BY <1>2, <2>1, FirstFailure
  <2>3. k \in req[r].from..req[r].upto /\ P(k)
    <3>. HIDE DEF P
    <3>. QED
      BY <2>2
  <2>4. Executable(r, req[r].from)
    BY <1>2 DEF Executable
  <2>5. to \in req[r].from..req[r].upto /\ Executable(r, to) /\ to # req[r].upto
    <3>. HIDE DEF k
    <3>. QED
      BY <1>1, <1>2, <2>1, <2>3, <2>4
  <2>. HIDE DEF to
  <2>6. /\ IsTables(table') /\ populated' \in SUBSET Names
        /\ version' = IF to = req[r].from THEN version ELSE to
        /\ version <= version' /\ version' <= Len(files) /\ version' \in Nat
        /\ to = req[r].from => table' = table
    BY <1>1, <2>1, <2>5, UpgradeStep
  <2>7. table' = TablesAfter(r)[to]
    BY <2>1 DEF UpgradeTo
  <2>8. CASE to = req[r].from
    BY <1>1, <2>6, <2>8
  <2>9. CASE to # req[r].from
    <3>1. version' = to /\ version < version' /\ version' < req[r].upto
      BY <1>2, <2>1, <2>5, <2>6, <2>9
    <3>. QED
      BY <1>1, <2>1, <2>5, <2>6, <2>7, <3>1
  <2>. QED
    BY <2>8, <2>9
<1>. QED
  BY <1>3, <1>4

\* The request that has not begun fits any chain.
LEMMA IdleFits == \A fs, v : PlanFits(Idle, fs, v)
BY IdleIsRequest, IdleParts DEF PlanFits

\* A commit writes rows that stand.
LEMMA CommitSteps ==
  ASSUME RInv, NEW r \in Requests, Commit(r)
  PROVE  /\ req[r].at = "commit" /\ Set(r, Idle) /\ writing = NoOne
         /\ UNCHANGED <<table, populated, version, disk, mishaps, torn>>
         /\ failed' \in SUBSET {"request", "import"} /\ row' \in [Names -> Row]
         /\ \/ row' = row /\ failed' # {}
            \/ /\ failed' = failed /\ \A w \in req[r].writes : Writable(w)
               /\ \A n \in Names : \/ row'[n] = row[n] /\ (\A w \in req[r].writes : w.name # n)
                                   \/ \E w \in req[r].writes : w.name = n /\ row'[n] = Written(w)
<1>1. /\ req[r].at = "commit" /\ Set(r, Idle) /\ writing = NoOne
      /\ UNCHANGED <<table, populated, version, disk, mishaps, torn>>
  BY DEF Commit, LoopFree
<1>2. req[r].writes \subseteq Write /\ row \in [Names -> Row] /\ failed \in SUBSET {"request", "import"}
  BY RState DEF IsRequest
<1>3. CASE \A w \in req[r].writes : Writable(w)
  <2>. DEFINE W == req[r].writes
              Of(n) == CHOOSE w \in W : w.name = n
  <2>1. row' = [n \in Names |-> IF \E w \in W : w.name = n THEN Written(Of(n)) ELSE row[n]] /\ failed' = failed
    BY <1>3 DEF Commit
  <2>2. ASSUME NEW n \in Names
        PROVE  \/ row'[n] = row[n] /\ (\A w \in W : w.name # n)
               \/ \E w \in W : w.name = n /\ row'[n] = Written(w)
    <3>1. CASE \E w \in W : w.name = n
      <4>1. Of(n) \in W /\ Of(n).name = n
        BY <3>1
      <4>2. row'[n] = Written(Of(n))
        BY <2>1, <3>1
      <4>. QED
        BY <4>1, <4>2
    <3>2. CASE ~\E w \in W : w.name = n
      BY <2>1, <3>2
    <3>. QED
      BY <3>1, <3>2
  <2>3. \A w \in W : Written(w) \in Row
    BY <1>2 DEF Written, Write, Row
  <2>4. row' \in [Names -> Row]
    <3>1. \A n \in Names : row'[n] \in Row
      BY <1>2, <2>2, <2>3
    <3>. QED
      BY <2>1, <3>1
  <2>. QED
    BY <1>1, <1>2, <1>3, <2>1, <2>2, <2>4
<1>4. CASE ~\A w \in req[r].writes : Writable(w)
  <2>1. failed' = failed \cup {"request"} /\ row' = row
    BY <1>4 DEF Commit
  <2>. QED
    BY <1>1, <1>2, <2>1
<1>. QED
  BY <1>3, <1>4

\* A deletion ends with the row of the id it was for, or with an error.
LEMMA FinalizeSteps ==
  ASSUME RInv, NEW r \in Requests, Finalize(r)
  PROVE  /\ req[r].at = "finalize" /\ Set(r, Idle) /\ writing = NoOne /\ req[r].name \in Names
         /\ UNCHANGED <<table, populated, version, disk, mishaps, torn>>
         /\ failed' \in SUBSET {"request", "import"} /\ row' \in [Names -> Row]
         /\ \/ row' = row /\ failed' # {}
            \/ /\ failed' = failed /\ row[req[r].name].id = req[r].id
               /\ row' = [row EXCEPT ![req[r].name] = NoRow]
<1>1. /\ req[r].at = "finalize" /\ Set(r, Idle) /\ writing = NoOne
      /\ UNCHANGED <<table, populated, version, disk, mishaps, torn>>
  BY DEF Finalize, LoopFree
<1>2. req[r].name \in Names /\ row \in [Names -> Row] /\ failed \in SUBSET {"request", "import"}
  BY <1>1, RState DEF IsPlaced
<1>3. NoRow \in Row
  BY DEF NoRow, Row
<1>. QED
  BY <1>1, <1>2, <1>3 DEF Finalize

\* After a step of r that makes it q, which is not at writing a file, and files that stay.
LEMMA AfterStep ==
  ASSUME RInv, NEW r \in Requests, NEW q, Set(r, q), IsRequest(q), IsPlaced(q), PlanFits(q, files, version'),
         files' = files, version' \in Nat, version <= version', version' <= Len(files),
         q.at # "inject", writing' = IF writing = r THEN NoOne ELSE writing,
         IsTables(table'), populated' \in SUBSET Names, row' \in [Names -> Row],
         failed' \in SUBSET {"request", "import"}, torn' \in BOOLEAN, mishaps' = mishaps,
         row' = row \/ RowsStand'
  PROVE  RInv' /\ req'[r] = q /\ \A s \in Requests \ {r} : req'[s] = req[s]
<1>1. /\ files \in Seq(File) /\ Grows(files, files') /\ writing' \in Requests \cup {NoOne} /\ writing' # r
      /\ Len(files) <= MaxFiles /\ mishaps \in 0..MaxMishaps
  BY RState
<1>2. /\ RequestsFit'
      /\ \A s \in Requests : writing' = s <=> req'[s].at = "inject"
      /\ \A s \in Requests : req'[s].at \in At
      /\ \A s \in Requests : req'[s].writes # {} => req'[s].at = "commit" \/ req'[s].batch
      /\ req'[r] = q /\ \A s \in Requests \ {r} : req'[s] = req[s]
  BY <1>1, RequestsStep
<1>3. RowsStand'
  BY <1>1, RowsKept
<1>4. TypeOK'
  BY <1>1, <1>2 DEF TypeOK, IsTables
<1>. QED
  BY <1>2, <1>3, <1>4 DEF RInv

\* A step that reads keeps the first invariant.
LEMMA TurnedKeeps ==
  ASSUME RInv, NEW r \in Requests, NEW q, Turned(r, q), UNCHANGED <<db, disk, mishaps, torn>>,
         failed' \in SUBSET {"request", "import"}
  PROVE  RInv' /\ req'[r] = q /\ \A s \in Requests \ {r} : req'[s] = req[s]
BY OnlyRequest DEF Turned

\* The rows that a commit writes stand for applied migrations, as the writes did.
LEMMA RowsStandAfterCommit == ASSUME RInv, NEW r \in Requests, Commit(r) PROVE RowsStand'
<1>1. /\ UNCHANGED <<table, populated, version, disk, mishaps, torn>>
      /\ \/ row' = row
         \/ /\ failed' = failed /\ \A w \in req[r].writes : Writable(w)
            /\ \A n \in Names : \/ row'[n] = row[n] /\ (\A w \in req[r].writes : w.name # n)
                                \/ \E w \in req[r].writes : w.name = n /\ row'[n] = Written(w)
  BY CommitSteps
<1>2. files' = files /\ version' = version
  BY <1>1 DEF disk
<1>3. ASSUME NEW n \in Names, row'[n] # NoRow
      PROVE  Stands(n, row'[n].id, row'[n].rev, files, version)
  <2>1. CASE row'[n] = row[n]
    BY <1>3, <2>1, RState
  <2>2. CASE \E w \in req[r].writes : w.name = n /\ row'[n] = Written(w)
    <3>1. PICK w \in req[r].writes : w.name = n /\ row'[n] = Written(w)
      BY <2>2
    <3>2. Stands(w.name, w.id, w.rev, files, version)
      BY RState DEF PlanFits
    <3>3. row'[n].id = w.id /\ row'[n].rev = w.rev
      BY <3>1 DEF Written
    <3>. QED
      BY <3>1, <3>2, <3>3
  <2>. QED
    BY <1>1, <2>1, <2>2
<1>4. \A n \in Names : row'[n] # NoRow => Stands(n, row'[n].id, row'[n].rev, files', version')
  BY <1>2, <1>3
<1>. QED
  BY <1>4 DEF RowsStand, NoRow

\* Each step keeps the first invariant, and leaves the other requests alone.
LEMMA CommitKeepsRInv ==
  ASSUME RInv, NEW r \in Requests, Commit(r)
  PROVE  RInv' /\ req'[r] = Idle /\ \A s \in Requests \ {r} : req'[s] = req[s]
<1>1. /\ req[r].at = "commit" /\ Set(r, Idle) /\ writing = NoOne
      /\ UNCHANGED <<table, populated, version, disk, mishaps, torn>>
      /\ failed' \in SUBSET {"request", "import"} /\ row' \in [Names -> Row]
  BY CommitSteps
<1>2. RowsStand'
  BY RowsStandAfterCommit
<1>3. /\ files' = files /\ writing' = writing /\ version' \in Nat /\ version <= version' /\ version' <= Len(files)
      /\ IsTables(table') /\ populated' \in SUBSET Names /\ torn' \in BOOLEAN /\ mishaps' = mishaps /\ writing # r
  BY <1>1, RState DEF disk, IsTables
<1>4. IsRequest(Idle) /\ IsPlaced(Idle) /\ PlanFits(Idle, files, version') /\ Idle.at # "inject"
  BY IdleIsRequest, IdleFits, IdleParts
<1>. QED
  BY <1>1, <1>2, <1>3, <1>4, AfterStep

LEMMA FinalizeKeepsRInv ==
  ASSUME RInv, NEW r \in Requests, Finalize(r)
  PROVE  RInv' /\ req'[r] = Idle /\ \A s \in Requests \ {r} : req'[s] = req[s]
<1>1. /\ req[r].at = "finalize" /\ Set(r, Idle) /\ writing = NoOne /\ req[r].name \in Names
      /\ UNCHANGED <<table, populated, version, disk, mishaps, torn>>
      /\ failed' \in SUBSET {"request", "import"} /\ row' \in [Names -> Row]
      /\ row' = row \/ row' = [row EXCEPT ![req[r].name] = NoRow]
  BY FinalizeSteps
<1>2. files' = files /\ version' = version
  BY <1>1 DEF disk
<1>3. RowsStand'
  <2>1. \A n \in Names : row'[n] # NoRow => row'[n] = row[n]
    BY <1>1, RState
  <2>2. \A n \in Names : row'[n] # NoRow => Stands(n, row'[n].id, row'[n].rev, files', version')
    BY <1>2, <2>1, RState
  <2>. QED
    BY <2>2 DEF RowsStand, NoRow
<1>4. /\ files' = files /\ writing' = writing /\ version' \in Nat /\ version <= version' /\ version' <= Len(files)
      /\ IsTables(table') /\ populated' \in SUBSET Names /\ torn' \in BOOLEAN /\ mishaps' = mishaps /\ writing # r
  BY <1>1, RState DEF disk, IsTables
<1>5. IsRequest(Idle) /\ IsPlaced(Idle) /\ PlanFits(Idle, files, version') /\ Idle.at # "inject"
  BY IdleIsRequest, IdleFits, IdleParts
<1>. QED
  BY <1>1, <1>3, <1>4, <1>5, AfterStep

LEMMA ExecuteKeepsRInv ==
  ASSUME RInv, NEW r \in Requests, Execute(r)
  PROVE  RInv' /\ \A s \in Requests \ {r} : req'[s] = req[s]
<1>1. /\ req[r].at = "execute" /\ Applied(r) /\ UNCHANGED <<row, disk, mishaps, failed>>
      /\ IsTables(table') /\ populated' \in SUBSET Names /\ torn' \in BOOLEAN
      /\ version <= version' /\ version' <= Len(files) /\ version' \in Nat
      /\ req[r].upto <= version'
  BY ExecuteSteps
<1>2. PICK q : /\ Set(r, q) /\ IsRequest(q) /\ IsPlaced(q) /\ ~Flying(q) /\ ~Busy(q)
               /\ Over(q, q.at, q.writes)
               /\ \/ q.writes = {} /\ q.at \in {"idle", "finalize"}
                  \/ /\ Flying(req[r]) /\ req[r].op \in {"create", "update"} /\ q.at \in {"item", "commit"}
                     /\ q.writes = req[r].writes \cup {NewRow(r)}
  BY <1>1, AppliedRequest
<1>3. PlanFits(q, files, version')
  <2>1. PlanFits(req[r], files, version')
    BY <1>1, RState, PlanGrows
  <2>2. \A w \in req[r].writes : Stands(w.name, w.id, w.rev, files, version')
    BY <2>1 DEF PlanFits
  <2>3. Flying(req[r]) => req[r].rev <= version' /\ req[r].rev \in Nat
    BY <1>1, PlanRange
  <2>4. \A w \in q.writes : Stands(w.name, w.id, w.rev, files, version')
    BY <1>1, <1>2, <2>2, <2>3, NewRowFacts
  <2>. QED
    BY <1>2, <2>4 DEF PlanFits
<1>4. files' = files /\ writing' = writing /\ row' = row /\ row' \in [Names -> Row] /\ mishaps' = mishaps
      /\ failed' \in SUBSET {"request", "import"} /\ writing # r /\ q.at # "inject"
  BY <1>1, <1>2, RState DEF disk
<1>. QED
  BY <1>1, <1>2, <1>3, <1>4, AfterStep

LEMMA ExecuteFailsKeepsRInv ==
  ASSUME RInv, NEW r \in Requests, ExecuteFails(r)
  PROVE  RInv' /\ \A s \in Requests \ {r} : req'[s] = req[s]
<1>1. /\ req[r].at = "execute" /\ Failed(r) /\ UNCHANGED <<row, disk, mishaps, torn>>
      /\ IsTables(table') /\ populated' \in SUBSET Names
      /\ version <= version' /\ version' <= Len(files) /\ version' \in Nat
  BY ExecuteFailsSteps
<1>2. PICK q : /\ Set(r, q) /\ IsRequest(q) /\ IsPlaced(q) /\ q.at \in {"item", "idle"}
               /\ \A v \in Nat : version <= v /\ v <= Len(files) => PlanFits(q, files, v)
  BY <1>1, FailedTurns
<1>3. files' = files /\ writing' = writing /\ row' = row /\ row' \in [Names -> Row] /\ mishaps' = mishaps
      /\ failed' \in SUBSET {"request", "import"} /\ writing # r /\ q.at # "inject" /\ torn' \in BOOLEAN
  BY <1>1, <1>2, RState, FailedTurns DEF disk
<1>. QED
  BY <1>1, <1>2, <1>3, AfterStep

LEMMA GenerateKeepsRInv ==
  ASSUME RInv, NEW r \in Requests, Generate(r)
  PROVE  RInv' /\ \A s \in Requests \ {r} : req'[s] = req[s]
<1>1. PICK q, f : /\ Set(r, q) /\ writing = NoOne /\ writing' = r
                  /\ q.at = "inject" /\ q.rev = Len(files) + 1
                  /\ IsRequest(q) /\ IsPlaced(q) /\ PlanFits(q, files', version) /\ Flying(q) /\ Grows(files, files')
                  /\ files' \in Seq(File) /\ Len(files') = Len(files) + 1 /\ Len(files') <= MaxFiles
  BY GenerateSteps
<1>2. /\ version' = version /\ row' = row /\ table' = table /\ populated' = populated /\ mishaps' = mishaps
      /\ torn' = torn /\ failed' = failed
  BY DEF Generate, db, history
<1>3. version \in Nat /\ version <= Len(files) /\ Len(files) \in Nat /\ row \in [Names -> Row]
  BY RState
<1>4. /\ RequestsFit'
      /\ \A s \in Requests : writing' = s <=> req'[s].at = "inject"
      /\ \A s \in Requests : req'[s].at \in At
      /\ \A s \in Requests : req'[s].writes # {} => req'[s].at = "commit" \/ req'[s].batch
      /\ req'[r] = q /\ \A s \in Requests \ {r} : req'[s] = req[s]
  BY <1>1, <1>2, <1>3, RequestsStep
<1>5. RowsStand'
  BY <1>1, <1>2, <1>3, RowsKept
<1>6. TypeOK'
  BY <1>1, <1>2, <1>3, <1>4 DEF RInv, TypeOK
<1>. QED
  BY <1>4, <1>5, <1>6 DEF RInv

LEMMA InjectKeepsRInv ==
  ASSUME RInv, NEW r \in Requests, Inject(r)
  PROVE  RInv' /\ \A s \in Requests \ {r} : req'[s] = req[s]
<1>1. PICK q : /\ Set(r, q) /\ writing = r /\ writing' = NoOne /\ files' = files /\ q.at = "apply"
               /\ IsRequest(q) /\ IsPlaced(q) /\ PlanFits(q, files, version)
  BY InjectSteps
<1>2. /\ version' = version /\ row' = row /\ table' = table /\ populated' = populated /\ mishaps' = mishaps
      /\ torn' = torn /\ failed' = failed
  BY DEF Inject, db, history
<1>3. /\ version \in Nat /\ version <= Len(files) /\ row \in [Names -> Row] /\ IsTables(table) /\ populated \in SUBSET Names
      /\ failed \in SUBSET {"request", "import"} /\ torn \in BOOLEAN
  BY RState
<1>4. IsTables(table')
  BY <1>2, <1>3
<1>. QED
  BY <1>1, <1>2, <1>3, <1>4, AfterStep

\* A crash empties the file that had no body yet and keeps its name, so what stands stands.
LEMMA CrashKeepsRInv == ASSUME RInv, Crash PROVE RInv'
<1>1. /\ mishaps < MaxMishaps /\ mishaps' = mishaps + 1 /\ req' = [r \in Requests |-> Idle]
      /\ files' = (IF writing = NoOne THEN files ELSE [files EXCEPT ![Len(files)].op = "none"])
      /\ writing' = NoOne
      /\ version' = version /\ row' = row /\ table' = table /\ populated' = populated
      /\ torn' = torn /\ failed' = failed
  BY DEF Crash, db, history
<1>2. /\ files \in Seq(File) /\ Len(files) \in Nat /\ version \in Nat /\ version <= Len(files)
      /\ Len(files) <= MaxFiles
  BY RState
<1>3. writing # NoOne => Len(files) # 0
  <2>1. writing # NoOne => Flying(req[writing]) /\ req[writing].rev \in 1..Len(files)
    BY RState DEF IsPlaced, PlanFits
  <2>. QED
    BY <1>2, <2>1
<1>4. /\ files' \in Seq(File) /\ Len(files') = Len(files)
      /\ \A k \in 1..Len(files) : /\ files'[k].name = files[k].name /\ files'[k].fields = files[k].fields
                                  /\ files'[k].op = files[k].op \/ files'[k].op = "none"
  <2>1. CASE writing = NoOne
    BY <1>1, <1>2, <2>1
  <2>2. CASE writing # NoOne
    <3>. DEFINE last == [files[Len(files)] EXCEPT !.op = "none"]
    <3>1. files' = [files EXCEPT ![Len(files)] = last] /\ Len(files) \in 1..Len(files)
      BY <1>1, <1>2, <1>3, <2>2
    <3>2. files[Len(files)] \in File
      BY <1>2, <3>1
    <3>3. last \in File /\ last.name = files[Len(files)].name /\ last.fields = files[Len(files)].fields /\ last.op = "none"
      BY <3>2 DEF File
    <3>. HIDE DEF last
    <3>4. files' \in Seq(File) /\ Len(files') = Len(files)
          /\ \A k \in 1..Len(files) : files'[k] = IF k = Len(files) THEN last ELSE files[k]
      BY <1>2, <3>1, <3>3
    <3>. QED
      BY <3>3, <3>4
  <2>. QED
    BY <2>1, <2>2
<1>5. \A r \in Requests : req'[r] = Idle
  BY <1>1
<1>6. RequestsFit'
  BY <1>1, <1>5, IdleIsRequest, IdleFits DEF RequestsFit
<1>7. RowsStand'
  <2>1. ASSUME NEW n \in Names, row[n] # NoRow PROVE Stands(n, row[n].id, row[n].rev, files', version)
    <3>1. Stands(n, row[n].id, row[n].rev, files, version)
      BY <2>1, RState
    <3>. QED
      BY <1>2, <1>4, <3>1 DEF Stands
  <2>2. \A n \in Names : row'[n] # NoRow => Stands(n, row'[n].id, row'[n].rev, files', version')
    BY <1>1, <2>1
  <2>. QED
    BY <2>2 DEF RowsStand, NoRow
<1>8. TypeOK'
  <2>1. \A r \in Requests : req'[r].at \in At /\ (writing' = r <=> req'[r].at = "inject") /\ req'[r].writes = {}
    BY <1>1, <1>5, IdleParts DEF At
  <2>2. mishaps' \in 0..MaxMishaps
    BY <1>1, RState
  <2>. QED
    BY <1>1, <1>2, <1>4, <2>1, <2>2 DEF RInv, TypeOK
<1>. QED
  BY <1>6, <1>7, <1>8 DEF RInv

\* It holds at the start.
LEMMA InitRInv == Init => RInv
<1>. SUFFICES ASSUME Init PROVE RInv
  OBVIOUS
<1>1. /\ row = [n \in Names |-> NoRow] /\ table = [n \in Names |-> {}] /\ populated = {} /\ files = <<>> /\ version = 0
      /\ writing = NoOne /\ req = [r \in Requests |-> Idle] /\ mishaps = 0 /\ torn = FALSE /\ failed = {}
  BY DEF Init
<1>2. \A r \in Requests : req[r] = Idle
  BY <1>1
<1>3. RequestsFit
  BY <1>1, <1>2, IdleIsRequest, IdleFits DEF RequestsFit
<1>4. RowsStand
  BY <1>1 DEF RowsStand
<1>5. TypeOK
  <2>1. \A r \in Requests : req[r].at \in At /\ (writing = r <=> req[r].at = "inject") /\ req[r].writes = {}
    BY <1>1, <1>2, IdleParts DEF At
  <2>2. NoRow \in Row /\ files \in Seq(File) /\ Len(files) = 0
    BY <1>1 DEF NoRow, Row
  <2>3. row \in [Names -> Row] /\ table \in [Names -> SUBSET (Fields \cup {Id})]
        /\ \A n \in Names : table[n] = {}
    BY <1>1, <2>2
  <2>4. version \in 0..Len(files) /\ Len(files) <= MaxFiles /\ mishaps \in 0..MaxMishaps
    BY <1>1, <2>2
  <2>5. writing \in Requests \cup {NoOne} /\ torn \in BOOLEAN /\ failed \subseteq {"request", "import"}
        /\ populated \subseteq Names
    BY <1>1
  <2>. QED
    BY <2>1, <2>2, <2>3, <2>4, <2>5 DEF TypeOK
<1>. QED
  BY <1>3, <1>4, <1>5 DEF RInv

\* The first invariant is inductive.
LEMMA NextKeepsRInv == ASSUME RInv, [Next]_vars PROVE RInv'
<1>1. ASSUME NEW r \in Requests, NEW n \in Names, DeleteRead(r, n) PROVE RInv'
  BY <1>1, DeleteReadTurns, TurnedKeeps, RState DEF DeleteRead, history
<1>2. ASSUME NEW r \in Requests, NEW n \in Names, NEW S \in Schemas, CreateRead(r, n, S) PROVE RInv'
  BY <1>2, CreateReadTurns, TurnedKeeps, RState DEF CreateRead, history
<1>3. ASSUME NEW r \in Requests, NEW n \in Names, NEW S \in Schemas, UpdateRead(r, n, S) PROVE RInv'
  <2>1. PICK q : Turned(r, q)
    BY <1>3, UpdateReadTurns
  <2>2. UNCHANGED <<db, disk, mishaps, torn>> /\ failed' = failed
    BY <1>3 DEF UpdateRead, history
  <2>. QED
    BY <2>1, <2>2, TurnedKeeps, RState
<1>4. ASSUME NEW r \in Requests, NEW items \in Imports, NEW strategy \in Strategies, ImportStart(r, items, strategy)
      PROVE RInv'
  BY <1>4, ImportStartTurns, TurnedKeeps, RState DEF ImportStart, history
<1>5. ASSUME NEW r \in Requests, ImportItem(r) PROVE RInv'
  BY <1>5, ImportItemTurns, TurnedKeeps, RState DEF ImportItem, history
<1>6. ASSUME NEW r \in Requests, ImportEnds(r) PROVE RInv'
  BY <1>6, ImportEndsTurns, TurnedKeeps, RState DEF ImportEnds, history
<1>7. ASSUME NEW r \in Requests, UpgradeStart(r) PROVE RInv'
  BY <1>7, UpgradeStartTurns, TurnedKeeps, RState DEF UpgradeStart, history
<1>8. ASSUME NEW r \in Requests, LoadPlan(r) PROVE RInv'
  BY <1>8, LoadPlanTurns, TurnedKeeps, RState DEF LoadPlan, history
<1>9. ASSUME NEW r \in Requests, GenerateFails(r) \/ LoadFails(r) PROVE RInv'
  <2>1. /\ Failed(r) /\ req[r].at \in {"generate", "apply", "execute"} /\ req[r].at # "inject"
        /\ UNCHANGED <<db, disk, mishaps, torn>>
    BY <1>9 DEF GenerateFails, LoadFails
  <2>2. failed' \in SUBSET {"request", "import"}
    BY <2>1, FailedTurns
  <2>3. PICK q : /\ Set(r, q) /\ IsRequest(q) /\ IsPlaced(q) /\ q.at \in {"item", "idle"}
                 /\ \A v \in Nat : version <= v /\ v <= Len(files) => PlanFits(q, files, v)
    BY <2>1, FailedTurns
  <2>4. PlanFits(q, files, version) /\ q.at # "inject"
    BY <2>3, RState
  <2>. QED
    BY <2>1, <2>2, <2>3, <2>4, OnlyRequest
<1>10. ASSUME NEW n \in Names, InsertRecord(n) PROVE RInv'
  <2>1. /\ populated' \in SUBSET Names /\ UNCHANGED <<row, table, version, files, writing, req, mishaps, torn, failed>>
    BY <1>10, RState DEF InsertRecord, disk, history
  <2>. QED
    BY <2>1 DEF RInv, TypeOK, RequestsFit, RowsStand
<1>11. CASE UNCHANGED vars
  BY <1>11 DEF vars, db, disk, history, RInv, TypeOK, RequestsFit, RowsStand
<1>. QED
  BY <1>1, <1>2, <1>3, <1>4, <1>5, <1>6, <1>7, <1>8, <1>9, <1>10, <1>11, GenerateKeepsRInv, InjectKeepsRInv,
     ExecuteKeepsRInv, ExecuteFailsKeepsRInv, CommitKeepsRInv, FinalizeKeepsRInv, CrashKeepsRInv DEF Next, Request

\* At all times the variables have their types.
THEOREM SpecTypeOK == Spec => []TypeOK
<1>1. RInv /\ [Next]_vars => RInv'
  BY NextKeepsRInv
<1>2. RInv => TypeOK
  BY DEF RInv
<1>. QED
  BY InitRInv, <1>1, <1>2, PTL DEF Spec

\* Whatever the requests do at once and whatever fails, the migration_revision of a listed
\* collection is a migration of that collection that has been applied.
THEOREM SpecRevisionIsApplied == Spec => []RevisionIsApplied
<1>1. RInv /\ [Next]_vars => RInv'
  BY NextKeepsRInv
<1>2. RInv => RevisionIsApplied
  BY RState DEF RevisionIsApplied, Stands
<1>. QED
  BY InitRInv, <1>1, <1>2, PTL DEF Spec

-----------------------------------------------------------------------------
(* The tables: what the chain has added and not dropped, they have.         *)

Adds(f, n)  == f.op \in {"create", "extend"} /\ f.name = n
Drops(f, n) == f.op = "drop" /\ f.name = n

\* The tables t have the columns of the first v files, as far as no later one drops them.
Kept(t, fs, v) ==
  \A k \in 1..v : \A n \in Names :
    Adds(fs[k], n) /\ (\A j \in k + 1..v : ~Drops(fs[j], n)) =>
      {Id} \cup Physical(fs[k].fields) \subseteq t[n]

\* Collection id of name n got the fields S from the first v files.
Covered(n, id, S, fs, v) ==
  /\ id \in 1..v /\ fs[id].name = n /\ fs[id].op = "create"
  /\ \A x \in S : \E k \in id..v : Adds(fs[k], n) /\ x \in fs[k].fields

\* A file that has no body yet is applied by no plan that took it for complete.
NotTorn ==
  /\ writing # NoOne => version < Len(files)
  /\ \A r \in Requests :
       req[r].at = "execute" /\ writing # NoOne /\ ~req[r].torn => req[r].upto < Len(files)

\* Every field a request is to list has a file that adds it.
Accounted(q, fs, v) ==
  /\ \A w \in q.writes : Covered(w.name, w.id, w.fields, fs, v)
  /\ q.at = "generate" /\ q.op = "update" => Covered(q.name, q.id, q.old, fs, v)
  /\ Flying(q) /\ q.op = "create" => q.fields \subseteq fs[q.rev].fields
  /\ Flying(q) /\ q.op = "update" => Covered(q.name, q.id, q.fields \ fs[q.rev].fields, fs, v)

RowsCovered == \A n \in Names : row[n] # NoRow => Covered(n, row[n].id, row[n].fields, files, version)

ChainHolds ==
  /\ Kept(table, files, version)
  /\ NotTorn
  /\ RowsCovered
  /\ \A r \in Requests : Accounted(req[r], files, version)

CInv == ~torn => ChainHolds

\* One more file.
LEMMA KeptStep ==
  ASSUME NEW t, NEW fs \in Seq(File), NEW i \in Nat, i + 1 <= Len(fs), IsTables(t), Kept(t, fs, i),
         Applicable(t, fs[i + 1])
  PROVE  Kept(Effect(t, fs[i + 1]), fs, i + 1)
<1>. DEFINE f == fs[i + 1]
            u == Effect(t, f)
<1>1. f \in File /\ f.name \in Names /\ f.fields \subseteq Fields /\ f.op \in {"create", "extend", "drop", "none"}
  <2>1. i + 1 \in 1..Len(fs)
    OBVIOUS
  <2>2. f \in File
    BY <2>1, ElementOfSeq
  <2>. QED
    BY <2>2 DEF File
<1>2. SUFFICES ASSUME NEW k \in 1..i + 1, NEW n \in Names, Adds(fs[k], n), \A j \in k + 1..i + 1 : ~Drops(fs[j], n)
               PROVE  {Id} \cup Physical(fs[k].fields) \subseteq u[n]
  BY DEF Kept
<1>3. CASE k = i + 1
  <2>1. CASE f.op = "create"
    BY <1>1, <1>2, <1>3, <2>1 DEF Effect, Adds, IsTables
  <2>2. CASE f.op = "extend"
    <3>1. t[n] # {} /\ Id \in t[n]
      BY <1>1, <1>2, <1>3, <2>2 DEF Applicable, IsTables, Adds
    <3>2. u[n] = t[n] \cup Physical(f.fields)
      BY <1>1, <1>2, <1>3, <2>2 DEF Effect, Adds, IsTables
    <3>. QED
      BY <1>3, <3>1, <3>2
  <2>. QED
    BY <1>2, <1>3, <2>1, <2>2 DEF Adds
<1>4. CASE k # i + 1
  <2>1. k \in 1..i /\ \A j \in k + 1..i : ~Drops(fs[j], n)
    BY <1>2, <1>4
  <2>2. {Id} \cup Physical(fs[k].fields) \subseteq t[n]
    BY <1>2, <2>1 DEF Kept
  <2>3. ~Drops(f, n)
    <3>1. i + 1 \in k + 1..i + 1
      BY <2>1
    <3>. QED
      BY <1>2, <3>1
  <2>4. t[n] \subseteq u[n]
    <3>1. CASE f.op = "none"
      BY <3>1 DEF Effect
    <3>2. CASE f.op = "create"
      <4>1. t[f.name] = {} /\ f.name # n
        BY <2>2, <3>2 DEF Applicable
      <4>. QED
        BY <1>1, <3>2, <4>1 DEF Effect, IsTables
    <3>3. CASE f.op = "extend"
      BY <1>1, <3>3 DEF Effect, IsTables
    <3>4. CASE f.op = "drop"
      <4>1. f.name # n
        BY <2>3, <3>4 DEF Drops
      <4>. QED
        BY <1>1, <3>4, <4>1 DEF Effect, IsTables
    <3>. QED
      BY <1>1, <3>1, <3>2, <3>3, <3>4
  <2>. QED
    BY <2>2, <2>4
<1>. QED
  BY <1>3, <1>4

\* Along a plan whose files have their bodies.
LEMMA PlanKeeps ==
  ASSUME RInv, NEW r \in Requests, req[r].at = "execute", req[r].from = version,
         NEW k \in version..req[r].upto, Executable(r, k), ~(req[r].torn /\ k = req[r].upto),
         Kept(table, files, version)
  PROVE  Kept(TablesAfter(r)[k], files, k)
<1>. DEFINE S == {i \in version..k : Kept(TablesAfter(r)[i], files, i)}
<1>1. /\ files \in Seq(File) /\ Len(files) \in Nat /\ version \in Nat /\ req[r].upto \in Nat /\ req[r].upto <= Len(files)
      /\ version <= req[r].upto /\ k \in Nat /\ IsTables(table)
  BY PlanRange, RState
<1>2. TablesAfter(r)[version] = table /\ \A j \in version + 1..req[r].upto : TablesAfter(r)[j] = Effect(TablesAfter(r)[j - 1], FileRead(r, j))
  BY <1>1, TablesExist
<1>3. \A i \in version..k : IsTables(TablesAfter(r)[i])
  BY <1>1, PlanIsTables
<1>4. version \in S
  BY <1>1, <1>2
<1>5. ASSUME NEW i \in version..k, i \in S, i + 1 <= k PROVE i + 1 \in S
  <2>1. /\ i + 1 \in version + 1..req[r].upto /\ i + 1 \in 1..Len(files) /\ i + 1 \in version + 1..k /\ (i + 1) - 1 = i
        /\ i \in Nat /\ i + 1 \in version..k
    BY <1>1, <1>5
  <2>2. FileRead(r, i + 1) = files[i + 1]
    <3>1. ~(req[r].torn /\ i + 1 = req[r].upto)
      BY <1>1, <1>5
    <3>. QED
      BY <1>1, <2>1, <3>1, FileReadFacts
  <2>3. TablesAfter(r)[i + 1] = Effect(TablesAfter(r)[(i + 1) - 1], FileRead(r, i + 1))
    BY <1>2, <2>1, Zenon
  <2>4. TablesAfter(r)[i + 1] = Effect(TablesAfter(r)[i], files[i + 1])
    BY <2>1, <2>2, <2>3, Zenon
  <2>5. Applicable(TablesAfter(r)[(i + 1) - 1], FileRead(r, i + 1))
    BY <1>1, <2>1 DEF Executable
  <2>6. Applicable(TablesAfter(r)[i], files[i + 1])
    BY <2>1, <2>2, <2>5, Zenon
  <2>7. Kept(TablesAfter(r)[i + 1], files, i + 1)
    BY <1>1, <1>3, <1>5, <2>1, <2>4, <2>6, KeptStep
  <2>. QED
    BY <2>1, <2>7
<1>6. \A i \in version..k : i \in S
  <2>. HIDE DEF S
  <2>. QED
    BY <1>1, <1>4, <1>5, Interval
<1>. QED
  BY <1>1, <1>6

\* What is covered stays covered when the chain grows, or is emptied at its unapplied end.
LEMMA CoveredGrows ==
  ASSUME NEW fs, NEW gs, NEW v \in Nat, NEW u \in Nat, v <= u, \A k \in 1..v : gs[k] = fs[k],
         NEW n, NEW id, NEW S, NEW R \in SUBSET S, Covered(n, id, S, fs, v)
  PROVE  Covered(n, id, R, gs, u)
<1>1. id \in 1..v /\ id \in 1..u /\ gs[id] = fs[id] /\ fs[id].name = n /\ fs[id].op = "create"
  BY DEF Covered
<1>2. ASSUME NEW x \in R PROVE \E k \in id..u : Adds(gs[k], n) /\ x \in gs[k].fields
  <2>1. PICK k \in id..v : Adds(fs[k], n) /\ x \in fs[k].fields
    BY DEF Covered
  <2>2. k \in id..u /\ gs[k] = fs[k]
    BY <1>1, <2>1
  <2>. QED
    BY <2>1, <2>2
<1>. QED
  BY <1>1, <1>2 DEF Covered

\* What a request accounts for, it accounts for in a longer chain.
LEMMA AccountedGrows ==
  ASSUME NEW q, NEW fs, NEW gs, NEW v \in Nat, NEW u \in Nat, v <= u, v <= Len(fs), Grows(fs, gs), Len(fs) \in Nat,
         PlanFits(q, fs, v), Accounted(q, fs, v)
  PROVE  Accounted(q, gs, u)
<1>1. \A k \in 1..v : gs[k] = fs[k]
  BY DEF Grows
<1>2. \A w \in q.writes : Covered(w.name, w.id, w.fields, gs, u)
  BY <1>1, CoveredGrows DEF Accounted
<1>3. q.at = "generate" /\ q.op = "update" => Covered(q.name, q.id, q.old, gs, u)
  BY <1>1, CoveredGrows DEF Accounted
<1>4. Flying(q) => gs[q.rev] = fs[q.rev]
  BY DEF PlanFits, Grows
<1>5. Flying(q) /\ q.op = "create" => q.fields \subseteq gs[q.rev].fields
  BY <1>4 DEF Accounted
<1>6. Flying(q) /\ q.op = "update" => Covered(q.name, q.id, q.fields \ gs[q.rev].fields, gs, u)
  BY <1>1, <1>4, CoveredGrows DEF Accounted
<1>. QED
  BY <1>2, <1>3, <1>5, <1>6 DEF Accounted

\* So do the rows.
LEMMA RowsCoveredGrows ==
  ASSUME RInv, RowsCovered, row' = row, version' \in Nat, version <= version', \A k \in 1..version : files'[k] = files[k]
  PROVE  RowsCovered'
<1>1. version \in Nat
  BY RState
<1>2. ASSUME NEW n, NEW id, NEW S, Covered(n, id, S, files, version) PROVE Covered(n, id, S, files', version')
  <2>1. S \in SUBSET S
    OBVIOUS
  <2>. QED
    BY <1>1, <1>2, <2>1, CoveredGrows
<1>3. \A n \in Names : row'[n] # NoRow => Covered(n, row'[n].id, row'[n].fields, files', version')
  BY <1>2 DEF RowsCovered
<1>. QED
  BY <1>3 DEF RowsCovered, NoRow

\* Tables that have what the chain says have it when the chain grows behind the version.
LEMMA KeptGrows ==
  ASSUME NEW t, NEW fs, NEW gs, NEW v \in Nat, \A k \in 1..v : gs[k] = fs[k], Kept(t, fs, v)
  PROVE  Kept(t, gs, v)
<1>1. SUFFICES ASSUME NEW k \in 1..v, NEW n \in Names, Adds(gs[k], n), \A j \in k + 1..v : ~Drops(gs[j], n)
               PROVE  {Id} \cup Physical(gs[k].fields) \subseteq t[n]
  BY DEF Kept
<1>2. gs[k] = fs[k] /\ \A j \in k + 1..v : gs[j] = fs[j]
  OBVIOUS
<1>. QED
  BY <1>1, <1>2 DEF Kept

\* The requests after a step of r that makes it q.
LEMMA AccountedStep ==
  ASSUME RInv, ChainHolds, NEW r \in Requests, NEW q, req'[r] = q, \A s \in Requests \ {r} : req'[s] = req[s],
         Grows(files, files'), version' \in Nat, version <= version', Accounted(q, files', version')
  PROVE  \A s \in Requests : Accounted(req'[s], files', version')
<1>. SUFFICES ASSUME NEW s \in Requests PROVE Accounted(req'[s], files', version')
  OBVIOUS
<1>1. CASE s = r
  BY <1>1
<1>2. CASE s # r
  <2>1. /\ Accounted(req[s], files, version) /\ PlanFits(req[s], files, version) /\ version \in Nat /\ version <= Len(files)
        /\ Len(files) \in Nat
    BY RState DEF ChainHolds
  <2>2. Accounted(req[s], files', version')
    BY <2>1, AccountedGrows
  <2>. QED
    BY <1>2, <2>2
<1>. QED
  BY <1>1, <1>2

\* Steps that move request r to q and leave tables, chain and rows.
LEMMA ChainAfterStep ==
  ASSUME RInv, ChainHolds, NEW r \in Requests, NEW q, req'[r] = q, \A s \in Requests \ {r} : req'[s] = req[s],
         UNCHANGED <<row, table, version, disk>>, Accounted(q, files, version),
         q.at = "execute" /\ writing # NoOne /\ ~q.torn => q.upto < Len(files)
  PROVE  ChainHolds'
<1>1. /\ files' = files /\ writing' = writing /\ version' = version /\ row' = row /\ table' = table
      /\ Grows(files, files') /\ version \in Nat
  BY RState DEF disk
<1>2. Kept(table', files', version')
  BY <1>1 DEF ChainHolds
<1>3. \A s \in Requests : Accounted(req'[s], files', version')
  BY <1>1, AccountedStep
<1>4. RowsCovered'
  BY <1>1, RowsCoveredGrows DEF ChainHolds
<1>5. NotTorn'
  BY <1>1 DEF ChainHolds, NotTorn
<1>. QED
  BY <1>2, <1>3, <1>4, <1>5 DEF ChainHolds

\* A request that reads, starts, or goes on.
LEMMA ReadsAreAccounted ==
  ASSUME RInv, ChainHolds, NEW r \in Requests, NEW q,
         ~Flying(q), q.writes = {} \/ q.writes = req[r].writes,
         q.at = "generate" /\ q.op = "update" =>
           row[q.name] # NoRow /\ q.id = row[q.name].id /\ q.old = row[q.name].fields /\ q.name \in Names
  PROVE  Accounted(q, files, version)
<1>1. Accounted(req[r], files, version) /\ RowsCovered
  BY DEF ChainHolds
<1>2. \A w \in q.writes : Covered(w.name, w.id, w.fields, files, version)
  BY <1>1 DEF Accounted
<1>3. q.at = "generate" /\ q.op = "update" => Covered(q.name, q.id, q.old, files, version)
  BY <1>1 DEF RowsCovered
<1>. QED
  BY <1>2, <1>3 DEF Accounted

\* A request that has failed accounts for the writes it keeps.
LEMMA FailedIsAccounted ==
  ASSUME RInv, ChainHolds, NEW r \in Requests, NEW q, q.writes = req[r].writes, ~Flying(q), q.at \in {"item", "idle"},
         NEW v \in Nat, version <= v
  PROVE  Accounted(q, files, v)
<1>1. Accounted(req[r], files, version) /\ version \in Nat /\ PlanFits(req[r], files, version) /\ files \in Seq(File)
      /\ Grows(files, files) /\ Len(files) \in Nat /\ version <= Len(files)
  BY RState DEF ChainHolds
<1>2. Accounted(req[r], files, v)
  BY <1>1, AccountedGrows
<1>. QED
  BY <1>2 DEF Accounted

\* The row of a migration that has been applied is covered.
LEMMA NewRowCovered ==
  ASSUME RInv, ChainHolds, NEW r \in Requests, Flying(req[r]), req[r].op \in {"create", "update"},
         NEW v \in Nat, version <= v, req[r].rev <= v
  PROVE  Covered(NewRow(r).name, NewRow(r).id, NewRow(r).fields, files, v)
<1>1. /\ NewRow(r).name = req[r].name /\ NewRow(r).rev = req[r].rev /\ NewRow(r).fields = req[r].fields
      /\ req[r].op = "create" => NewRow(r).id = req[r].rev
      /\ req[r].op = "update" => NewRow(r).id = req[r].id
      /\ req[r].rev \in 1..Len(files)
  BY NewRowFacts
<1>2. Accounted(req[r], files, version) /\ PlanFits(req[r], files, version) /\ version \in Nat
  BY RState DEF ChainHolds
<1>3. files[req[r].rev].name = req[r].name /\ files[req[r].rev].op = FileOp(req[r].op)
  BY <1>2 DEF PlanFits
<1>4. CASE req[r].op = "create"
  <2>1. req[r].rev \in 1..v /\ req[r].rev \in req[r].rev..v /\ files[req[r].rev].op = "create" /\ req[r].fields \subseteq files[req[r].rev].fields
    BY <1>1, <1>2, <1>3, <1>4 DEF FileOp, Accounted
  <2>2. Adds(files[req[r].rev], req[r].name)
    BY <1>3, <2>1 DEF Adds
  <2>. QED
    BY <1>1, <1>3, <1>4, <2>1, <2>2 DEF Covered
<1>5. CASE req[r].op = "update"
  <2>1. Covered(req[r].name, req[r].id, req[r].fields \ files[req[r].rev].fields, files, version)
    BY <1>2, <1>5 DEF Accounted
  <2>2. files[req[r].rev].op = "extend" /\ req[r].id < req[r].rev /\ req[r].id \in 1..version
    BY <1>2, <1>3, <1>5 DEF FileOp, PlanFits, Busy
  <2>3. Adds(files[req[r].rev], req[r].name) /\ req[r].rev \in req[r].id..v
    BY <1>1, <1>2, <1>3, <2>2 DEF Adds
  <2>4. ASSUME NEW x \in req[r].fields PROVE \E k \in req[r].id..v : Adds(files[k], req[r].name) /\ x \in files[k].fields
    <3>1. CASE x \in files[req[r].rev].fields
      BY <2>3, <3>1
    <3>2. CASE x \notin files[req[r].rev].fields
      <4>1. PICK k \in req[r].id..version : Adds(files[k], req[r].name) /\ x \in files[k].fields
        BY <2>1, <3>2 DEF Covered
      <4>2. k \in req[r].id..v
        BY <1>2, <2>2, <4>1
      <4>. QED
        BY <4>1, <4>2
    <3>. QED
      BY <3>1, <3>2
  <2>5. req[r].id \in 1..v /\ files[req[r].id].name = req[r].name /\ files[req[r].id].op = "create"
    BY <1>2, <2>1, <2>2 DEF Covered
  <2>. QED
    BY <1>1, <1>5, <2>4, <2>5 DEF Covered
<1>. QED
  BY <1>4, <1>5

\* An upgrade that succeeds: the tables follow the files, and the new row is covered.
LEMMA ExecuteKeepsChain ==
  ASSUME RInv, ChainHolds, NEW r \in Requests, Execute(r), ~torn'
  PROVE  ChainHolds'
<1>1. /\ req[r].at = "execute" /\ Applied(r) /\ UNCHANGED <<row, disk, mishaps, failed>>
      /\ version <= version' /\ version' <= Len(files) /\ version' \in Nat
      /\ req[r].upto <= version'
      /\ \/ req[r].from = req[r].upto /\ version' = version /\ table' = table
         \/ /\ req[r].from = version /\ req[r].from < req[r].upto /\ version' = req[r].upto
            /\ Executable(r, req[r].upto) /\ table' = TablesAfter(r)[req[r].upto]
            /\ req[r].torn => torn'
  BY ExecuteSteps
<1>2. /\ files' = files /\ writing' = writing /\ row' = row /\ version \in Nat /\ files \in Seq(File) /\ Len(files) \in Nat
      /\ version <= Len(files) /\ Grows(files, files) /\ Grows(files, files')
  BY <1>1, RState DEF disk
<1>3. Kept(table', files', version')
  <2>1. CASE version' = version /\ table' = table
    BY <1>2, <2>1 DEF ChainHolds
  <2>2. CASE /\ req[r].from = version /\ req[r].from < req[r].upto /\ version' = req[r].upto
             /\ Executable(r, req[r].upto) /\ table' = TablesAfter(r)[req[r].upto]
             /\ req[r].torn => torn'
    <3>1. req[r].upto \in version..req[r].upto /\ ~req[r].torn
      BY <1>2, <2>2, <1>1, PlanRange
    <3>2. Kept(TablesAfter(r)[req[r].upto], files, req[r].upto)
      BY <1>1, <2>2, <3>1, PlanKeeps DEF ChainHolds
    <3>. QED
      BY <1>2, <2>2, <3>2
  <2>. QED
    BY <1>1, <2>1, <2>2
<1>4. PICK q : /\ Set(r, q) /\ ~Flying(q) /\ ~Busy(q) /\ q.at # "execute"
               /\ \/ q.writes = {}
                  \/ Flying(req[r]) /\ req[r].op \in {"create", "update"} /\ q.writes = req[r].writes \cup {NewRow(r)}
  <2>1. \E q : /\ Set(r, q) /\ ~Flying(q) /\ ~Busy(q)
               /\ \/ q.writes = {} /\ q.at \in {"idle", "finalize"}
                  \/ /\ Flying(req[r]) /\ req[r].op \in {"create", "update"} /\ q.at \in {"item", "commit"}
                     /\ q.writes = req[r].writes \cup {NewRow(r)}
    BY <1>1, AppliedRequest
  <2>. QED
    BY <2>1
<1>5. Accounted(q, files, version')
  <2>1. Accounted(req[r], files, version')
    BY <1>1, <1>2, RState, AccountedGrows DEF ChainHolds
  <2>2. Flying(req[r]) => req[r].rev <= version'
    BY <1>1, PlanRange
  <2>3. \A w \in q.writes : Covered(w.name, w.id, w.fields, files, version')
    <3>1. \A w \in req[r].writes : Covered(w.name, w.id, w.fields, files, version')
      BY <2>1 DEF Accounted
    <3>2. Flying(req[r]) /\ req[r].op \in {"create", "update"} =>
            Covered(NewRow(r).name, NewRow(r).id, NewRow(r).fields, files, version')
      BY <1>1, <2>2, NewRowCovered
    <3>. QED
      BY <1>4, <3>1, <3>2
  <2>. QED
    BY <1>4, <2>3 DEF Accounted, Busy
<1>6. req'[r] = q /\ \A s \in Requests \ {r} : req'[s] = req[s]
  BY <1>4, RState DEF Set
<1>7. \A s \in Requests : Accounted(req'[s], files', version')
  BY <1>1, <1>2, <1>5, <1>6, AccountedStep
<1>8. RowsCovered'
  BY <1>1, <1>2, RowsCoveredGrows DEF ChainHolds
<1>9. NotTorn'
  <2>1. writing' # NoOne => version' < Len(files')
    BY <1>1, <1>2 DEF ChainHolds, NotTorn
  <2>2. \A s \in Requests :
          req'[s].at = "execute" /\ writing' # NoOne /\ ~req'[s].torn => req'[s].upto < Len(files')
    BY <1>2, <1>4, <1>6 DEF ChainHolds, NotTorn
  <2>. QED
    BY <2>1, <2>2 DEF NotTorn
<1>. QED
  BY <1>3, <1>7, <1>8, <1>9 DEF ChainHolds

\* One that fails, and leaves on SQLite the files before the one that failed.
LEMMA ExecuteFailsKeepsChain ==
  ASSUME RInv, ChainHolds, NEW r \in Requests, ExecuteFails(r)
  PROVE  ChainHolds'
<1>1. /\ req[r].at = "execute" /\ Failed(r) /\ UNCHANGED <<row, disk, mishaps, torn>>
      /\ version <= version' /\ version' <= Len(files) /\ version' \in Nat
      /\ \/ version' = version /\ table' = table
         \/ /\ req[r].from = version /\ version < version' /\ version' < req[r].upto
            /\ Executable(r, version') /\ table' = TablesAfter(r)[version']
  BY ExecuteFailsSteps
<1>2. /\ files' = files /\ writing' = writing /\ row' = row /\ version \in Nat /\ files \in Seq(File) /\ Len(files) \in Nat
      /\ version <= Len(files) /\ Grows(files, files) /\ Grows(files, files')
  BY <1>1, RState DEF disk
<1>3. Kept(table', files', version')
  <2>1. CASE version' = version /\ table' = table
    BY <1>2, <2>1 DEF ChainHolds
  <2>2. CASE /\ req[r].from = version /\ version < version' /\ version' < req[r].upto
             /\ Executable(r, version') /\ table' = TablesAfter(r)[version']
    <3>1. version' \in version..req[r].upto /\ version' # req[r].upto
      BY <1>1, <1>2, <2>2, PlanRange
    <3>. DEFINE k == version'
    <3>2. Kept(TablesAfter(r)[k], files, k)
      <4>1. k \in version..req[r].upto /\ k # req[r].upto /\ Executable(r, k) /\ req[r].from = version /\ req[r].at = "execute"
            /\ Kept(table, files, version)
        BY <1>1, <2>2, <3>1 DEF ChainHolds
      <4>. HIDE DEF k
      <4>. QED
        BY <4>1, PlanKeeps
    <3>. QED
      BY <1>2, <2>2, <3>2
  <2>. QED
    BY <1>1, <2>1, <2>2
<1>4. PICK q : /\ Set(r, q) /\ ~Flying(q) /\ ~Busy(q) /\ q.writes = req[r].writes /\ q.at \in {"item", "idle"}
  BY <1>1, FailedTurns
<1>5. Accounted(q, files, version')
  BY <1>1, <1>4, FailedIsAccounted
<1>6. req'[r] = q /\ \A s \in Requests \ {r} : req'[s] = req[s]
  BY <1>4, RState DEF Set
<1>7. \A s \in Requests : Accounted(req'[s], files', version')
  BY <1>1, <1>2, <1>5, <1>6, AccountedStep
<1>8. RowsCovered'
  BY <1>1, <1>2, RowsCoveredGrows DEF ChainHolds
<1>9. NotTorn'
  <2>1. writing' # NoOne => version' < Len(files')
    BY <1>1, <1>2, PlanRange DEF ChainHolds, NotTorn
  <2>2. \A s \in Requests :
          req'[s].at = "execute" /\ writing' # NoOne /\ ~req'[s].torn => req'[s].upto < Len(files')
    BY <1>2, <1>4, <1>6 DEF ChainHolds, NotTorn
  <2>. QED
    BY <2>1, <2>2 DEF NotTorn
<1>. QED
  BY <1>3, <1>7, <1>8, <1>9 DEF ChainHolds

\* A new file: what the request accounts for was read before it.
LEMMA GenerateKeepsChain ==
  ASSUME RInv, ChainHolds, NEW r \in Requests, Generate(r)
  PROVE  ChainHolds'
<1>1. PICK q, f : /\ Set(r, q) /\ f \in File /\ writing = NoOne /\ writing' = r
                  /\ f.op = FileOp(req[r].op) /\ f.name = req[r].name /\ f.fields = req[r].fields \ req[r].old
                  /\ req[r].at = "generate" /\ q.at = "inject" /\ q.rev = Len(files) + 1
                  /\ q.op = req[r].op /\ q.name = req[r].name /\ q.id = req[r].id /\ q.fields = req[r].fields
                  /\ q.writes = req[r].writes
                  /\ Flying(q) /\ Grows(files, files')
                  /\ files' \in Seq(File) /\ Len(files') = Len(files) + 1
                  /\ files'[Len(files) + 1] = f
  BY GenerateSteps
<1>2. version' = version /\ row' = row /\ table' = table
  BY DEF Generate, db
<1>3. /\ version \in Nat /\ version <= Len(files) /\ Len(files) \in Nat /\ files \in Seq(File)
      /\ \A k \in 1..version : files'[k] = files[k]
  BY <1>1, RState DEF Grows
<1>4. Accounted(req[r], files', version) /\ IsPlaced(req[r])
  BY <1>1, <1>3, RState, AccountedGrows DEF ChainHolds
<1>5. Accounted(q, files', version)
  <2>1. \A w \in q.writes : Covered(w.name, w.id, w.fields, files', version)
    BY <1>1, <1>4 DEF Accounted
  <2>2. q.op = "create" => q.fields \subseteq files'[q.rev].fields
    BY <1>1, <1>4 DEF IsPlaced
  <2>3. ASSUME q.op = "update" PROVE Covered(q.name, q.id, q.fields \ files'[q.rev].fields, files', version)
    <3>1. Covered(q.name, q.id, req[r].old, files', version)
      BY <1>1, <1>4, <2>3 DEF Accounted
    <3>2. q.fields \ files'[q.rev].fields \in SUBSET req[r].old
      BY <1>1
    <3>. QED
      BY <1>3, <3>1, <3>2, CoveredGrows
  <2>. QED
    BY <1>1, <2>1, <2>2, <2>3 DEF Accounted
<1>6. req'[r] = q /\ \A s \in Requests \ {r} : req'[s] = req[s]
  BY <1>1, RState DEF Set
<1>7. \A s \in Requests : Accounted(req'[s], files', version')
  BY <1>1, <1>2, <1>3, <1>5, <1>6, AccountedStep
<1>8. RowsCovered'
  BY <1>2, <1>3, RowsCoveredGrows DEF ChainHolds
<1>9. Kept(table', files', version')
  BY <1>2, <1>3, KeptGrows DEF ChainHolds
<1>10. NotTorn'
  <2>1. version' < Len(files')
    BY <1>1, <1>2, <1>3
  <2>2. ASSUME NEW s \in Requests, req'[s].at = "execute" PROVE req'[s].upto < Len(files')
    <3>1. s # r /\ req'[s] = req[s] /\ req[s].at = "execute"
      BY <1>1, <1>6, <2>2
    <3>2. req[s].upto \in Nat /\ req[s].upto <= Len(files)
      BY <3>1, PlanRange
    <3>. QED
      BY <1>1, <1>3, <3>1, <3>2
  <2>. QED
    BY <2>1, <2>2 DEF NotTorn
<1>. QED
  BY <1>7, <1>8, <1>9, <1>10 DEF ChainHolds

\* The body is written: nothing that counts has changed.
LEMMA InjectKeepsChain ==
  ASSUME RInv, ChainHolds, NEW r \in Requests, Inject(r)
  PROVE  ChainHolds'
<1>1. PICK q : /\ Set(r, q) /\ writing' = NoOne /\ files' = files
               /\ req[r].at = "inject" /\ q.at = "apply" /\ q.rev = req[r].rev
               /\ q.op = req[r].op /\ q.name = req[r].name /\ q.id = req[r].id /\ q.fields = req[r].fields
               /\ q.writes = req[r].writes /\ (Flying(q) <=> Flying(req[r]))
  BY InjectSteps
<1>2. version' = version /\ row' = row /\ table' = table /\ version \in Nat /\ Grows(files, files')
  BY <1>1, RState DEF Inject, db
<1>3. Accounted(q, files', version')
  BY <1>1, <1>2 DEF ChainHolds, Accounted
<1>4. req'[r] = q /\ \A s \in Requests \ {r} : req'[s] = req[s]
  BY <1>1, RState DEF Set
<1>5. \A s \in Requests : Accounted(req'[s], files', version')
  BY <1>2, <1>3, <1>4, AccountedStep
<1>6. RowsCovered'
  BY <1>1, <1>2, RowsCoveredGrows DEF ChainHolds
<1>7. Kept(table', files', version') /\ NotTorn'
  BY <1>1, <1>2 DEF ChainHolds, NotTorn
<1>. QED
  BY <1>5, <1>6, <1>7 DEF ChainHolds

\* Steps that change rows and end their request.
LEMMA RowsChangeKeepsChain ==
  ASSUME RInv, ChainHolds, NEW r \in Requests, req'[r] = Idle, \A s \in Requests \ {r} : req'[s] = req[s],
         UNCHANGED <<table, version, disk>>, RowsCovered'
  PROVE  ChainHolds'
<1>1. files' = files /\ writing' = writing /\ version' = version /\ table' = table /\ Grows(files, files') /\ version \in Nat
  BY RState DEF disk
<1>2. Accounted(Idle, files', version')
  BY IdleParts, IdleIsRequest DEF Accounted
<1>3. \A s \in Requests : Accounted(req'[s], files', version')
  BY <1>1, <1>2, AccountedStep
<1>4. Kept(table', files', version')
  BY <1>1 DEF ChainHolds
<1>5. NotTorn'
  BY <1>1, IdleParts DEF ChainHolds, NotTorn
<1>. QED
  BY <1>3, <1>4, <1>5 DEF ChainHolds

\* A commit writes rows that its request accounted for.
LEMMA CommitKeepsChain ==
  ASSUME RInv, ChainHolds, NEW r \in Requests, Commit(r)
  PROVE  ChainHolds'
<1>1. /\ Set(r, Idle) /\ UNCHANGED <<table, populated, version, disk, mishaps, torn>>
      /\ \/ row' = row
         \/ \A n \in Names : \/ row'[n] = row[n] /\ (\A w \in req[r].writes : w.name # n)
                             \/ \E w \in req[r].writes : w.name = n /\ row'[n] = Written(w)
  BY CommitSteps
<1>2. files' = files /\ version' = version /\ req'[r] = Idle /\ \A s \in Requests \ {r} : req'[s] = req[s]
  BY <1>1, RState DEF disk, Set
<1>3. ASSUME NEW n \in Names, row'[n] # NoRow PROVE Covered(n, row'[n].id, row'[n].fields, files, version)
  <2>1. CASE row'[n] = row[n]
    BY <1>3, <2>1 DEF ChainHolds, RowsCovered
  <2>2. CASE \E w \in req[r].writes : w.name = n /\ row'[n] = Written(w)
    <3>1. PICK w \in req[r].writes : w.name = n /\ row'[n] = Written(w)
      BY <2>2
    <3>2. Covered(w.name, w.id, w.fields, files, version)
      BY DEF ChainHolds, Accounted
    <3>3. row'[n].id = w.id /\ row'[n].fields = w.fields
      BY <3>1 DEF Written
    <3>. QED
      BY <3>1, <3>2, <3>3
  <2>. QED
    BY <1>1, <2>1, <2>2
<1>4. \A n \in Names : row'[n] # NoRow => Covered(n, row'[n].id, row'[n].fields, files', version')
  BY <1>2, <1>3
<1>5. RowsCovered'
  BY <1>4 DEF RowsCovered, NoRow
<1>. QED
  BY <1>1, <1>2, <1>5, RowsChangeKeepsChain

\* A deletion that ends takes a row away.
LEMMA FinalizeKeepsChain ==
  ASSUME RInv, ChainHolds, NEW r \in Requests, Finalize(r)
  PROVE  ChainHolds'
<1>1. /\ Set(r, Idle) /\ req[r].name \in Names
      /\ UNCHANGED <<table, populated, version, disk, mishaps, torn>>
      /\ row' = row \/ row' = [row EXCEPT ![req[r].name] = NoRow]
  BY FinalizeSteps
<1>2. files' = files /\ version' = version /\ req'[r] = Idle /\ \A s \in Requests \ {r} : req'[s] = req[s]
  BY <1>1, RState DEF disk, Set
<1>3. \A n \in Names : row'[n] # NoRow => row'[n] = row[n]
  BY <1>1, RState
<1>4. \A n \in Names : row'[n] # NoRow => Covered(n, row'[n].id, row'[n].fields, files', version')
  BY <1>2, <1>3 DEF ChainHolds, RowsCovered
<1>5. RowsCovered'
  BY <1>4 DEF RowsCovered, NoRow
<1>. QED
  BY <1>1, <1>2, <1>5, RowsChangeKeepsChain

\* A crash forgets the requests; the file it empties was not applied.
LEMMA CrashKeepsChain == ASSUME RInv, ChainHolds, Crash PROVE ChainHolds'
<1>1. /\ req' = [r \in Requests |-> Idle] /\ writing' = NoOne /\ version' = version /\ row' = row /\ table' = table
      /\ files' = (IF writing = NoOne THEN files ELSE [files EXCEPT ![Len(files)].op = "none"])
  BY DEF Crash, db, history
<1>2. version \in Nat /\ Len(files) \in Nat /\ files \in Seq(File) /\ version <= Len(files)
  BY RState
<1>3. \A k \in 1..version : files'[k] = files[k]
  <2>1. CASE writing = NoOne
    BY <1>1, <2>1
  <2>2. CASE writing # NoOne
    <3>1. version < Len(files) /\ files' = [files EXCEPT ![Len(files)] = [files[Len(files)] EXCEPT !.op = "none"]]
      BY <1>1, <2>2 DEF ChainHolds, NotTorn
    <3>2. ASSUME NEW k \in 1..version PROVE k \in DOMAIN files /\ k # Len(files)
      BY <1>2, <3>1
    <3>. QED
      BY <3>1, <3>2
  <2>. QED
    BY <2>1, <2>2
<1>4. Kept(table', files', version')
  <2>1. Kept(table, files, version)
    BY DEF ChainHolds
  <2>. DEFINE gs == files'
  <2>2. \A k \in 1..version : gs[k] = files[k]
    BY <1>3
  <2>3. Kept(table, gs, version)
    <3>. HIDE DEF gs
    <3>. QED
      BY <1>2, <2>1, <2>2, KeptGrows
  <2>. QED
    BY <1>1, <2>3
<1>5. RowsCovered'
  BY <1>1, <1>2, <1>3, RowsCoveredGrows DEF ChainHolds
<1>6. \A r \in Requests : req'[r] = Idle
  BY <1>1
<1>7. \A r \in Requests : Accounted(req'[r], files', version')
  BY <1>6, IdleParts, IdleIsRequest DEF Accounted
<1>8. NotTorn'
  BY <1>1 DEF NotTorn
<1>. QED
  BY <1>4, <1>5, <1>7, <1>8 DEF ChainHolds

\* The second invariant holds at the start.
LEMMA InitCInv == Init => CInv
<1>. SUFFICES ASSUME Init PROVE ChainHolds
  BY DEF CInv
<1>1. /\ row = [n \in Names |-> NoRow] /\ version = 0 /\ writing = NoOne /\ req = [r \in Requests |-> Idle]
  BY DEF Init
<1>2. \A r \in Requests : Accounted(req[r], files, version)
  BY <1>1, IdleParts, IdleIsRequest DEF Accounted
<1>3. Kept(table, files, version)
  BY <1>1 DEF Kept
<1>. QED
  BY <1>1, <1>2, <1>3 DEF ChainHolds, NotTorn, RowsCovered

\* A step of r that reads or goes on.
LEMMA TurnKeepsChain ==
  ASSUME RInv, ChainHolds, NEW r \in Requests, NEW q, Turned(r, q), UNCHANGED <<db, disk>>,
         Accounted(q, files, version), q.at = "execute" /\ writing # NoOne /\ ~q.torn => q.upto < Len(files)
  PROVE  ChainHolds'
<1>1. req'[r] = q /\ \A s \in Requests \ {r} : req'[s] = req[s]
  BY RState DEF Turned, Set
<1>2. UNCHANGED <<row, table, version, disk>>
  BY DEF db
<1>. QED
  BY <1>1, <1>2, ChainAfterStep

\* Steps that read a row, or go on without one.
LEMMA ReadKeepsChain ==
  ASSUME RInv, ChainHolds, NEW r \in Requests, NEW q, Turned(r, q), UNCHANGED <<db, disk>>,
         ~Flying(q), q.at # "execute", q.writes = {} \/ q.writes = req[r].writes,
         q.at = "generate" /\ q.op = "update" =>
           row[q.name] # NoRow /\ q.id = row[q.name].id /\ q.old = row[q.name].fields /\ q.name \in Names
  PROVE  ChainHolds'
BY ReadsAreAccounted, TurnKeepsChain

\* The second invariant is inductive, beside the first.
LEMMA NextKeepsChain == ASSUME RInv, ChainHolds, [Next]_vars, ~torn' PROVE ChainHolds'
<1>1. ASSUME NEW r \in Requests, NEW n \in Names, DeleteRead(r, n) PROVE ChainHolds'
  <2>1. PICK q : Turned(r, q) /\ q.at = "generate" /\ q.op = "delete" /\ q.writes = {}
    BY <1>1, DeleteReadTurns
  <2>2. UNCHANGED <<db, disk>> /\ ~Flying(q)
    BY <1>1, <2>1 DEF DeleteRead, Flying
  <2>. QED
    BY <2>1, <2>2, ReadKeepsChain
<1>2. ASSUME NEW r \in Requests, NEW n \in Names, NEW S \in Schemas, CreateRead(r, n, S) PROVE ChainHolds'
  <2>1. PICK q : Turned(r, q) /\ q.at = "generate" /\ q.op = "create" /\ q.writes = {}
    BY <1>2, CreateReadTurns
  <2>2. UNCHANGED <<db, disk>> /\ ~Flying(q)
    BY <1>2, <2>1 DEF CreateRead, Flying
  <2>. QED
    BY <2>1, <2>2, ReadKeepsChain
<1>3. ASSUME NEW r \in Requests, NEW n \in Names, NEW S \in Schemas, UpdateRead(r, n, S) PROVE ChainHolds'
  <2>1. PICK q : /\ Turned(r, q) /\ q.at = "generate" /\ q.op = "update" /\ q.writes = {} /\ q.name = n
                 /\ row[n] # NoRow /\ q.id = row[n].id /\ q.old = row[n].fields
    BY <1>3, UpdateReadTurns
  <2>2. UNCHANGED <<db, disk>> /\ ~Flying(q)
    BY <1>3, <2>1 DEF UpdateRead, Flying
  <2>. QED
    BY <2>1, <2>2, ReadKeepsChain
<1>4. ASSUME NEW r \in Requests, NEW items \in Imports, NEW strategy \in Strategies, ImportStart(r, items, strategy)
      PROVE ChainHolds'
  <2>1. PICK q : Turned(r, q) /\ q.at = "item" /\ q.writes = {}
    BY <1>4, ImportStartTurns
  <2>2. UNCHANGED <<db, disk>> /\ ~Flying(q)
    BY <1>4, <2>1 DEF ImportStart, Flying
  <2>. QED
    BY <2>1, <2>2, ReadKeepsChain
<1>5. ASSUME NEW r \in Requests, ImportItem(r) PROVE ChainHolds'
  <2>1. PICK q : /\ Turned(r, q) /\ q.writes = req[r].writes /\ q.at \in {"item", "generate"}
                 /\ q.at = "generate" /\ q.op = "update" =>
                      row[q.name] # NoRow /\ q.id = row[q.name].id /\ q.old = row[q.name].fields
    <3>1. \E q : /\ Turned(r, q) /\ q.writes = req[r].writes
                 /\ \/ q.at = "item"
                    \/ /\ q.at = "generate"
                       /\ \/ q.op = "create"
                          \/ q.op = "update" /\ row[q.name] # NoRow /\ q.id = row[q.name].id /\ q.old = row[q.name].fields
      BY <1>5, ImportItemTurns
    <3>. QED
      BY <3>1
  <2>2. UNCHANGED <<db, disk>> /\ ~Flying(q)
    BY <1>5, <2>1 DEF ImportItem, Flying
  <2>3. q.at = "generate" => q.name \in Names
    BY <2>1 DEF Turned, IsPlaced, Busy
  <2>. QED
    BY <2>1, <2>2, <2>3, ReadKeepsChain
<1>6. ASSUME NEW r \in Requests, ImportEnds(r) PROVE ChainHolds'
  <2>1. PICK q : Turned(r, q) /\ q.at = "commit" /\ q.writes = req[r].writes
    BY <1>6, ImportEndsTurns
  <2>2. UNCHANGED <<db, disk>> /\ ~Flying(q)
    BY <1>6, <2>1 DEF ImportEnds, Flying
  <2>. QED
    BY <2>1, <2>2, ReadKeepsChain
<1>7. ASSUME NEW r \in Requests, UpgradeStart(r) PROVE ChainHolds'
  <2>1. PICK q : Turned(r, q) /\ q.at = "apply" /\ q.op = "upgrade" /\ q.writes = {}
    BY <1>7, UpgradeStartTurns
  <2>2. UNCHANGED <<db, disk>> /\ ~Flying(q)
    BY <1>7, <2>1 DEF UpgradeStart, Flying
  <2>. QED
    BY <2>1, <2>2, ReadKeepsChain
<1>8. ASSUME NEW r \in Requests, LoadPlan(r) PROVE ChainHolds'
  <2>1. PICK q : /\ Turned(r, q) /\ q.at = "execute" /\ req[r].at = "apply" /\ q.writes = req[r].writes
                 /\ q.op = req[r].op /\ q.name = req[r].name /\ q.id = req[r].id /\ q.rev = req[r].rev
                 /\ q.fields = req[r].fields /\ q.torn = (writing # NoOne)
                 /\ (Flying(q) <=> Flying(req[r]))
    BY <1>8, LoadPlanTurns
  <2>2. UNCHANGED <<db, disk>>
    BY <1>8 DEF LoadPlan
  <2>3. Accounted(q, files, version)
    BY <2>1 DEF ChainHolds, Accounted
  <2>. QED
    BY <2>1, <2>2, <2>3, TurnKeepsChain
<1>9. ASSUME NEW r \in Requests, GenerateFails(r) \/ LoadFails(r) PROVE ChainHolds'
  <2>1. /\ Failed(r) /\ req[r].at \in {"generate", "apply", "execute"} /\ UNCHANGED <<db, disk>>
    BY <1>9 DEF GenerateFails, LoadFails
  <2>2. PICK q : Set(r, q) /\ q.at \in {"item", "idle"} /\ ~Flying(q) /\ q.writes = req[r].writes
    BY <2>1, FailedTurns
  <2>3. req'[r] = q /\ \A s \in Requests \ {r} : req'[s] = req[s]
    BY <2>2, RState DEF Set
  <2>4. Accounted(q, files, version) /\ UNCHANGED <<row, table, version, disk>>
    BY <2>1, <2>2, RState, FailedIsAccounted DEF db
  <2>. QED
    BY <2>2, <2>3, <2>4, ChainAfterStep
<1>10. ASSUME NEW n \in Names, InsertRecord(n) PROVE ChainHolds'
  BY <1>10 DEF InsertRecord, disk, history, ChainHolds, RowsCovered, NotTorn
<1>11. CASE UNCHANGED vars
  BY <1>11 DEF vars, db, disk, history, ChainHolds, RowsCovered, NotTorn
<1>. QED
  BY <1>1, <1>2, <1>3, <1>4, <1>5, <1>6, <1>7, <1>8, <1>9, <1>10, <1>11, GenerateKeepsChain, InjectKeepsChain,
     ExecuteKeepsChain, ExecuteFailsKeepsChain, CommitKeepsChain, FinalizeKeepsChain, CrashKeepsChain DEF Next, Request

\* The history variables only grow, and at most one mishap is counted.
LEMMA HistoryGrows ==
  ASSUME RInv, [Next]_vars
  PROVE  (torn => torn') /\ failed \subseteq failed' /\ (mishaps' = mishaps \/ mishaps' = mishaps + 1)
<1>. DEFINE Grown == (torn => torn') /\ failed \subseteq failed' /\ mishaps' = mishaps
<1>1. ASSUME NEW r \in Requests, NEW n \in Names, DeleteRead(r, n) PROVE Grown
  BY <1>1, Zenon DEF DeleteRead, history
<1>2. ASSUME NEW r \in Requests, NEW n \in Names, NEW S \in Schemas, CreateRead(r, n, S) \/ UpdateRead(r, n, S)
      PROVE  Grown
  BY <1>2 DEF CreateRead, UpdateRead, history
<1>3. ASSUME NEW r \in Requests, NEW items \in Imports, NEW strategy \in Strategies, ImportStart(r, items, strategy)
      PROVE  Grown
  BY <1>3, Zenon DEF ImportStart, history
<1>4. ASSUME NEW r \in Requests, ImportItem(r) \/ ImportEnds(r) \/ UpgradeStart(r) \/ Generate(r) \/ Inject(r)
                                 \/ LoadPlan(r)
      PROVE  Grown
  <2>1. UNCHANGED <<mishaps, history>>
    <3>1. ImportItem(r) => UNCHANGED <<mishaps, history>>
      BY Zenon DEF ImportItem
    <3>2. ImportEnds(r) \/ UpgradeStart(r) \/ LoadPlan(r) => UNCHANGED <<mishaps, history>>
      BY Zenon DEF ImportEnds, UpgradeStart, LoadPlan
    <3>3. Generate(r) \/ Inject(r) => UNCHANGED <<mishaps, history>>
      BY Zenon DEF Generate, Inject
    <3>. QED
      BY <1>4, <3>1, <3>2, <3>3
  <2>. QED
    BY <2>1 DEF history
<1>5. ASSUME NEW r \in Requests, GenerateFails(r) \/ LoadFails(r) \/ ExecuteFails(r) PROVE Grown
  <2>1. Failed(r) /\ torn' = torn /\ mishaps' = mishaps
    BY <1>5, Zenon DEF GenerateFails, LoadFails, ExecuteFails
  <2>. QED
    BY <2>1 DEF Failed
<1>6. ASSUME NEW r \in Requests, Execute(r) PROVE Grown
  BY <1>6, ExecuteSteps
<1>7. ASSUME NEW r \in Requests, Commit(r) \/ Finalize(r) PROVE Grown
  <2>1. torn' = torn /\ mishaps' = mishaps /\ (failed' = failed \/ failed' = failed \cup {"request"})
    BY <1>7, Zenon DEF Commit, Finalize
  <2>. QED
    BY <2>1
<1>8. ASSUME NEW n \in Names, InsertRecord(n) PROVE Grown
  BY <1>8, Zenon DEF InsertRecord, history
<1>9. CASE Crash
  BY <1>9, Zenon DEF Crash, history
<1>10. ASSUME UNCHANGED vars PROVE Grown
  BY <1>10, Zenon DEF vars, history
<1>11. ASSUME NEW r \in Requests, Request(r) PROVE Grown
  <2>. HIDE DEF Grown
  <2>. QED
    BY <1>1, <1>2, <1>3, <1>4, <1>5, <1>6, <1>7, <1>11, Zenon DEF Request
<1>12. Grown \/ Crash
  <2>. HIDE DEF Grown
  <2>. QED
    BY <1>8, <1>10, <1>11, Zenon DEF Next
<1>. QED
  BY <1>9, <1>12

\* ... and needs nothing once a file was applied torn.
LEMMA NextKeepsCInv == ASSUME RInv, CInv, [Next]_vars PROVE CInv'
BY NextKeepsChain, HistoryGrows DEF CInv

\* A row is covered by files after its creation; without a deletion the table has them all.
LEMMA ChainGivesTables == ASSUME RInv, CInv PROVE ListedHasTable
<1>. SUFFICES ASSUME ~torn, NEW n \in Names, row[n] # NoRow, ~Doomed(n, row[n].id)
              PROVE  {Id} \cup Physical(row[n].fields) \subseteq table[n]
  BY DEF ListedHasTable
<1>. DEFINE id == row[n].id
<1>1. Covered(n, id, row[n].fields, files, version) /\ Kept(table, files, version)
  BY DEF CInv, ChainHolds, RowsCovered
<1>2. version \in Nat /\ version <= Len(files) /\ Len(files) \in Nat /\ id \in 1..version
  BY RState
<1>3. ASSUME NEW k \in id..version, Adds(files[k], n) PROVE {Id} \cup Physical(files[k].fields) \subseteq table[n]
  <2>1. \A j \in k + 1..version : ~Drops(files[j], n)
    <3>1. \A j \in k + 1..version : j \in id + 1..Len(files)
      BY <1>2
    <3>. QED
      BY <3>1 DEF Doomed, Drops
  <2>2. k \in 1..version
    BY <1>2
  <2>. QED
    BY <1>1, <1>3, <2>1, <2>2 DEF Kept
<1>4. id \in id..version /\ Adds(files[id], n)
  BY <1>1, <1>2 DEF Covered, Adds
<1>5. Id \in table[n]
  BY <1>3, <1>4
<1>6. ASSUME NEW x \in Physical(row[n].fields) PROVE x \in table[n]
  <2>1. PICK k \in id..version : Adds(files[k], n) /\ x \in files[k].fields
    BY <1>1 DEF Covered, Physical
  <2>2. x \in Physical(files[k].fields)
    BY <2>1 DEF Physical
  <2>. QED
    BY <1>3, <2>1, <2>2
<1>. QED
  BY <1>5, <1>6

\* For any number of names, fields, requests and migrations, over either database: a listed
\* collection has its table and a column for every field that needs one, unless a deletion
\* has been written after it or a file was applied before it had its body.
THEOREM SpecListedHasTable == Spec => []ListedHasTable
<1>1. RInv /\ CInv /\ [Next]_vars => RInv' /\ CInv'
  BY NextKeepsRInv, NextKeepsCInv
<1>2. RInv /\ CInv => ListedHasTable
  BY ChainGivesTables
<1>. QED
  BY InitRInv, InitCInv, <1>1, <1>2, PTL DEF Spec

-----------------------------------------------------------------------------
(* Who has which migration: a request has the file it is at, and the files  *)
(* of the rows it is to write.                                              *)

Held(q) == (IF Flying(q) \/ q.at = "finalize" THEN {q.rev} ELSE {}) \cup {w.rev : w \in q.writes}

\* One request has no file and no name twice, the names of its remaining items included.
HasOnce(q) ==
  /\ \A w, v \in q.writes : w.rev = v.rev \/ w.name = v.name => w = v
  /\ Flying(q) \/ q.at = "finalize" => \A w \in q.writes : w.rev # q.rev
  /\ \A i, j \in DOMAIN q.todo : q.todo[i].name = q.todo[j].name => i = j
  /\ \A w \in q.writes : \A i \in DOMAIN q.todo : w.name # q.todo[i].name

HInv ==
  /\ \A r \in Requests : HasOnce(req[r]) /\ Held(req[r]) \subseteq 1..Len(files)
  /\ \A r, s \in Requests : r # s => Held(req[r]) \cap Held(req[s]) = {}

Owned == UNION {Held(req[r]) : r \in Requests}

\* A step of one request that adds nothing but new files to what it has.
LEMMA HoldStep ==
  ASSUME RInv, HInv, NEW r \in Requests, NEW q, req'[r] = q, \A s \in Requests \ {r} : req'[s] = req[s],
         files' \in Seq(File), Grows(files, files'), HasOnce(q),
         Held(q) \subseteq Held(req[r]) \cup (Len(files) + 1 .. Len(files'))
  PROVE  HInv'
<1>1. Len(files) \in Nat /\ Len(files') \in Nat /\ Len(files) <= Len(files')
  BY RState DEF Grows
<1>2. \A s \in Requests : Held(req[s]) \subseteq 1..Len(files) /\ HasOnce(req[s])
  BY DEF HInv
<1>3. \A s \in Requests : HasOnce(req'[s]) /\ Held(req'[s]) \subseteq 1..Len(files')
  <2>1. 1..Len(files) \subseteq 1..Len(files')
    BY <1>1
  <2>2. Len(files) + 1 .. Len(files') \subseteq 1..Len(files')
    BY <1>1
  <2>3. Held(req[r]) \subseteq 1..Len(files)
    BY <1>2
  <2>4. Held(q) \subseteq 1..Len(files')
    BY <2>1, <2>2, <2>3
  <2>. QED
    BY <1>2, <2>1, <2>4
<1>4. ASSUME NEW s \in Requests, s # r PROVE Held(q) \cap Held(req[s]) = {}
  <2>1. Held(req[r]) \cap Held(req[s]) = {} /\ Held(req[s]) \subseteq 1..Len(files)
    BY <1>4 DEF HInv
  <2>2. (Len(files) + 1 .. Len(files')) \cap 1..Len(files) = {}
    BY <1>1
  <2>. QED
    BY <2>1, <2>2
<1>5. \A a, b \in Requests : a # b => Held(req'[a]) \cap Held(req'[b]) = {}
  <2>1. SUFFICES ASSUME NEW a \in Requests, NEW b \in Requests, a # b PROVE Held(req'[a]) \cap Held(req'[b]) = {}
    OBVIOUS
  <2>2. CASE a = r
    <3>1. req'[a] = q /\ req'[b] = req[b] /\ b # r
      BY <2>1, <2>2
    <3>. QED
      BY <1>4, <3>1
  <2>3. CASE b = r
    <3>1. req'[b] = q /\ req'[a] = req[a] /\ a # r
      BY <2>1, <2>3
    <3>2. Held(q) \cap Held(req[a]) = {}
      BY <1>4, <3>1
    <3>. QED
      BY <3>1, <3>2
  <2>4. CASE a # r /\ b # r
    <3>1. req'[b] = req[b] /\ req'[a] = req[a]
      BY <2>4
    <3>. QED
      BY <2>1, <3>1 DEF HInv
  <2>. QED
    BY <2>2, <2>3, <2>4
<1>. QED
  BY <1>3, <1>5 DEF HInv

\* The items after the first.
LEMMA TailFacts ==
  ASSUME NEW todo \in Seq(Item), todo # <<>>
  PROVE  /\ DOMAIN todo = 1..Len(todo) /\ DOMAIN Tail(todo) = 1..Len(todo) - 1 /\ Len(todo) \in Nat
         /\ \A i \in DOMAIN Tail(todo) : Tail(todo)[i] = todo[i + 1] /\ i + 1 \in DOMAIN todo /\ i + 1 # 1
         /\ 1 \in DOMAIN todo
<1>1. Len(todo) \in Nat /\ Len(todo) # 0 /\ DOMAIN todo = 1..Len(todo)
  BY EmptySeq
<1>2. Tail(todo) \in Seq(Item) /\ Len(Tail(todo)) = Len(todo) - 1
  BY <1>1, HeadTailProperties
<1>3. \A i \in 1..Len(todo) - 1 : Tail(todo)[i] = todo[i + 1]
  BY <1>1, HeadTailProperties
<1>. QED
  BY <1>1, <1>2, <1>3

\* A request that is at no file has those of its writes.
LEMMA HeldWrites ==
  ASSUME NEW q, ~Flying(q), q.at # "finalize" PROVE Held(q) = {w.rev : w \in q.writes}
BY DEF Held

\* A request without writes or items has nothing twice.
LEMMA HasOnceFresh ==
  ASSUME NEW q, q.writes = {}, q.todo = <<>> PROVE HasOnce(q)
BY DEF HasOnce

\* A request that keeps its writes, and its items or all but the first.
LEMMA HasOnceGoesOn ==
  ASSUME NEW p, NEW q, HasOnce(p), IsRequest(p), q.writes = p.writes, ~Flying(q), q.at # "finalize",
         q.todo = p.todo \/ q.todo = <<>> \/ (p.todo # <<>> /\ q.todo = Tail(p.todo))
  PROVE  HasOnce(q) /\ Held(q) \subseteq Held(p)
<1>1. Held(q) \subseteq Held(p)
  BY DEF Held
<1>2. CASE q.todo = p.todo
  BY <1>1, <1>2 DEF HasOnce
<1>3. CASE q.todo = <<>>
  BY <1>1, <1>3 DEF HasOnce
<1>4. CASE p.todo # <<>> /\ q.todo = Tail(p.todo)
  <2>1. \A i \in DOMAIN q.todo : q.todo[i] = p.todo[i + 1] /\ i + 1 \in DOMAIN p.todo /\ i \in Nat
    BY <1>4, TailFacts DEF IsRequest
  <2>2. \A i, j \in DOMAIN q.todo : q.todo[i].name = q.todo[j].name => i = j
    <3>1. SUFFICES ASSUME NEW i \in DOMAIN q.todo, NEW j \in DOMAIN q.todo, q.todo[i].name = q.todo[j].name PROVE i = j
      OBVIOUS
    <3>2. i + 1 = j + 1
      BY <2>1, <3>1 DEF HasOnce
    <3>. QED
      BY <2>1, <3>2
  <2>3. \A w \in q.writes : \A i \in DOMAIN q.todo : w.name # q.todo[i].name
    BY <2>1 DEF HasOnce
  <2>. QED
    BY <1>1, <2>2, <2>3 DEF HasOnce
<1>. QED
  BY <1>1, <1>2, <1>3, <1>4

\* What the end of a migration leaves.
LEMMA HasOnceApplied ==
  ASSUME RInv, HInv, NEW r \in Requests, NEW q, req[r].at = "execute", ~Flying(q),
         \/ /\ req[r].op = "upgrade" /\ q.at = "idle" /\ q.writes = {} /\ q.todo = <<>>
         \/ /\ Flying(req[r]) /\ req[r].op = "delete" /\ q.at = "finalize" /\ q.writes = {}
            /\ q.rev = req[r].rev /\ q.todo = <<>> /\ req[r].writes = {}
         \/ /\ Flying(req[r]) /\ req[r].op \in {"create", "update"}
            /\ q.at \in {"item", "commit"}
            /\ q.writes = req[r].writes \cup {NewRow(r)}
            /\ \/ q.todo = Tail(req[r].todo) /\ req[r].batch /\ req[r].todo # <<>>
               \/ q.todo = <<>> /\ req[r].writes = {}
  PROVE  HasOnce(q) /\ Held(q) \subseteq Held(req[r]) /\ (Flying(req[r]) => Held(q) = Held(req[r]))
<1>1. HasOnce(req[r]) /\ IsRequest(req[r]) /\ IsPlaced(req[r])
  BY RState DEF HInv
<1>2. CASE req[r].op = "upgrade" /\ q.at = "idle" /\ q.writes = {} /\ q.todo = <<>>
  BY <1>2, HasOnceFresh DEF Held, Flying
<1>3. CASE /\ Flying(req[r]) /\ req[r].op = "delete" /\ q.at = "finalize" /\ q.writes = {}
           /\ q.rev = req[r].rev /\ q.todo = <<>> /\ req[r].writes = {}
  BY <1>3, HasOnceFresh DEF Held
<1>4. CASE /\ Flying(req[r]) /\ req[r].op \in {"create", "update"}
           /\ q.at \in {"item", "commit"}
           /\ q.writes = req[r].writes \cup {NewRow(r)}
           /\ \/ q.todo = Tail(req[r].todo) /\ req[r].batch /\ req[r].todo # <<>>
              \/ q.todo = <<>> /\ req[r].writes = {}
  <2>1. NewRow(r).rev = req[r].rev /\ NewRow(r).name = req[r].name
    BY <1>4, NewRowFacts
  <2>2. Held(q) = Held(req[r])
    BY <1>4, <2>1 DEF Held
  <2>3. \A w \in req[r].writes : w.rev # NewRow(r).rev
    BY <1>1, <1>4, <2>1 DEF HasOnce
  <2>4. CASE q.todo = <<>> /\ req[r].writes = {}
    <3>1. q.writes = {NewRow(r)}
      BY <1>4, <2>4
    <3>. QED
      BY <1>4, <2>2, <2>4, <3>1 DEF HasOnce
  <2>5. CASE q.todo = Tail(req[r].todo) /\ req[r].batch /\ req[r].todo # <<>>
    <3>1. req[r].name = req[r].todo[1].name /\ req[r].todo \in Seq(Item)
      BY <1>1, <1>4, <2>5 DEF IsPlaced, Busy, IsRequest
    <3>2. /\ 1 \in DOMAIN req[r].todo
          /\ \A i \in DOMAIN q.todo : q.todo[i] = req[r].todo[i + 1] /\ i + 1 \in DOMAIN req[r].todo /\ i + 1 # 1 /\ i \in Nat
      BY <2>5, <3>1, TailFacts
    <3>3. \A w \in req[r].writes : w.name # NewRow(r).name
      BY <1>1, <2>1, <3>1, <3>2 DEF HasOnce
    <3>4. \A w, v \in q.writes : w.rev = v.rev \/ w.name = v.name => w = v
      <4>1. SUFFICES ASSUME NEW w \in q.writes, NEW v \in q.writes, w.rev = v.rev \/ w.name = v.name PROVE w = v
        OBVIOUS
      <4>2. CASE w \in req[r].writes /\ v \in req[r].writes
        BY <1>1, <4>1, <4>2 DEF HasOnce
      <4>3. CASE w = NewRow(r) \/ v = NewRow(r)
        BY <1>4, <2>3, <3>3, <4>1, <4>3
      <4>. QED
        BY <1>4, <4>2, <4>3
    <3>5. \A i, j \in DOMAIN q.todo : q.todo[i].name = q.todo[j].name => i = j
      <4>1. SUFFICES ASSUME NEW i \in DOMAIN q.todo, NEW j \in DOMAIN q.todo, q.todo[i].name = q.todo[j].name PROVE i = j
        OBVIOUS
      <4>2. i + 1 = j + 1
        BY <1>1, <3>2, <4>1 DEF HasOnce
      <4>. QED
        BY <3>2, <4>2
    <3>6. \A w \in req[r].writes : \A i \in DOMAIN q.todo : w.name # q.todo[i].name
      BY <1>1, <3>2 DEF HasOnce
    <3>7. \A i \in DOMAIN q.todo : NewRow(r).name # q.todo[i].name
      <4>1. SUFFICES ASSUME NEW i \in DOMAIN q.todo, req[r].todo[1].name = req[r].todo[i + 1].name PROVE FALSE
        BY <2>1, <3>1, <3>2
      <4>. QED
        BY <1>1, <3>2, <4>1 DEF HasOnce
    <3>. QED
      BY <1>4, <2>2, <3>4, <3>5, <3>6, <3>7 DEF HasOnce
  <2>. QED
    BY <1>4, <2>4, <2>5
<1>. QED
  BY <1>2, <1>3, <1>4

\* A request that goes on as it was keeps what it has.
LEMMA HasOnceSame ==
  ASSUME NEW p, NEW q, HasOnce(p), q.writes = p.writes, q.todo = p.todo, q.rev = p.rev,
         Flying(q) <=> Flying(p), q.at = "finalize" <=> p.at = "finalize"
  PROVE  HasOnce(q) /\ Held(q) = Held(p)
BY DEF HasOnce, Held

\* A step of one request that has no more afterwards.
LEMMA HoldStays ==
  ASSUME RInv, HInv, NEW r \in Requests, NEW q, Set(r, q), files' = files, HasOnce(q), Held(q) \subseteq Held(req[r])
  PROVE  HInv'
<1>1. req'[r] = q /\ \A s \in Requests \ {r} : req'[s] = req[s]
  BY RState DEF Set
<1>2. files' \in Seq(File) /\ Grows(files, files')
  BY RState DEF Grows
<1>3. Held(q) \subseteq Held(req[r]) \cup (Len(files) + 1 .. Len(files'))
  OBVIOUS
<1>. QED
  BY <1>1, <1>2, <1>3, HoldStep

\* A new file belongs to the request that generates it.
LEMMA GenerateHolds ==
  ASSUME RInv, HInv, NEW r \in Requests, Generate(r)
  PROVE  HInv' /\ \E q : /\ Set(r, q) /\ Held(q) = Held(req[r]) \cup {Len(files) + 1}
<1>1. PICK q, f : /\ Set(r, q) /\ files' = Append(files, f)
                  /\ req[r].at = "generate" /\ q.at = "inject" /\ q.rev = Len(files) + 1
                  /\ q.todo = req[r].todo /\ q.writes = req[r].writes
                  /\ Flying(q) /\ Grows(files, files')
                  /\ files' \in Seq(File) /\ Len(files') = Len(files) + 1
  BY GenerateSteps
<1>2. HasOnce(req[r]) /\ Held(req[r]) \subseteq 1..Len(files) /\ Len(files) \in Nat
  BY RState DEF HInv
<1>3. ~Flying(req[r])
  BY <1>1 DEF Flying
<1>4. Held(q) = Held(req[r]) \cup {Len(files) + 1}
  BY <1>1, <1>3 DEF Held
<1>5. \A w \in req[r].writes : w.rev # q.rev
  <2>1. \A w \in req[r].writes : w.rev \in 1..Len(files)
    BY <1>2 DEF Held
  <2>. QED
    BY <1>1, <1>2, <2>1
<1>6. HasOnce(q)
  BY <1>1, <1>2, <1>5 DEF HasOnce
<1>7. req'[r] = q /\ \A s \in Requests \ {r} : req'[s] = req[s]
  BY <1>1, RState DEF Set
<1>8. Held(q) \subseteq Held(req[r]) \cup (Len(files) + 1 .. Len(files'))
  BY <1>1, <1>2, <1>4
<1>9. HInv'
  BY <1>1, <1>6, <1>7, <1>8, HoldStep
<1>. QED
  BY <1>1, <1>4, <1>9

\* The third invariant is inductive, beside the first.
LEMMA NextKeepsHInv == ASSUME RInv, HInv, [Next]_vars PROVE HInv'
<1>0. \A r \in Requests : HasOnce(req[r]) /\ IsRequest(req[r])
  BY RState DEF HInv
<1>1. ASSUME NEW r \in Requests, NEW q, Turned(r, q), files' = files, ~Flying(q), q.at # "finalize",
             q.writes = {}, q.todo = <<>> \/ q.todo \in Imports
      PROVE  HInv'
  <2>1. HasOnce(q)
    BY <1>1, CollectionsAssumption DEF HasOnce
  <2>2. Held(q) = {}
    BY <1>1 DEF Held
  <2>. QED
    BY <1>1, <2>1, <2>2, HoldStays DEF Turned
<1>2. ASSUME NEW r \in Requests, NEW n \in Names, DeleteRead(r, n) PROVE HInv'
  <2>1. PICK q : Turned(r, q) /\ q.at = "generate" /\ q.writes = {} /\ q.todo = <<>>
    BY <1>2, DeleteReadTurns
  <2>. QED
    BY <1>1, <1>2, <2>1 DEF DeleteRead, disk, Flying
<1>3. ASSUME NEW r \in Requests, NEW n \in Names, NEW S \in Schemas, CreateRead(r, n, S) PROVE HInv'
  <2>1. PICK q : Turned(r, q) /\ q.at = "generate" /\ q.writes = {} /\ q.todo = <<>>
    BY <1>3, CreateReadTurns
  <2>. QED
    BY <1>1, <1>3, <2>1 DEF CreateRead, disk, Flying
<1>4. ASSUME NEW r \in Requests, NEW n \in Names, NEW S \in Schemas, UpdateRead(r, n, S) PROVE HInv'
  <2>1. PICK q : Turned(r, q) /\ q.at = "generate" /\ q.writes = {} /\ q.todo = <<>>
    BY <1>4, UpdateReadTurns
  <2>. QED
    BY <1>1, <1>4, <2>1 DEF UpdateRead, disk, Flying
<1>5. ASSUME NEW r \in Requests, NEW items \in Imports, NEW strategy \in Strategies, ImportStart(r, items, strategy)
      PROVE HInv'
  <2>1. PICK q : Turned(r, q) /\ q.at = "item" /\ q.writes = {} /\ q.todo = items
    BY <1>5, ImportStartTurns
  <2>. QED
    BY <1>1, <1>5, <2>1 DEF ImportStart, disk, Flying
<1>6. ASSUME NEW r \in Requests, UpgradeStart(r) PROVE HInv'
  <2>1. PICK q : Turned(r, q) /\ q.at = "apply" /\ q.op = "upgrade" /\ q.writes = {} /\ q.todo = <<>>
    BY <1>6, UpgradeStartTurns
  <2>. QED
    BY <1>1, <1>6, <2>1 DEF UpgradeStart, disk, Flying
<1>7. ASSUME NEW r \in Requests, ImportItem(r) PROVE HInv'
  <2>1. PICK q : /\ Turned(r, q) /\ q.writes = req[r].writes /\ q.at \in {"item", "generate"}
                 /\ q.todo = req[r].todo \/ (req[r].todo # <<>> /\ q.todo = Tail(req[r].todo))
    <3>1. \E q : /\ Turned(r, q) /\ q.writes = req[r].writes
                 /\ \/ q.at = "item" /\ req[r].todo # <<>> /\ q.todo = Tail(req[r].todo)
                    \/ q.at = "generate" /\ q.todo = req[r].todo
      BY <1>7, ImportItemTurns
    <3>. QED
      BY <3>1
  <2>2. ~Flying(q) /\ q.at # "finalize" /\ Set(r, q) /\ files' = files
    BY <1>7, <2>1 DEF Flying, Turned, ImportItem, disk
  <2>3. HasOnce(q) /\ Held(q) \subseteq Held(req[r])
    BY <1>0, <2>1, <2>2, HasOnceGoesOn
  <2>. QED
    BY <2>2, <2>3, HoldStays
<1>8. ASSUME NEW r \in Requests, ImportEnds(r) PROVE HInv'
  <2>1. PICK q : Turned(r, q) /\ q.at = "commit" /\ q.writes = req[r].writes /\ q.todo = <<>>
    BY <1>8, ImportEndsTurns
  <2>2. ~Flying(q) /\ q.at # "finalize" /\ Set(r, q) /\ files' = files
    BY <1>8, <2>1 DEF Flying, Turned, ImportEnds, disk
  <2>3. HasOnce(q) /\ Held(q) \subseteq Held(req[r])
    BY <1>0, <2>1, <2>2, HasOnceGoesOn
  <2>. QED
    BY <2>2, <2>3, HoldStays
<1>9. ASSUME NEW r \in Requests, LoadPlan(r) PROVE HInv'
  <2>1. PICK q : /\ Turned(r, q) /\ q.at = "execute" /\ req[r].at = "apply" /\ q.writes = req[r].writes /\ q.todo = req[r].todo
                 /\ q.rev = req[r].rev /\ (Flying(q) <=> Flying(req[r]))
    BY <1>9, LoadPlanTurns
  <2>2. HasOnce(q) /\ Held(q) = Held(req[r])
    BY <1>0, <2>1, HasOnceSame
  <2>. QED
    BY <1>9, <2>1, <2>2, HoldStays DEF LoadPlan, disk, Turned
<1>10. ASSUME NEW r \in Requests, GenerateFails(r) \/ LoadFails(r) \/ ExecuteFails(r) PROVE HInv'
  <2>1. Failed(r) /\ req[r].at \in {"generate", "apply", "execute"} /\ files' = files
    BY <1>10 DEF GenerateFails, LoadFails, ExecuteFails, disk
  <2>2. PICK q : /\ Set(r, q) /\ ~Flying(q) /\ q.writes = req[r].writes /\ q.at \in {"item", "idle"}
                 /\ \/ q.todo = Tail(req[r].todo) /\ req[r].todo # <<>>
                    \/ q.todo = <<>>
    BY <2>1, FailedTurns
  <2>3. HasOnce(q) /\ Held(q) \subseteq Held(req[r])
    BY <1>0, <2>2, HasOnceGoesOn
  <2>. QED
    BY <2>1, <2>2, <2>3, HoldStays
<1>11. ASSUME NEW r \in Requests, Execute(r) PROVE HInv'
  <2>1. req[r].at = "execute" /\ Applied(r) /\ files' = files
    BY <1>11, ExecuteSteps DEF disk
  <2>2. PICK q : /\ Set(r, q) /\ ~Flying(q)
                /\ \/ /\ req[r].op = "upgrade" /\ q.at = "idle" /\ q.writes = {} /\ q.todo = <<>>
                   \/ /\ Flying(req[r]) /\ req[r].op = "delete" /\ q.at = "finalize" /\ q.writes = {}
                      /\ q.rev = req[r].rev /\ q.todo = <<>> /\ req[r].writes = {}
                   \/ /\ Flying(req[r]) /\ req[r].op \in {"create", "update"}
                      /\ q.at \in {"item", "commit"}
                      /\ q.writes = req[r].writes \cup {NewRow(r)}
                      /\ \/ q.todo = Tail(req[r].todo) /\ req[r].batch /\ req[r].todo # <<>>
                         \/ q.todo = <<>> /\ req[r].writes = {}
    BY <2>1, AppliedRequest
  <2>3. HasOnce(q) /\ Held(q) \subseteq Held(req[r])
    BY <2>1, <2>2, HasOnceApplied
  <2>. QED
    BY <2>1, <2>2, <2>3, HoldStays
<1>12. ASSUME NEW r \in Requests, Inject(r) PROVE HInv'
  <2>1. PICK q : /\ Set(r, q) /\ files' = files /\ req[r].at = "inject" /\ q.at = "apply" /\ q.rev = req[r].rev
                 /\ q.todo = req[r].todo /\ q.writes = req[r].writes /\ (Flying(q) <=> Flying(req[r]))
    BY <1>12, InjectSteps
  <2>2. HasOnce(q) /\ Held(q) = Held(req[r])
    BY <1>0, <2>1, HasOnceSame
  <2>. QED
    BY <2>1, <2>2, HoldStays
<1>13. ASSUME NEW r \in Requests, Commit(r) \/ Finalize(r) PROVE HInv'
  <2>1. Set(r, Idle) /\ files' = files
    BY <1>13 DEF Commit, Finalize, disk
  <2>2. HasOnce(Idle) /\ Held(Idle) = {}
    BY IdleParts, IdleIsRequest, HasOnceFresh DEF Held
  <2>. QED
    BY <2>1, <2>2, HoldStays
<1>14. CASE Crash
  <2>1. \A r \in Requests : req'[r] = Idle
    BY <1>14 DEF Crash
  <2>2. HasOnce(Idle) /\ Held(Idle) = {}
    BY IdleParts, IdleIsRequest, HasOnceFresh DEF Held
  <2>. QED
    BY <2>1, <2>2 DEF HInv
<1>15. ASSUME NEW n \in Names, InsertRecord(n) PROVE HInv'
  BY <1>15 DEF InsertRecord, disk, HInv
<1>16. CASE UNCHANGED vars
  BY <1>16 DEF vars, disk, HInv
<1>. QED
  BY <1>2, <1>3, <1>4, <1>5, <1>6, <1>7, <1>8, <1>9, <1>10, <1>11, <1>12, <1>13, <1>14, <1>15, <1>16, GenerateHolds
     DEF Next, Request

\* It holds at the start.
LEMMA InitHInv == Init => HInv
<1>1. ASSUME Init PROVE \A r \in Requests : req[r] = Idle
  BY <1>1 DEF Init
<1>2. HasOnce(Idle) /\ Held(Idle) = {}
  BY IdleParts, IdleIsRequest, HasOnceFresh DEF Held
<1>. QED
  BY <1>1, <1>2 DEF HInv

-----------------------------------------------------------------------------
(* As long as nothing has failed: creations and deletions in equal numbers.  *)

Good == mishaps = 0 /\ failed = {} /\ ~torn

Creates(n, fs, v) == {k \in 1..v : fs[k].op = "create" /\ fs[k].name = n}
Deletes(n, fs, v) == {k \in 1..v : Drops(fs[k], n)}

Exists(b) == IF b THEN 1 ELSE 0

\* A table exists when the chain has created it once more than dropped it.
Alternate(t, fs, v) ==
  \A n \in Names : Cardinality(Creates(n, fs, v)) = Cardinality(Deletes(n, fs, v)) + Exists(t[n] # {})

\* A row exists when the creations that have ended are one more than such deletions.
Balance(rows, fs, v, owned) ==
  \A n \in Names : Cardinality(Creates(n, fs, v) \ owned) =
                   Cardinality(Deletes(n, fs, v) \ owned) + Exists(rows[n] # NoRow)

\* What a request has is of the kind it says, and a deletion at its last step has dropped the table.
Settled(q, fs, v) ==
  /\ \A w \in q.writes : fs[w.rev].op = IF w.new THEN "create" ELSE "extend"
  /\ q.at = "finalize" => q.rev \in 1..v /\ q.id \in 1..v /\ Drops(fs[q.rev], q.name)

Clean ==
  /\ \A k \in version + 1 .. Len(files) : \E r \in Requests : Flying(req[r]) /\ req[r].rev = k
  /\ \A r \in Requests : Settled(req[r], files, version)
  /\ Alternate(table, files, version)
  /\ Balance(row, files, version, Owned)

GInv == Good => Clean

\* The sets that are counted are finite.
LEMMA ChainCounts ==
  ASSUME NEW n, NEW fs, NEW v \in Nat, NEW owned
  PROVE  /\ IsFiniteSet(Creates(n, fs, v)) /\ IsFiniteSet(Deletes(n, fs, v))
         /\ IsFiniteSet(Creates(n, fs, v) \ owned) /\ IsFiniteSet(Deletes(n, fs, v) \ owned)
         /\ Cardinality(Creates(n, fs, v)) \in Nat /\ Cardinality(Deletes(n, fs, v)) \in Nat
         /\ Cardinality(Creates(n, fs, v) \ owned) \in Nat /\ Cardinality(Deletes(n, fs, v) \ owned) \in Nat
<1>1. IsFiniteSet(1..v)
  BY FS_Interval
<1>2. /\ Creates(n, fs, v) \in SUBSET (1..v) /\ Deletes(n, fs, v) \in SUBSET (1..v)
      /\ (Creates(n, fs, v) \ owned) \in SUBSET (1..v) /\ (Deletes(n, fs, v) \ owned) \in SUBSET (1..v)
  BY DEF Creates, Deletes
<1>3. /\ IsFiniteSet(Creates(n, fs, v)) /\ IsFiniteSet(Deletes(n, fs, v))
      /\ IsFiniteSet(Creates(n, fs, v) \ owned) /\ IsFiniteSet(Deletes(n, fs, v) \ owned)
  BY <1>1, <1>2, FS_Subset
<1>. QED
  BY <1>3, FS_CardinalityType

\* One more file.
LEMMA CountsStep ==
  ASSUME NEW n \in Names, NEW fs \in Seq(File), NEW i \in Nat, i + 1 <= Len(fs)
  PROVE  /\ Cardinality(Creates(n, fs, i + 1)) =
              Cardinality(Creates(n, fs, i)) + Exists(fs[i + 1].op = "create" /\ fs[i + 1].name = n)
         /\ Cardinality(Deletes(n, fs, i + 1)) =
              Cardinality(Deletes(n, fs, i)) + Exists(Drops(fs[i + 1], n))
<1>1. 1..(i + 1) = 1..i \cup {i + 1} /\ i + 1 \notin 1..i
  OBVIOUS
<1>2. /\ IsFiniteSet(Creates(n, fs, i)) /\ IsFiniteSet(Deletes(n, fs, i))
      /\ Cardinality(Creates(n, fs, i)) \in Nat /\ Cardinality(Deletes(n, fs, i)) \in Nat
  BY ChainCounts
<1>3. i + 1 \notin Creates(n, fs, i) /\ i + 1 \notin Deletes(n, fs, i)
  BY <1>1 DEF Creates, Deletes
<1>4. CASE fs[i + 1].op = "create" /\ fs[i + 1].name = n
  <2>1. Creates(n, fs, i + 1) = Creates(n, fs, i) \cup {i + 1} /\ Deletes(n, fs, i + 1) = Deletes(n, fs, i)
    BY <1>1, <1>4 DEF Creates, Deletes, Drops
  <2>2. ~Drops(fs[i + 1], n)
    BY <1>4 DEF Drops
  <2>. QED
    BY <1>2, <1>3, <1>4, <2>1, <2>2, FS_AddElement DEF Exists
<1>5. CASE Drops(fs[i + 1], n)
  <2>1. Creates(n, fs, i + 1) = Creates(n, fs, i) /\ Deletes(n, fs, i + 1) = Deletes(n, fs, i) \cup {i + 1}
    BY <1>1, <1>5 DEF Creates, Deletes, Drops
  <2>2. ~(fs[i + 1].op = "create" /\ fs[i + 1].name = n)
    BY <1>5 DEF Drops
  <2>. QED
    BY <1>2, <1>3, <1>5, <2>1, <2>2, FS_AddElement DEF Exists
<1>6. CASE ~(fs[i + 1].op = "create" /\ fs[i + 1].name = n) /\ ~Drops(fs[i + 1], n)
  <2>1. Creates(n, fs, i + 1) = Creates(n, fs, i) /\ Deletes(n, fs, i + 1) = Deletes(n, fs, i)
    BY <1>1, <1>6 DEF Creates, Deletes
  <2>. QED
    BY <1>2, <1>6, <2>1 DEF Exists
<1>. QED
  BY <1>4, <1>5, <1>6

\* A file that can be applied keeps a table existing exactly when it was created once more than dropped.
LEMMA AlternateStep ==
  ASSUME NEW t, NEW fs \in Seq(File), NEW i \in Nat, i + 1 <= Len(fs), IsTables(t), Alternate(t, fs, i),
         Applicable(t, fs[i + 1])
  PROVE  Alternate(Effect(t, fs[i + 1]), fs, i + 1)
<1>. DEFINE f == fs[i + 1]
            u == Effect(t, f)
<1>1. f \in File /\ f.name \in Names /\ f.fields \subseteq Fields /\ f.op \in {"create", "extend", "drop", "none"}
  <2>1. i + 1 \in 1..Len(fs)
    OBVIOUS
  <2>2. f \in File
    BY <2>1, ElementOfSeq
  <2>. QED
    BY <2>2 DEF File
<1>2. SUFFICES ASSUME NEW n \in Names
               PROVE  Cardinality(Creates(n, fs, i + 1)) = Cardinality(Deletes(n, fs, i + 1)) + Exists(u[n] # {})
  BY DEF Alternate
<1>3. Cardinality(Creates(n, fs, i)) = Cardinality(Deletes(n, fs, i)) + Exists(t[n] # {})
  BY DEF Alternate
<1>4. Cardinality(Creates(n, fs, i)) \in Nat /\ Cardinality(Deletes(n, fs, i)) \in Nat
  BY ChainCounts
<1>5. /\ Cardinality(Creates(n, fs, i + 1)) = Cardinality(Creates(n, fs, i)) + Exists(f.op = "create" /\ f.name = n)
      /\ Cardinality(Deletes(n, fs, i + 1)) = Cardinality(Deletes(n, fs, i)) + Exists(Drops(f, n))
  BY CountsStep
<1>. HIDE DEF f, u
<1>6. CASE f.op = "create" /\ f.name = n
  <2>1. t[n] = {} /\ ~Drops(f, n)
    BY <1>6 DEF Applicable, Drops, f
  <2>2. u[n] # {}
    BY <1>6, <1>1 DEF Effect, IsTables, u
  <2>. QED
    BY <1>3, <1>4, <1>5, <1>6, <2>1, <2>2 DEF Exists
<1>7. CASE Drops(f, n)
  <2>1. t[n] # {} /\ ~(f.op = "create" /\ f.name = n)
    BY <1>7 DEF Applicable, Drops, f
  <2>2. u[n] = {}
    BY <1>7, <1>1 DEF Effect, IsTables, Drops, u
  <2>. QED
    BY <1>3, <1>4, <1>5, <1>7, <2>1, <2>2 DEF Exists
<1>8. CASE ~(f.op = "create" /\ f.name = n) /\ ~Drops(f, n)
  <2>1. u[n] # {} <=> t[n] # {}
    <3>1. CASE f.name # n \/ f.op = "none"
      BY <3>1, <1>1 DEF Effect, IsTables, u
    <3>2. CASE f.name = n /\ f.op = "extend"
      <4>1. t[n] # {}
        BY <3>2 DEF Applicable, f
      <4>2. u[n] = t[n] \cup Physical(f.fields)
        BY <3>2, <1>1 DEF Effect, IsTables, u
      <4>. QED
        BY <4>1, <4>2
    <3>. QED
      BY <1>1, <1>8, <3>1, <3>2 DEF Drops
  <2>. QED
    BY <1>3, <1>4, <1>5, <1>8, <2>1 DEF Exists
<1>. QED
  BY <1>6, <1>7, <1>8

\* Along a plan whose files have their bodies.
LEMMA PlanAlternates ==
  ASSUME RInv, NEW r \in Requests, req[r].at = "execute", req[r].from = version,
         NEW k \in version..req[r].upto, Executable(r, k), ~(req[r].torn /\ k = req[r].upto),
         Alternate(table, files, version)
  PROVE  Alternate(TablesAfter(r)[k], files, k)
<1>. DEFINE S == {i \in version..k : Alternate(TablesAfter(r)[i], files, i)}
<1>1. /\ files \in Seq(File) /\ Len(files) \in Nat /\ version \in Nat /\ req[r].upto \in Nat /\ req[r].upto <= Len(files)
      /\ version <= req[r].upto /\ k \in Nat /\ IsTables(table)
  BY PlanRange, RState
<1>2. TablesAfter(r)[version] = table /\ \A j \in version + 1..req[r].upto : TablesAfter(r)[j] = Effect(TablesAfter(r)[j - 1], FileRead(r, j))
  BY <1>1, TablesExist
<1>3. \A i \in version..k : IsTables(TablesAfter(r)[i])
  BY <1>1, PlanIsTables
<1>4. version \in S
  BY <1>1, <1>2
<1>5. ASSUME NEW i \in version..k, i \in S, i + 1 <= k PROVE i + 1 \in S
  <2>1. /\ i + 1 \in version + 1..req[r].upto /\ i + 1 \in 1..Len(files) /\ i + 1 \in version + 1..k /\ (i + 1) - 1 = i
        /\ i \in Nat /\ i + 1 \in version..k
    BY <1>1, <1>5
  <2>2. FileRead(r, i + 1) = files[i + 1]
    <3>1. ~(req[r].torn /\ i + 1 = req[r].upto)
      BY <1>1, <1>5
    <3>. QED
      BY <1>1, <2>1, <3>1, FileReadFacts
  <2>3. TablesAfter(r)[i + 1] = Effect(TablesAfter(r)[(i + 1) - 1], FileRead(r, i + 1))
    BY <1>2, <2>1, Zenon
  <2>4. TablesAfter(r)[i + 1] = Effect(TablesAfter(r)[i], files[i + 1])
    BY <2>1, <2>2, <2>3, Zenon
  <2>5. Applicable(TablesAfter(r)[(i + 1) - 1], FileRead(r, i + 1))
    BY <1>1, <2>1 DEF Executable
  <2>6. Applicable(TablesAfter(r)[i], files[i + 1])
    BY <2>1, <2>2, <2>5, Zenon
  <2>7. Alternate(TablesAfter(r)[i + 1], files, i + 1)
    BY <1>1, <1>3, <1>5, <2>1, <2>4, <2>6, AlternateStep
  <2>. QED
    BY <2>1, <2>7
<1>6. \A i \in version..k : i \in S
  <2>. HIDE DEF S
  <2>. QED
    BY <1>1, <1>4, <1>5, Interval
<1>. QED
  BY <1>1, <1>6

\* Files that stay as far as they count.
LEMMA CountedAlike ==
  ASSUME NEW n, NEW fs, NEW gs, NEW v \in Nat, \A k \in 1..v : gs[k] = fs[k]
  PROVE  Creates(n, gs, v) = Creates(n, fs, v) /\ Deletes(n, gs, v) = Deletes(n, fs, v)
BY DEF Creates, Deletes

\* A settled request stays settled when the chain grows and more of it is applied.
LEMMA SettledGrows ==
  ASSUME NEW q, NEW fs, NEW gs, NEW v \in Nat, NEW u \in Nat, v <= u, v <= Len(fs), Len(fs) \in Nat, Grows(fs, gs),
         PlanFits(q, fs, v), IsRequest(q), Settled(q, fs, v)
  PROVE  Settled(q, gs, u)
<1>1. \A w \in q.writes : w.rev \in 1..Len(fs)
  BY DEF PlanFits, Stands, IsRequest, Write
<1>2. \A w \in q.writes : gs[w.rev] = fs[w.rev]
  BY <1>1 DEF Grows
<1>3. q.at = "finalize" => q.rev \in 1..Len(fs) /\ q.rev \in 1..u /\ q.id \in 1..u
  BY DEF Settled
<1>. QED
  BY <1>2, <1>3 DEF Settled, Grows

\* Nothing that has gone wrong is forgotten.
LEMMA GoodBefore == ASSUME RInv, [Next]_vars, Good' PROVE Good
<1>1. ~torn /\ failed \subseteq failed' /\ (mishaps' = mishaps \/ mishaps' = mishaps + 1)
  BY HistoryGrows DEF Good
<1>2. mishaps \in Nat
  BY RState
<1>. QED
  BY <1>1, <1>2 DEF Good

\* What is owned after a step of r.
LEMMA OwnedAfter ==
  ASSUME HInv, NEW r \in Requests, NEW q, req'[r] = q, \A s \in Requests \ {r} : req'[s] = req[s]
  PROVE  Owned' = (Owned \ Held(req[r])) \cup Held(q)
<1>1. \A s \in Requests \ {r} : Held(req'[s]) = Held(req[s]) /\ Held(req[s]) \cap Held(req[r]) = {}
  BY DEF HInv
<1>2. Held(req'[r]) = Held(q)
  OBVIOUS
<1>3. ASSUME NEW k PROVE k \in Owned' <=> k \in (Owned \ Held(req[r])) \cup Held(q)
  <2>1. k \in Owned' <=> \E s \in Requests : k \in Held(req'[s])
    BY DEF Owned
  <2>2. k \in Owned <=> \E s \in Requests : k \in Held(req[s])
    BY DEF Owned
  <2>. QED
    BY <1>1, <1>2, <2>1, <2>2
<1>. QED
  BY <1>3

\* The requests are settled after a step of r that makes it q.
LEMMA SettledStep ==
  ASSUME RInv, Clean, NEW r \in Requests, NEW q, req'[r] = q, \A s \in Requests \ {r} : req'[s] = req[s],
         Grows(files, files'), version' \in Nat, version <= version', Settled(q, files', version')
  PROVE  \A s \in Requests : Settled(req'[s], files', version')
<1>. SUFFICES ASSUME NEW s \in Requests, s # r PROVE Settled(req'[s], files', version')
  OBVIOUS
<1>1. /\ Settled(req[s], files, version) /\ IsRequest(req[s]) /\ PlanFits(req[s], files, version)
      /\ version \in Nat /\ version <= Len(files) /\ Len(files) \in Nat
  BY RState DEF Clean
<1>2. Settled(req[s], files', version')
  BY <1>1, SettledGrows
<1>. QED
  BY <1>2

\* A step of r that keeps what it has, and leaves rows, tables and chain.
LEMMA CleanAfterTurn ==
  ASSUME RInv, HInv, Clean, NEW r \in Requests, NEW q, req'[r] = q, \A s \in Requests \ {r} : req'[s] = req[s],
         row' = row, table' = table, version' = version, files' = files, Held(q) = Held(req[r]),
         Flying(req[r]) => Flying(q) /\ q.rev = req[r].rev,
         Settled(q, files, version)
  PROVE  Clean'
<1>1. Owned' = Owned
  <2>1. Held(req[r]) \subseteq Owned
    BY DEF Owned
  <2>2. Owned' = (Owned \ Held(req[r])) \cup Held(q)
    BY OwnedAfter
  <2>. QED
    BY <2>1, <2>2
<1>2. Grows(files, files') /\ version \in Nat
  BY RState
<1>3. \A s \in Requests : Settled(req'[s], files', version')
  BY <1>2, SettledStep
<1>4. ASSUME NEW k \in version' + 1 .. Len(files')
      PROVE  \E s \in Requests : Flying(req'[s]) /\ req'[s].rev = k
  <2>1. PICK s \in Requests : Flying(req[s]) /\ req[s].rev = k
    BY <1>4 DEF Clean
  <2>2. CASE s = r
    BY <2>1, <2>2
  <2>3. CASE s # r
    BY <2>1, <2>3
  <2>. QED
    BY <2>2, <2>3
<1>5. Alternate(table', files', version') /\ Balance(row', files', version', Owned')
  BY <1>1 DEF Clean
<1>. QED
  BY <1>3, <1>4, <1>5 DEF Clean

\* One that is at no file before or after, and keeps its writes.
LEMMA ReadKeepsClean ==
  ASSUME RInv, HInv, Clean, NEW r \in Requests, NEW q, Turned(r, q), UNCHANGED <<db, disk>>,
         ~Flying(req[r]), ~Flying(q), req[r].at # "finalize", q.at # "finalize", q.writes = req[r].writes
  PROVE  Clean'
<1>1. req'[r] = q /\ \A s \in Requests \ {r} : req'[s] = req[s]
  BY RState DEF Turned, Set
<1>2. Held(q) = Held(req[r])
  BY HeldWrites
<1>3. Settled(q, files, version)
  BY DEF Clean, Settled
<1>4. row' = row /\ table' = table /\ version' = version /\ files' = files
  BY DEF db, disk
<1>. QED
  BY <1>1, <1>2, <1>3, <1>4, CleanAfterTurn

\* A new file is pending, and its request's.
LEMMA GenerateKeepsClean == ASSUME RInv, HInv, Clean, NEW r \in Requests, Generate(r) PROVE Clean'
<1>1. PICK q, f : /\ Set(r, q) /\ files' = Append(files, f)
                  /\ req[r].at = "generate" /\ q.at = "inject" /\ q.rev = Len(files) + 1
                  /\ q.todo = req[r].todo /\ q.writes = req[r].writes
                  /\ Flying(q) /\ Grows(files, files')
                  /\ files' \in Seq(File) /\ Len(files') = Len(files) + 1
  BY GenerateSteps
<1>2. req'[r] = q /\ \A s \in Requests \ {r} : req'[s] = req[s]
  BY <1>1, RState DEF Set
<1>3. row' = row /\ table' = table /\ version' = version
  BY DEF Generate, db
<1>4. version \in Nat /\ version <= Len(files) /\ Len(files) \in Nat
  BY RState
<1>5. Held(q) = Held(req[r]) \cup {Len(files) + 1}
  BY <1>1 DEF Held, Flying
<1>6. Owned' = Owned \cup {Len(files) + 1}
  <2>1. Held(req[r]) \subseteq Owned
    BY DEF Owned
  <2>2. Owned' = (Owned \ Held(req[r])) \cup Held(q)
    BY <1>2, OwnedAfter
  <2>. QED
    BY <1>5, <2>1, <2>2
<1>7. \A k \in 1..version : files'[k] = files[k] /\ k # Len(files) + 1
  BY <1>1, <1>4 DEF Grows
<1>8. \A n \in Names : Creates(n, files', version') = Creates(n, files, version)
                    /\ Deletes(n, files', version') = Deletes(n, files, version)
  BY <1>3, <1>4, <1>7, CountedAlike
<1>9. \A n \in Names : Creates(n, files, version) \ Owned' = Creates(n, files, version) \ Owned
                    /\ Deletes(n, files, version) \ Owned' = Deletes(n, files, version) \ Owned
  BY <1>6, <1>7 DEF Creates, Deletes
<1>10. Alternate(table', files', version')
  BY <1>3, <1>8 DEF Clean, Alternate
<1>11. Balance(row', files', version', Owned')
  BY <1>3, <1>8, <1>9 DEF Clean, Balance
<1>12. Settled(q, files', version')
  <2>1. Settled(req[r], files', version')
    BY <1>1, <1>3, <1>4, RState, SettledGrows DEF Clean
  <2>. QED
    BY <1>1, <2>1 DEF Settled
<1>13. \A s \in Requests : Settled(req'[s], files', version')
  BY <1>1, <1>2, <1>3, <1>4, <1>12, SettledStep
<1>14. ASSUME NEW k \in version' + 1 .. Len(files')
       PROVE  \E s \in Requests : Flying(req'[s]) /\ req'[s].rev = k
  <2>1. CASE k = Len(files) + 1
    BY <1>1, <1>2, <2>1
  <2>2. CASE k # Len(files) + 1
    <3>1. k \in version + 1 .. Len(files)
      BY <1>1, <1>3, <1>4, <2>2
    <3>2. PICK s \in Requests : Flying(req[s]) /\ req[s].rev = k
      BY <3>1 DEF Clean
    <3>3. s # r
      BY <1>1, <3>2 DEF Flying
    <3>. QED
      BY <1>2, <3>2, <3>3
  <2>. QED
    BY <2>1, <2>2
<1>. QED
  BY <1>10, <1>11, <1>13, <1>14 DEF Clean

\* What a migration that has been applied leaves is settled, and held as before.
LEMMA AppliedSettles ==
  ASSUME RInv, HInv, Clean, NEW r \in Requests, Execute(r)
  PROVE  \E q : /\ Set(r, q) /\ Held(q) = Held(req[r]) /\ Settled(q, files, version')
<1>1. /\ req[r].at = "execute" /\ Applied(r) /\ version <= version' /\ version' \in Nat /\ version' <= Len(files)
      /\ req[r].upto <= version'
  BY ExecuteSteps
<1>2. PICK q : /\ Set(r, q) /\ ~Flying(q)
               /\ \/ req[r].op = "upgrade" /\ q.at = "idle" /\ q.writes = {} /\ q.todo = <<>>
                  \/ /\ Flying(req[r]) /\ req[r].op = "delete" /\ q.at = "finalize" /\ q.writes = {}
                     /\ q.name = req[r].name /\ q.id = req[r].id /\ q.rev = req[r].rev
                     /\ q.todo = <<>> /\ req[r].writes = {}
                  \/ /\ Flying(req[r]) /\ req[r].op \in {"create", "update"}
                     /\ q.at \in {"item", "commit"}
                     /\ q.writes = req[r].writes \cup {NewRow(r)}
                     /\ \/ q.todo = Tail(req[r].todo) /\ req[r].batch /\ req[r].todo # <<>>
                        \/ q.todo = <<>> /\ req[r].writes = {}
  BY <1>1, AppliedRequest
<1>3. /\ IsRequest(req[r]) /\ IsPlaced(req[r]) /\ PlanFits(req[r], files, version) /\ Grows(files, files)
      /\ Len(files) \in Nat /\ version \in Nat /\ version <= Len(files)
  BY RState
<1>4. Settled(req[r], files, version')
  BY <1>1, <1>3, SettledGrows DEF Clean
<1>5. CASE req[r].op = "upgrade" /\ q.at = "idle" /\ q.writes = {} /\ q.todo = <<>>
  <2>1. req[r].writes = {} /\ ~Flying(req[r])
    BY <1>1, <1>3, <1>5 DEF IsPlaced, Flying
  <2>2. Held(q) = Held(req[r])
    BY <1>1, <1>2, <1>5, <2>1 DEF Held
  <2>3. Settled(q, files, version')
    BY <1>5 DEF Settled
  <2>. QED
    BY <1>2, <2>2, <2>3
<1>6. CASE /\ Flying(req[r]) /\ req[r].op = "delete" /\ q.at = "finalize" /\ q.writes = {}
           /\ q.name = req[r].name /\ q.id = req[r].id /\ q.rev = req[r].rev
           /\ q.todo = <<>> /\ req[r].writes = {}
  <2>1. Held(q) = Held(req[r])
    BY <1>6 DEF Held
  <2>2. /\ files[req[r].rev].name = req[r].name /\ files[req[r].rev].op = "drop"
        /\ req[r].id \in 1..version /\ req[r].rev \in 1..req[r].upto /\ req[r].upto \in Nat
    BY <1>1, <1>3, <1>6, PlanRange DEF PlanFits, Busy, FileOp
  <2>3. req[r].id \in 1..version' /\ req[r].rev \in 1..version'
    BY <1>1, <1>3, <2>2
  <2>4. Settled(q, files, version')
    BY <1>6, <2>2, <2>3 DEF Settled, Drops
  <2>. QED
    BY <1>2, <2>1, <2>4
<1>7. CASE /\ Flying(req[r]) /\ req[r].op \in {"create", "update"}
           /\ q.at \in {"item", "commit"}
           /\ q.writes = req[r].writes \cup {NewRow(r)}
           /\ \/ q.todo = Tail(req[r].todo) /\ req[r].batch /\ req[r].todo # <<>>
              \/ q.todo = <<>> /\ req[r].writes = {}
  <2>1. Held(q) = Held(req[r])
    BY <1>1, <1>2, <1>7, HasOnceApplied
  <2>2. NewRow(r).rev = req[r].rev /\ NewRow(r).new = (req[r].op = "create")
    BY <1>7, NewRowFacts
  <2>3. files[req[r].rev].op = FileOp(req[r].op)
    BY <1>3, <1>7 DEF PlanFits
  <2>4. files[NewRow(r).rev].op = IF NewRow(r).new THEN "create" ELSE "extend"
    BY <1>7, <2>2, <2>3 DEF FileOp
  <2>5. \A w \in q.writes : files[w.rev].op = IF w.new THEN "create" ELSE "extend"
    BY <1>4, <1>7, <2>4 DEF Settled
  <2>6. Settled(q, files, version')
    BY <1>7, <2>5 DEF Settled
  <2>. QED
    BY <1>2, <2>1, <2>6
<1>. QED
  BY <1>2, <1>5, <1>6, <1>7

\* An upgrade applies only what somebody still has.
LEMMA ExecuteKeepsClean == ASSUME RInv, HInv, Clean, NEW r \in Requests, Execute(r), ~torn' PROVE Clean'
<1>1. PICK q : Set(r, q) /\ Held(q) = Held(req[r]) /\ Settled(q, files, version')
  BY AppliedSettles
<1>2. req'[r] = q /\ \A s \in Requests \ {r} : req'[s] = req[s]
  BY <1>1, RState DEF Set
<1>3. /\ req[r].at = "execute" /\ row' = row /\ files' = files
      /\ version <= version' /\ version' <= Len(files) /\ version' \in Nat /\ req[r].upto <= version'
      /\ \/ version' = version /\ table' = table
         \/ /\ req[r].from = version /\ req[r].from < req[r].upto /\ version' = req[r].upto
            /\ Executable(r, req[r].upto) /\ table' = TablesAfter(r)[req[r].upto] /\ ~req[r].torn
  BY ExecuteSteps DEF disk
<1>4. version \in Nat /\ Len(files) \in Nat /\ Grows(files, files')
  BY <1>3, RState
<1>5. Owned' = Owned
  <2>1. Held(req[r]) \subseteq Owned
    BY DEF Owned
  <2>2. Owned' = (Owned \ Held(req[r])) \cup Held(q)
    BY <1>2, OwnedAfter
  <2>. QED
    BY <1>1, <2>1, <2>2
<1>6. \A s \in Requests : Settled(req'[s], files', version')
  BY <1>1, <1>2, <1>3, <1>4, SettledStep
<1>7. ASSUME NEW v \in Nat, v = version', NEW k \in v + 1 .. Len(files)
      PROVE  \E s \in Requests : Flying(req'[s]) /\ req'[s].rev = k
  <2>0. version <= v /\ req[r].upto <= v /\ version \in Nat /\ Len(files) \in Nat
    BY <1>3, <1>4, <1>7
  <2>1. PICK s \in Requests : Flying(req[s]) /\ req[s].rev = k
    <3>1. k \in version + 1 .. Len(files)
      BY <2>0
    <3>. QED
      BY <3>1 DEF Clean
  <2>2. s # r
    <3>1. ASSUME Flying(req[r]) PROVE req[r].rev # k
      <4>1. req[r].rev \in 1..req[r].upto /\ req[r].upto \in Nat
        BY <1>3, <3>1, PlanRange
      <4>. QED
        BY <2>0, <4>1
    <3>. QED
      BY <2>1, <3>1
  <2>. QED
    BY <1>2, <2>1, <2>2
<1>8. Alternate(table', files', version')
  <2>1. CASE version' = version /\ table' = table
    BY <1>3, <2>1 DEF Clean
  <2>2. CASE /\ req[r].from = version /\ req[r].from < req[r].upto /\ version' = req[r].upto
             /\ Executable(r, req[r].upto) /\ table' = TablesAfter(r)[req[r].upto] /\ ~req[r].torn
    <3>1. req[r].upto \in version..req[r].upto /\ Alternate(table, files, version)
      BY <1>3, <1>4, <2>2 DEF Clean
    <3>2. Alternate(TablesAfter(r)[req[r].upto], files, req[r].upto)
      BY <1>3, <2>2, <3>1, PlanAlternates
    <3>. QED
      BY <1>3, <2>2, <3>2
  <2>. QED
    BY <1>3, <2>1, <2>2
<1>9. \A k \in 1..version' : k \in 1..version \/ k \in Owned
  <2>1. SUFFICES ASSUME NEW k \in 1..version', k \notin 1..version PROVE k \in Owned
    OBVIOUS
  <2>2. k \in version + 1 .. Len(files)
    BY <1>3, <1>4, <2>1
  <2>3. PICK s \in Requests : Flying(req[s]) /\ req[s].rev = k
    BY <2>2 DEF Clean
  <2>. QED
    BY <2>3 DEF Owned, Held
<1>10. \A k \in 1..version : k \in 1..version'
  BY <1>3, <1>4
<1>11. \A n \in Names : /\ Creates(n, files, version') \ Owned = Creates(n, files, version) \ Owned
                        /\ Deletes(n, files, version') \ Owned = Deletes(n, files, version) \ Owned
  BY <1>9, <1>10 DEF Creates, Deletes
<1>12. Balance(row', files', version', Owned')
  BY <1>3, <1>5, <1>11 DEF Clean, Balance
<1>13. \A k \in version' + 1 .. Len(files') : \E s \in Requests : Flying(req'[s]) /\ req'[s].rev = k
  BY <1>3, <1>7
<1>. QED
  BY <1>6, <1>8, <1>12, <1>13 DEF Clean

\* A session that commits ends what it has: at most one migration of a name.
LEMMA CommitKeepsClean == ASSUME RInv, HInv, Clean, NEW r \in Requests, Commit(r), failed' = {} PROVE Clean'
<1>. DEFINE W == req[r].writes
            H == {w.rev : w \in W}
<1>1. /\ req[r].at = "commit" /\ Set(r, Idle) /\ UNCHANGED <<table, version, disk>>
      /\ \A w \in W : Writable(w)
      /\ \A n \in Names : \/ row'[n] = row[n] /\ (\A w \in W : w.name # n)
                          \/ \E w \in W : w.name = n /\ row'[n] = Written(w)
  BY CommitSteps
<1>2. files' = files /\ version' = version /\ table' = table
  BY <1>1 DEF disk
<1>3. req'[r] = Idle /\ \A s \in Requests \ {r} : req'[s] = req[s]
  BY <1>1, RState DEF Set
<1>4. Held(req[r]) = H /\ Held(Idle) = {}
  BY <1>1, IdleIsRequest, IdleParts, HeldWrites DEF Flying
<1>5. Owned' = Owned \ H /\ H \subseteq Owned
  <2>1. Owned' = (Owned \ Held(req[r])) \cup Held(Idle)
    BY <1>3, OwnedAfter
  <2>2. Held(req[r]) \subseteq Owned
    BY DEF Owned
  <2>. QED
    BY <1>4, <2>1, <2>2
<1>6. HasOnce(req[r]) /\ Settled(req[r], files, version) /\ PlanFits(req[r], files, version) /\ IsRequest(req[r])
      /\ version \in Nat /\ version <= Len(files) /\ Len(files) \in Nat /\ Grows(files, files')
  BY <1>2, RState DEF HInv, Clean
<1>7. \A w \in W : /\ w.rev \in 1..version /\ files[w.rev].name = w.name /\ w.id \in 1..MaxFiles
                   /\ files[w.rev].op = (IF w.new THEN "create" ELSE "extend")
  BY <1>6 DEF PlanFits, Stands, Settled, IsRequest, Write
<1>8. \A s \in Requests : Settled(req'[s], files', version')
  <2>1. Settled(Idle, files, version)
    BY IdleParts DEF Settled
  <2>. QED
    BY <1>2, <1>3, <1>6, <2>1, SettledStep
<1>9. \A k \in version' + 1 .. Len(files') : \E s \in Requests : Flying(req'[s]) /\ req'[s].rev = k
  <2>1. SUFFICES ASSUME NEW k \in version + 1 .. Len(files)
                 PROVE  \E s \in Requests : Flying(req'[s]) /\ req'[s].rev = k
    BY <1>2
  <2>2. PICK s \in Requests : Flying(req[s]) /\ req[s].rev = k
    BY DEF Clean
  <2>3. s # r
    BY <1>1, <2>2 DEF Flying
  <2>. QED
    BY <1>3, <2>2, <2>3
<1>10. ASSUME NEW n \in Names
       PROVE  Cardinality(Creates(n, files, version) \ (Owned \ H)) =
              Cardinality(Deletes(n, files, version) \ (Owned \ H)) + Exists(row'[n] # NoRow)
  <2>. DEFINE C == Creates(n, files, version)
              D == Deletes(n, files, version)
  <2>1. Cardinality(C \ Owned) = Cardinality(D \ Owned) + Exists(row[n] # NoRow)
    BY DEF Clean, Balance
  <2>2. IsFiniteSet(C \ Owned) /\ Cardinality(C \ Owned) \in Nat /\ Cardinality(D \ Owned) \in Nat
    BY <1>6, ChainCounts
  <2>3. \A k \in D : k \notin H
    BY <1>7 DEF Deletes, Drops
  <2>4. D \ (Owned \ H) = D \ Owned
    BY <2>3
  <2>5. ASSUME \A w \in W : w.name = n => ~w.new, row'[n] = NoRow <=> row[n] = NoRow
        PROVE  Cardinality(C \ (Owned \ H)) = Cardinality(D \ (Owned \ H)) + Exists(row'[n] # NoRow)
    <3>1. \A k \in C : k \notin H
      BY <1>7, <2>5 DEF Creates
    <3>2. C \ (Owned \ H) = C \ Owned
      BY <3>1
    <3>. QED
      BY <2>1, <2>4, <2>5, <3>2
  <2>6. CASE row'[n] = row[n] /\ (\A w \in W : w.name # n)
    BY <2>5, <2>6
  <2>7. CASE \E w \in W : w.name = n /\ row'[n] = Written(w)
    <3>1. PICK w \in W : w.name = n /\ row'[n] = Written(w)
      BY <2>7
    <3>2. row'[n] # NoRow
      BY <1>7, <3>1 DEF Written, NoRow
    <3>3. \A v \in W : v.name = n => v = w
      BY <1>6, <3>1 DEF HasOnce
    <3>4. CASE ~w.new
      <4>1. row[n].id = w.id
        BY <1>1, <3>1, <3>4 DEF Writable
      <4>2. row[n] # NoRow
        BY <1>7, <4>1 DEF NoRow
      <4>. QED
        BY <2>5, <3>2, <3>3, <3>4, <4>2
    <3>5. CASE w.new
      <4>1. row[n] = NoRow
        BY <1>1, <3>1, <3>5 DEF Writable
      <4>2. w.rev \in C /\ w.rev \in Owned /\ w.rev \in H
        BY <1>5, <1>7, <3>1, <3>5 DEF Creates
      <4>3. \A k \in C : k \in H => k = w.rev
        BY <1>7, <3>3 DEF Creates
      <4>4. C \ (Owned \ H) = (C \ Owned) \cup {w.rev} /\ w.rev \notin C \ Owned
        BY <4>2, <4>3
      <4>5. Cardinality(C \ (Owned \ H)) = Cardinality(C \ Owned) + 1
        BY <2>2, <4>4, FS_AddElement
      <4>6. Exists(row'[n] # NoRow) = 1 /\ Exists(row[n] # NoRow) = 0
        BY <3>2, <4>1 DEF Exists
      <4>7. Cardinality(C \ Owned) = Cardinality(D \ Owned) + 0
        BY <2>1, <4>6, Zenon
      <4>8. Cardinality(C \ (Owned \ H)) = Cardinality(D \ Owned) + 1
        <5>. HIDE DEF C, D, H, W
        <5>. QED
          BY <2>2, <4>5, <4>7
      <4>. QED
        BY <2>4, <4>6, <4>8, Zenon
    <3>. QED
      BY <3>4, <3>5
  <2>. QED
    BY <1>1, <2>6, <2>7
<1>11. Balance(row', files', version', Owned')
  BY <1>2, <1>5, <1>10 DEF Balance
<1>12. Alternate(table', files', version')
  BY <1>2 DEF Clean
<1>. QED
  BY <1>8, <1>9, <1>11, <1>12 DEF Clean

\* A deletion that is over: its table was dropped, its row goes.
LEMMA FinalizeKeepsClean == ASSUME RInv, HInv, Clean, NEW r \in Requests, Finalize(r), failed' = {} PROVE Clean'
<1>. DEFINE m == req[r].name
            d == req[r].rev
<1>1. /\ req[r].at = "finalize" /\ Set(r, Idle) /\ m \in Names /\ UNCHANGED <<table, version, disk>>
      /\ row[m].id = req[r].id /\ row' = [row EXCEPT ![m] = NoRow]
  <2>1. failed' # failed \cup {"request"}
    OBVIOUS
  <2>2. /\ req[r].at = "finalize" /\ Set(r, Idle) /\ m \in Names /\ UNCHANGED <<table, version, disk>>
    BY FinalizeSteps
  <2>. QED
    BY <2>1, <2>2 DEF Finalize
<1>2. files' = files /\ version' = version /\ table' = table
  BY <1>1 DEF disk
<1>3. req'[r] = Idle /\ \A s \in Requests \ {r} : req'[s] = req[s]
  BY <1>1, RState DEF Set
<1>4. Settled(req[r], files, version) /\ IsPlaced(req[r]) /\ version \in Nat /\ Grows(files, files')
      /\ row \in [Names -> Row]
  BY <1>2, RState DEF Clean
<1>5. Held(req[r]) = {d} /\ Held(Idle) = {}
  <2>1. req[r].writes = {}
    BY <1>1, <1>4 DEF IsPlaced
  <2>. QED
    BY <1>1, <2>1, IdleIsRequest, IdleParts DEF Held
<1>6. Owned' = Owned \ {d} /\ d \in Owned
  <2>1. Owned' = (Owned \ Held(req[r])) \cup Held(Idle)
    BY <1>3, OwnedAfter
  <2>2. Held(req[r]) \subseteq Owned
    BY DEF Owned
  <2>. QED
    BY <1>5, <2>1, <2>2
<1>7. d \in 1..version /\ Drops(files[d], m) /\ req[r].id \in 1..version
  BY <1>1, <1>4 DEF Settled
<1>8. row[m] # NoRow
  BY <1>1, <1>4, <1>7 DEF NoRow
<1>9. \A s \in Requests : Settled(req'[s], files', version')
  <2>1. Settled(Idle, files, version)
    BY IdleParts DEF Settled
  <2>. QED
    BY <1>2, <1>3, <1>4, <2>1, SettledStep
<1>10. \A k \in version' + 1 .. Len(files') : \E s \in Requests : Flying(req'[s]) /\ req'[s].rev = k
  <2>1. SUFFICES ASSUME NEW k \in version + 1 .. Len(files)
                 PROVE  \E s \in Requests : Flying(req'[s]) /\ req'[s].rev = k
    BY <1>2
  <2>2. PICK s \in Requests : Flying(req[s]) /\ req[s].rev = k
    BY DEF Clean
  <2>3. s # r
    BY <1>1, <2>2 DEF Flying
  <2>. QED
    BY <1>3, <2>2, <2>3
<1>11. ASSUME NEW n \in Names
       PROVE  Cardinality(Creates(n, files, version) \ (Owned \ {d})) =
              Cardinality(Deletes(n, files, version) \ (Owned \ {d})) + Exists(row'[n] # NoRow)
  <2>. DEFINE C == Creates(n, files, version)
              D == Deletes(n, files, version)
  <2>1. Cardinality(C \ Owned) = Cardinality(D \ Owned) + Exists(row[n] # NoRow)
    BY DEF Clean, Balance
  <2>2. IsFiniteSet(D \ Owned) /\ Cardinality(C \ Owned) \in Nat /\ Cardinality(D \ Owned) \in Nat
    BY <1>4, ChainCounts
  <2>3. C \ (Owned \ {d}) = C \ Owned
    <3>1. d \notin C
      BY <1>7 DEF Creates, Drops
    <3>. QED
      BY <3>1
  <2>4. CASE n = m
    <3>1. d \in D
      BY <1>7, <2>4 DEF Deletes
    <3>2. D \ (Owned \ {d}) = (D \ Owned) \cup {d} /\ d \notin D \ Owned
      BY <1>6, <3>1
    <3>3. Cardinality(D \ (Owned \ {d})) = Cardinality(D \ Owned) + 1
      BY <2>2, <3>2, FS_AddElement
    <3>4. row'[n] = NoRow
      BY <1>1, <1>4, <2>4
    <3>5. Exists(row'[n] # NoRow) = 0 /\ Exists(row[n] # NoRow) = 1
      BY <1>8, <2>4, <3>4 DEF Exists
    <3>6. Cardinality(C \ Owned) = Cardinality(D \ Owned) + 1
      BY <2>1, <3>5, Zenon
    <3>7. Cardinality(C \ (Owned \ {d})) = Cardinality(D \ (Owned \ {d})) + 0
      <4>. HIDE DEF C, D, d
      <4>1. Cardinality(C \ (Owned \ {d})) = Cardinality(C \ Owned)
        BY <2>3, Zenon
      <4>. QED
        BY <2>2, <3>3, <3>6, <4>1
    <3>. QED
      BY <3>5, <3>7, Zenon
  <2>5. CASE n # m
    <3>1. d \notin D
      BY <1>7, <2>5 DEF Deletes, Drops
    <3>2. D \ (Owned \ {d}) = D \ Owned
      BY <3>1
    <3>3. row'[n] = row[n]
      BY <1>1, <1>4, <2>5
    <3>. QED
      BY <2>1, <2>3, <3>2, <3>3
  <2>. QED
    BY <2>4, <2>5
<1>12. Balance(row', files', version', Owned')
  BY <1>2, <1>6, <1>11 DEF Balance
<1>13. Alternate(table', files', version')
  BY <1>2 DEF Clean
<1>. QED
  BY <1>9, <1>10, <1>12, <1>13 DEF Clean

\* As long as nothing fails, every step keeps the balance.
LEMMA NextKeepsClean == ASSUME RInv, HInv, Clean, [Next]_vars, Good' PROVE Clean'
<1>0. failed' = {} /\ mishaps' = 0 /\ ~torn'
  BY DEF Good
<1>1. \A r \in Requests : IsPlaced(req[r])
  BY RState
<1>2. ASSUME NEW r \in Requests, NEW q, Turned(r, q), UNCHANGED <<db, disk>>, req[r].at = "idle",
             q.writes = {}, ~Flying(q), q.at # "finalize"
      PROVE  Clean'
  <2>1. req[r].writes = {} /\ ~Flying(req[r]) /\ req[r].at # "finalize"
    BY <1>1, <1>2 DEF IsPlaced, Flying
  <2>. QED
    BY <1>2, <2>1, ReadKeepsClean
<1>3. ASSUME NEW r \in Requests, NEW n \in Names, DeleteRead(r, n) PROVE Clean'
  <2>1. PICK q : Turned(r, q) /\ q.at = "generate" /\ q.writes = {} /\ req[r].at = "idle"
    BY <1>3, DeleteReadTurns
  <2>. QED
    BY <1>2, <1>3, <2>1 DEF DeleteRead, Flying
<1>4. ASSUME NEW r \in Requests, NEW n \in Names, NEW S \in Schemas, CreateRead(r, n, S) PROVE Clean'
  <2>1. PICK q : Turned(r, q) /\ q.at = "generate" /\ q.writes = {} /\ req[r].at = "idle"
    BY <1>4, CreateReadTurns
  <2>. QED
    BY <1>2, <1>4, <2>1 DEF CreateRead, Flying
<1>5. ASSUME NEW r \in Requests, NEW n \in Names, NEW S \in Schemas, UpdateRead(r, n, S) PROVE Clean'
  <2>1. PICK q : Turned(r, q) /\ q.at = "generate" /\ q.writes = {} /\ req[r].at = "idle"
    BY <1>5, UpdateReadTurns
  <2>. QED
    BY <1>2, <1>5, <2>1 DEF UpdateRead, Flying
<1>6. ASSUME NEW r \in Requests, NEW items \in Imports, NEW strategy \in Strategies, ImportStart(r, items, strategy)
      PROVE  Clean'
  <2>1. PICK q : Turned(r, q) /\ q.at = "item" /\ q.writes = {} /\ req[r].at = "idle"
    BY <1>6, ImportStartTurns
  <2>. QED
    BY <1>2, <1>6, <2>1 DEF ImportStart, Flying
<1>7. ASSUME NEW r \in Requests, UpgradeStart(r) PROVE Clean'
  <2>1. PICK q : Turned(r, q) /\ q.at = "apply" /\ q.op = "upgrade" /\ q.writes = {} /\ req[r].at = "idle"
    BY <1>7, UpgradeStartTurns
  <2>. QED
    BY <1>2, <1>7, <2>1 DEF UpgradeStart, Flying
<1>8. ASSUME NEW r \in Requests, ImportItem(r) PROVE Clean'
  <2>1. PICK q : Turned(r, q) /\ q.writes = req[r].writes /\ q.at \in {"item", "generate"} /\ req[r].at = "item"
    BY <1>8, ImportItemTurns
  <2>2. ~Flying(req[r]) /\ ~Flying(q) /\ UNCHANGED <<db, disk>>
    BY <1>8, <2>1 DEF Flying, ImportItem
  <2>. QED
    BY <2>1, <2>2, ReadKeepsClean
<1>9. ASSUME NEW r \in Requests, ImportEnds(r) PROVE Clean'
  <2>1. PICK q : Turned(r, q) /\ q.at = "commit" /\ q.writes = req[r].writes /\ req[r].at = "item"
    BY <1>9, ImportEndsTurns
  <2>2. ~Flying(req[r]) /\ ~Flying(q) /\ UNCHANGED <<db, disk>>
    BY <1>9, <2>1 DEF Flying, ImportEnds
  <2>. QED
    BY <2>1, <2>2, ReadKeepsClean
<1>10. ASSUME NEW r \in Requests, NEW q, Set(r, q), files' = files, UNCHANGED db,
              q.writes = req[r].writes, q.todo = req[r].todo, q.rev = req[r].rev, Flying(q) <=> Flying(req[r]),
              q.at # "finalize", req[r].at # "finalize"
       PROVE  Clean'
  <2>1. HasOnce(req[r])
    BY DEF HInv
  <2>2. Held(q) = Held(req[r])
    BY <1>10, <2>1, HasOnceSame
  <2>3. Settled(q, files, version)
    BY <1>10 DEF Clean, Settled
  <2>4. req'[r] = q /\ \A s \in Requests \ {r} : req'[s] = req[s]
    BY <1>10, RState DEF Set
  <2>. QED
    BY <1>10, <2>2, <2>3, <2>4, CleanAfterTurn DEF db
<1>11. ASSUME NEW r \in Requests, LoadPlan(r) PROVE Clean'
  <2>1. PICK q : /\ Turned(r, q) /\ q.at = "execute" /\ req[r].at = "apply" /\ q.writes = req[r].writes
                 /\ q.todo = req[r].todo /\ q.rev = req[r].rev /\ (Flying(q) <=> Flying(req[r]))
    BY <1>11, LoadPlanTurns
  <2>. QED
    BY <1>10, <1>11, <2>1 DEF LoadPlan, disk, Turned
<1>12. ASSUME NEW r \in Requests, Inject(r) PROVE Clean'
  <2>1. PICK q : /\ Set(r, q) /\ files' = files /\ req[r].at = "inject" /\ q.at = "apply" /\ q.rev = req[r].rev
                 /\ q.todo = req[r].todo /\ q.writes = req[r].writes /\ (Flying(q) <=> Flying(req[r]))
    BY <1>12, InjectSteps
  <2>. QED
    BY <1>10, <1>12, <2>1 DEF Inject
<1>13. ASSUME NEW r \in Requests, GenerateFails(r) \/ LoadFails(r) \/ ExecuteFails(r) PROVE Clean'
  <2>1. failed' # {}
    BY <1>13 DEF GenerateFails, LoadFails, ExecuteFails, Failed
  <2>. QED
    BY <1>0, <2>1
<1>14. CASE Crash
  <2>1. mishaps' # 0
    BY <1>14, RState DEF Crash
  <2>. QED
    BY <1>0, <2>1
<1>15. ASSUME NEW n \in Names, InsertRecord(n) PROVE Clean'
  BY <1>15 DEF InsertRecord, disk, Clean, Alternate, Balance, Owned
<1>16. CASE UNCHANGED vars
  BY <1>16 DEF vars, db, disk, Clean, Alternate, Balance, Owned
<1>. QED
  BY <1>0, <1>3, <1>4, <1>5, <1>6, <1>7, <1>8, <1>9, <1>11, <1>12, <1>13, <1>14, <1>15, <1>16,
     GenerateKeepsClean, ExecuteKeepsClean, CommitKeepsClean, FinalizeKeepsClean DEF Next, Request

\* The fourth invariant is inductive, beside the first and the third.
LEMMA NextKeepsGInv == ASSUME RInv, HInv, GInv, [Next]_vars PROVE GInv'
BY GoodBefore, NextKeepsClean DEF GInv

\* It holds at the start.
LEMMA InitGInv == Init => GInv
<1>. SUFFICES ASSUME Init PROVE Clean
  BY DEF GInv
<1>1. /\ row = [n \in Names |-> NoRow] /\ table = [n \in Names |-> {}] /\ files = <<>> /\ version = 0
      /\ req = [r \in Requests |-> Idle]
  BY DEF Init
<1>2. Len(files) = 0
  BY <1>1
<1>3. \A r \in Requests : Settled(req[r], files, version)
  <2>1. Settled(Idle, files, version)
    BY IdleParts DEF Settled
  <2>. QED
    BY <1>1, <2>1
<1>4. \A n : Creates(n, files, version) = {} /\ Deletes(n, files, version) = {}
  BY <1>1 DEF Creates, Deletes
<1>5. \A n : Creates(n, files, version) \ Owned = {} /\ Deletes(n, files, version) \ Owned = {}
  BY <1>4
<1>6. Cardinality({}) = 0
  BY FS_EmptySet
<1>zero. \A n \in Names : Exists(table[n] # {}) = 0 /\ Exists(row[n] # NoRow) = 0
  BY <1>1 DEF Exists
<1>7. Alternate(table, files, version)
  <2>1. SUFFICES ASSUME NEW n \in Names
                 PROVE  Cardinality(Creates(n, files, version)) =
                        Cardinality(Deletes(n, files, version)) + Exists(table[n] # {})
    BY DEF Alternate
  <2>2. Cardinality({}) = Cardinality({}) + 0
    BY <1>6
  <2>. QED
    BY <1>4, <1>zero, <2>2, Zenon
<1>8. Balance(row, files, version, Owned)
  <2>1. SUFFICES ASSUME NEW n \in Names
                 PROVE  Cardinality(Creates(n, files, version) \ Owned) =
                        Cardinality(Deletes(n, files, version) \ Owned) + Exists(row[n] # NoRow)
    BY DEF Balance
  <2>2. Cardinality({}) = Cardinality({}) + 0
    BY <1>6
  <2>. QED
    BY <1>5, <1>zero, <2>2, Zenon
<1>9. \A k \in version + 1 .. Len(files) : \E r \in Requests : Flying(req[r]) /\ req[r].rev = k
  BY <1>1, <1>2
<1>. QED
  BY <1>3, <1>7, <1>8, <1>9 DEF Clean

\* When nobody has anything, the counts of tables and of rows are the same.
LEMMA CleanLeavesNothing == ASSUME RInv, GInv PROVE NothingLeftOver
<1>. SUFFICES ASSUME Quiet, mishaps = 0, failed = {}, ~torn
              PROVE  version = Len(files) /\ \A n \in Names : row[n] = NoRow <=> table[n] = {}
  BY DEF NothingLeftOver
<1>1. Clean
  BY DEF GInv, Good
<1>2. \A r \in Requests : req[r].at = "idle" /\ ~Flying(req[r]) /\ req[r].writes = {}
  BY RState DEF Quiet, Flying, IsPlaced
<1>3. Owned = {}
  BY <1>2 DEF Owned, Held
<1>4. version \in Nat /\ Len(files) \in Nat /\ version <= Len(files)
  BY RState
<1>5. version = Len(files)
  <2>1. ASSUME version # Len(files) PROVE FALSE
    <3>1. Len(files) \in version + 1 .. Len(files)
      BY <1>4, <2>1
    <3>. QED
      BY <1>1, <1>2, <3>1 DEF Clean
  <2>. QED
    BY <2>1
<1>6. ASSUME NEW n \in Names PROVE row[n] = NoRow <=> table[n] = {}
  <2>. DEFINE c == Cardinality(Creates(n, files, version))
              d == Cardinality(Deletes(n, files, version))
              x == Exists(table[n] # {})
              y == Exists(row[n] # NoRow)
  <2>1. c = d + x
    BY <1>1 DEF Clean, Alternate
  <2>2. c = d + y
    <3>1. /\ Creates(n, files, version) \ Owned = Creates(n, files, version)
          /\ Deletes(n, files, version) \ Owned = Deletes(n, files, version)
      BY <1>3
    <3>2. Cardinality(Creates(n, files, version) \ Owned) = Cardinality(Deletes(n, files, version) \ Owned) + y
      BY <1>1 DEF Clean, Balance
    <3>. QED
      BY <3>1, <3>2, Zenon
  <2>3. c \in Nat /\ d \in Nat /\ x \in Nat /\ y \in Nat
    BY <1>4, ChainCounts DEF Exists
  <2>4. x = y
    <3>. HIDE DEF c, d, x, y
    <3>. QED
      BY <2>1, <2>2, <2>3
  <2>. QED
    BY <2>4 DEF Exists
<1>. QED
  BY <1>5, <1>6

\* For any number of names, requests and migrations: when the server has not died and no
\* request has failed, requests that have ended leave no pending file, no table without a row
\* and no row without a table.
THEOREM SpecNothingLeftOver == Spec => []NothingLeftOver
<1>1. RInv /\ HInv /\ GInv /\ [Next]_vars => RInv' /\ HInv' /\ GInv'
  BY NextKeepsRInv, NextKeepsHInv, NextKeepsGInv
<1>2. RInv /\ GInv => NothingLeftOver
  BY CleanLeavesNothing
<1>. QED
  BY InitRInv, InitHInv, InitGInv, <1>1, <1>2, PTL DEF Spec

=============================================================================
