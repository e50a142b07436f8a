---------------------------- MODULE Collections ----------------------------
(***************************************************************************)
(* The life of a collection: its row in the collections table, its         *)
(* physical table, and the chain of Alembic migration files in             *)
(* sb_data/migrations that turns one into the other.                       *)
(*                                                                         *)
(* The three are written by different means: a file by the event loop, a   *)
(* table by `upgrade heads`, which runs in an executor thread over a       *)
(* connection of its own, the row by the request's session.  No            *)
(* transaction spans them; the steps of one request and of several         *)
(* requests of one server process interleave between them.                 *)
(***************************************************************************)
EXTENDS Integers, Sequences, FiniteSets

CONSTANTS
  Names,       \* names of collections
  Fields,      \* fields a schema may have
  Virtual,     \* the computed ones: no column stands for them
  Required,    \* the required ones without a default
  Target,      \* Target[f]: the collection a reference field points to, or Id
  Id,          \* the system columns, which every table has
  Schemas,     \* the schemas requests come with
  Imports,     \* the files an import may bring: sequences of [name, fields]
  Strategies,  \* what an import does with collections that exist: "error", "skip", "update"
  Requests,    \* requests that may be in flight together
  NoOne,
  Dialect,     \* "postgresql" or "sqlite"
  MaxFiles,    \* bound: migration files
  MaxMishaps   \* bound: crashes of the server

ASSUME CollectionsAssumption ==
  /\ Virtual \subseteq Fields /\ Required \subseteq Fields \ Virtual
  /\ Id \notin Fields /\ Id \notin Names /\ NoOne \notin Requests
  /\ Target \in [Fields -> Names \cup {Id}]
  /\ Schemas \subseteq (SUBSET Fields) \ {{}}
  /\ Imports \subseteq Seq([name : Names, fields : Schemas])
  /\ \A items \in Imports : \A i, j \in DOMAIN items : items[i].name = items[j].name => i = j
  /\ Strategies \subseteq {"error", "skip", "update"}
  /\ Dialect \in {"postgresql", "sqlite"}
  /\ MaxFiles \in Nat /\ MaxMishaps \in Nat

VARIABLES
  row,        \* row[n]: the committed row of collection n; id 0 stands for none
  table,      \* table[n]: the columns of col_n; {} stands for no table
  populated,  \* the tables that have records
  files,      \* the migration files, in the order of the dynamic branch
  version,    \* how many of them alembic_version says are applied
  writing,    \* the request that has created the last file and not yet its body
  req,        \* req[r]: the request r
  mishaps,
  torn,       \* history: a file was applied before it had its body
  failed      \* history: "request" or "import" items that ended in an error after their file

disk    == <<files, writing>>
db      == <<row, table, populated, version>>
history == <<torn, failed>>
vars == <<db, disk, req, mishaps, history>>

NoRow == [id |-> 0, fields |-> {}, rev |-> 0]
Row   == [id : 0..MaxFiles, fields : SUBSET Fields, rev : 0..MaxFiles]
File  == [op : {"create", "extend", "drop", "none"}, name : Names, fields : SUBSET Fields]

Idle == [at |-> "idle", op |-> "none", name |-> Id, id |-> 0, fields |-> {}, old |-> {},
         rev |-> 0, from |-> 0, upto |-> 0, torn |-> FALSE, todo |-> <<>>, batch |-> FALSE,
         strategy |-> "error", writes |-> {}]
At == {"idle", "item", "generate", "inject", "apply", "execute", "commit", "finalize"}

TypeOK ==
  /\ row \in [Names -> Row]
  /\ table \in [Names -> SUBSET (Fields \cup {Id})]
  /\ \A n \in Names : table[n] # {} => Id \in table[n]
  /\ populated \subseteq Names
  /\ files \in Seq(File) /\ Len(files) <= MaxFiles
  /\ version \in 0..Len(files)
  /\ writing \in Requests \cup {NoOne}
  /\ \A r \in Requests : req[r].at \in At /\ (writing = r <=> req[r].at = "inject")
  /\ \A r \in Requests : req[r].writes # {} => req[r].at = "commit" \/ req[r].batch
  /\ mishaps \in 0..MaxMishaps
  /\ torn \in BOOLEAN
  /\ failed \subseteq {"request", "import"}

Init ==
  /\ row = [n \in Names |-> NoRow]
  /\ table = [n \in Names |-> {}]
  /\ populated = {}
  /\ files = <<>>
  /\ version = 0
  /\ writing = NoOne
  /\ req = [r \in Requests |-> Idle]
  /\ mishaps = 0
  /\ torn = FALSE
  /\ failed = {}

Set(r, new) == req' = [req EXCEPT ![r] = new]

-----------------------------------------------------------------------------
(* What a migration file does to the tables.                               *)

Physical(S) == S \ Virtual

Applicable(t, f) ==
  CASE f.op = "none"   -> TRUE
    [] f.op = "create" -> /\ t[f.name] = {}
                          /\ Dialect = "postgresql" =>
                               \A x \in f.fields :
                                 Target[x] \in {Id, f.name} \cup {n \in Names : t[n] # {}}
    [] f.op = "extend" -> /\ t[f.name] # {}
                          /\ Physical(f.fields) \cap t[f.name] = {}
                          /\ f.name \in populated => f.fields \cap Required = {}
    [] f.op = "drop"   -> /\ t[f.name] # {}
                          /\ Dialect = "postgresql" =>
                               \A n \in Names \ {f.name} : \A x \in t[n] \ {Id} : Target[x] # f.name

Effect(t, f) ==
  CASE f.op = "none"   -> t
    [] f.op = "create" -> [t EXCEPT ![f.name] = {Id} \cup Physical(f.fields)]
    [] f.op = "extend" -> [t EXCEPT ![f.name] = @ \cup Physical(f.fields)]
    [] f.op = "drop"   -> [t EXCEPT ![f.name] = {}]

\* An update that adds computed fields only writes a with statement without a body: the
\* file is not Python, and reading the script directory fails from then on.
Unreadable(f) == f.op = "extend" /\ Physical(f.fields) = {}

ScriptsLoad ==
  \A k \in DOMAIN files : Unreadable(files[k]) => k = Len(files) /\ writing # NoOne

\* The file as request r has read it.
FileRead(r, k) ==
  IF req[r].torn /\ k = req[r].upto THEN [files[k] EXCEPT !.op = "none"] ELSE files[k]

\* The tables after the first k files of r's plan.
TablesAfter(r) ==
  LET t[k \in req[r].from..req[r].upto] ==
        IF k = req[r].from THEN table ELSE Effect(t[k - 1], FileRead(r, k))
  IN  t

\* The plan can be carried out as far as its k-th file.
Executable(r, k) ==
  \A i \in (req[r].from + 1)..k : Applicable(TablesAfter(r)[i - 1], FileRead(r, i))

-----------------------------------------------------------------------------
(* How a request ends, or an import goes on with its next item.            *)

NextItem(r, writes) ==
  Set(r, [Idle EXCEPT !.at = "item", !.batch = TRUE, !.todo = Tail(req[r].todo),
                      !.strategy = req[r].strategy, !.writes = writes])

\* Faulty variant: the revision is looked up at the head of the branch.
NewRowHead(r) ==
  [name |-> req[r].name, id |-> IF req[r].op = "create" THEN req[r].rev ELSE req[r].id,
   fields |-> req[r].fields, rev |-> Len(files), new |-> req[r].op = "create"]

\* The row the request is to write.
NewRow(r) ==
  [name |-> req[r].name, id |-> IF req[r].op = "create" THEN req[r].rev ELSE req[r].id,
   fields |-> req[r].fields, rev |-> req[r].rev, new |-> req[r].op = "create"]

\* Faulty variant: an error of the migration is logged and the request goes on.
FailedUnnoticed(r) ==
  /\ Set(r, [Idle EXCEPT !.at = "commit", !.writes = {NewRow(r)}])
  /\ UNCHANGED failed

\* The migration has failed: the request ends with an error, an import notes it.
Failed(r) ==
  /\ IF req[r].batch THEN NextItem(r, req[r].writes) ELSE Set(r, Idle)
  /\ failed' = failed \cup {IF req[r].batch THEN "import" ELSE "request"}

\* The migration has been applied: the row is next.
Applied(r) ==
  CASE req[r].op = "upgrade" -> Set(r, Idle)
    [] req[r].op = "delete"  -> Set(r, [Idle EXCEPT !.at = "finalize", !.name = req[r].name,
                                                    !.id = req[r].id, !.rev = req[r].rev])
    [] OTHER -> IF req[r].batch THEN NextItem(r, req[r].writes \cup {NewRow(r)})
                ELSE Set(r, [Idle EXCEPT !.at = "commit", !.writes = {NewRow(r)}])

-----------------------------------------------------------------------------
(* The requests.                                                           *)

\* The event loop is in none of the two steps that write a file.
LoopFree == writing = NoOne

Begin(r) == LoopFree /\ req[r].at = "idle" /\ Len(files) < MaxFiles

\* create_collection: the name is free.
CreateRead(r, n, S) ==
  /\ Begin(r)
  /\ row[n] = NoRow
  /\ Set(r, [Idle EXCEPT !.at = "generate", !.op = "create", !.name = n, !.fields = S])
  /\ UNCHANGED <<db, disk, mishaps, history>>

\* update_collection_schema: fields may only be added.
UpdateRead(r, n, S) ==
  /\ Begin(r)
  /\ row[n] # NoRow
  /\ row[n].fields \subseteq S /\ row[n].fields # S
  /\ Set(r, [Idle EXCEPT !.at = "generate", !.op = "update", !.name = n, !.id = row[n].id,
                         !.fields = S, !.old = row[n].fields])
  /\ UNCHANGED <<db, disk, mishaps, history>>

\* prepare_collection_deletion: the row is found and the records of its table are counted,
\* which is an error if there is no table.
DeleteRead(r, n) ==
  /\ Begin(r)
  /\ row[n] # NoRow /\ table[n] # {}
  /\ Set(r, [Idle EXCEPT !.at = "generate", !.op = "delete", !.name = n, !.id = row[n].id])
  /\ UNCHANGED <<db, disk, mishaps, history>>

\* import_collections, the collections in the order of their references.
ImportStart(r, items, strategy) ==
  /\ Begin(r)
  /\ Set(r, [Idle EXCEPT !.at = "item", !.batch = TRUE, !.todo = items, !.strategy = strategy])
  /\ UNCHANGED <<db, disk, mishaps, history>>

\* One collection of the file: created, updated, or reported as skipped or in error.
ImportItem(r) ==
  /\ LoopFree /\ req[r].at = "item" /\ req[r].todo # <<>>
  /\ LET item == Head(req[r].todo)
         old  == row[item.name]
         go   == [req[r] EXCEPT !.at = "generate", !.name = item.name, !.fields = item.fields]
     IN  CASE old = NoRow -> Set(r, [go EXCEPT !.op = "create"])
           [] /\ old # NoRow /\ req[r].strategy = "update"
              /\ old.fields \subseteq item.fields /\ old.fields # item.fields
                -> Set(r, [go EXCEPT !.op = "update", !.id = old.id, !.old = old.fields])
           [] OTHER -> NextItem(r, req[r].writes)
  /\ UNCHANGED <<db, disk, mishaps, history>>

ImportEnds(r) ==
  /\ LoopFree /\ req[r].at = "item" /\ req[r].todo = <<>>
  /\ Set(r, [req[r] EXCEPT !.at = "commit"])
  /\ UNCHANGED <<db, disk, mishaps, history>>

\* `snackbase migrate upgrade`, while the server runs; with nothing pending it does nothing.
UpgradeStart(r) ==
  /\ Begin(r) /\ version < Len(files)
  /\ Set(r, [Idle EXCEPT !.at = "apply", !.op = "upgrade"])
  /\ UNCHANGED <<db, disk, mishaps, history>>

-----------------------------------------------------------------------------
(* The migration service.  Files are written on the event loop, which does *)
(* nothing else meanwhile; upgrades run in threads beside it.              *)

FileOp(op) == CASE op = "create" -> "create" [] op = "update" -> "extend" [] op = "delete" -> "drop"

\* alembic.command.revision: a file whose upgrade does nothing, at the head of the branch.
Generate(r) ==
  /\ LoopFree /\ req[r].at = "generate"
  /\ ScriptsLoad /\ Len(files) < MaxFiles
  /\ files' = Append(files, [op |-> FileOp(req[r].op), name |-> req[r].name,
                             fields |-> req[r].fields \ req[r].old])
  /\ writing' = r
  /\ Set(r, [req[r] EXCEPT !.at = "inject", !.rev = Len(files) + 1, !.old = {}])
  /\ UNCHANGED <<db, mishaps, history>>

GenerateFails(r) ==
  /\ LoopFree /\ req[r].at = "generate"
  /\ ~ScriptsLoad
  /\ Failed(r)
  /\ UNCHANGED <<db, disk, mishaps, torn>>

\* _inject_ops_into_migration gives the file its body.
Inject(r) ==
  /\ writing = r
  /\ writing' = NoOne
  /\ Set(r, [req[r] EXCEPT !.at = "apply"])
  /\ UNCHANGED <<db, files, mishaps, history>>

\* `upgrade heads` reads alembic_version and the files.
LoadPlan(r) ==
  /\ req[r].at = "apply" /\ ScriptsLoad
  /\ Set(r, [req[r] EXCEPT !.at = "execute", !.from = version, !.upto = Len(files),
                           !.torn = writing # NoOne])
  /\ UNCHANGED <<db, disk, mishaps, history>>

\* ... which it cannot if a file is unreadable, for good or while it is being rewritten.
LoadFails(r) ==
  /\ req[r].at = "apply"
  /\ ~ScriptsLoad \/ writing # NoOne
  /\ Failed(r)
  /\ UNCHANGED <<db, disk, mishaps, torn>>

\* SQLite has one writer: the upgrade waits for a session that has written and gives up
\* after the busy timeout.
LockedBy(r) == {q \in Requests : Dialect = "sqlite" /\ req[q].writes # {}}

UpgradeTo(r, k) ==
  /\ table' = TablesAfter(r)[k]
  /\ version' = IF k = req[r].from THEN version ELSE k
  /\ populated' = {n \in populated : TablesAfter(r)[k][n] # {}}

\* The files of the plan are executed, and nobody was faster.
Execute(r) ==
  LET p == req[r] IN
  /\ p.at = "execute"
  /\ p.from = p.upto \/ (p.from = version /\ LockedBy(r) = {} /\ Executable(r, p.upto))
  /\ UpgradeTo(r, p.upto)
  /\ torn' = (torn \/ (p.torn /\ p.from < p.upto))
  /\ Applied(r)
  /\ UNCHANGED <<row, disk, mishaps, failed>>

\* A file fails: PostgreSQL rolls the whole upgrade back, SQLite keeps the files before it.
ExecuteFails(r) ==
  LET p == req[r] IN
  /\ p.at = "execute" /\ p.from < p.upto
  /\ \/ /\ p.from # version \/ LockedBy(r) # {}
        /\ UNCHANGED <<table, version, populated>>
     \/ /\ p.from = version /\ LockedBy(r) = {} /\ ~Executable(r, p.upto)
        /\ LET k == CHOOSE i \in p.from..p.upto : Executable(r, i) /\ ~Executable(r, i + 1)
           IN  UpgradeTo(r, IF Dialect = "sqlite" THEN k ELSE p.from)
  /\ Failed(r)
  /\ UNCHANGED <<row, disk, mishaps, torn>>

-----------------------------------------------------------------------------
(* The rows.                                                               *)

\* An insert needs the name to be free, an update the row it has read.
Writable(w) == IF w.new THEN row[w.name] = NoRow ELSE row[w.name].id = w.id

Written(w) == [id |-> w.id, fields |-> w.fields, rev |-> w.rev]

\* The session commits.
Commit(r) ==
  LET W == req[r].writes IN
  /\ LoopFree /\ req[r].at = "commit"
  /\ IF \A w \in W : Writable(w)
     THEN /\ row' = [n \in Names |-> IF \E w \in W : w.name = n
                                     THEN Written(CHOOSE w \in W : w.name = n) ELSE row[n]]
          /\ UNCHANGED failed
     ELSE /\ failed' = failed \cup {"request"}
          /\ UNCHANGED row
  /\ Set(r, Idle)
  /\ UNCHANGED <<table, populated, version, disk, mishaps, torn>>

\* Faulty variant: the new session is closed without a commit.
FinalizeUncommitted(r) ==
  /\ LoopFree /\ req[r].at = "finalize"
  /\ Set(r, Idle)
  /\ UNCHANGED <<db, disk, mishaps, history>>

\* finalize_collection_deletion, by id: an error if the collection is gone.
Finalize(r) ==
  LET n == req[r].name IN
  /\ LoopFree /\ req[r].at = "finalize"
  /\ IF row[n].id = req[r].id
     THEN row' = [row EXCEPT ![n] = NoRow] /\ UNCHANGED failed
     ELSE failed' = failed \cup {"request"} /\ UNCHANGED row
  /\ Set(r, Idle)
  /\ UNCHANGED <<table, populated, version, disk, mishaps, torn>>

\* The records API fills the table of a listed collection.
InsertRecord(n) ==
  /\ row[n] # NoRow /\ table[n] # {} /\ n \notin populated
  /\ populated' = populated \cup {n}
  /\ UNCHANGED <<row, table, version, disk, req, mishaps, history>>

\* The process dies: sessions and upgrades are rolled back, a file without body stays.
Crash ==
  /\ mishaps < MaxMishaps
  /\ \E r \in Requests : req[r].at # "idle"
  /\ mishaps' = mishaps + 1
  /\ req' = [r \in Requests |-> Idle]
  /\ files' = IF writing = NoOne THEN files ELSE [files EXCEPT ![Len(files)].op = "none"]
  /\ writing' = NoOne
  /\ UNCHANGED <<db, history>>

-----------------------------------------------------------------------------
Request(r) ==
  \/ \E n \in Names : \/ DeleteRead(r, n)
                      \/ \E S \in Schemas : CreateRead(r, n, S) \/ UpdateRead(r, n, S)
  \/ \E items \in Imports, strategy \in Strategies : ImportStart(r, items, strategy)
  \/ ImportItem(r) \/ ImportEnds(r) \/ UpgradeStart(r)
  \/ Generate(r) \/ GenerateFails(r) \/ Inject(r)
  \/ LoadPlan(r) \/ LoadFails(r) \/ Execute(r) \/ ExecuteFails(r)
  \/ Commit(r) \/ Finalize(r)

Next ==
  \/ \E r \in Requests : Request(r)
  \/ \E n \in Names : InsertRecord(n)
  \/ Crash

Spec == Init /\ [][Next]_vars

-----------------------------------------------------------------------------
\* A deletion has been written into the chain after the migration of collection id.
Doomed(n, id) == \E k \in id + 1..Len(files) : files[k].op = "drop" /\ files[k].name = n

\* A listed collection has its table, with a column for every field that is not computed,
\* until a deletion of its name is written into the chain after it: whatever the requests do
\* at once, whichever of their migrations fail and whenever the server dies.  Only an upgrade
\* that read a migration file before its body was written breaks this.
ListedHasTable ==
  ~torn => \A n \in Names : row[n] # NoRow /\ ~Doomed(n, row[n].id) =>
            {Id} \cup Physical(row[n].fields) \subseteq table[n]

Quiet == \A r \in Requests : req[r].at = "idle"

\* As long as the server has not died and no request has failed, nothing is left over
\* when the requests have ended: no file is pending, and a table belongs to every listed
\* collection and to no other.
NothingLeftOver ==
  Quiet /\ mishaps = 0 /\ failed = {} /\ ~torn =>
    /\ version = Len(files)
    /\ \A n \in Names : row[n] = NoRow <=> table[n] = {}

\* migration_revision of a listed collection is a migration of that collection, and applied.
RevisionIsApplied ==
  \A n \in Names : row[n] # NoRow =>
    row[n].rev \in 1..version /\ files[row[n].rev].name = n /\ files[row[n].rev].op # "drop"

=============================================================================
