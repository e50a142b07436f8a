--------------------------- MODULE ConfigRegistry ---------------------------
(***************************************************************************)
(* The settings of one category of providers (OAuth, email, storage...):   *)
(* rows of an account that override the rows of the system account, the    *)
(* endpoints that edit them, and the registry that resolves them behind a  *)
(* cache of one server process.                                            *)
(*                                                                         *)
(* A request reads its row, writes, commits and then clears one cache      *)
(* entry; a resolution that misses the cache reads the account's row, then *)
(* the system's, and stores what it found.  Both await between these       *)
(* steps, so they interleave.                                              *)
(***************************************************************************)
EXTENDS Integers, FiniteSets

CONSTANTS
  Accounts,      \* the tenants
  System,        \* the system account
  Providers,     \* provider names of the category
  Values,        \* decrypted configurations
  Off,           \* what a missing or disabled row resolves to
  NoRow, NoEntry,
  Masked,        \* a PATCH that sends the mask back keeps the value it has read
  Admins,        \* administrative requests in flight
  Readers,       \* resolutions in flight
  Builtin,       \* the rows that are seeded as built-in
  InitialRows,   \* the tables a run may start with
  Requests,      \* the requests a run may make
  Queries,       \* the account and provider a run may resolve
  TTL,           \* CACHE_TTL, in ticks
  MaxRequests    \* bound: administrative requests

Scopes  == Accounts \cup {System}
Keys    == Scopes \X Providers
Content == Values \cup {Off}
Row     == [enabled : BOOLEAN, value : Values, default : BOOLEAN]
Table   == [Keys -> Row \cup {NoRow}]
Entry   == [value : Content, left : 1..TTL]

\* What an administrator can ask for.
Op == [kind : {"status"}, enabled : BOOLEAN]
        \cup [kind : {"values"}, value : Values \cup {Masked}]
        \cup [kind : {"default", "undefault", "delete"}]
        \cup [kind : {"create"}, enabled : BOOLEAN, value : Values]

ASSUME ConfigAssumption ==
  /\ System \notin Accounts
  /\ Off \notin Values /\ Masked \notin Values
  /\ NoRow \notin Row /\ NoEntry \notin Entry
  /\ Builtin \subseteq Keys
  /\ InitialRows \subseteq Table /\ Requests \subseteq Keys \X Op
  /\ Queries \subseteq Keys
  /\ TTL \in Nat \ {0} /\ MaxRequests \in Nat

VARIABLES
  serialised,   \* the database is SQLite: one writer at a time
  row,          \* the configurations table, as committed
  cache,        \* ConfigurationRegistry._cache: a value and the ticks it has left; an
                \* expired entry is as good as none
  admin,        \* admin[a]: where request a is, and its local variables
  reader,       \* reader[r]: the same for a resolution
  requests,     \* counts requests
  held,         \* history: held[k][c] is the number of ticks (up to TTL) since row k had c
  settled,      \* history: keys whose last change has been invalidated, with no resolution
                \* of the key under way at that moment
  overlapped    \* history: scopes on which two requests have overlapped

vars == <<serialised, row, cache, admin, reader, requests, held, settled, overlapped>>

Scope(k)    == k[1]
Provider(k) == k[2]

\* What a row contributes to a resolution.
Resolves(x) == IF x = NoRow THEN Off ELSE IF x.enabled THEN x.value ELSE Off

\* The account's own row; for the system account there is none with is_system false.
OwnRow(k)    == IF Scope(k) = System THEN NoRow ELSE row[k]
SystemRow(k) == row[<<System, Provider(k)>>]

Live(k) == cache[k] # NoEntry

IdleAdmin  == [at |-> "idle"]
IdleReader == [at |-> "idle"]

\* What a request means to leave in the rows it has changed.
Changes == UNION {[ks -> Row \cup {NoRow}] : ks \in SUBSET Keys}

Request    == [at : {"clear", "write", "commit", "invalidate"}, key : Keys, op : Op,
               saw : Row \cup {NoRow}, new : Changes]
Resolution == [at : {"own", "system", "store"}, key : Keys, age : 0..TTL, value : Content]

TypeOK ==
  /\ serialised \in BOOLEAN
  /\ row \in Table
  /\ cache \in [Keys -> Entry \cup {NoEntry}]
  /\ admin \in [Admins -> Request \cup {IdleAdmin}]
  /\ reader \in [Readers -> Resolution \cup {IdleReader}]
  /\ requests \in 0..MaxRequests
  /\ held \in [Keys -> [Content -> 0..TTL]]
  /\ settled \subseteq Keys /\ overlapped \subseteq Scopes

Init ==
  /\ serialised \in BOOLEAN
  /\ row \in InitialRows
  /\ cache = [k \in Keys |-> NoEntry]
  /\ admin = [a \in Admins |-> IdleAdmin] /\ reader = [r \in Readers |-> IdleReader]
  /\ requests = 0
  /\ held = [k \in Keys |-> [c \in Content |-> IF c = Resolves(row[k]) THEN 0 ELSE TTL]]
  /\ settled = Keys /\ overlapped = {}

-----------------------------------------------------------------------------
(* get_effective_config.                                                   *)

readVars == <<serialised, row, admin, requests, held, overlapped>>

\* A live entry is returned at once; otherwise the resolution goes to the database, and
\* its entry will expire TTL after this moment.
Miss(r, k) ==
  /\ reader[r] = IdleReader
  /\ ~Live(k)
  /\ reader' = [reader EXCEPT ![r] = [at |-> "own", key |-> k, age |-> 0, value |-> Off]]
  /\ UNCHANGED <<readVars, cache, settled>>

\* The account's override, if it exists and is enabled ...
ReadOwn(r) ==
  /\ reader[r].at = "own"
  /\ LET found == Resolves(OwnRow(reader[r].key)) IN
       reader' = [reader EXCEPT ![r].value = found,
                                ![r].at = IF found = Off THEN "system" ELSE "store"]
  /\ UNCHANGED <<readVars, cache, settled>>

\* ... or else the system's row.
ReadSystem(r) ==
  /\ reader[r].at = "system"
  /\ reader' = [reader EXCEPT ![r].value = Resolves(SystemRow(reader[r].key)),
                              ![r].at = "store"]
  /\ UNCHANGED <<readVars, cache, settled>>

\* Faulty variant: the entry lives for TTL from now on.
StoreLate(r) ==
  /\ reader[r].at = "store"
  /\ cache' = [cache EXCEPT ![reader[r].key] = [value |-> reader[r].value, left |-> TTL]]
  /\ reader' = [reader EXCEPT ![r] = IdleReader]
  /\ UNCHANGED <<readVars, settled>>

\* The entry expires TTL after the resolution began.
Store(r) ==
  LET left == TTL - reader[r].age IN
  /\ reader[r].at = "store"
  /\ cache' = [cache EXCEPT ![reader[r].key] =
                 IF left > 0 THEN [value |-> reader[r].value, left |-> left] ELSE NoEntry]
  /\ reader' = [reader EXCEPT ![r] = IdleReader]
  /\ UNCHANGED <<readVars, settled>>

-----------------------------------------------------------------------------
(* The endpoints of the admin router.                                      *)

\* The rows a has changed and not committed are locked; SQLite locks the whole database
\* from the first changing statement on.
Free(a, ks) ==
  \A b \in Admins \ {a} :
    admin[b].at = "commit" \/ (admin[b].at = "write" /\ admin[b].op.kind = "default") =>
      ~serialised /\ DOMAIN admin[b].new \cap ks = {}

NoChange == [k \in {} |-> NoRow]

\* The row is read, and the request refused (404, 400) if it does not suit: only an
\* enabled provider can become the default, a built-in one is not deleted.
Begin(a, k, op) ==
  /\ admin[a] = IdleAdmin
  /\ requests < MaxRequests
  /\ op.kind # "create" => row[k] # NoRow
  /\ op.kind = "default" => row[k].enabled
  /\ op.kind = "delete" => k \notin Builtin
  /\ admin' = [admin EXCEPT ![a] =
       [at |-> IF op.kind = "default" THEN "clear" ELSE "write",
        key |-> k, op |-> op, saw |-> row[k], new |-> NoChange]]
  /\ requests' = requests + 1
  /\ overlapped' = overlapped \cup
       {s \in {Scope(k)} : \E b \in Admins : admin[b] # IdleAdmin /\ Scope(admin[b].key) = s}
  /\ UNCHANGED <<serialised, row, cache, reader, held, settled>>

writeVars == <<serialised, row, reader, requests, held, overlapped>>

\* Faulty variant: a default that is set before is left alone.
ClearNothing(a) ==
  /\ admin[a].at = "clear"
  /\ Free(a, {})
  /\ admin' = [admin EXCEPT ![a].at = "write"]
  /\ UNCHANGED <<writeVars, cache, settled>>

\* set_default_config first clears the default of the scope, as far as it is committed.
ClearDefault(a) ==
  LET old == {k \in Keys : /\ Scope(k) = Scope(admin[a].key)
                           /\ row[k] # NoRow /\ row[k].default}
  IN
  /\ admin[a].at = "clear"
  /\ Free(a, old)
  /\ admin' = [admin EXCEPT ![a].at = "write",
                            ![a].new = [k \in old |-> [row[k] EXCEPT !.default = FALSE]]]
  /\ UNCHANGED <<writeVars, cache, settled>>

\* The columns a writes into row x: those that differ from what it has read.
Written(a, x) ==
  LET op == admin[a].op saw == admin[a].saw IN
  CASE op.kind = "status" ->
         [x EXCEPT !.enabled = IF saw.enabled = op.enabled THEN @ ELSE op.enabled,
                   !.default = IF ~op.enabled /\ saw.default THEN FALSE ELSE @]
    [] op.kind = "values"    -> [x EXCEPT !.value = IF op.value = Masked THEN saw.value
                                                    ELSE op.value]
    [] op.kind = "default"   -> [x EXCEPT !.default = TRUE]
    [] op.kind = "undefault" -> [x EXCEPT !.default = IF saw.default THEN FALSE ELSE @]

Add(new, k, x) == [i \in DOMAIN new \cup {k} |-> IF i = k THEN x ELSE new[i]]

\* What a leaves in its row: a creation needs a free name; a PATCH needs the row; setting
\* or unsetting the default, or deleting, look again and pass over a row that has gone.
Leaves(a) ==
  LET k == admin[a].key op == admin[a].op IN
  CASE op.kind = "create" -> [enabled |-> op.enabled, value |-> op.value, default |-> FALSE]
    [] op.kind = "delete" \/ row[k] = NoRow -> NoRow
    [] OTHER -> Written(a, IF k \in DOMAIN admin[a].new THEN admin[a].new[k] ELSE row[k])

\* The statement that changes the row.  A creation clears the cache entry now, before its
\* commit.
Write(a) ==
  LET k == admin[a].key kind == admin[a].op.kind IN
  /\ admin[a].at = "write"
  /\ Free(a, {k})
  /\ CASE kind = "create"               -> row[k] = NoRow
       [] kind \in {"status", "values"} -> row[k] # NoRow
       [] OTHER                         -> TRUE
  /\ admin' = [admin EXCEPT ![a].at = "commit", ![a].new = Add(@, k, Leaves(a))]
  /\ cache' = IF kind = "create" THEN [cache EXCEPT ![k] = NoEntry] ELSE cache
  /\ UNCHANGED <<writeVars, settled>>

\* The name is taken, or the row has gone (a DELETE of nothing only warns): an error, and
\* the transaction is rolled back.
WriteFails(a) ==
  LET k == admin[a].key kind == admin[a].op.kind IN
  /\ admin[a].at = "write"
  /\ Free(a, {k})
  /\ IF kind = "create" THEN row[k] # NoRow ELSE kind # "delete" /\ row[k] = NoRow
  /\ admin' = [admin EXCEPT ![a] = IdleAdmin]
  /\ UNCHANGED <<writeVars, cache, settled>>

Commit(a) ==
  LET new     == admin[a].new
      changed == {k \in DOMAIN new : Resolves(new[k]) # Resolves(row[k])}
  IN
  /\ admin[a].at = "commit"
  /\ row' = [k \in Keys |-> IF k \in DOMAIN new THEN new[k] ELSE row[k]]
  /\ held' = [k \in Keys |-> IF k \in changed THEN [held[k] EXCEPT ![Resolves(new[k])] = 0]
                             ELSE held[k]]
  /\ settled' = settled \ changed
  /\ admin' = [admin EXCEPT ![a] = IF @.op.kind = "create" THEN IdleAdmin
                                   ELSE [@ EXCEPT !.at = "invalidate"]]
  /\ UNCHANGED <<serialised, cache, reader, requests, overlapped>>

\* Faulty variant: the entry of the system account is cleared instead.
InvalidateSystem(a) ==
  LET k == admin[a].key IN
  /\ admin[a].at = "invalidate"
  /\ cache' = [cache EXCEPT ![<<System, Provider(k)>>] = NoEntry]
  /\ settled' = IF \A r \in Readers : reader[r] # IdleReader => reader[r].key # k
                THEN settled \cup {k} ELSE settled
  /\ admin' = [admin EXCEPT ![a] = IdleAdmin]
  /\ UNCHANGED writeVars

\* _invalidate_cache removes the entry of this very account and provider.
Invalidate(a) ==
  LET k == admin[a].key IN
  /\ admin[a].at = "invalidate"
  /\ cache' = [cache EXCEPT ![k] = NoEntry]
  /\ settled' = IF \A r \in Readers : reader[r] # IdleReader => reader[r].key # k
                THEN settled \cup {k} ELSE settled
  /\ admin' = [admin EXCEPT ![a] = IdleAdmin]
  /\ UNCHANGED writeVars

\* Time passes.
Tick ==
  /\ cache' = [k \in Keys |-> IF cache[k] = NoEntry THEN NoEntry
                              ELSE IF cache[k].left = 1 THEN NoEntry
                              ELSE [cache[k] EXCEPT !.left = @ - 1]]
  /\ reader' = [r \in Readers |-> IF reader[r] = IdleReader THEN IdleReader
                                  ELSE [reader[r] EXCEPT !.age = IF @ < TTL THEN @ + 1 ELSE TTL]]
  /\ held' = [k \in Keys |-> [c \in Content |->
                 IF c = Resolves(row[k]) THEN 0
                 ELSE IF held[k][c] < TTL THEN held[k][c] + 1 ELSE TTL]]
  /\ UNCHANGED <<serialised, row, admin, requests, settled, overlapped>>

-----------------------------------------------------------------------------
Next ==
  \/ \E r \in Readers :
        \/ \E k \in Queries : Miss(r, k)
        \/ ReadOwn(r) \/ ReadSystem(r) \/ Store(r)
  \/ \E a \in Admins :
        \/ \E q \in Requests : Begin(a, q[1], q[2])
        \/ ClearDefault(a) \/ Write(a) \/ WriteFails(a) \/ Commit(a) \/ Invalidate(a)
  \/ Tick

Spec == Init /\ [][Next]_vars

-----------------------------------------------------------------------------
(* Properties.                                                             *)

Recent(k, c) == held[k][c] < TTL

\* However requests and resolutions interleave, what a live entry answers was put
\* together from what the account's and the system's rows held within the last TTL.
AnswersAreRecent ==
  \A k \in Keys :
    Live(k) =>
      LET v == cache[k].value sys == <<System, Provider(k)>> IN
      \/ Scope(k) # System /\ v # Off /\ Recent(k, v)
      \/ (Scope(k) = System \/ Recent(k, Off)) /\ Recent(sys, v)

\* Once a change of a row has been invalidated and no resolution of its key was under
\* way, the process answers from the changed row, and falls back to what the system
\* account had within the last TTL only if the row is missing or disabled.
OwnChangeIsSeen ==
  \A k \in settled :
    Live(k) =>
      IF Resolves(row[k]) # Off THEN cache[k].value = Resolves(row[k])
      ELSE Recent(<<System, Provider(k)>>, cache[k].value)

\* What makes both inductive.  Only a creation may have read no row, and only a deletion
\* or a row that has gone leaves none.
RequestInv ==
  \A a \in Admins :
    admin[a] # IdleAdmin =>
      /\ admin[a].op.kind # "create" => admin[a].saw # NoRow
      /\ admin[a].at \in {"clear", "write"} =>
           \A k \in DOMAIN admin[a].new : admin[a].new[k] # NoRow

\* v can be the answer for k, put together from what the rows held, by the history h, in
\* the last n ticks.
Answers(h, k, v, n) ==
  \/ Scope(k) # System /\ v # Off /\ h[k][v] <= n
  \/ /\ Scope(k) = System \/ h[k][Off] <= n
     /\ h[<<System, Provider(k)>>][v] <= n

\* A resolution carries an answer no older than itself, an entry one as old as it may be.
AnswerInv ==
  /\ \A k \in Keys : held[k][Resolves(row[k])] = 0
  /\ \A r \in Readers :
       LET k == reader[r].key IN
       /\ reader[r].at = "system" => Scope(k) = System \/ held[k][Off] <= reader[r].age
       /\ reader[r].at = "store" => Answers(held, k, reader[r].value, reader[r].age)
  /\ \A k \in Keys : Live(k) => Answers(held, k, cache[k].value, TTL - cache[k].left)

\* v agrees with the row x of k; with none, it is what the system's row held, by the
\* history h, in the last n ticks.
Agrees(x, h, k, v, n) ==
  IF Resolves(x) # Off THEN v = Resolves(x) ELSE h[<<System, Provider(k)>>][v] <= n

\* Neither an entry nor a resolution of a settled key has missed its last change.
SettledInv ==
  /\ \A r \in Readers :
       reader[r] # IdleReader /\ reader[r].key \in settled =>
         LET k == reader[r].key IN
         /\ reader[r].at = "system" => Scope(k) = System \/ Resolves(row[k]) = Off
         /\ reader[r].at = "store" => Agrees(row[k], held, k, reader[r].value, reader[r].age)
  /\ \A k \in settled : Live(k) => Agrees(row[k], held, k, cache[k].value, TTL - cache[k].left)

Defaults(s) == {k \in Keys : /\ Scope(k) = s /\ row[k] # NoRow /\ row[k].default}

\* One provider at most is the default of its scope: always on SQLite, and on PostgreSQL
\* unless two requests on the scope have overlapped.  It is enabled, on both, unless two
\* requests on the scope have overlapped: one that disables it and one that selects it
\* each read the row before the other writes it.
DefaultsAreSound ==
  \A s \in Scopes :
    /\ serialised \/ s \notin overlapped => Cardinality(Defaults(s)) <= 1
    /\ s \notin overlapped => \A k \in Defaults(s) : row[k].enabled
=============================================================================
