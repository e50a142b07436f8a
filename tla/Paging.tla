------------------------------- MODULE Paging -------------------------------
(***************************************************************************)
(* A client's walk over the pages of a sorted list of records, with a      *)
(* cursor or an offset, while records are added, changed and deleted.      *)
(***************************************************************************)
EXTENDS Integers, Sequences, FiniteSets

CONSTANTS
  Ids,            \* ids of records, numbers
  RecordData,     \* what a record may hold: a sort value v, and what else rules look at
  NoValue,        \* the sort value null, at the place where the database sorts it
  Walkers,        \* who walks
  Admits(_, _),   \* (asker, record): what account, rule and filter let the asker list
  Limits,         \* page sizes
  MaxTouched      \* bound: records written during a walk

ASSUME PagingAssumption ==
  /\ Ids \subseteq Int /\ IsFiniteSet(Ids)
  /\ \A r \in RecordData : r.v \in Int
  /\ NoValue \in Int
  /\ Limits \subseteq Nat \ {0}
  /\ MaxTouched \in Nat

VARIABLES
  rows,       \* the collection's table: id -> record
  walk,       \* the walk; seen is what it has shown, and, as history, steady are
              \* the records nobody has touched since it began
  touched     \* number of records written meanwhile
pageVars == <<rows, walk, touched>>

Tables == UNION {[S -> RecordData] : S \in SUBSET Ids}
NoWalk == [is |-> "none"]
NoCursor == [v |-> NoValue, id |-> 0]

Candidates(asker) == {id \in DOMAIN rows : Admits(asker, rows[id])}

-----------------------------------------------------------------------------
(* The query.                                                               *)

Above(desc, x, y) == IF desc THEN x > y ELSE x < y

\* The orders the database may give: the cursor's breaks ties by id, the other does not.
Orders(idSet, desc, byId) ==
  {s \in [1..Cardinality(idSet) -> idSet] :
     \A i, j \in DOMAIN s : i < j =>
       /\ s[i] # s[j]
       /\ \/ Above(desc, rows[s[i]].v, rows[s[j]].v)
          \/ rows[s[i]].v = rows[s[j]].v /\ (byId => Above(desc, s[i], s[j]))}

\* Faulty variant: the cursor's condition forgets the id.
AfterValue(cursor, desc, id) ==
  cursor.v = NoValue \/ (rows[id].v # NoValue /\ Above(desc, cursor.v, rows[id].v))

\* The cursor's condition; there is none when its value is null.  Null compares to nothing.
After(cursor, desc, id) ==
  \/ cursor.v = NoValue
  \/ /\ rows[id].v # NoValue
     /\ \/ Above(desc, cursor.v, rows[id].v)
        \/ cursor.v = rows[id].v /\ Above(desc, cursor.id, id)

\* LIMIT and OFFSET.
Page(s, skip, limit) ==
  SubSeq(s, skip + 1, IF Len(s) < skip + limit THEN Len(s) ELSE skip + limit)

-----------------------------------------------------------------------------
StartWalk(asker, mode, desc, limit) ==
  /\ walk.is = "none"
  /\ walk' = [is |-> "on", asker |-> asker, mode |-> mode, desc |-> desc, limit |-> limit,
              cursor |-> NoCursor, skip |-> 0, seen |-> <<>>, steady |-> Candidates(asker), nullCut |-> FALSE]
  /\ UNCHANGED <<rows, touched>>

\* With a cursor: one more than a page is read, to know whether to go on.
\* Bound: a walk that starts again and again ends after two rounds.
NextPage ==
  /\ walk.is = "on" /\ walk.mode = "cursor" /\ Len(walk.seen) < 2 * Cardinality(Ids)
  /\ \E s \in Orders({id \in Candidates(walk.asker) : After(walk.cursor, walk.desc, id)}, walk.desc, TRUE) :
       LET page == Page(s, 0, walk.limit)
           more == Len(s) > walk.limit
           last == IF page = <<>> THEN NoCursor ELSE [v |-> rows[page[Len(page)]].v, id |-> page[Len(page)]]
       IN walk' = [walk EXCEPT !.is = IF more THEN "on" ELSE "done", !.cursor = last, !.seen = @ \o page,
                               !.nullCut = @ \/ (more /\ last.v = NoValue)]
  /\ UNCHANGED <<rows, touched>>

\* With an offset, until the total is reached.
NextOffset ==
  /\ walk.is = "on" /\ walk.mode = "skip"
  /\ \E s \in Orders(Candidates(walk.asker), walk.desc, FALSE) :
       walk' = [walk EXCEPT !.is = IF walk.skip + walk.limit < Len(s) THEN "on" ELSE "done",
                            !.skip = @ + walk.limit, !.seen = @ \o Page(s, walk.skip, walk.limit)]
  /\ UNCHANGED <<rows, touched>>

\* Meanwhile somebody adds, changes or deletes a record.
Write(id, after) ==
  /\ walk.is = "on" /\ touched < MaxTouched
  /\ rows' = after
  /\ walk' = [walk EXCEPT !.steady = @ \ {id}]
  /\ touched' = touched + 1

\* An id is given once.
Insert(id, record) ==
  /\ walk.is = "on" /\ id \notin DOMAIN rows
  /\ \A i \in 1..Len(walk.seen) : walk.seen[i] # id
  /\ Write(id, [i \in DOMAIN rows \cup {id} |-> IF i = id THEN record ELSE rows[i]])
Edit(id, record) ==
  /\ id \in DOMAIN rows
  /\ Write(id, [rows EXCEPT ![id] = record])
RemoveRow(id) ==
  /\ id \in DOMAIN rows
  /\ Write(id, [i \in DOMAIN rows \ {id} |-> rows[i]])

PagesInit == rows \in Tables /\ walk = NoWalk /\ touched = 0

PagesNext ==
  \/ \E a \in Walkers, m \in {"cursor", "skip"}, desc \in BOOLEAN, l \in Limits : StartWalk(a, m, desc, l)
  \/ NextPage
  \/ NextOffset
  \/ \E id \in Ids :
       \/ RemoveRow(id)
       \/ \E r \in RecordData : Insert(id, r) \/ Edit(id, r)

PagesSpec == PagesInit /\ [][PagesNext]_pageVars

-----------------------------------------------------------------------------
\* A walk with cursors shows every record that nobody touches exactly once, in the
\* order of the walk, whatever else is added, changed or deleted between its pages,
\* as long as no page ends with a record without a value; records without one are
\* not shown twice.
SteadyRowsOnce ==
  walk.is = "done" /\ walk.mode = "cursor" /\ ~walk.nullCut =>
    \A id \in walk.steady :
      LET places == {i \in DOMAIN walk.seen : walk.seen[i] = id} IN
      IF rows[id].v = NoValue THEN Cardinality(places) <= 1
      ELSE /\ Cardinality(places) = 1
           /\ \A other \in walk.steady : \A i \in places, j \in DOMAIN walk.seen :
                walk.seen[j] = other /\ j < i => ~Above(walk.desc, rows[id].v, rows[other].v)
=============================================================================
