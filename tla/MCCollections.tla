--------------------------- MODULE MCCollections ---------------------------
(* Small instances of Collections for TLC: two collections, a reference to   *)
(* the first, a required field and a computed one.                           *)
EXTENDS Collections, TLC

CONSTANTS a, b, r1, r2, must, comp, ref

MCTarget  == (ref :> a) @@ [f \in Fields |-> Id]
MCSchemas == {{ref}, {ref, must}, {ref, comp}}
MCImports == {<<[name |-> a, fields |-> {ref}], [name |-> b, fields |-> {ref}]>>}
MCSymmetry == Permutations({r1, r2})

\* Everything with three files; a fourth only where one collection is created and deleted
\* over and over.
NeedsFourth == Len(files) = 4 \/ (Len(files) = 3 /\ \E r \in Requests : req[r].at = "generate")
ThreeFilesOrOneName ==
  NeedsFourth =>
    /\ mishaps = 0
    /\ \A k \in DOMAIN files : files[k].name = a /\ files[k].op # "extend"
    /\ \A r \in Requests : req[r].name # b /\ ~req[r].batch /\ req[r].op # "update"
=============================================================================
