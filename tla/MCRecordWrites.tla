--------------------------- MODULE MCRecordWrites ---------------------------
(* A small instance of RecordWrites for TLC: two requests at a time on two  *)
(* records, up to four writes, and a realtime client of each kind.          *)
EXTENDS RecordWrites, TLC

CONSTANTS a, b, x, y, s1, s2, socket, stream, posts, notes

MCEvents  == 1..MaxWrites
MCChanges == [record : Records, column : {"title", "updated_at"},
               old : 0..MaxWrites, new : 0..MaxWrites, write : 1..MaxWrites]
MCSymmetry ==
  {f @@ g @@ h : f \in Permutations({s1, s2}), g \in Permutations({x, y}),
                 h \in Permutations({a, b})}
=============================================================================
