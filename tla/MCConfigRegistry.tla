-------------------------- MODULE MCConfigRegistry --------------------------
(* Small instances of ConfigRegistry for TLC.                               *)
EXTENDS ConfigRegistry, TLC

CONSTANTS acme, p, q, a1, a2, r1, v1, v2

Plain(v) == [enabled |-> TRUE, value |-> v, default |-> FALSE]

\* Two system providers, the one a default or not; the tenant overrides it or not.
MCInitialRows ==
  {[k \in Keys |-> CASE k = <<System, p>> -> [Plain(v1) EXCEPT !.default = d]
                     [] k = <<System, q>> -> Plain(v2)
                     [] k = <<acme, p>>   -> own
                     [] OTHER             -> NoRow] :
     d \in BOOLEAN, own \in {NoRow, Plain(v2)}}

\* Every request on one provider of the tenant and of the system, and the defaults of the
\* system's two providers.
MCRequests ==
  {<<s, p>> : s \in Scopes} \X ([kind : {"status"}, enabled : BOOLEAN]
                               \cup [kind : {"values"}, value : {v1}]
                               \cup [kind : {"delete"}]
                               \cup [kind : {"create"}, enabled : {TRUE}, value : {v1}])
  \cup {<<System, p>>, <<System, q>>} \X [kind : {"default"}]
  \cup {<<System, p>>} \X [kind : {"undefault"}]
  \cup {<<System, q>>} \X ([kind : {"status"}, enabled : {FALSE}]
                            \cup [kind : {"values"}, value : {Masked}] \cup [kind : {"delete"}])

MCQueries == {<<s, p>> : s \in Scopes}

MCBuiltin == {<<System, q>>}

Symmetry == Permutations(Admins)
=============================================================================
