---------------------------- MODULE MCEndpoints ----------------------------
(***************************************************************************)
(* Instances of Endpoints.  A behaviour is about the callbacks of the      *)
(* registry, about API-defined hooks, or about endpoints.                  *)
(***************************************************************************)
EXTENDS Endpoints

CONSTANTS w1, m1, c1, r1, r2, i1, i2, e1, e2, posts, users, any

VARIABLE scene

mcVars == <<serverVars, scene>>

McWriters == {w1}
McManagers == {m1}
McCallers == {c1}
McRows == {r1, r2}
McIds == {i1, i2}
McEditors == {e1, e2}
McEvents == {"create"}
McCollections == {posts, users}

Custom(id, coll, prio, stop, does) ==
    [id |-> id, event |-> "create", coll |-> coll, prio |-> prio, stop |-> stop,
     builtin |-> FALSE, does |-> does, order |-> 0]

\* One before everything, two between the dispatchers and the audit hook.
McCustomHook ==
    [id \in {"rewrite", "loud", "strict"} |->
        CASE id = "rewrite" -> Custom(id, users, 400, FALSE, "replace")
          [] id = "loud"    -> Custom(id, posts, 150, FALSE, "raise")
          [] OTHER          -> Custom(id, any, 150, TRUE, "raise")]
McCustoms == DOMAIN McCustomHook

McRoutes == {"item", "new"}
McIncoming == {"GET item", "GET new"}
McFits == {<<"GET item", "item">>, <<"GET new", "item">>, <<"GET new", "new">>}

McLists == {<<"unlisted", "enqueue_job", "send_email">>,
            <<"transform", "send_webhook", "enqueue_job">>}

MCInit ==
    /\ ServerInit
    /\ scene \in {"callbacks", "events", "by hand", "endpoints"}
    /\ scene # "callbacks" => auditing
    /\ scene \notin {"events", "by hand"} => \A r \in Rows : rows[r] = NoRow
    \* one hook for every collection, one for posts
    /\ scene \in {"events", "by hand"} =>
          /\ rows[r1] # NoRow /\ rows[r1].coll = any /\ rows[r1].cond = "none"
          /\ rows[r1].enabled
          /\ rows[r2] # NoRow /\ rows[r2].coll = posts

MCNext ==
    /\ \/ scene = "callbacks" /\ ChainNext /\ UNCHANGED endpointVars
       \/ scene = "events" /\ HookNext /\ registryVars' = registryVars /\ run'[m1] = run[m1]
       \/ scene = "by hand" /\ TaskNext /\ UNCHANGED endpointVars
       \/ scene = "endpoints" /\ EndpointNext
       \/ StopServer /\ stops = 0
    /\ UNCHANGED scene

MCSpec == MCInit /\ [][MCNext]_mcVars
=============================================================================
