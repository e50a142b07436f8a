------------------------------ MODULE Realtime ------------------------------
(***************************************************************************)
(* Realtime connections and the broadcasting of events to them.            *)
(*                                                                         *)
(* Everything happens on one event loop: a broadcast is a task, which      *)
(* lets go of the loop only while it sends.  Meanwhile connections come    *)
(* and go, and their owners subscribe and unsubscribe.  The connections    *)
(* belong to one account, and ask for every operation.                     *)
(***************************************************************************)
EXTENDS Integers, Sequences, SequencesExt

CONSTANTS
  Clients,
  Streams,     \* the clients that use server-sent events, the others use a websocket
  Events,      \* the events that may be published
  Watched,     \* the collection the events are of
  Collections, \* the collections a client may subscribe to
  MaxMoves     \* bound: moves of clients

ASSUME RealtimeAssumption ==
  Watched \in Collections /\ Streams \subseteq Clients /\ MaxMoves \in Nat

VARIABLES
  left,       \* the clients that have gone
  active,     \* the connected clients, in the order they came
  subs,       \* subs[c]: the collections client c is subscribed to
  heard,      \* heard[c]: the events sent to client c
  tasks,      \* the broadcasts that have not ended, in the order they were created
  moves,
  steady,     \* history: steady[e]: the clients subscribed from the publishing of e on
  disturbed   \* history: the events during whose sending the receiver changed a subscription

realtimeVars == <<left, active, subs, heard, tasks, moves, steady, disturbed>>

\* A broadcast that has begun is sending to the first client of todo, whose dictionary of
\* subscriptions had the given size when the loop over it began.
Task == [event : Events, begun : BOOLEAN, todo : Seq(Clients), size : Nat]

RealtimeTypeOK ==
  /\ active \in Seq(Clients) /\ IsInjective(active)
  /\ left \subseteq Clients \ ToSet(active)
  /\ subs \in [Clients -> SUBSET Collections]
  /\ heard \in [Clients -> Seq(Events)]
  /\ tasks \in Seq(Task)
  /\ moves \in 0..MaxMoves
  /\ steady \in [Events -> SUBSET Clients]
  /\ disturbed \subseteq Events

RealtimeInit ==
  /\ left = {}
  /\ active = <<>>
  /\ subs = [c \in Clients |-> {}]
  /\ heard = [c \in Clients |-> <<>>]
  /\ tasks = <<>>
  /\ moves = 0
  /\ steady = [e \in Events |-> {}]
  /\ disturbed = {}

Underway == {tasks[i].event : i \in DOMAIN tasks}
Connected(c) == Contains(active, c)

\* The events a broadcast is sending to c.
BeingSentTo(c) ==
  {tasks[i].event : i \in {j \in DOMAIN tasks : tasks[j].begun /\ Head(tasks[j].todo) = c}}

-----------------------------------------------------------------------------
(* The clients.                                                            *)

Move == moves < MaxMoves /\ moves' = moves + 1

\* A stream names its collections when it connects, a websocket subscribes afterwards.
Connect(c, K) ==
  /\ Move
  /\ ~Connected(c) /\ c \notin left
  /\ c \notin Streams => K = {}
  /\ active' = Append(active, c)
  /\ subs' = [subs EXCEPT ![c] = K]
  /\ UNCHANGED <<left, heard, tasks, steady, disturbed>>

\* The receiving loop of the websocket, or the generator of the stream, ends.
Disconnect(c) ==
  /\ Move
  /\ \E i \in DOMAIN active : active[i] = c /\ active' = RemoveAt(active, i)
  /\ left' = left \cup {c}
  /\ steady' = [e \in Events |-> steady[e] \ {c}]
  /\ UNCHANGED <<subs, heard, tasks, disturbed>>

Subscribe(c, collection) ==
  /\ Move
  /\ Connected(c) /\ c \notin Streams
  /\ subs' = [subs EXCEPT ![c] = @ \cup {collection}]
  /\ disturbed' = IF collection \in subs[c] THEN disturbed ELSE disturbed \cup BeingSentTo(c)
  /\ UNCHANGED <<left, active, heard, tasks, steady>>

Unsubscribe(c, collection) ==
  /\ Move
  /\ Connected(c) /\ c \notin Streams /\ collection \in subs[c]
  /\ subs' = [subs EXCEPT ![c] = @ \ {collection}]
  /\ steady' = IF collection = Watched THEN [e \in Events |-> steady[e] \ {c}] ELSE steady
  /\ disturbed' = disturbed \cup BeingSentTo(c)
  /\ UNCHANGED <<left, active, heard, tasks>>

ClientMoves ==
  \E c \in Clients : \/ \E K \in SUBSET Collections : Connect(c, K)
                     \/ Disconnect(c)
                     \/ \E k \in Collections : Subscribe(c, k) \/ Unsubscribe(c, k)

-----------------------------------------------------------------------------
(* The broadcasts.                                                         *)

\* EventBroadcaster.publish_event
Publish(e) ==
  /\ tasks' = Append(tasks, [event |-> e, begun |-> FALSE, todo |-> <<>>, size |-> 0])
  /\ steady' = [steady EXCEPT ![e] = {c \in ToSet(active) : Watched \in subs[c]}]
  /\ UNCHANGED <<left, active, subs, heard, moves, disturbed>>

\* The clients of todo from the first one on that is subscribed.
Matching(todo) ==
  LET wanted == {k \in DOMAIN todo : Watched \in subs[todo[k]]}
  IN  IF wanted = {} THEN <<>>
      ELSE SubSeq(todo, CHOOSE k \in wanted : \A l \in wanted : k <= l, Len(todo))

\* Task i goes on with the clients of todo: it starts to send to the first subscribed one,
\* which hears the event if it is still there, or ends.
GoOn(i, todo) ==
  LET next == Matching(todo) IN
  IF next = <<>>
  THEN tasks' = RemoveAt(tasks, i) /\ UNCHANGED heard
  ELSE LET c == Head(next) IN
       /\ tasks' = [tasks EXCEPT ![i] = [@ EXCEPT !.begun = TRUE, !.todo = next,
                                                  !.size = Cardinality(subs[c])]]
       /\ heard' = IF Connected(c) THEN [heard EXCEPT ![c] = Append(@, tasks[i].event)] ELSE heard

\* The tasks begin in the order of their creation, each with a snapshot of the connections.
BroadcastBegins(i) ==
  /\ i \in DOMAIN tasks /\ ~tasks[i].begun
  /\ \A j \in 1..(i - 1) : tasks[j].begun
  /\ GoOn(i, active)
  /\ UNCHANGED <<left, active, subs, moves, steady, disturbed>>

\* Faulty variant: the error of a send to a client that has gone is not caught.
SendEndsUncaught(i) ==
  /\ i \in DOMAIN tasks /\ tasks[i].begun
  /\ IF /\ Connected(Head(tasks[i].todo))
        /\ Cardinality(subs[Head(tasks[i].todo)]) = tasks[i].size
     THEN GoOn(i, Tail(tasks[i].todo))
     ELSE tasks' = RemoveAt(tasks, i) /\ UNCHANGED heard
  /\ UNCHANGED <<left, active, subs, moves, steady, disturbed>>

\* A send has ended, well or not; the loop over the subscriptions of that client goes on,
\* which it can only if their number is still the same.
SendEnds(i) ==
  /\ i \in DOMAIN tasks /\ tasks[i].begun
  /\ IF Cardinality(subs[Head(tasks[i].todo)]) = tasks[i].size
     THEN GoOn(i, Tail(tasks[i].todo))
     ELSE tasks' = RemoveAt(tasks, i) /\ UNCHANGED heard
  /\ UNCHANGED <<left, active, subs, moves, steady, disturbed>>

Broadcast == \E i \in DOMAIN tasks : BroadcastBegins(i) \/ SendEnds(i)

-----------------------------------------------------------------------------
\* A client that was subscribed when an event was published, and has been since, has heard
\* it exactly once when the broadcast is over: whoever else connects, leaves or is slow
\* meanwhile.  Only a client that changes its own subscriptions while it is being sent the
\* event breaks this, and for all the clients after it.
SteadyHears ==
  \A e \in Events \ (Underway \cup disturbed) : \A c \in steady[e] :
    Cardinality({k \in DOMAIN heard[c] : heard[c][k] = e}) = 1
=============================================================================
