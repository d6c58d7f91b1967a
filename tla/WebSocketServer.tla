--------------------------- MODULE WebSocketServer ---------------------------
(***************************************************************************)
(* The dashboard (src/dashboard/websocket_server.cpp): the life of its     *)
(* server thread, which the owner starts and stops, and the registry of    *)
(* clients, which the handlers on that thread keep and the consumer thread *)
(* reads in broadcast_tick().  The event loop is uWebSockets, known from   *)
(* its use: "Closing the listen socket causes uWS::App::run() to return".  *)
(***************************************************************************)
EXTENDS Integers, FiniteSets, Functions

CONSTANTS Conn,      \* the connections ever opened
          Id,        \* what generate_client_id() draws from
          Ticker,
          MaxStarts  \* bound on the calls of start()

ASSUME BoundAssumption == MaxStarts \in Nat

VARIABLES
  patient,    \* run() waits for the connections left, or else drops them
  running_,
  listen_socket_,  \* as a flag: it is not null
  thread,     \* where the server thread is
  joinable,   \* server_thread_ stands for a thread not yet joined
  bound,      \* how its listen() ended
  caller,     \* where the owner is
  destroying, \* it is in the destructor
  starts,     \* its calls of start()
  missed,     \* its last stop() found no socket to close
  terminated, \* why std::terminate() was called
  open,       \* the connections now open
  id,         \* id[k] is the id drawn for connection k
  clients_,   \* the subscriptions, by id
  client_count_,
  handler,    \* the handler the server thread is in
  wanted,     \* wanted[k] is what connection k has asked for
  dropped     \* how many connections ended without their close handler

life == <<running_, listen_socket_, thread, joinable, bound>>
owner == <<caller, destroying, starts, missed>>
registry == <<open, id, clients_, client_count_, handler, wanted, dropped>>
vars == <<patient, life, owner, terminated, registry>>

Init ==
  /\ patient \in BOOLEAN
  /\ running_ = FALSE /\ listen_socket_ = FALSE
  /\ thread = "ended" /\ joinable = FALSE /\ bound = "never"
  /\ caller = "idle" /\ destroying = FALSE /\ starts = 0 /\ missed = FALSE
  /\ terminated = "no"
  /\ open = {} /\ id = <<>> /\ clients_ = <<>> /\ client_count_ = 0
  /\ handler = "none" /\ wanted = <<>> /\ dropped = 0

-----------------------------------------------------------------------------
(* The owner: start(), stop() and the destructor.                          *)

\* Assigning to a thread object that is still joinable terminates.
Start ==
  /\ caller = "idle" /\ ~running_ /\ starts < MaxStarts
  /\ starts' = starts + 1 /\ running_' = TRUE
  /\ \/ joinable /\ terminated' = "joinable" /\ UNCHANGED <<thread, joinable, bound>>
     \/ /\ ~joinable /\ UNCHANGED terminated
        /\ thread' = "starting" /\ joinable' = TRUE /\ bound' = "never"
  /\ UNCHANGED <<patient, listen_socket_, caller, destroying, missed, registry>>

\* The end of stop().  In the destructor the members go next, and a thread
\* object that is joinable terminates.
Leave ==
  /\ caller' = IF destroying' THEN "destroyed" ELSE "idle"
  /\ terminated' = IF destroying' /\ joinable' THEN "joinable" ELSE terminated

\* stop() called by the owner, or by the destructor.
CallStop ==
  /\ caller = "idle"
  /\ destroying' \in BOOLEAN
  /\ UNCHANGED <<patient, life, starts, missed, registry>>
  /\ IF running_ THEN caller' = "store" /\ UNCHANGED terminated ELSE Leave

StoreRunning ==
  /\ caller = "store"
  /\ caller' = "close" /\ running_' = FALSE
  /\ UNCHANGED <<patient, listen_socket_, thread, joinable, bound, destroying,
                 starts, missed, terminated, registry>>

\* Mutation: the socket is not closed.
Closed_Kept == listen_socket_
Closed == FALSE

\* Nothing happens when listen() has not reported a socket yet.
CloseSocket ==
  /\ caller = "close"
  /\ caller' = "join" /\ missed' = ~listen_socket_
  /\ listen_socket_' = Closed
  /\ UNCHANGED <<patient, running_, thread, joinable, bound, destroying, starts,
                 terminated, registry>>

\* Mutation: the thread is not joined.
Joinable_AfterStop == joinable
JoinableAfterJoin == FALSE

Join ==
  /\ caller = "join" /\ thread = "ended"
  /\ joinable' = JoinableAfterJoin
  /\ UNCHANGED <<patient, running_, listen_socket_, thread, bound, destroying,
                 starts, missed, registry>>
  /\ Leave

-----------------------------------------------------------------------------
(* The server thread: listen(), the loop and its end.                      *)

\* The port is bound, or it is not and run() has nothing to wait for.
Listen ==
  /\ thread = "starting"
  /\ \/ bound' = "yes" /\ thread' = "serving" /\ listen_socket_' = TRUE
        /\ UNCHANGED running_
     \/ bound' = "failed" /\ thread' = "ending" /\ running_' = FALSE
        /\ UNCHANGED listen_socket_
  /\ UNCHANGED <<patient, joinable, owner, terminated, registry>>

LoopReturns ==
  /\ thread = "serving" /\ handler = "none" /\ ~listen_socket_
  /\ patient => open = {}
  /\ thread' = "ending" /\ open' = {}
  /\ dropped' = dropped + Cardinality(open)
  /\ UNCHANGED <<patient, running_, listen_socket_, joinable, bound, owner,
                 terminated, id, clients_, client_count_, handler, wanted>>

EndThread ==
  /\ thread = "ending"
  /\ thread' = "ended" /\ running_' = FALSE
  /\ UNCHANGED <<patient, listen_socket_, joinable, bound, owner, terminated, registry>>

-----------------------------------------------------------------------------
(* The handlers, which the loop calls one after the other.  Each updates   *)
(* the registry under the mutex and the count after it.                    *)

Serving == thread = "serving" /\ handler = "none"

\* map[key] = value, which adds the entry or replaces it.
With(map, key, value) ==
  [x \in DOMAIN map \cup {key} |-> IF x = key THEN value ELSE map[x]]

\* generate_client_id() is random, so it may draw an id in use.
Open(k, i) ==
  /\ Serving /\ listen_socket_ /\ k \notin DOMAIN id
  /\ open' = open \cup {k}
  /\ id' = With(id, k, i)
  /\ clients_' = With(clients_, i, {})
  /\ wanted' = With(wanted, k, {})
  /\ handler' = "opened"
  /\ UNCHANGED <<patient, life, owner, terminated, client_count_, dropped>>

\* Mutation: the client stays in the registry.
Without_Nobody(i) == clients_
Without(i) == Restrict(clients_, DOMAIN clients_ \ {i})

Close(k) ==
  /\ Serving /\ k \in open
  /\ open' = open \ {k}
  /\ clients_' = Without(id[k])
  /\ handler' = "closed"
  /\ UNCHANGED <<patient, life, owner, terminated, id, client_count_, wanted, dropped>>

Counted == client_count_ + (IF handler = "opened" THEN 1 ELSE -1)

Count ==
  /\ handler # "none"
  /\ client_count_' = Counted
  /\ handler' = "none"
  /\ UNCHANGED <<patient, life, owner, terminated, open, id, clients_, wanted, dropped>>

\* handle_subscription(): an unknown action changes nothing and is left out, and
\* so is the callback, which the program never sets.
Asked(subscriptions, action, tickers) ==
  CASE action = "subscribe" -> subscriptions \cup tickers
    [] action = "unsubscribe" -> subscriptions \ tickers

\* A client whose id is not in the registry is ignored.
Message(k, action, tickers) ==
  /\ Serving /\ k \in open
  /\ clients_' = IF id[k] \in DOMAIN clients_
                 THEN [clients_ EXCEPT ![id[k]] = Asked(@, action, tickers)]
                 ELSE clients_
  /\ wanted' = [wanted EXCEPT ![k] = Asked(@, action, tickers)]
  /\ UNCHANGED <<patient, life, owner, terminated, open, id, client_count_,
                 handler, dropped>>

\* get<std::string>() throws on a field of another type, out of the handler
\* and of the thread.
MessageThrows(k) ==
  /\ Serving /\ k \in open
  /\ terminated' = "exception"
  /\ UNCHANGED <<patient, life, owner, registry>>

\* The clients that broadcast_tick() selects for a tick of ticker t.  It
\* reads the registry under the mutex and logs them: nothing is sent.
Selected(t) == {i \in DOMAIN clients_ : clients_[i] = {} \/ t \in clients_[i]}

-----------------------------------------------------------------------------
InStop == caller \in {"store", "close", "join"}

\* stop() found no socket to close, and listen() reported one after that.
Missed == caller = "join" /\ missed /\ thread = "serving"

OwnerStep == terminated = "no" /\ (StoreRunning \/ CloseSocket \/ Join)

LoopStep == terminated = "no" /\ (Listen \/ Count \/ LoopReturns \/ EndThread)

ClientStep ==
  /\ terminated = "no"
  /\ \E k \in Conn :
       \/ \E i \in Id : Open(k, i)
       \/ \E action \in {"subscribe", "unsubscribe"},
             tickers \in SUBSET Ticker \ {{}} : Message(k, action, tickers)
       \/ Close(k) \/ MessageThrows(k)

Next == \/ terminated = "no" /\ (Start \/ CallStop)
        \/ OwnerStep \/ LoopStep \/ ClientStep

Spec == Init /\ [][Next]_vars

\* The threads go on when they can; clients and the owner call when they like.
FairSpec == Spec /\ WF_vars(OwnerStep) /\ WF_vars(LoopStep)

-----------------------------------------------------------------------------
TypeOK ==
  /\ patient \in BOOLEAN /\ running_ \in BOOLEAN /\ listen_socket_ \in BOOLEAN
  /\ thread \in {"starting", "serving", "ending", "ended"}
  /\ joinable \in BOOLEAN /\ bound \in {"never", "yes", "failed"}
  /\ caller \in {"idle", "store", "close", "join", "destroyed"}
  /\ destroying \in BOOLEAN /\ missed \in BOOLEAN /\ starts \in 0 .. MaxStarts
  /\ terminated \in {"no", "joinable", "exception"}
  /\ open \subseteq DOMAIN id /\ DOMAIN wanted = DOMAIN id
  /\ DOMAIN id \subseteq Conn /\ id \in [DOMAIN id -> Id]
  /\ wanted \in [DOMAIN id -> SUBSET Ticker]
  /\ DOMAIN clients_ \subseteq Id /\ clients_ \in [DOMAIN clients_ -> SUBSET Ticker]
  /\ client_count_ \in Nat /\ dropped \in Nat
  /\ handler \in {"none", "opened", "closed"}

(***************************************************************************)
(* A tick is broadcast, at any moment between the handlers' critical       *)
(* sections, to the clients that have asked for its symbol or for no       *)
(* symbol in particular, and to no others: provided that no id was drawn   *)
(* twice and no loop has dropped its connections.                          *)
(***************************************************************************)
TicksGoWhereWanted ==
  (IsInjective(id) /\ dropped = 0) =>
    \A t \in Ticker :
      Selected(t) = {id[k] : k \in {c \in open : wanted[c] = {} \/ t \in wanted[c]}}

(***************************************************************************)
(* "Destructor stops the server" (websocket_server.hpp): over any sequence *)
(* of start(), stop() and the destructor, at any moment of the thread's    *)
(* life, a thread object is never overwritten or destroyed joinable unless *)
(* its port could not be bound, when stop() returns at its first test.     *)
(***************************************************************************)
JoinedIfBound ==
  /\ TypeOK
  /\ terminated = "joinable" => bound = "failed"

(***************************************************************************)
(* stop() returns, unless it came before listen() had reported the socket, *)
(* or the loop waits for clients that stay connected.                      *)
(***************************************************************************)
StopReturns ==
  \/ InStop ~> (~InStop \/ Missed \/ terminated # "no")
  \/ patient /\ <>[](open # {})
=============================================================================
