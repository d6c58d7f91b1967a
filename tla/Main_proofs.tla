------------------------------ MODULE Main_proofs ------------------------------
(***************************************************************************)
(* For any number of connections, tickers, ticks and restarts: the         *)
(* dashboard, whoever owns it, sends a tick where it is wanted and never   *)
(* loses a thread that serves; and main, its owner, ends with its threads  *)
(* joined and its buffer drained.                                          *)
(***************************************************************************)
EXTENDS Main, FiniteSetTheorems, SequenceTheorems, TLAPS

\* The dashboard with an owner that may start it again and again.
CONSTANT MaxStarts
Server == INSTANCE WebSocketServer WITH thread <- serverThread, running_ <- serving

-----------------------------------------------------------------------------
\* The life of the dashboard's thread.

LifeType ==
  /\ patient \in BOOLEAN /\ serving \in BOOLEAN /\ listen_socket_ \in BOOLEAN
  /\ serverThread \in {"starting", "serving", "ending", "ended"}
  /\ joinable \in BOOLEAN /\ bound \in {"never", "yes", "failed"}
  /\ caller \in {"idle", "store", "close", "join", "destroyed"}
  /\ destroying \in BOOLEAN /\ missed \in BOOLEAN /\ starts \in Nat
  /\ terminated \in {"no", "joinable", "exception"}

\* A thread that has been started and not joined runs, unless its port was not
\* bound or stop() is past its store; its loop ends only for a stop() that waits
\* for it.
LifeInv ==
  /\ joinable /\ ~serving => bound = "failed" \/ caller \in {"close", "join"}
  /\ serverThread = "starting" => bound = "never"
  /\ serverThread = "serving" => bound = "yes" /\ (listen_socket_ \/ caller = "join")
  /\ serverThread = "ending" => bound = "failed" \/ caller = "join"
  /\ serverThread # "ended" => joinable
  /\ starts = 0 => ~joinable
  /\ terminated = "joinable" => bound = "failed"

-----------------------------------------------------------------------------
\* Its registry.

RegistryType ==
  /\ IsFiniteSet(open) /\ open \subseteq DOMAIN id /\ DOMAIN wanted = DOMAIN id
  /\ DOMAIN id \subseteq Conn /\ id \in [DOMAIN id -> Id]
  /\ wanted \in [DOMAIN id -> SUBSET Ticker]
  /\ DOMAIN clients_ \subseteq Id /\ clients_ \in [DOMAIN clients_ -> SUBSET Ticker]
  /\ client_count_ \in Nat /\ dropped \in Nat
  /\ handler \in {"none", "opened", "closed"}

\* The count follows the registry by one handler, and keeps the clients that a
\* loop has dropped.
CountInv ==
  client_count_ = CASE handler = "none" -> Cardinality(open) + dropped
                    [] handler = "opened" -> Cardinality(open) + dropped - 1
                    [] handler = "closed" -> Cardinality(open) + dropped + 1

\* The registry holds what each open connection has asked for.
WantedInv ==
  Server!IsInjective(id) /\ dropped = 0 =>
    /\ DOMAIN clients_ = {id[k] : k \in open}
    /\ \A k \in open : clients_[id[k]] = wanted[k]

Registry == RegistryType /\ CountInv /\ WantedInv

StartsInv == starts \in 0 .. MaxStarts

ServerInv == LifeType /\ LifeInv /\ StartsInv /\ Registry

-----------------------------------------------------------------------------
\* Main.

MainType ==
  /\ g_shutdown \in BOOLEAN
  /\ main \in {"construct", "serve", "connect", "launch", "loop", "drain", "stop",
               "dashboard", "join", "size", "final", "destroy", "exited",
               "unwind", "failed", "terminated"}
  /\ turn \in 1 .. 3
  /\ thread \in [Thread -> {"none", "created", "check", "work", "ended"}]
  /\ running_ \in [Thread -> BOOLEAN]
  /\ leftover \in 0 .. Capacity

BufferType ==
  /\ queue \in Seq(1 .. handled) /\ Len(queue) =< Capacity
  /\ output \in Seq(1 .. handled)
  /\ handled \in 0 .. MaxTicks /\ overwritten \in Nat

\* Each tick pushed is in the buffer, handed to the writer or overwritten.
AccountInv == handled = Len(output) + Len(queue) + overwritten

\* The threads that main has joined, and all of them from then on.
JoinedInv ==
  /\ main = "dashboard" => turn = 1
  /\ main = "join" => \A i \in 1 .. turn - 1 : thread[Threads[i]] = "ended"
  /\ main \in {"size", "final", "destroy", "exited"} =>
       \A t \in Thread : thread[t] = "ended"

\* What the final drain takes is all there is.
DrainedInv ==
  /\ main = "final" => leftover = Len(queue)
  /\ main \in {"destroy", "exited"} => queue = <<>>

EndInv == terminated = "joinable" => main \in {"exited", "failed"}

TickInv == BufferType /\ AccountInv
OrderInv == MainType /\ JoinedInv /\ DrainedInv

MainInv == TickInv /\ OrderInv /\ EndInv /\ LifeType /\ LifeInv

-----------------------------------------------------------------------------
\* The steps of the thread's life.

LEMMA LifeResting ==
  ASSUME LifeType, LifeInv,
         UNCHANGED <<patient, serving, listen_socket_, serverThread, joinable, bound,
                     caller, destroying, starts, missed, terminated>>
  PROVE  LifeType' /\ LifeInv'
BY DEF LifeType, LifeInv

LEMMA StartLife ==
  ASSUME LifeType, LifeInv, terminated = "no", Server!Start \/ Dashboard!Start
  PROVE  LifeType' /\ LifeInv'
<1>1. /\ caller = "idle" /\ ~serving /\ starts' = starts + 1 /\ serving' = TRUE
      /\ UNCHANGED <<patient, listen_socket_, caller, destroying, missed>>
  BY DEF Server!Start, Dashboard!Start
<1>2. \/ /\ joinable /\ terminated' = "joinable"
         /\ UNCHANGED <<serverThread, joinable, bound>>
      \/ /\ ~joinable /\ terminated' = terminated
         /\ serverThread' = "starting" /\ joinable' = TRUE /\ bound' = "never"
  BY DEF Server!Start, Dashboard!Start
<1>3. starts' \in Nat /\ starts' # 0
  BY <1>1 DEF LifeType
<1>4. CASE joinable
  <2>1. terminated' = "joinable" /\ UNCHANGED <<serverThread, joinable, bound>>
    BY <1>2, <1>4
  <2>2. bound = "failed"
    BY <1>1, <1>4 DEF LifeInv
  <2>3. LifeType'
    BY <1>1, <1>3, <2>1 DEF LifeType
  <2>4. LifeInv'
    BY <1>1, <1>3, <2>1, <2>2 DEF LifeInv
  <2>. QED BY <2>3, <2>4
<1>5. CASE ~joinable
  <2>1. /\ terminated' = terminated /\ serverThread' = "starting" /\ joinable' = TRUE
        /\ bound' = "never"
    BY <1>2, <1>5
  <2>2. LifeType'
    BY <1>1, <1>3, <2>1 DEF LifeType
  <2>3. LifeInv'
    BY <1>1, <1>3, <2>1 DEF LifeInv
  <2>. QED BY <2>2, <2>3
<1>. QED BY <1>4, <1>5

LEMMA CallStopLife ==
  ASSUME LifeType, LifeInv, terminated = "no", Server!CallStop
  PROVE  /\ LifeType' /\ LifeInv'
         /\ terminated' = "joinable" => destroying' /\ caller' = "destroyed"
         /\ caller' \in {"store", "idle", "destroyed"}
<1>1. /\ caller = "idle" /\ destroying' \in BOOLEAN
      /\ UNCHANGED <<patient, serving, listen_socket_, serverThread, joinable, bound, starts,
                     missed>>
      /\ IF serving THEN caller' = "store" /\ UNCHANGED terminated ELSE Server!Leave
  BY DEF Server!CallStop, Server!life
<1>2. CASE serving
  <2>1. caller' = "store" /\ terminated' = "no"
    BY <1>1, <1>2
  <2>2. LifeType'
    BY <1>1, <2>1 DEF LifeType
  <2>3. LifeInv'
    BY <1>1, <1>2, <2>1 DEF LifeInv
  <2>. QED BY <2>1, <2>2, <2>3
<1>3. CASE ~serving
  <2>1. Server!Leave
    BY <1>1, <1>3
  <2>2. caller' = IF destroying' THEN "destroyed" ELSE "idle"
    BY <2>1 DEF Server!Leave
  <2>3. terminated' = IF destroying' /\ joinable THEN "joinable" ELSE "no"
    BY <1>1, <2>1 DEF Server!Leave
  <2>4. caller' \in {"idle", "destroyed"} /\ terminated' \in {"no", "joinable"}
    BY <2>2, <2>3
  <2>5. joinable => bound = "failed"
    BY <1>1, <1>3 DEF LifeInv
  <2>6. terminated' = "joinable" => destroying' /\ caller' = "destroyed" /\ joinable
    BY <2>2, <2>3
  <2>7. LifeType'
    BY <1>1, <2>4 DEF LifeType
  <2>8. serverThread = "ended" \/ bound = "failed"
    BY <2>5 DEF LifeInv
  <2>9. LifeInv'
    BY <1>1, <2>5, <2>6, <2>8 DEF LifeInv
  <2>. QED BY <2>4, <2>6, <2>7, <2>9
<1>. QED BY <1>2, <1>3

LEMMA OwnerLife ==
  ASSUME LifeType, LifeInv, terminated = "no", Server!OwnerStep
  PROVE  /\ LifeType' /\ LifeInv' /\ terminated' = "no"
         /\ UNCHANGED <<patient, starts>>
<1>1. CASE Server!StoreRunning
  <2>1. /\ caller = "store" /\ caller' = "close" /\ serving' = FALSE
        /\ UNCHANGED <<patient, listen_socket_, serverThread, joinable, bound, destroying,
                       starts, missed, terminated>>
    BY <1>1 DEF Server!StoreRunning
  <2>2. LifeType'
    BY <2>1 DEF LifeType
  <2>3. LifeInv'
    BY <2>1 DEF LifeInv
  <2>. QED BY <2>1, <2>2, <2>3
<1>2. CASE Server!CloseSocket
  <2>1. /\ caller = "close" /\ caller' = "join" /\ missed' = ~listen_socket_
        /\ listen_socket_' = FALSE
        /\ UNCHANGED <<patient, serving, serverThread, joinable, bound, destroying, starts,
                       terminated>>
    BY <1>2 DEF Server!CloseSocket, Server!Closed
  <2>2. LifeType'
    BY <2>1 DEF LifeType
  <2>3. LifeInv'
    BY <2>1 DEF LifeInv
  <2>. QED BY <2>1, <2>2, <2>3
<1>3. CASE Server!Join
  <2>1. /\ serverThread = "ended" /\ joinable' = FALSE
        /\ UNCHANGED <<patient, serving, listen_socket_, serverThread, bound, destroying,
                       starts, missed>>
        /\ caller' = IF destroying THEN "destroyed" ELSE "idle"
        /\ terminated' = IF destroying' /\ joinable' THEN "joinable" ELSE terminated
    BY <1>3 DEF Server!Join, Server!JoinableAfterJoin, Server!Leave
  <2>2. terminated' = "no" /\ caller' \in {"idle", "destroyed"}
    BY <2>1
  <2>3. LifeType'
    BY <2>1, <2>2 DEF LifeType
  <2>4. LifeInv'
    BY <2>1, <2>2 DEF LifeInv
  <2>. QED BY <2>1, <2>2, <2>3, <2>4
<1>. QED BY <1>1, <1>2, <1>3 DEF Server!OwnerStep

LEMMA ListenLife ==
  ASSUME LifeType, LifeInv, terminated = "no", Server!Listen
  PROVE  LifeType' /\ LifeInv'
<1>1. /\ serverThread = "starting" /\ joinable
      /\ UNCHANGED <<patient, joinable, caller, destroying, starts, missed, terminated>>
  BY DEF Server!Listen, Server!owner, LifeInv
<1>2. CASE bound' = "yes"
  <2>1. serverThread' = "serving" /\ listen_socket_' = TRUE /\ UNCHANGED serving
    BY <1>2 DEF Server!Listen
  <2>2. LifeType'
    BY <1>1, <1>2, <2>1 DEF LifeType
  <2>3. serving \/ caller \in {"close", "join"}
    BY <1>1 DEF LifeInv
  <2>4. LifeInv'
    BY <1>1, <1>2, <2>1, <2>3 DEF LifeInv
  <2>. QED BY <2>2, <2>4
<1>3. CASE bound' = "failed"
  <2>1. serverThread' = "ending" /\ serving' = FALSE /\ UNCHANGED listen_socket_
    BY <1>3 DEF Server!Listen
  <2>2. LifeType'
    BY <1>1, <1>3, <2>1 DEF LifeType
  <2>3. LifeInv'
    BY <1>1, <1>3, <2>1 DEF LifeInv
  <2>. QED BY <2>2, <2>3
<1>. QED BY <1>2, <1>3 DEF Server!Listen

LEMMA LoopLife ==
  ASSUME LifeType, LifeInv, terminated = "no", Server!LoopStep
  PROVE  /\ LifeType' /\ LifeInv'
         /\ UNCHANGED <<patient, caller, destroying, starts, missed, terminated>>
<1>1. UNCHANGED <<patient, caller, destroying, starts, missed, terminated>>
  BY DEF Server!LoopStep, Server!Listen, Server!Count, Server!LoopReturns, Server!EndThread,
         Server!owner
<1>2. CASE Server!Listen
  BY <1>1, <1>2, ListenLife
<1>3. CASE Server!Count
  <2>1. UNCHANGED <<serving, listen_socket_, serverThread, joinable, bound>>
    BY <1>3 DEF Server!Count, Server!life
  <2>. QED BY <1>1, <2>1, LifeResting
<1>4. CASE Server!LoopReturns
  <2>1. /\ serverThread = "serving" /\ ~listen_socket_ /\ serverThread' = "ending"
        /\ UNCHANGED <<serving, listen_socket_, joinable, bound>>
    BY <1>4 DEF Server!LoopReturns
  <2>2. LifeType'
    BY <1>1, <2>1 DEF LifeType
  <2>3. LifeInv'
    BY <1>1, <2>1 DEF LifeInv
  <2>. QED BY <1>1, <2>2, <2>3
<1>5. CASE Server!EndThread
  <2>1. /\ serverThread = "ending" /\ serverThread' = "ended" /\ serving' = FALSE
        /\ UNCHANGED <<listen_socket_, joinable, bound>>
    BY <1>5 DEF Server!EndThread
  <2>2. LifeType'
    BY <1>1, <2>1 DEF LifeType
  <2>3. LifeInv'
    BY <1>1, <2>1 DEF LifeInv
  <2>. QED BY <1>1, <2>2, <2>3
<1>. QED BY <1>2, <1>3, <1>4, <1>5 DEF Server!LoopStep

LEMMA ClientLife ==
  ASSUME LifeType, LifeInv, terminated = "no", Server!ClientStep
  PROVE  /\ LifeType' /\ LifeInv' /\ terminated' \in {"no", "exception"}
         /\ UNCHANGED <<patient, caller, destroying, starts, missed>>
<1>1. UNCHANGED <<patient, serving, listen_socket_, serverThread, joinable, bound,
                  caller, destroying, starts, missed>>
  BY DEF Server!ClientStep, Server!Open, Server!Message, Server!Close, Server!MessageThrows,
         Server!life, Server!owner
<1>2. terminated' \in {terminated, "exception"}
  BY DEF Server!ClientStep, Server!Open, Server!Message, Server!Close, Server!MessageThrows
<1>3. LifeType'
  BY <1>1, <1>2 DEF LifeType
<1>4. LifeInv'
  BY <1>1, <1>2 DEF LifeInv
<1>. QED BY <1>1, <1>2, <1>3, <1>4

-----------------------------------------------------------------------------
\* The steps that change the registry.

LEMMA WithFacts ==
  ASSUME NEW map, NEW key, NEW value
  PROVE  /\ DOMAIN Server!With(map, key, value) = DOMAIN map \cup {key}
         /\ Server!With(map, key, value)[key] = value
         /\ \A x \in DOMAIN map : x # key => Server!With(map, key, value)[x] = map[x]
BY DEF Server!With

LEMMA WithType ==
  ASSUME NEW map, NEW T, map \in [DOMAIN map -> T], NEW key, NEW value \in T
  PROVE  Server!With(map, key, value) \in [DOMAIN Server!With(map, key, value) -> T]
BY DEF Server!With

LEMMA RegistryResting ==
  ASSUME Registry, UNCHANGED <<open, id, clients_, client_count_, handler, wanted, dropped>>
  PROVE  Registry'
BY DEF Registry, RegistryType, CountInv, WantedInv, Server!IsInjective

LEMMA OpenRegistry ==
  ASSUME Registry, NEW k \in Conn, NEW i \in Id, Server!Open(k, i)
  PROVE  Registry'
<1>1. /\ handler = "none" /\ handler' = "opened" /\ k \notin DOMAIN id
      /\ open' = open \cup {k} /\ id' = Server!With(id, k, i)
      /\ clients_' = Server!With(clients_, i, {}) /\ wanted' = Server!With(wanted, k, {})
      /\ UNCHANGED <<client_count_, dropped>>
  BY DEF Server!Open, Server!Serving
<1>2. RegistryType /\ CountInv /\ WantedInv
  BY DEF Registry
<1>3. /\ DOMAIN id' = DOMAIN id \cup {k} /\ id'[k] = i
      /\ \A x \in DOMAIN id : x # k => id'[x] = id[x]
  <2>1. id' = Server!With(id, k, i)
    BY <1>1
  <2>. QED BY <2>1 DEF Server!With
<1>4. /\ DOMAIN wanted' = DOMAIN wanted \cup {k} /\ wanted'[k] = {}
      /\ \A x \in DOMAIN wanted : x # k => wanted'[x] = wanted[x]
  BY <1>1, WithFacts
<1>5. /\ DOMAIN clients_' = DOMAIN clients_ \cup {i} /\ clients_'[i] = {}
      /\ \A x \in DOMAIN clients_ : x # i => clients_'[x] = clients_[x]
  BY <1>1, WithFacts, SMTT(30)
<1>6. IsFiniteSet(open) /\ k \notin open
  BY <1>1, <1>2 DEF RegistryType
<1>7. /\ IsFiniteSet(open') /\ Cardinality(open') = Cardinality(open) + 1
      /\ Cardinality(open) \in Nat
  BY <1>1, <1>6, FS_AddElement, FS_CardinalityType
<1>8. RegistryType'
  <2>1. id' \in [DOMAIN id' -> Id]
    BY <1>1, <1>2, WithType DEF RegistryType
  <2>2. wanted' \in [DOMAIN wanted' -> SUBSET Ticker]
    <3>1. wanted \in [DOMAIN wanted -> SUBSET Ticker] /\ {} \in SUBSET Ticker
      BY <1>2 DEF RegistryType
    <3>. QED BY <1>1, <3>1, WithType
  <2>3. clients_' \in [DOMAIN clients_' -> SUBSET Ticker]
    <3>1. clients_ \in [DOMAIN clients_ -> SUBSET Ticker] /\ {} \in SUBSET Ticker
      BY <1>2 DEF RegistryType
    <3>. QED BY <1>1, <3>1, WithType
  <2>4. DOMAIN wanted' = DOMAIN id' /\ open' \subseteq DOMAIN id'
    BY <1>1, <1>2, <1>3, <1>4 DEF RegistryType
  <2>5. DOMAIN id' \subseteq Conn /\ DOMAIN clients_' \subseteq Id
    BY <1>2, <1>3, <1>5 DEF RegistryType
  <2>6. wanted' \in [DOMAIN id' -> SUBSET Ticker]
    BY <2>2, <2>4
  <2>7. client_count_' \in Nat /\ dropped' \in Nat /\ handler' \in {"none", "opened", "closed"}
    BY <1>1, <1>2 DEF RegistryType
  <2>. QED BY <1>7, <2>1, <2>3, <2>4, <2>5, <2>6, <2>7 DEF RegistryType
<1>9. CountInv'
  <2>1. client_count_ = Cardinality(open) + dropped /\ dropped \in Nat
    BY <1>1, <1>2 DEF CountInv, RegistryType
  <2>. QED BY <1>1, <1>7, <2>1 DEF CountInv
<1>10. WantedInv'
  <2> SUFFICES ASSUME Server!IsInjective(id'), dropped = 0
               PROVE  /\ DOMAIN clients_' = {id'[x] : x \in open'}
                      /\ \A x \in open' : clients_'[id'[x]] = wanted'[x]
    BY <1>1 DEF WantedInv, Server!IsInjective
  <2>1. \A x, y \in DOMAIN id' : id'[x] = id'[y] => x = y
    BY DEF Server!IsInjective
  <2>2. \A x \in DOMAIN id : x \in DOMAIN id' /\ id'[x] = id[x] /\ id[x] # i
    BY <1>1, <1>3, <2>1
  <2>3. Server!IsInjective(id)
    BY <2>1, <2>2 DEF Server!IsInjective
  <2>4. /\ DOMAIN clients_ = {id[x] : x \in open}
        /\ \A x \in open : clients_[id[x]] = wanted[x]
    BY <1>2, <2>3 DEF WantedInv
  <2>5. open \subseteq DOMAIN id /\ DOMAIN wanted = DOMAIN id
    BY <1>2 DEF RegistryType
  <2>6. DOMAIN clients_' = {id'[x] : x \in open'}
    <3>1. \A x \in open : id'[x] = id[x]
      BY <2>2, <2>5
    <3>2. {id'[x] : x \in open'} = {id'[x] : x \in open} \cup {id'[k]}
      BY <1>1
    <3>3. {id'[x] : x \in open} = {id[x] : x \in open}
      BY <3>1
    <3>. QED BY <1>3, <1>5, <2>4, <3>2, <3>3
  <2>7. ASSUME NEW x \in open' PROVE clients_'[id'[x]] = wanted'[x]
    <3>1. CASE x = k
      BY <1>3, <1>4, <1>5, <3>1
    <3>2. CASE x # k
      <4>1. x \in open /\ x \in DOMAIN id /\ x \in DOMAIN wanted
        BY <1>1, <2>5, <3>2
      <4>2. id'[x] = id[x] /\ id[x] # i /\ id[x] \in DOMAIN clients_
        BY <2>2, <2>4, <4>1
      <4>3. clients_'[id[x]] = clients_[id[x]] /\ wanted'[x] = wanted[x]
        BY <1>4, <1>5, <3>2, <4>1, <4>2
      <4>. QED BY <2>4, <4>1, <4>2, <4>3
    <3>. QED BY <3>1, <3>2
  <2>. QED BY <2>6, <2>7
<1>. QED BY <1>8, <1>9, <1>10 DEF Registry

LEMMA CloseRegistry ==
  ASSUME Registry, NEW k \in Conn, Server!Close(k)
  PROVE  Registry'
<1>1. /\ handler = "none" /\ handler' = "closed" /\ k \in open
      /\ open' = open \ {k} /\ clients_' = Server!Without(id[k])
      /\ UNCHANGED <<id, client_count_, wanted, dropped>>
  BY DEF Server!Close, Server!Serving
<1>2. RegistryType /\ CountInv /\ WantedInv
  BY DEF Registry
<1>3. /\ DOMAIN clients_' = DOMAIN clients_ \ {id[k]}
      /\ clients_' = [x \in DOMAIN clients_ \ {id[k]} |-> clients_[x]]
      /\ \A x \in DOMAIN clients_' : clients_'[x] = clients_[x]
  BY <1>1 DEF Server!Without, Server!Restrict
<1>4. /\ IsFiniteSet(open') /\ Cardinality(open') = Cardinality(open) - 1
      /\ Cardinality(open) \in Nat /\ Cardinality(open') \in Nat
  <2>1. IsFiniteSet(open)
    BY <1>2 DEF RegistryType
  <2>. QED BY <1>1, <2>1, FS_RemoveElement, FS_CardinalityType
<1>5. RegistryType'
  <2>1. clients_' \in [DOMAIN clients_' -> SUBSET Ticker]
    <3>1. \A x \in DOMAIN clients_ : clients_[x] \in SUBSET Ticker
      BY <1>2 DEF RegistryType
    <3>. QED BY <1>3, <3>1
  <2>2. DOMAIN clients_' \subseteq Id
    BY <1>2, <1>3 DEF RegistryType
  <2>. QED BY <1>1, <1>2, <1>4, <2>1, <2>2 DEF RegistryType
<1>6. CountInv'
  <2>1. client_count_ = Cardinality(open) + dropped /\ dropped \in Nat
    BY <1>1, <1>2 DEF CountInv, RegistryType
  <2>. QED BY <1>1, <1>4, <2>1 DEF CountInv
<1>7. WantedInv'
  <2> SUFFICES ASSUME Server!IsInjective(id), dropped = 0
               PROVE  /\ DOMAIN clients_' = {id[x] : x \in open'}
                      /\ \A x \in open' : clients_'[id[x]] = wanted[x]
    BY <1>1 DEF WantedInv, Server!IsInjective
  <2>1. \A x, y \in DOMAIN id : id[x] = id[y] => x = y
    BY DEF Server!IsInjective
  <2>2. /\ DOMAIN clients_ = {id[x] : x \in open}
        /\ \A x \in open : clients_[id[x]] = wanted[x]
    BY <1>2 DEF WantedInv
  <2>3. \A x \in open : id[x] # id[k] <=> x \in open'
    BY <1>1, <1>2, <2>1 DEF RegistryType
  <2>4. DOMAIN clients_' = {id[x] : x \in open'}
    BY <1>1, <1>3, <2>2, <2>3
  <2>5. ASSUME NEW x \in open' PROVE clients_'[id[x]] = wanted[x]
    BY <1>1, <1>3, <2>2, <2>4, <2>5
  <2>. QED BY <2>4, <2>5
<1>. QED BY <1>5, <1>6, <1>7 DEF Registry

LEMMA CountRegistry == ASSUME Registry, Server!Count PROVE Registry'
<1>1. /\ handler # "none" /\ handler' = "none" /\ client_count_' = Server!Counted
      /\ UNCHANGED <<open, id, clients_, wanted, dropped>>
  BY DEF Server!Count
<1>2. RegistryType /\ CountInv /\ WantedInv
  BY DEF Registry
<1>3. Cardinality(open) \in Nat /\ dropped \in Nat
  BY <1>2, FS_CardinalityType DEF RegistryType
<1>4. client_count_' = Cardinality(open) + dropped
  <2>1. CASE handler = "opened"
    BY <1>1, <1>2, <1>3, <2>1 DEF CountInv, Server!Counted
  <2>2. CASE handler = "closed"
    BY <1>1, <1>2, <1>3, <2>2 DEF CountInv, Server!Counted
  <2>. QED BY <1>1, <1>2, <2>1, <2>2 DEF RegistryType
<1>5. RegistryType'
  BY <1>1, <1>2, <1>3, <1>4 DEF RegistryType
<1>6. CountInv'
  BY <1>1, <1>4 DEF CountInv
<1>7. WantedInv'
  BY <1>1, <1>2 DEF WantedInv, Server!IsInjective
<1>. QED BY <1>5, <1>6, <1>7 DEF Registry

LEMMA MessageRegistry ==
  ASSUME Registry, NEW k \in Conn, NEW action \in {"subscribe", "unsubscribe"},
         NEW tickers \in SUBSET Ticker, Server!Message(k, action, tickers)
  PROVE  Registry'
<1> DEFINE asked(s) == Server!Asked(s, action, tickers)
<1>1. /\ k \in open
      /\ clients_' = IF id[k] \in DOMAIN clients_
                     THEN [clients_ EXCEPT ![id[k]] = asked(@)] ELSE clients_
      /\ wanted' = [wanted EXCEPT ![k] = asked(@)]
      /\ UNCHANGED <<open, id, client_count_, handler, dropped>>
  BY DEF Server!Message
<1>2. \A s \in SUBSET Ticker : asked(s) \in SUBSET Ticker
  BY DEF Server!Asked
<1> HIDE DEF asked
<1>3. RegistryType /\ CountInv /\ WantedInv
  BY DEF Registry
<1>4. /\ k \in DOMAIN wanted /\ wanted \in [DOMAIN wanted -> SUBSET Ticker]
      /\ clients_ \in [DOMAIN clients_ -> SUBSET Ticker]
  BY <1>1, <1>3 DEF RegistryType
<1>5. /\ DOMAIN wanted' = DOMAIN wanted /\ wanted' \in [DOMAIN wanted -> SUBSET Ticker]
      /\ wanted'[k] = asked(wanted[k])
      /\ \A x \in DOMAIN wanted : x # k => wanted'[x] = wanted[x]
  BY <1>1, <1>2, <1>4
<1>6. DOMAIN clients_' = DOMAIN clients_ /\ clients_' \in [DOMAIN clients_ -> SUBSET Ticker]
  BY <1>1, <1>2, <1>4
<1>7. RegistryType'
  BY <1>1, <1>3, <1>5, <1>6 DEF RegistryType
<1>8. CountInv'
  BY <1>1, <1>3 DEF CountInv
<1>9. WantedInv'
  <2> SUFFICES ASSUME Server!IsInjective(id), dropped = 0
               PROVE  /\ DOMAIN clients_' = {id[x] : x \in open}
                      /\ \A x \in open : clients_'[id[x]] = wanted'[x]
    BY <1>1 DEF WantedInv, Server!IsInjective
  <2>1. \A x, y \in DOMAIN id : id[x] = id[y] => x = y
    BY DEF Server!IsInjective
  <2>2. /\ DOMAIN clients_ = {id[x] : x \in open}
        /\ \A x \in open : clients_[id[x]] = wanted[x]
    BY <1>3 DEF WantedInv
  <2>3. open \subseteq DOMAIN id /\ DOMAIN wanted = DOMAIN id
    BY <1>3 DEF RegistryType
  <2>4. id[k] \in DOMAIN clients_
    BY <1>1, <2>2
  <2>5. /\ clients_'[id[k]] = asked(clients_[id[k]])
        /\ \A j \in DOMAIN clients_ : j # id[k] => clients_'[j] = clients_[j]
    BY <1>1, <1>4, <2>4
  <2>6. ASSUME NEW x \in open PROVE clients_'[id[x]] = wanted'[x]
    <3>1. CASE x = k
      BY <1>5, <2>2, <2>5, <3>1
    <3>2. CASE x # k
      <4>1. id[x] # id[k] /\ id[x] \in DOMAIN clients_ /\ x \in DOMAIN wanted
        BY <1>1, <2>1, <2>2, <2>3, <3>2
      <4>. QED BY <1>5, <2>2, <2>5, <3>2, <4>1
    <3>. QED BY <3>1, <3>2
  <2>. QED BY <1>6, <2>2, <2>6
<1>. QED BY <1>7, <1>8, <1>9 DEF Registry

LEMMA SameCardinality == \A S : Server!Cardinality(S) = Cardinality(S)
BY DEF Server!Cardinality, Cardinality

LEMMA ReturnRegistry == ASSUME Registry, Server!LoopReturns PROVE Registry'
<1>1. /\ handler = "none" /\ open' = {} /\ dropped' = dropped + Cardinality(open)
      /\ UNCHANGED <<id, clients_, client_count_, handler, wanted>>
  <2>1. handler = "none" /\ open' = {} /\ dropped' = dropped + Cardinality(open)
    BY SameCardinality DEF Server!LoopReturns
  <2>2. UNCHANGED <<id, clients_, client_count_, handler, wanted>>
    BY DEF Server!LoopReturns, Server!owner
  <2>. QED BY <2>1, <2>2
<1>2. RegistryType /\ CountInv /\ WantedInv
  BY DEF Registry
<1>3. /\ IsFiniteSet(open) /\ Cardinality(open) \in Nat /\ dropped \in Nat
      /\ IsFiniteSet({}) /\ Cardinality({}) = 0
      /\ Cardinality(open) = 0 => open = {}
  <2>1. IsFiniteSet(open) /\ dropped \in Nat
    BY <1>2 DEF RegistryType
  <2>. QED BY <2>1, FS_CardinalityType, FS_EmptySet
<1>4. RegistryType'
  BY <1>1, <1>2, <1>3 DEF RegistryType
<1>5. CountInv'
  <2>1. client_count_ = Cardinality(open) + dropped
    BY <1>1, <1>2 DEF CountInv
  <2>2. Cardinality(open') = 0
    BY <1>1, <1>3
  <2>. QED BY <1>1, <1>3, <2>1, <2>2 DEF CountInv
<1>6. WantedInv'
  <2> SUFFICES ASSUME dropped' = 0 PROVE WantedInv'
    BY DEF WantedInv
  <2>1. Cardinality(open) = 0 /\ dropped = 0
    BY <1>1, <1>3
  <2>2. open' = open /\ dropped' = dropped
    BY <1>1, <1>3, <2>1
  <2>. QED BY <1>1, <1>2, <2>2 DEF WantedInv, Server!IsInjective
<1>. QED BY <1>4, <1>5, <1>6 DEF Registry

LEMMA ServerRegistry ==
  ASSUME Registry, Server!Next
  PROVE  Registry'
<1>1. CASE Server!Start \/ Server!CallStop
  <2>1. UNCHANGED <<open, id, clients_, client_count_, handler, wanted, dropped>>
    BY <1>1 DEF Server!Start, Server!CallStop, Server!registry
  <2>. QED BY <2>1, RegistryResting
<1>2. CASE Server!OwnerStep
  <2>1. UNCHANGED <<open, id, clients_, client_count_, handler, wanted, dropped>>
    BY <1>2 DEF Server!OwnerStep, Server!StoreRunning, Server!CloseSocket, Server!Join,
                Server!registry
  <2>. QED BY <2>1, RegistryResting
<1>3. CASE Server!Listen \/ Server!EndThread
  <2>1. UNCHANGED <<open, id, clients_, client_count_, handler, wanted, dropped>>
    BY <1>3 DEF Server!Listen, Server!EndThread, Server!registry
  <2>. QED BY <2>1, RegistryResting
<1>4. CASE \E k \in Conn : Server!MessageThrows(k)
  <2>1. UNCHANGED <<open, id, clients_, client_count_, handler, wanted, dropped>>
    BY <1>4 DEF Server!MessageThrows, Server!registry
  <2>. QED BY <2>1, RegistryResting
<1>. QED BY <1>1, <1>2, <1>3, <1>4, OpenRegistry, CloseRegistry, MessageRegistry, CountRegistry,
            ReturnRegistry DEF Server!Next, Server!LoopStep, Server!ClientStep

-----------------------------------------------------------------------------
\* The dashboard under any owner.

LEMMA ServerLife ==
  ASSUME MaxStarts \in Nat, LifeType, LifeInv, StartsInv, Server!Next
  PROVE  LifeType' /\ LifeInv' /\ StartsInv'
<1>1. CASE terminated = "no" /\ Server!Start
  <2>1. starts' = starts + 1 /\ starts < MaxStarts
    BY <1>1 DEF Server!Start
  <2>2. StartsInv'
    BY <2>1 DEF StartsInv
  <2>. QED BY <1>1, <2>2, StartLife
<1>2. CASE terminated = "no" /\ Server!CallStop
  <2>1. starts' = starts
    BY <1>2 DEF Server!CallStop
  <2>. QED BY <1>2, <2>1, CallStopLife DEF StartsInv
<1>3. CASE Server!OwnerStep
  BY <1>3, OwnerLife DEF Server!OwnerStep, StartsInv
<1>4. CASE Server!LoopStep
  BY <1>4, LoopLife DEF Server!LoopStep, StartsInv
<1>5. CASE Server!ClientStep
  BY <1>5, ClientLife DEF Server!ClientStep, StartsInv
<1>. QED BY <1>1, <1>2, <1>3, <1>4, <1>5 DEF Server!Next

LEMMA ServerInit == Server!Init => LifeType /\ LifeInv /\ starts = 0 /\ Registry
<1> SUFFICES ASSUME Server!Init PROVE LifeType /\ LifeInv /\ starts = 0 /\ Registry
  OBVIOUS
<1>1. /\ patient \in BOOLEAN
      /\ serving = FALSE /\ listen_socket_ = FALSE
      /\ serverThread = "ended" /\ joinable = FALSE /\ bound = "never"
      /\ caller = "idle" /\ destroying = FALSE /\ starts = 0 /\ missed = FALSE
      /\ terminated = "no"
  BY DEF Server!Init
<1>2. /\ open = {} /\ id = <<>> /\ clients_ = <<>> /\ client_count_ = 0
      /\ handler = "none" /\ wanted = <<>> /\ dropped = 0
  BY DEF Server!Init
<1>3. LifeType /\ LifeInv
  BY <1>1 DEF LifeType, LifeInv
<1>4. /\ DOMAIN id = {} /\ DOMAIN wanted = {} /\ DOMAIN clients_ = {}
      /\ id \in [{} -> Id] /\ wanted \in [{} -> SUBSET Ticker]
      /\ clients_ \in [{} -> SUBSET Ticker]
  BY <1>2
<1>5. RegistryType
  BY <1>2, <1>4, FS_EmptySet DEF RegistryType
<1>6. CountInv
  BY <1>2, FS_EmptySet DEF CountInv
<1>7. WantedInv
  BY <1>2, <1>4 DEF WantedInv
<1>. QED BY <1>1, <1>3, <1>5, <1>6, <1>7 DEF Registry

LEMMA ServerResting == ASSUME ServerInv, UNCHANGED Server!vars PROVE ServerInv'
<1>1. /\ UNCHANGED <<patient, serving, listen_socket_, serverThread, joinable, bound,
                     caller, destroying, starts, missed, terminated>>
      /\ UNCHANGED <<open, id, clients_, client_count_, handler, wanted, dropped>>
  BY DEF Server!vars, Server!life, Server!owner, Server!registry
<1>2. LifeType' /\ LifeInv'
  BY <1>1, LifeResting DEF ServerInv
<1>3. Registry'
  BY <1>1, RegistryResting DEF ServerInv
<1>4. StartsInv'
  BY <1>1 DEF ServerInv, StartsInv
<1>. QED BY <1>2, <1>3, <1>4 DEF ServerInv

LEMMA ServerInvariance == MaxStarts \in Nat => (Server!Spec => []ServerInv)
<1> SUFFICES ASSUME MaxStarts \in Nat PROVE Server!Spec => []ServerInv
  OBVIOUS
<1>1. Server!Init => ServerInv
  BY ServerInit DEF ServerInv, StartsInv
<1>2. ServerInv /\ [Server!Next]_(Server!vars) => ServerInv'
  BY ServerLife, ServerRegistry, ServerResting DEF ServerInv
<1>. QED BY <1>1, <1>2, PTL DEF Server!Spec

\* Over any sequence of start(), stop() and the destructor, at any moment of
\* the server thread's life, and for any number of clients, the thread object
\* is overwritten or destroyed joinable only when the port was not bound; and
\* the count of clients never falls below zero.
THEOREM ServerIsJoined ==
  MaxStarts \in Nat => (Server!Spec => []Server!JoinedIfBound)
<1> SUFFICES ASSUME MaxStarts \in Nat PROVE Server!Spec => []Server!JoinedIfBound
  OBVIOUS
<1>1. ServerInv => Server!JoinedIfBound
  <2> SUFFICES ASSUME ServerInv PROVE Server!JoinedIfBound
    OBVIOUS
  <2>1. Server!TypeOK
    BY DEF ServerInv, LifeType, StartsInv, Registry, RegistryType, Server!TypeOK
  <2>2. terminated = "joinable" => bound = "failed"
    BY DEF ServerInv, LifeInv
  <2>. QED BY <2>1, <2>2 DEF Server!JoinedIfBound
<1>. QED BY <1>1, ServerInvariance, PTL

\* broadcast_tick() selects the clients that have asked for the symbol, or for
\* none in particular, and no others, for any number of connections, while no
\* id was drawn twice and no loop has dropped its connections.
THEOREM TicksFindTheirClients ==
  MaxStarts \in Nat => (Server!Spec => []Server!TicksGoWhereWanted)
<1> SUFFICES ASSUME MaxStarts \in Nat PROVE Server!Spec => []Server!TicksGoWhereWanted
  OBVIOUS
<1>1. ServerInv => Server!TicksGoWhereWanted
  <2> SUFFICES ASSUME ServerInv, Server!IsInjective(id), dropped = 0, NEW t \in Ticker
               PROVE  Server!Selected(t) =
                        {id[k] : k \in {c \in open : wanted[c] = {} \/ t \in wanted[c]}}
    BY DEF Server!TicksGoWhereWanted
  <2>1. /\ DOMAIN clients_ = {id[k] : k \in open}
        /\ \A k \in open : clients_[id[k]] = wanted[k]
    BY DEF ServerInv, Registry, WantedInv
  <2>. QED BY <2>1 DEF Server!Selected
<1>. QED BY <1>1, ServerInvariance, PTL

-----------------------------------------------------------------------------
\* The dashboard under main, which starts it once.

LEMMA SameDashboard ==
  /\ Dashboard!Init => Server!Init
  /\ Dashboard!CallStop => Server!CallStop
  /\ Dashboard!OwnerStep => Server!OwnerStep
  /\ Dashboard!LoopStep => Server!LoopStep
  /\ Dashboard!ClientStep => Server!ClientStep
<1>1. Dashboard!Init => Server!Init
  BY DEF Dashboard!Init, Server!Init
<1>2. Dashboard!life = Server!life /\ Dashboard!registry = Server!registry
      /\ Dashboard!owner = Server!owner
  BY DEF Dashboard!life, Server!life, Dashboard!registry, Server!registry,
         Dashboard!owner, Server!owner
<1>3. Dashboard!Leave => Server!Leave
  BY DEF Dashboard!Leave, Server!Leave
<1>4. Dashboard!CallStop => Server!CallStop
  BY <1>3 DEF Dashboard!CallStop, Server!CallStop, Dashboard!life, Server!life,
              Dashboard!registry, Server!registry
<1>5. Dashboard!OwnerStep => Server!OwnerStep
  BY <1>3 DEF Dashboard!OwnerStep, Server!OwnerStep, Dashboard!StoreRunning,
              Server!StoreRunning, Dashboard!CloseSocket, Server!CloseSocket, Dashboard!Join,
              Server!Join, Dashboard!Closed, Server!Closed, Dashboard!JoinableAfterJoin,
              Server!JoinableAfterJoin, Dashboard!registry, Server!registry
<1>6. \A S : Dashboard!Cardinality(S) = Server!Cardinality(S)
  BY DEF Dashboard!Cardinality, Server!Cardinality
<1>7. Dashboard!LoopStep => Server!LoopStep
  <2>1. Dashboard!Listen => Server!Listen
    BY DEF Dashboard!Listen, Server!Listen, Dashboard!registry, Server!registry,
           Dashboard!owner, Server!owner
  <2>2. Dashboard!Count => Server!Count
    BY DEF Dashboard!Count, Server!Count, Dashboard!life, Server!life, Dashboard!Counted,
           Server!Counted, Dashboard!owner, Server!owner
  <2>3. Dashboard!LoopReturns => Server!LoopReturns
    BY <1>6 DEF Dashboard!LoopReturns, Server!LoopReturns, Dashboard!owner, Server!owner
  <2>4. Dashboard!EndThread => Server!EndThread
    BY DEF Dashboard!EndThread, Server!EndThread, Dashboard!registry, Server!registry,
           Dashboard!owner, Server!owner
  <2>. QED BY <2>1, <2>2, <2>3, <2>4 DEF Dashboard!LoopStep, Server!LoopStep
<1>8. Dashboard!ClientStep => Server!ClientStep
  <2> USE DEF Dashboard!life, Server!life, Dashboard!owner, Server!owner,
              Dashboard!Serving, Server!Serving
  <2>1. \A k, i : Dashboard!Open(k, i) => Server!Open(k, i)
    BY DEF Dashboard!Open, Server!Open, Dashboard!With, Server!With
  <2>2. \A k, a, s : Dashboard!Message(k, a, s) => Server!Message(k, a, s)
    BY DEF Dashboard!Message, Server!Message, Dashboard!Asked, Server!Asked
  <2>3. \A k : Dashboard!Close(k) => Server!Close(k)
    BY DEF Dashboard!Close, Server!Close, Dashboard!Without, Server!Without,
           Dashboard!Restrict, Server!Restrict
  <2>4. \A k : Dashboard!MessageThrows(k) => Server!MessageThrows(k)
    BY DEF Dashboard!MessageThrows, Server!MessageThrows, Dashboard!registry, Server!registry
  <2>. QED BY <2>1, <2>2, <2>3, <2>4 DEF Dashboard!ClientStep, Server!ClientStep
<1>. QED BY <1>1, <1>4, <1>5, <1>7, <1>8

\* main's thread object is overwritten or destroyed joinable as main ends.
LEMMA LifeStep ==
  ASSUME EndInv, LifeType, LifeInv, [Next]_vars
  PROVE  EndInv' /\ LifeType' /\ LifeInv'
<1>1. CASE UNCHANGED <<dashboard, terminated>>
  <2>1. /\ UNCHANGED <<patient, serving, listen_socket_, serverThread, joinable, bound,
                       caller, destroying, starts, missed, terminated>>
    BY <1>1 DEF dashboard
  <2>2. LifeType' /\ LifeInv'
    BY <2>1, LifeResting
  <2>3. main' = main \/ terminated # "joinable" => EndInv'
    BY <2>1 DEF EndInv
  <2>4. terminated = "joinable" => main' = main
    BY DEF Next, ThreadStep, MainStep, ServerStep, ClientStep, Dead, vars
  <2>. QED BY <2>2, <2>3, <2>4
<1>2. CASE ~Dead /\ StartDashboard
  <2>1. terminated = "no" /\ Dashboard!Start
    BY <1>2 DEF StartDashboard, Dead
  <2>2. starts = 0
    BY <2>1 DEF Dashboard!Start, LifeType
  <2>3. terminated' = "no"
    BY <2>1, <2>2 DEF Dashboard!Start, LifeInv
  <2>. QED BY <2>1, <2>3, StartLife DEF EndInv
<1>3. CASE ~Dead /\ StopDashboard
  <2>1. terminated = "no" /\ main \in {"dashboard", "unwind", "destroy"}
    BY <1>3 DEF StopDashboard, Dead, AfterStop
  <2>2. CASE Dashboard!CallStop /\ destroying' = (main # "dashboard")
    <3>1. /\ LifeType' /\ LifeInv'
          /\ terminated' = "joinable" => destroying' /\ caller' = "destroyed"
      BY <2>1, <2>2, SameDashboard, CallStopLife
    <3>2. terminated' = "joinable" => main \in {"unwind", "destroy"} /\ main' = AfterStop[main]
      BY <1>3, <2>1, <2>2, <3>1 DEF StopDashboard
    <3>3. EndInv'
      BY <3>2 DEF EndInv, AfterStop
    <3>. QED BY <3>1, <3>3
  <2>3. CASE Dashboard!OwnerStep
    BY <2>1, <2>3, SameDashboard, OwnerLife DEF EndInv
  <2>. QED BY <1>3, <2>2, <2>3 DEF StopDashboard
<1>4. CASE ServerStep
  <2>1. terminated = "no" /\ Dashboard!LoopStep
    BY <1>4 DEF ServerStep, Dashboard!LoopStep
  <2>. QED BY <2>1, SameDashboard, LoopLife DEF EndInv
<1>5. CASE ClientStep
  <2>1. terminated = "no" /\ Dashboard!ClientStep
    BY <1>5 DEF ClientStep, Dashboard!ClientStep
  <2>. QED BY <2>1, SameDashboard, ClientLife DEF EndInv
<1>6. ~(~Dead /\ StartDashboard) /\ ~(~Dead /\ StopDashboard) /\ ~ServerStep /\ ~ClientStep
        => UNCHANGED <<dashboard, terminated>>
  BY DEF Next, ThreadStep, MainStep, Signal, DrainThrows, FinalDrainThrows, Construct, Connect,
         Launch, TestShutdown, DrainCycle, StopThread, JoinThread, ReadSize, FinalDrain,
         Enter, CheckRunning, PushTick, NoTick, vars, dashboard
<1>. QED BY <1>1, <1>2, <1>3, <1>4, <1>5, <1>6

-----------------------------------------------------------------------------
\* The ticks.

LEMMA TicksResting ==
  ASSUME TickInv, UNCHANGED <<queue, output, handled, overwritten>>
  PROVE  TickInv'
BY DEF TickInv, BufferType, AccountInv

LEMMA Widened ==
  ASSUME NEW S, NEW T, S \subseteq T, NEW s \in Seq(S)
  PROVE  s \in Seq(T)
OBVIOUS

LEMMA Appended ==
  ASSUME NEW S, NEW s \in Seq(S), NEW e \in S
  PROVE  Append(s, e) \in Seq(S) /\ Len(Append(s, e)) = Len(s) + 1
OBVIOUS

LEMMA PushTicks == ASSUME TickInv, PushTick PROVE TickInv'
<1> DEFINE tick == handled + 1
           room == Buffer!Room
<1>1. /\ handled < MaxTicks /\ handled' = tick
      /\ queue' = Append(room, tick) /\ output' = output
      /\ overwritten' = IF Len(queue) = Capacity THEN overwritten + 1 ELSE overwritten
  BY DEF PushTick, Buffer!Push
<1>2. /\ queue \in Seq(1 .. handled) /\ Len(queue) =< Capacity /\ Len(queue) \in Nat
      /\ output \in Seq(1 .. handled) /\ Len(output) \in Nat
      /\ handled \in Nat /\ overwritten \in Nat
      /\ handled = Len(output) + Len(queue) + overwritten
      /\ Capacity \in Nat \ {0} /\ MaxTicks \in Nat
  BY DrainAssumption, BoundAssumption DEF TickInv, BufferType, AccountInv
<1>3. /\ 1 .. handled \subseteq 1 .. tick /\ tick \in 1 .. tick
      /\ handled' \in 0 .. MaxTicks
  BY <1>1, <1>2
<1>4. room \in Seq(1 .. handled)
      /\ Len(room) = IF Len(queue) = Capacity THEN Len(queue) - 1 ELSE Len(queue)
  <2>1. CASE Len(queue) = Capacity
    <3>1. queue # <<>> /\ room = Tail(queue)
      BY <1>2, <2>1 DEF Buffer!Room
    <3>. QED BY <1>2, <2>1, <3>1, HeadTailProperties
  <2>2. CASE Len(queue) # Capacity
    BY <1>2, <2>2 DEF Buffer!Room
  <2>. QED BY <2>1, <2>2
<1> HIDE DEF tick, room
<1>5. room \in Seq(1 .. tick) /\ output \in Seq(1 .. tick)
  BY <1>2, <1>3, <1>4, Widened
<1>6. queue' \in Seq(1 .. tick) /\ Len(queue') = Len(room) + 1
  BY <1>1, <1>3, <1>5, Appended
<1>7. BufferType'
  <2>1. Len(queue') =< Capacity
    BY <1>2, <1>4, <1>6
  <2>2. overwritten' \in Nat
    BY <1>1, <1>2
  <2>. QED BY <1>1, <1>3, <1>5, <1>6, <2>1, <2>2 DEF BufferType
<1>8. AccountInv'
  <2>1. handled' = handled + 1
    BY <1>1 DEF tick
  <2>. QED BY <1>1, <1>2, <1>4, <1>6, <2>1 DEF AccountInv
<1>. QED BY <1>7, <1>8 DEF TickInv

LEMMA Drained ==
  ASSUME TickInv, NEW n \in Nat, DrainUpTo(n), UNCHANGED <<handled, overwritten>>
  PROVE  /\ TickInv'
         /\ n >= Len(queue) => queue' = <<>>
<1>1. /\ queue \in Seq(1 .. handled) /\ Len(queue) =< Capacity /\ Len(queue) \in Nat
      /\ output \in Seq(1 .. handled) /\ Len(output) \in Nat
      /\ handled = Len(output) + Len(queue) + overwritten
      /\ handled \in 0 .. MaxTicks /\ overwritten \in Nat /\ Capacity \in Nat
  BY DrainAssumption DEF TickInv, BufferType, AccountInv
<1>2. CASE queue = <<>> /\ queue' = queue /\ output' = output
  BY <1>2, TicksResting
<1>3. CASE queue # <<>> /\ Buffer!Drain(IF Len(queue) < n THEN Len(queue) ELSE n)
  <2> DEFINE k == IF Len(queue) < n THEN Len(queue) ELSE n
             taken == SubSeq(queue, 1, k)
             rest == SubSeq(queue, k + 1, Len(queue))
  <2>1. k \in Nat /\ k =< Len(queue) /\ (n >= Len(queue) => k = Len(queue))
    BY <1>1
  <2>2. output' = output \o taken /\ queue' = rest
    BY <1>3 DEF Buffer!Drain
  <2> HIDE DEF k
  <2>3. taken \in Seq(1 .. handled) /\ Len(taken) = k
    BY <1>1, <2>1, SMTT(30)
  <2>4. rest \in Seq(1 .. handled) /\ Len(rest) = Len(queue) - k
    BY <1>1, <2>1, SMTT(30)
  <2> HIDE DEF taken, rest
  <2>5. /\ output \o taken \in Seq(1 .. handled)
        /\ Len(output \o taken) = Len(output) + Len(taken)
    BY <1>1, <2>3, ConcatProperties
  <2>6. BufferType'
    BY <1>1, <2>1, <2>2, <2>4, <2>5 DEF BufferType
  <2>7. AccountInv'
    BY <1>1, <2>1, <2>2, <2>3, <2>4, <2>5 DEF AccountInv
  <2>8. n >= Len(queue) => queue' = <<>>
    <3>1. Len(rest) = 0 => rest = <<>>
      BY <2>4, EmptySeq
    <3>. QED BY <1>1, <2>1, <2>2, <2>4, <3>1
  <2>. QED BY <2>6, <2>7, <2>8 DEF TickInv
<1>. QED BY <1>2, <1>3 DEF DrainUpTo, DrainNothing, buffer

LEMMA TickStep == ASSUME TickInv, MainType, [Next]_vars PROVE TickInv'
<1>1. CASE PushTick
  BY <1>1, PushTicks
<1>2. CASE DrainCycle \/ DrainThrows
  <2>1. DrainUpTo(DrainMax) /\ UNCHANGED <<handled, overwritten>>
    BY <1>2 DEF DrainCycle, DrainThrows
  <2>. QED BY <2>1, Drained, DrainAssumption
<1>3. CASE FinalDrain \/ FinalDrainThrows
  <2>1. DrainUpTo(leftover) /\ UNCHANGED <<handled, overwritten>>
    BY <1>3 DEF FinalDrain, FinalDrainThrows
  <2>2. leftover \in Nat
    BY DrainAssumption DEF MainType
  <2>. QED BY <2>1, <2>2, Drained
<1>4. ~PushTick /\ ~(DrainCycle \/ DrainThrows) /\ ~(FinalDrain \/ FinalDrainThrows)
        => UNCHANGED <<queue, output, handled, overwritten>>
  BY DEF Next, ThreadStep, MainStep, ServerStep, ClientStep, Signal, Construct, StartDashboard,
         Connect, Launch, TestShutdown, StopThread, StopDashboard, JoinThread, ReadSize,
         Enter, CheckRunning, NoTick, vars, ticks, buffer
<1>. QED BY <1>1, <1>2, <1>3, <1>4, TicksResting

-----------------------------------------------------------------------------
\* The order of main's steps.

LEMMA ThreadFacts ==
  /\ Len(Threads) = 3
  /\ Threads[1] = "fetcher" /\ Threads[2] = "processor" /\ Threads[3] = "consumer"
  /\ Thread = {"fetcher", "processor", "consumer"}
<1>1. /\ Len(Threads) = 3 /\ 1 .. 3 = {1, 2, 3}
      /\ Threads[1] = "fetcher" /\ Threads[2] = "processor" /\ Threads[3] = "consumer"
  BY DEF Threads
<1>2. Thread = {Threads[i] : i \in {1, 2, 3}}
  BY <1>1 DEF Thread
<1>. QED BY <1>1, <1>2

LEMMA OrderResting ==
  ASSUME OrderInv, UNCHANGED <<main, turn, thread, running_, leftover, queue>>,
         g_shutdown' \in BOOLEAN
  PROVE  OrderInv'
BY DEF OrderInv, MainType, JoinedInv, DrainedInv

\* A step of a thread that has not ended.
LEMMA ThreadOrder ==
  ASSUME OrderInv, UNCHANGED <<g_shutdown, main, turn, leftover>>,
         NEW t \in Thread, thread[t] # "ended",
         \A u \in Thread : u # t => thread'[u] = thread[u],
         thread' \in [Thread -> {"none", "created", "check", "work", "ended"}],
         running_' \in [Thread -> BOOLEAN]
  PROVE  OrderInv'
<1>1. MainType /\ JoinedInv /\ DrainedInv
  BY DEF OrderInv
<1>2. MainType'
  BY <1>1 DEF MainType
<1>3. main \notin {"size", "final", "destroy", "exited"}
  BY <1>1 DEF JoinedInv
<1>4. ASSUME main = "join", NEW i \in 1 .. turn - 1 PROVE thread'[Threads[i]] = "ended"
  <2>1. thread[Threads[i]] = "ended"
    BY <1>1, <1>4 DEF JoinedInv
  <2>2. i \in 1 .. 3
    BY <1>1 DEF MainType
  <2>3. Threads[i] \in Thread
    BY <2>2, ThreadFacts
  <2>. QED BY <2>1, <2>3
<1>5. JoinedInv'
  BY <1>1, <1>3, <1>4 DEF JoinedInv
<1>6. DrainedInv'
  BY <1>3 DEF DrainedInv
<1>. QED BY <1>2, <1>5, <1>6 DEF OrderInv

\* A step of main that leaves the part in which it joins and drains alone.
LEMMA EarlyOrder ==
  ASSUME OrderInv,
         main' \in {"serve", "connect", "launch", "loop", "drain", "stop", "dashboard",
                    "unwind", "failed", "terminated"},
         main' = "dashboard" => turn' = 1,
         turn' \in 1 .. 3, g_shutdown' \in BOOLEAN, leftover' \in 0 .. Capacity,
         thread' \in [Thread -> {"none", "created", "check", "work", "ended"}],
         running_' \in [Thread -> BOOLEAN]
  PROVE  OrderInv'
<1>1. MainType'
  BY DEF MainType
<1>2. JoinedInv'
  BY DEF JoinedInv
<1>3. DrainedInv'
  BY DEF DrainedInv
<1>. QED BY <1>1, <1>2, <1>3 DEF OrderInv

LEMMA ThreadStepOrder ==
  ASSUME OrderInv, NEW t \in Thread, ThreadStep(t)
  PROVE  OrderInv'
<1>1. /\ thread \in [Thread -> {"none", "created", "check", "work", "ended"}]
      /\ running_ \in [Thread -> BOOLEAN] /\ "consumer" \in Thread
  BY ThreadFacts DEF OrderInv, MainType
<1>2. CASE Enter(t)
  <2>1. /\ thread[t] = "created" /\ UNCHANGED <<g_shutdown, main, turn, leftover>>
        /\ running_' = [running_ EXCEPT ![t] = TRUE]
        /\ thread' = [thread EXCEPT ![t] = "check"]
    BY <1>2 DEF Enter, ticks
  <2>2. running_' \in [Thread -> BOOLEAN]
    BY <1>1, <2>1
  <2>. QED BY <1>1, <2>1, <2>2, ThreadOrder
<1>3. CASE CheckRunning(t)
  <2> DEFINE where == IF ~running_[t] THEN "ended"
                      ELSE IF t = "consumer" THEN "work" ELSE "check"
  <2>1. /\ thread[t] = "check" /\ UNCHANGED <<g_shutdown, main, turn, leftover, running_>>
        /\ thread' = [thread EXCEPT ![t] = where]
    BY <1>3 DEF CheckRunning, ticks
  <2>2. where \in {"ended", "work", "check"}
    OBVIOUS
  <2> HIDE DEF where
  <2>. QED BY <1>1, <2>1, <2>2, ThreadOrder
<1>4. CASE NoTick \/ PushTick
  <2>1. /\ thread["consumer"] = "work" /\ UNCHANGED <<g_shutdown, main, turn, leftover, running_>>
        /\ thread' = [thread EXCEPT !["consumer"] = "check"]
    BY <1>4 DEF NoTick, PushTick, ticks
  <2>. QED BY <1>1, <2>1, ThreadOrder
<1>. QED BY <1>2, <1>3, <1>4 DEF ThreadStep

LEMMA EarlyStepOrder ==
  ASSUME OrderInv,
         Construct \/ StartDashboard \/ Connect \/ Launch \/ TestShutdown \/ StopThread
           \/ DrainCycle \/ DrainThrows \/ FinalDrainThrows
  PROVE  OrderInv'
<1>1. MainType
  BY DEF OrderInv
<1>2. CASE Construct \/ StartDashboard \/ Connect \/ TestShutdown
  <2>1. /\ main' \in {"serve", "failed", "connect", "launch", "unwind", "stop", "drain"}
        /\ UNCHANGED <<g_shutdown, turn, thread, running_, leftover>>
    BY <1>2 DEF Construct, StartDashboard, Connect, TestShutdown, loops, ticks
  <2>. QED BY <1>1, <2>1, EarlyOrder DEF MainType
<1>3. CASE DrainCycle \/ DrainThrows \/ FinalDrainThrows
  <2>1. /\ main' \in {"loop", "terminated", "unwind"}
        /\ UNCHANGED <<g_shutdown, turn, thread, running_, leftover>>
    BY <1>3 DEF DrainCycle, DrainThrows, FinalDrainThrows, loops
  <2>. QED BY <1>1, <2>1, EarlyOrder DEF MainType
<1>4. CASE Launch
  <2>1. /\ main = "launch" /\ UNCHANGED <<g_shutdown, running_, leftover>>
        /\ thread' = [thread EXCEPT ![Threads[turn]] = "created"]
        /\ \/ turn < 3 /\ main' = main /\ turn' = turn + 1
           \/ main' = "loop" /\ turn' = 1
    BY <1>4, ThreadFacts DEF Launch, NextTurn, ticks
  <2>2. turn' \in 1 .. 3 /\ main' \in {"launch", "loop"}
    BY <1>1, <2>1 DEF MainType
  <2>3. thread' \in [Thread -> {"none", "created", "check", "work", "ended"}]
    BY <1>1, <2>1 DEF MainType
  <2>. QED BY <1>1, <2>1, <2>2, <2>3, EarlyOrder DEF MainType
<1>5. CASE StopThread
  <2>1. /\ main = "stop" /\ UNCHANGED <<g_shutdown, thread, leftover>>
        /\ running_' = [running_ EXCEPT ![Threads[turn]] = FALSE]
        /\ \/ turn < 3 /\ main' = main /\ turn' = turn + 1
           \/ main' = "dashboard" /\ turn' = 1
    BY <1>5, ThreadFacts DEF StopThread, Stopped, NextTurn, ticks
  <2>2. turn' \in 1 .. 3 /\ main' \in {"stop", "dashboard"} /\ (main' = "dashboard" => turn' = 1)
    BY <1>1, <2>1 DEF MainType
  <2>3. running_' \in [Thread -> BOOLEAN]
    BY <1>1, <2>1 DEF MainType
  <2>. QED BY <1>1, <2>1, <2>2, <2>3, EarlyOrder DEF MainType
<1>. QED BY <1>2, <1>3, <1>4, <1>5

LEMMA StopDashboardOrder == ASSUME OrderInv, StopDashboard PROVE OrderInv'
<1>1. MainType /\ JoinedInv /\ DrainedInv
  BY DEF OrderInv
<1>2. /\ main \in {"dashboard", "unwind", "destroy"}
      /\ main' = main \/ main' = AfterStop[main]
      /\ UNCHANGED <<g_shutdown, turn, thread, running_, leftover, queue>>
  BY DEF StopDashboard, AfterStop, loops, ticks
<1>3. /\ AfterStop["dashboard"] = "join" /\ AfterStop["unwind"] = "failed"
      /\ AfterStop["destroy"] = "exited"
  BY DEF AfterStop
<1>4. \/ main' = main
      \/ main = "dashboard" /\ main' = "join"
      \/ main = "unwind" /\ main' = "failed"
      \/ main = "destroy" /\ main' = "exited"
  BY <1>2, <1>3
<1>5. MainType'
  BY <1>1, <1>2, <1>4 DEF MainType
<1>6. JoinedInv'
  <2>1. CASE main' = main
    BY <1>1, <1>2, <2>1 DEF JoinedInv
  <2>2. CASE main = "dashboard" /\ main' = "join"
    <3>1. turn' = 1
      BY <1>1, <1>2, <2>2 DEF JoinedInv
    <3>. QED BY <2>2, <3>1 DEF JoinedInv
  <2>3. CASE main = "unwind" /\ main' = "failed"
    BY <2>3 DEF JoinedInv
  <2>4. CASE main = "destroy" /\ main' = "exited"
    BY <1>1, <1>2, <2>4 DEF JoinedInv
  <2>. QED BY <1>4, <2>1, <2>2, <2>3, <2>4
<1>7. DrainedInv'
  BY <1>1, <1>2, <1>4 DEF DrainedInv
<1>. QED BY <1>5, <1>6, <1>7 DEF OrderInv

LEMMA JoinOrder == ASSUME OrderInv, JoinThread PROVE OrderInv'
<1>1. MainType /\ JoinedInv /\ turn \in 1 .. 3
  BY DEF OrderInv, MainType
<1>2. /\ main = "join" /\ thread[Threads[turn]] = "ended"
      /\ UNCHANGED <<g_shutdown, thread, running_, leftover, queue>>
      /\ \/ turn < 3 /\ main' = main /\ turn' = turn + 1
         \/ turn = 3 /\ main' = "size" /\ turn' = 1
  BY <1>1, ThreadFacts DEF JoinThread, Joined, NextTurn, loops, ticks
<1>3. MainType'
  <2>1. main' \in {"join", "size"} /\ turn' \in 1 .. 3
    BY <1>1, <1>2
  <2>. QED BY <1>1, <1>2, <2>1 DEF MainType
<1>4. \A i \in 1 .. turn : thread[Threads[i]] = "ended"
  <2>1. \A i \in 1 .. turn - 1 : thread[Threads[i]] = "ended"
    BY <1>1, <1>2 DEF JoinedInv
  <2>. QED BY <1>1, <1>2, <2>1
<1>5. JoinedInv'
  <2>1. CASE turn < 3 /\ main' = main /\ turn' = turn + 1
    <3>1. turn' - 1 = turn
      BY <1>1, <2>1
    <3>. QED BY <1>2, <1>4, <2>1, <3>1 DEF JoinedInv
  <2>2. CASE turn = 3 /\ main' = "size" /\ turn' = 1
    <3>1. thread[Threads[1]] = "ended" /\ thread[Threads[2]] = "ended"
          /\ thread[Threads[3]] = "ended"
      BY <1>4, <2>2
    <3>2. \A u \in Thread : thread'[u] = "ended"
      BY <1>2, <3>1, ThreadFacts
    <3>. QED BY <2>2, <3>2 DEF JoinedInv
  <2>. QED BY <1>2, <2>1, <2>2
<1>6. DrainedInv'
  BY <1>2 DEF DrainedInv
<1>. QED BY <1>3, <1>5, <1>6 DEF OrderInv

LEMMA FinalOrder ==
  ASSUME TickInv, OrderInv, ReadSize \/ FinalDrain
  PROVE  OrderInv'
<1>1. MainType /\ JoinedInv /\ DrainedInv
  BY DEF OrderInv
<1>2. /\ main \in {"size", "final"} /\ main' \in {"final", "destroy"}
      /\ UNCHANGED <<g_shutdown, turn, thread, running_>>
  BY DEF ReadSize, FinalDrain, loops
<1>3. \A u \in Thread : thread'[u] = "ended"
  BY <1>1, <1>2 DEF JoinedInv
<1>4. JoinedInv'
  BY <1>2, <1>3 DEF JoinedInv
<1>5. CASE ReadSize
  <2>1. main' = "final" /\ leftover' = Len(queue) /\ queue' = queue
    BY <1>5 DEF ReadSize, buffer
  <2>2. Len(queue) \in 0 .. Capacity
    BY DrainAssumption DEF TickInv, BufferType
  <2>3. MainType'
    BY <1>1, <1>2, <2>1, <2>2 DEF MainType
  <2>4. DrainedInv'
    BY <2>1 DEF DrainedInv
  <2>. QED BY <1>4, <2>3, <2>4 DEF OrderInv
<1>6. CASE FinalDrain
  <2>1. /\ main = "final" /\ main' = "destroy" /\ DrainUpTo(leftover)
        /\ UNCHANGED <<handled, overwritten, leftover>>
    BY <1>6 DEF FinalDrain
  <2>2. leftover = Len(queue) /\ leftover \in Nat
    BY <1>1, <2>1, DrainAssumption DEF DrainedInv, MainType
  <2>3. queue' = <<>>
    BY <2>1, <2>2, Drained
  <2>4. MainType'
    BY <1>1, <1>2, <2>1 DEF MainType
  <2>5. DrainedInv'
    BY <2>1, <2>3 DEF DrainedInv
  <2>. QED BY <1>4, <2>4, <2>5 DEF OrderInv
<1>. QED BY <1>5, <1>6

LEMMA OrderStep == ASSUME TickInv, OrderInv, [Next]_vars PROVE OrderInv'
<1>1. CASE Signal \/ ServerStep \/ ClientStep \/ UNCHANGED vars
  <2>1. UNCHANGED <<main, turn, thread, running_, leftover, queue>>
    BY <1>1 DEF Signal, ServerStep, ClientStep, vars, loops, ticks
  <2>2. g_shutdown' \in {TRUE, g_shutdown}
    BY <1>1 DEF Signal, ServerStep, ClientStep, vars
  <2>3. g_shutdown' \in BOOLEAN
    BY <2>2 DEF OrderInv, MainType
  <2>. QED BY <2>1, <2>3, OrderResting
<1>2. CASE \E t \in Thread : ThreadStep(t)
  BY <1>2, ThreadStepOrder
<1>. QED BY <1>1, <1>2, EarlyStepOrder, StopDashboardOrder, JoinOrder, FinalOrder
         DEF Next, MainStep

-----------------------------------------------------------------------------
\* The theorem.

LEMMA InitInv == Init => MainInv
<1> SUFFICES ASSUME Init PROVE MainInv
  OBVIOUS
<1>1. /\ g_shutdown = FALSE /\ main = "construct" /\ turn = 1
      /\ thread = [t \in Thread |-> "none"] /\ running_ = [t \in Thread |-> FALSE]
      /\ queue = <<>> /\ output = <<>> /\ handled = 0 /\ overwritten = 0 /\ leftover = 0
      /\ Dashboard!Init
  BY DEF Init, Buffer!Init
<1>2. LifeType /\ LifeInv
  BY <1>1, SameDashboard, ServerInit
<1>3. EndInv
  BY <1>1 DEF EndInv, Dashboard!Init
<1>4. MainType
  <2>1. leftover \in 0 .. Capacity /\ turn \in 1 .. 3
    BY <1>1, DrainAssumption
  <2>2. /\ thread \in [Thread -> {"none", "created", "check", "work", "ended"}]
        /\ running_ \in [Thread -> BOOLEAN]
    BY <1>1
  <2>. QED BY <1>1, <2>1, <2>2 DEF MainType
<1>5. JoinedInv /\ DrainedInv
  BY <1>1 DEF JoinedInv, DrainedInv
<1>6. <<>> \in Seq(1 .. handled) /\ Len(<<>>) = 0
  BY EmptySeq
<1>7. BufferType /\ AccountInv
  BY <1>1, <1>6, DrainAssumption, BoundAssumption DEF BufferType, AccountInv
<1>. QED BY <1>2, <1>3, <1>4, <1>5, <1>7 DEF MainInv, TickInv, OrderInv

LEMMA MainInvariance == Spec => []MainInv
<1>1. MainInv /\ [Next]_vars => MainInv'
  BY TickStep, OrderStep, LifeStep DEF MainInv, OrderInv
<1>. QED BY InitInv, <1>1, PTL DEF Spec

\* However the threads interleave and whatever throws, when main is done its
\* threads have ended, the buffer is empty, and every tick that was pushed was
\* handed to the writer or overwritten; and the dashboard's thread is destroyed
\* joinable only as main ends, and only when its port was not bound.
THEOREM NothingIsLeft == Spec => []NothingLeftBehind
<1>1. MainInv => NothingLeftBehind
  <2> SUFFICES ASSUME MainInv PROVE NothingLeftBehind
    OBVIOUS
  <2>1. MainType /\ BufferType /\ AccountInv /\ JoinedInv /\ DrainedInv /\ EndInv /\ LifeInv
    BY DEF MainInv, OrderInv, TickInv
  <2>2. Len(queue) \in Nat /\ Len(output) \in Nat
    BY <2>1 DEF BufferType
  <2>3. overwritten \in 0 .. handled
    BY <2>1, <2>2 DEF BufferType, AccountInv
  <2>4. TypeOK
    BY <2>1, <2>3, ThreadFacts DEF TypeOK, MainType, BufferType
  <2>5. ASSUME main \in {"destroy", "exited"}
        PROVE  /\ queue = <<>>
               /\ \A t \in Thread : thread[t] = "ended"
               /\ handled = Len(output) + overwritten
    <3>1. queue = <<>> /\ Len(queue) = 0
      BY <2>1, <2>5, EmptySeq DEF DrainedInv
    <3>2. handled = Len(output) + overwritten
      BY <2>1, <2>2, <3>1 DEF AccountInv, BufferType
    <3>. QED BY <2>1, <2>5, <3>1, <3>2 DEF JoinedInv
  <2>6. terminated = "joinable" => main \in {"exited", "failed"} /\ bound = "failed"
    BY <2>1 DEF EndInv, LifeInv
  <2>. QED BY <2>4, <2>5, <2>6 DEF NothingLeftBehind
<1>. QED BY MainInvariance, <1>1, PTL

================================================================================
