-------------------------------- MODULE Main --------------------------------
(***************************************************************************)
(* The life of the process (src/main.cpp): the subsystems are constructed, *)
(* or one throws; the fetcher, the processor and the consumer thread each  *)
(* run a loop behind a running_ flag that the loop itself sets when it     *)
(* starts; the consumer pushes processed ticks into the time-series        *)
(* buffer, which main drains into the database writer until a signal sets  *)
(* g_shutdown, and once more when the threads are joined.  The buffer is   *)
(* DropOldestQueue, which TimeSeriesBuffer implements; the dashboard, with *)
(* its thread and its clients, is WebSocketServer, and main its owner.     *)
(***************************************************************************)
EXTENDS Integers, Sequences, FiniteSets

CONSTANTS Capacity,  \* of the buffer; 10000
          DrainMax,  \* ticks drained per cycle; 500
          MaxTicks,  \* bound on the processed ticks received
          Conn, Id, Ticker  \* of the dashboard

ASSUME DrainAssumption == Capacity \in Nat \ {0} /\ DrainMax \in Nat \ {0}
ASSUME BoundAssumption == MaxTicks \in Nat

\* The background threads, in the order main creates, stops and joins them.
Threads == <<"fetcher", "processor", "consumer">>
Thread == {Threads[i] : i \in 1 .. Len(Threads)}

VARIABLES
  g_shutdown,
  main,      \* where main() is
  turn,      \* the index in Threads it has reached there
  thread,    \* where each background thread is
  running_,  \* its flag
  queue,     \* the ticks in the buffer, oldest first
  output,    \* the ticks handed to the writer, in order
  handled,   \* how many processed ticks the consumer pushed; tick n is the n-th
  overwritten,  \* how many of them the buffer dropped
  leftover   \* the size() read for the final drain

\* Those of the dashboard; its thread and running_ have names of their own.
VARIABLES serverThread, serving, listen_socket_, joinable, bound,
          caller, destroying, starts, missed, terminated,
          patient, open, id, clients_, client_count_, handler, wanted, dropped

loops == <<thread, running_>>
buffer == <<queue, output>>
ticks == <<queue, output, handled, overwritten, leftover>>
dashboard == <<serverThread, serving, listen_socket_, joinable, bound,
               caller, destroying, starts, missed, terminated,
               patient, open, id, clients_, client_count_, handler, wanted, dropped>>
vars == <<g_shutdown, main, turn, thread, running_, ticks, dashboard>>

Buffer == INSTANCE DropOldestQueue WITH Tick <- 1 .. MaxTicks
Dashboard == INSTANCE WebSocketServer
               WITH thread <- serverThread, running_ <- serving, MaxStarts <- 1

Init ==
  /\ g_shutdown = FALSE /\ main = "construct" /\ turn = 1
  /\ thread = [t \in Thread |-> "none"]
  /\ running_ = [t \in Thread |-> FALSE]
  /\ Buffer!Init /\ Dashboard!Init
  /\ handled = 0 /\ overwritten = 0 /\ leftover = 0

\* The process has ended: main has returned 0 or 1, or std::terminate() was
\* called.
Dead == main \in {"exited", "failed", "terminated"} \/ terminated # "no"

\* A signal arrives.
Signal ==
  /\ ~g_shutdown
  /\ g_shutdown' = TRUE
  /\ UNCHANGED <<main, turn, loops, ticks, dashboard>>

-----------------------------------------------------------------------------
(* The background threads.                                                 *)

\* start() or start_polling() sets the flag that its loop then tests.
Enter(t) ==
  /\ thread[t] = "created"
  /\ running_' = [running_ EXCEPT ![t] = TRUE]
  /\ thread' = [thread EXCEPT ![t] = "check"]
  /\ UNCHANGED <<g_shutdown, main, turn, ticks, dashboard>>

\* The test of the loop, with the turn after it when that changes nothing
\* here: what the fetcher and the processor do.
CheckRunning(t) ==
  /\ thread[t] = "check"
  /\ thread' = [thread EXCEPT ![t] = IF ~running_[t] THEN "ended"
                                    ELSE IF t = "consumer" THEN "work" ELSE "check"]
  /\ UNCHANGED <<g_shutdown, main, turn, running_, ticks, dashboard>>

\* No message came in time.
NoTick ==
  /\ thread["consumer"] = "work"
  /\ thread' = [thread EXCEPT !["consumer"] = "check"]
  /\ UNCHANGED <<g_shutdown, main, turn, running_, ticks, dashboard>>

\* A processed tick arrives; the callback pushes it into the buffer and has
\* it broadcast.
PushTick ==
  /\ thread["consumer"] = "work" /\ handled < MaxTicks
  /\ handled' = handled + 1
  /\ Buffer!Push(handled + 1)
  /\ overwritten' = IF Len(queue) = Capacity THEN overwritten + 1 ELSE overwritten
  /\ thread' = [thread EXCEPT !["consumer"] = "check"]
  /\ UNCHANGED <<g_shutdown, main, turn, running_, leftover, dashboard>>

-----------------------------------------------------------------------------
(* The main thread.                                                        *)

\* On to the next thread, or to the next part of main.
NextTurn(last, part) ==
  IF turn < last THEN main' = main /\ turn' = turn + 1 ELSE main' = part /\ turn' = 1

\* The configuration and the subsystems up to the dashboard, whose
\* destructors have nothing to wait for.
Construct ==
  /\ main = "construct"
  /\ main' \in {"serve", "failed"}
  /\ UNCHANGED <<g_shutdown, turn, loops, ticks, dashboard>>

StartDashboard ==
  /\ main = "serve"
  /\ Dashboard!Start
  /\ main' = "connect"
  /\ UNCHANGED <<g_shutdown, turn, loops, ticks>>

\* The query handler, the fetcher, the producer and the consumer: any of
\* them may throw, which unwinds main through the dashboard's destructor.
Connect ==
  /\ main = "connect"
  /\ main' \in {"launch", "unwind"}
  /\ UNCHANGED <<g_shutdown, turn, loops, ticks, dashboard>>

Launch ==
  /\ main = "launch"
  /\ thread' = [thread EXCEPT ![Threads[turn]] = "created"]
  /\ NextTurn(Len(Threads), "loop")
  /\ UNCHANGED <<g_shutdown, running_, ticks, dashboard>>

TestShutdown ==
  /\ main = "loop"
  /\ main' = IF g_shutdown THEN "stop" ELSE "drain"
  /\ UNCHANGED <<g_shutdown, turn, loops, ticks, dashboard>>

DrainNothing ==
  queue = <<>> /\ UNCHANGED buffer

\* Mutation: a cycle waits for more than a full batch.
DrainUpTo_Over(n) ==
  IF Len(queue) > n THEN Buffer!Drain(n) ELSE UNCHANGED buffer
\* drain(batch, n) followed by write_batch(batch).
DrainUpTo(n) ==
  \/ DrainNothing
  \/ queue # <<>> /\ Buffer!Drain(IF Len(queue) < n THEN Len(queue) ELSE n)

\* One drain cycle and its 500 ms sleep.
DrainCycle ==
  /\ main = "drain"
  /\ DrainUpTo(DrainMax)
  /\ main' = "loop"
  /\ UNCHANGED <<g_shutdown, turn, loops, handled, overwritten, leftover, dashboard>>

\* An exception of write_batch() unwinds main and destroys its three threads,
\* which are joinable: catch and return 1 are not reached.
DrainThrows ==
  /\ main = "drain" /\ queue # <<>>
  /\ DrainUpTo(DrainMax)
  /\ main' = "terminated"
  /\ UNCHANGED <<g_shutdown, turn, loops, handled, overwritten, leftover, dashboard>>

\* Mutation: the consumer's stop() is forgotten.
Stopped_NotConsumer == 2
Stopped == Len(Threads)

StopThread ==
  /\ main = "stop"
  /\ running_' = [running_ EXCEPT ![Threads[turn]] = FALSE]
  /\ NextTurn(Stopped, "dashboard")
  /\ UNCHANGED <<g_shutdown, thread, ticks, dashboard>>

\* What follows the call of the dashboard's stop(), or of its destructor.
AfterStop == [dashboard |-> "join", unwind |-> "failed", destroy |-> "exited"]

\* A step of ws_server->stop(), called in the shutdown, or by the destructor
\* when an exception unwinds main or when main returns.
StopDashboard ==
  /\ main \in DOMAIN AfterStop
  /\ \/ Dashboard!CallStop /\ destroying' = (main # "dashboard")
     \/ Dashboard!OwnerStep
  /\ main' = IF caller' \in {"idle", "destroyed"} THEN AfterStop[main] ELSE main
  /\ UNCHANGED <<g_shutdown, turn, loops, ticks>>

\* Mutation: the final drain does not wait for the consumer thread.
Joined_NotConsumer == 2
Joined == Len(Threads)

JoinThread ==
  /\ main = "join" /\ thread[Threads[turn]] = "ended"
  /\ NextTurn(Joined, "size")
  /\ UNCHANGED <<g_shutdown, loops, ticks, dashboard>>

ReadSize ==
  /\ main = "size"
  /\ leftover' = Len(queue)
  /\ main' = "final"
  /\ UNCHANGED <<g_shutdown, turn, loops, buffer, handled, overwritten, dashboard>>

\* The final drain, its write_batch() and the last flush().
FinalDrain ==
  /\ main = "final"
  /\ DrainUpTo(leftover)
  /\ main' = "destroy"
  /\ UNCHANGED <<g_shutdown, turn, loops, handled, overwritten, leftover, dashboard>>

\* An exception of the final write_batch(): the threads are joined by now, so
\* the destructors run and main returns 1.
FinalDrainThrows ==
  /\ main = "final" /\ leftover > 0
  /\ DrainUpTo(leftover)
  /\ main' = "unwind"
  /\ UNCHANGED <<g_shutdown, turn, loops, handled, overwritten, leftover, dashboard>>

-----------------------------------------------------------------------------
ThreadStep(t) == /\ ~Dead
                 /\ \/ Enter(t) \/ CheckRunning(t)
                    \/ t = "consumer" /\ (PushTick \/ NoTick)

MainStep == /\ ~Dead
            /\ \/ Construct \/ StartDashboard \/ Connect \/ Launch
               \/ TestShutdown \/ DrainCycle \/ StopThread \/ StopDashboard
               \/ JoinThread \/ ReadSize \/ FinalDrain

ServerStep == /\ ~Dead /\ Dashboard!LoopStep
              /\ UNCHANGED <<g_shutdown, main, turn, loops, ticks>>

ClientStep == /\ ~Dead /\ Dashboard!ClientStep
              /\ UNCHANGED <<g_shutdown, main, turn, loops, ticks>>

Next == \/ ~Dead /\ (Signal \/ DrainThrows \/ FinalDrainThrows)
        \/ MainStep \/ ServerStep \/ ClientStep
        \/ \E t \in Thread : ThreadStep(t)

Spec == Init /\ [][Next]_vars

\* Every thread that can take a step takes one; no signal need arrive, and
\* the clients do what they like.
FairSpec == /\ Spec
            /\ WF_vars(MainStep) /\ WF_vars(ServerStep)
            /\ \A t \in Thread : WF_vars(ThreadStep(t))

-----------------------------------------------------------------------------
TypeOK ==
  /\ g_shutdown \in BOOLEAN
  /\ main \in {"construct", "serve", "connect", "launch", "loop", "drain", "stop",
               "dashboard", "join", "size", "final", "destroy", "exited",
               "unwind", "failed", "terminated"}
  /\ turn \in 1 .. Len(Threads)
  /\ thread \in [Thread -> {"none", "created", "check", "work", "ended"}]
  /\ running_ \in [Thread -> BOOLEAN]
  /\ queue \in Seq(1 .. handled) /\ Len(queue) =< Capacity
  /\ output \in Seq(1 .. handled)
  /\ handled \in 0 .. MaxTicks /\ overwritten \in 0 .. handled
  /\ leftover \in 0 .. Capacity

(***************************************************************************)
(* "flush buffers ... and drain InfluxDB writes cleanly before the process *)
(* exits" (main.cpp): when main is done the buffer is empty, nobody is     *)
(* left to fill it, and every tick the consumer ever pushed was handed to  *)
(* the writer unless the buffer overwrote it.  The dashboard's thread is   *)
(* destroyed joinable only as main ends, and only when its port was not    *)
(* bound.                                                                  *)
(***************************************************************************)
NothingLeftBehind ==
  /\ TypeOK
  /\ main \in {"destroy", "exited"} =>
       /\ queue = <<>>
       /\ \A t \in Thread : thread[t] = "ended"
       /\ handled = Len(output) + overwritten
  /\ terminated = "joinable" => main \in {"exited", "failed"} /\ bound = "failed"

\* Main has not begun to stop its threads, and all of them are in their loops.
AllInLoops ==
  /\ main \in {"loop", "drain"}
  /\ \A t \in Thread : thread[t] \in {"check", "work"}

\* The dashboard's loop goes on for ever: stop() came before its socket was
\* known, or a client stays connected.
DashboardStays == Dashboard!Missed \/ (patient /\ open # {})

(***************************************************************************)
(* A signal that arrives when the threads are in their loops ends the      *)
(* process, unless the dashboard's loop never ends.  One that comes before *)
(* a loop has set its running_ flag is undone by it, and main waits for    *)
(* that thread for ever.                                                   *)
(***************************************************************************)
ShutdownCompletes ==
  <>[]DashboardStays \/ ((g_shutdown /\ AllInLoops) ~> Dead)

(***************************************************************************)
(* "FATAL error": when a subsystem that is constructed after the dashboard *)
(* was started throws, or the final write, main does end - the destructors *)
(* join the dashboard's thread, or terminate when its port was not bound - *)
(* unless the loop of the dashboard never ends.                            *)
(***************************************************************************)
FailedStartUpEnds == <>[]DashboardStays \/ ((main = "unwind") ~> Dead)

Buffered(n) == \E i \in 1 .. Len(queue) : queue[i] = n

(***************************************************************************)
(* While the process lives no tick stays in the buffer for ever once the   *)
(* threads are in their loops, whether or not a signal arrives meanwhile,  *)
(* unless main waits for the dashboard's loop, which never ends.           *)
(***************************************************************************)
BufferedTicksLeave ==
  \/ <>[]DashboardStays
  \/ \A n \in 1 .. MaxTicks :
       (AllInLoops /\ Buffered(n)) ~> (Dead \/ ~Buffered(n))
=============================================================================
