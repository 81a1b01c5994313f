----------------------------- MODULE ClientHandle -----------------------------
(***************************************************************************)
(* The end of a client (core/src/client.cpp): its handle is destroyed by   *)
(* an application thread, by the callback of another client, or by its own *)
(* callback, which runs on the very worker that destruction must join.  In *)
(* the last case the implementation is passed to the DeferredDestroyer, a  *)
(* thread that lives as long as the process.                               *)
(*                                                                         *)
(* A worker is reduced to: it runs callbacks and exits when told to stop   *)
(* or at a fault.  ClientLifecycle has stop() itself; here it is telling   *)
(* the worker and, on any other thread, joining it.                        *)
(***************************************************************************)
EXTENDS Naturals, Sequences, FiniteSets

CONSTANTS
  Clients,
  App,          \* an application thread
  None,
  MayDestroy    \* <<c, d>>: the callback of c may destroy the handle of d

(* Callbacks that destroy each other's clients would wait for each other   *)
(* for ever; programs are assumed not to do that.                          *)
ASSUME NoMutualDestruction ==
  /\ MayDestroy \subseteq Clients \X Clients
  /\ \E rank \in [Clients -> 1 .. Cardinality(Clients)] :
       \A pair \in MayDestroy : pair[1] # pair[2] => rank[pair[1]] > rank[pair[2]]

Actors == Clients \cup {App}   \* a client stands for its worker

VARIABLES
  held,        \* clients whose handle exists
  worker,      \* worker[c]: "running", "callback", "exited"
  stopping_,   \* stopping_[c]
  freed,       \* freed[c]: how often its implementation was destroyed
  step,        \* step[a]: where actor a is in ~Client()
  victim,      \* victim[a]: the client it is destroying
  pending_,    \* the destroyer's queue
  destroyer,   \* "test", "asleep" or "stop"
  current      \* what it is destroying

handleVars == <<held, step, victim>>
workerVars == <<worker, stopping_>>
queueVars  == <<pending_, destroyer, current>>
vars == <<handleVars, workerVars, queueVars, freed>>

Init ==
  /\ held = Clients
  /\ worker = [c \in Clients |-> "running"]
  /\ stopping_ = [c \in Clients |-> FALSE]
  /\ freed = [c \in Clients |-> 0]
  /\ step = [a \in Actors |-> "none"]
  /\ victim = [a \in Actors |-> None]
  /\ pending_ = <<>> /\ destroyer = "test" /\ current = None

-----------------------------------------------------------------------------
(* The workers                                                             *)

CallbackEnter(c) ==
  /\ worker[c] = "running" /\ ~stopping_[c]
  /\ worker' = [worker EXCEPT ![c] = "callback"]
  /\ UNCHANGED <<handleVars, stopping_, queueVars, freed>>

CallbackReturn(c) ==
  /\ worker[c] = "callback" /\ step[c] = "none"
  /\ worker' = [worker EXCEPT ![c] = "running"]
  /\ UNCHANGED <<handleVars, stopping_, queueVars, freed>>

WorkerExit(c) ==
  /\ worker[c] = "running" /\ stopping_[c]
  /\ worker' = [worker EXCEPT ![c] = "exited"]
  /\ UNCHANGED <<handleVars, stopping_, queueVars, freed>>

WorkerFaults(c) ==
  /\ worker[c] = "running" /\ ~stopping_[c]
  /\ worker' = [worker EXCEPT ![c] = "exited"]
  /\ UNCHANGED <<handleVars, stopping_, queueVars, freed>>

-----------------------------------------------------------------------------
(* ~Client()                                                               *)

Advance(a, label) == step' = [step EXCEPT ![a] = label]

Leave(a) ==
  /\ Advance(a, "none")
  /\ victim' = [victim EXCEPT ![a] = None]

Free(c) == freed' = [freed EXCEPT ![c] = @ + 1]

called_from_worker_thread(a, c) == a = c

(* Lines 57-63 up to where stop() has told the worker.                     *)
Destroy(a, c) ==
  /\ c \in held /\ step[a] = "none"
  /\ a = App \/ (a # App /\ worker[a] = "callback" /\ <<a, c>> \in MayDestroy)
  /\ held' = held \ {c}
  /\ victim' = [victim EXCEPT ![a] = c]
  /\ stopping_' = [stopping_ EXCEPT ![c] = TRUE]
  /\ Advance(a, IF called_from_worker_thread(a, c) THEN "enqueue" ELSE "join")
  /\ UNCHANGED <<worker, queueVars, freed>>

(* Mutant: the worker is detached.                                         *)
Detached(c) == TRUE

Joined(c) == worker[c] = "exited"

(* Line 63 and the member's destructor: stop() has joined the worker.      *)
Join(a) ==
  /\ step[a] = "join" /\ Joined(victim[a])
  /\ Free(victim[a])
  /\ Leave(a)
  /\ UNCHANGED <<held, workerVars, queueVars>>

(* Line 60, enqueue(): under the mutex, lines 19-22.                       *)
Enqueue(a) ==
  /\ step[a] = "enqueue"
  /\ pending_' = Append(pending_, victim[a])
  /\ Advance(a, "notify")
  /\ UNCHANGED <<held, victim, workerVars, destroyer, current, freed>>

(* Mutant: nobody is notified.                                             *)
NotifyForgotten(a) ==
  /\ step[a] = "notify"
  /\ Leave(a)
  /\ UNCHANGED <<held, workerVars, queueVars, freed>>

(* Line 23, after the mutex was released.                                  *)
Notify(a) ==
  /\ step[a] = "notify"
  /\ destroyer' = IF destroyer = "asleep" THEN "test" ELSE destroyer
  /\ Leave(a)
  /\ UNCHANGED <<held, workerVars, pending_, current, freed>>

-----------------------------------------------------------------------------
(* DeferredDestroyer::run()                                                *)

(* Line 32: testing and falling asleep is one step under the mutex.        *)
Sleep ==
  /\ destroyer = "test" /\ pending_ = <<>>
  /\ destroyer' = "asleep"
  /\ UNCHANGED <<handleVars, workerVars, pending_, current, freed>>

(* A condition variable may wake its waiter for no reason.                 *)
SpuriousWake ==
  /\ destroyer = "asleep"
  /\ destroyer' = "test"
  /\ UNCHANGED <<handleVars, workerVars, pending_, current, freed>>

(* Lines 33-34.                                                            *)
Take ==
  /\ destroyer = "test" /\ pending_ # <<>>
  /\ current' = Head(pending_)
  /\ pending_' = Tail(pending_)
  /\ destroyer' = "stop"
  /\ UNCHANGED <<handleVars, workerVars, freed>>

(* Line 36 and the end of the loop's body.                                 *)
StopAndFree ==
  /\ destroyer = "stop" /\ Joined(current)
  /\ Free(current)
  /\ current' = None
  /\ destroyer' = "test"
  /\ UNCHANGED <<handleVars, workerVars, pending_>>

-----------------------------------------------------------------------------
DestructorStep(a) == Join(a) \/ Enqueue(a) \/ Notify(a)
WorkerStep(c) == CallbackReturn(c) \/ WorkerExit(c)
DestroyerStep == Sleep \/ Take \/ StopAndFree

Next ==
  \/ DestroyerStep \/ SpuriousWake
  \/ \E c \in Clients : CallbackEnter(c) \/ WorkerStep(c) \/ WorkerFaults(c)
  \/ \E a \in Actors : DestructorStep(a) \/ \E c \in Clients : Destroy(a, c)

Spec == Init /\ [][Next]_vars

(* Threads run and callbacks return; nobody need destroy anything, and no  *)
(* spurious wake-up is counted on.                                         *)
FairSpec ==
  /\ Spec
  /\ WF_vars(DestroyerStep)
  /\ \A a \in Actors : WF_vars(DestructorStep(a))
  /\ \A c \in Clients : WF_vars(WorkerStep(c))

-----------------------------------------------------------------------------
(* Properties                                                              *)

(* An implementation is destroyed once, after its worker has left it for   *)
(* good: a callback that destroys its own client, and goes on to use what  *)
(* it captured, still runs inside a live one.                              *)
OutlivesWorker ==
  \A c \in Clients : freed[c] <= (IF worker[c] = "exited" /\ c \notin held THEN 1 ELSE 0)

(* A client whose handle is gone is destroyed at last.                     *)
EventuallyFreed ==
  \A c \in Clients : c \notin held ~> freed[c] = 1

=============================================================================
