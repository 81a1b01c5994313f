----------------------------- MODULE HandleProofs -----------------------------
(***************************************************************************)
(* Proofs about ClientHandle, for any set of clients and any relation of   *)
(* who destroys whom: an implementation is destroyed at most once, and     *)
(* only after its worker has exited.                                       *)
(***************************************************************************)
EXTENDS ClientHandle, TLAPS

HandleTypes ==
  /\ worker \in [Clients -> {"running", "callback", "exited"}]
  /\ freed \in [Clients -> Nat]
  /\ step \in [Actors -> {"none", "join", "enqueue", "notify"}]
  /\ victim \in [Actors -> Clients \cup {None}]
  /\ pending_ \in Seq(Clients)
  /\ destroyer = "stop" => current \in Clients

(* The places where the implementation of c can be: with an actor that is  *)
(* destroying it, in the destroyer's queue, or in the destroyer's hands.   *)
Destroying(a, c) == step[a] \in {"join", "enqueue"} /\ victim[a] = c
Queued(c)        == \E i \in 1 .. Len(pending_) : pending_[i] = c
InHand(c)        == destroyer = "stop" /\ current = c

(* It is in one of them at a time, and in none while the handle exists or  *)
(* after it has been freed: unique_ptr's ownership, which moves from the   *)
(* handle to the destructor, the queue and the destroyer.                  *)
PlaceInv ==
  /\ \A a \in Actors : step[a] \in {"join", "enqueue"} => victim[a] \in Clients
  /\ \A a, b \in Actors, c \in Clients : Destroying(a, c) /\ Destroying(b, c) => a = b
  /\ \A a \in Actors, c \in Clients : Destroying(a, c) => ~Queued(c) /\ ~InHand(c)
  /\ \A i, j \in 1 .. Len(pending_) : pending_[i] = pending_[j] => i = j
  /\ \A c \in Clients : ~(Queued(c) /\ InHand(c))
  /\ \A c \in Clients :
       c \in held \/ freed[c] > 0
         => ~Queued(c) /\ ~InHand(c) /\ \A a \in Actors : ~Destroying(a, c)

HandleInv == HandleTypes /\ PlaceInv /\ OutlivesWorker

(* Appending a client to the destroyer's queue adds that client only.      *)
LEMMA QueueAppend ==
  ASSUME NEW d \in Clients, pending_ \in Seq(Clients), pending_' = Append(pending_, d)
  PROVE  /\ pending_' \in Seq(Clients)
         /\ \A c \in Clients : Queued(c)' <=> Queued(c) \/ c = d
         /\ (\A i, j \in 1 .. Len(pending_) : pending_[i] = pending_[j] => i = j) /\ ~Queued(d)
              => \A i, j \in 1 .. Len(pending_') : pending_'[i] = pending_'[j] => i = j
<1>1. /\ pending_' \in Seq(Clients)
      /\ Len(pending_') = Len(pending_) + 1
      /\ Len(pending_) \in Nat
      /\ \A i \in 1 .. Len(pending_) : pending_'[i] = pending_[i]
      /\ pending_'[Len(pending_) + 1] = d
  OBVIOUS
<1>2. \A c \in Clients : Queued(c)' <=> Queued(c) \/ c = d
  BY <1>1 DEF Queued
<1> QED BY <1>1, <1>2 DEF Queued

(* Taking the first one out of it leaves every other client in its place.  *)
LEMMA QueueTail ==
  ASSUME pending_ \in Seq(Clients), pending_ # <<>>, pending_' = Tail(pending_),
         \A i, j \in 1 .. Len(pending_) : pending_[i] = pending_[j] => i = j
  PROVE  /\ pending_' \in Seq(Clients)
         /\ Head(pending_) \in Clients /\ Queued(Head(pending_))
         /\ \A c \in Clients : Queued(c)' <=> Queued(c) /\ c # Head(pending_)
         /\ \A i, j \in 1 .. Len(pending_') : pending_'[i] = pending_'[j] => i = j
<1>1. /\ pending_' \in Seq(Clients)
      /\ Len(pending_) \in Nat /\ Len(pending_) > 0
      /\ Len(pending_') = Len(pending_) - 1
      /\ \A i \in 1 .. Len(pending_') : pending_'[i] = pending_[i + 1]
      /\ Head(pending_) = pending_[1] /\ Head(pending_) \in Clients
  OBVIOUS
<1>2. \A i \in 2 .. Len(pending_) : pending_[i] = pending_'[i - 1]
  BY <1>1
<1>3. \A c \in Clients : Queued(c)' <=> Queued(c) /\ c # Head(pending_)
  <2> TAKE c \in Clients
  <2>1. ASSUME Queued(c)' PROVE Queued(c) /\ c # Head(pending_)
    BY <1>1, <2>1 DEF Queued
  <2>2. ASSUME Queued(c), c # Head(pending_) PROVE Queued(c)'
    BY <1>1, <1>2, <2>2, SMTT(30) DEF Queued
  <2> QED BY <2>1, <2>2
<1> QED BY <1>1, <1>3 DEF Queued

(* Every step of the workers, the destructors and the destroyer keeps the  *)
(* invariant.                                                              *)
LEMMA HandleStep == HandleInv /\ [Next]_vars => HandleInv'
<1> SUFFICES ASSUME HandleInv, [Next]_vars PROVE HandleInv'
  OBVIOUS
<1> USE DEF HandleInv, HandleTypes, PlaceInv, OutlivesWorker, Destroying, InHand,
            handleVars, workerVars, queueVars
<1>q. pending_' = pending_ => \A c \in Clients : Queued(c)' <=> Queued(c)
  BY DEF Queued
<1>1. ASSUME NEW c \in Clients,
             CallbackEnter(c) \/ CallbackReturn(c) \/ WorkerExit(c) \/ WorkerFaults(c)
      PROVE  HandleInv'
  <2>1. /\ UNCHANGED <<handleVars, queueVars, freed>>
        /\ worker[c] # "exited"
        /\ \E label \in {"running", "callback", "exited"} :
             worker' = [worker EXCEPT ![c] = label]
    BY <1>1 DEF CallbackEnter, CallbackReturn, WorkerExit, WorkerFaults
  <2>2. \A d \in Clients : worker[d] = "exited" => worker'[d] = "exited"
    BY <2>1
  <2> QED BY <2>1, <2>2, <1>q
<1>2. ASSUME NEW a \in Actors, NEW c \in Clients, Destroy(a, c) PROVE HandleInv'
  BY <1>2, <1>q DEF Destroy, Advance
<1>3. ASSUME NEW a \in Actors, Join(a) PROVE HandleInv'
  BY <1>3, <1>q DEF Join, Joined, Free, Leave, Advance
<1>4. ASSUME NEW a \in Actors, Enqueue(a) PROVE HandleInv'
  <2>1. victim[a] \in Clients /\ ~Queued(victim[a]) /\ ~InHand(victim[a])
    BY <1>4 DEF Enqueue
  <2>2. /\ pending_' \in Seq(Clients)
        /\ \A c \in Clients : Queued(c)' <=> Queued(c) \/ c = victim[a]
        /\ \A i, j \in 1 .. Len(pending_') : pending_'[i] = pending_'[j] => i = j
    BY <1>4, <2>1, QueueAppend DEF Enqueue
  <2> QED BY <1>4, <2>1, <2>2 DEF Enqueue, Advance
<1>5. ASSUME NEW a \in Actors, Notify(a) PROVE HandleInv'
  BY <1>5, <1>q DEF Notify, Leave, Advance
<1>6. CASE Sleep \/ SpuriousWake
  BY <1>6, <1>q DEF Sleep, SpuriousWake
<1>7. CASE Take
  <2>1. /\ pending_' \in Seq(Clients)
        /\ Head(pending_) \in Clients /\ Queued(Head(pending_))
        /\ \A c \in Clients : Queued(c)' <=> Queued(c) /\ c # Head(pending_)
        /\ \A i, j \in 1 .. Len(pending_') : pending_'[i] = pending_'[j] => i = j
    BY <1>7, QueueTail DEF Take
  <2> QED BY <1>7, <2>1 DEF Take
<1>8. CASE StopAndFree
  BY <1>8, <1>q DEF StopAndFree, Joined, Free
<1>9. CASE UNCHANGED vars
  BY <1>9, <1>q DEF vars
<1> QED
  BY <1>1, <1>2, <1>3, <1>4, <1>5, <1>6, <1>7, <1>8, <1>9
     DEF Next, DestroyerStep, WorkerStep, DestructorStep

(* Ownership is where it should be in every reachable state.               *)
THEOREM HandleInvariant == Spec => []HandleInv
<1>1. Init => HandleInv
  BY DEF Init, HandleInv, HandleTypes, PlaceInv, OutlivesWorker, Destroying, Queued, InHand
<1> QED BY <1>1, HandleStep, PTL DEF Spec

(* However many clients are destroyed by applications, by their own        *)
(* callbacks or by each other's, no implementation is destroyed twice,     *)
(* with its handle still there, or under its worker (client.cpp:17-66).    *)
THEOREM ImplementationOutlivesWorker == Spec => []OutlivesWorker
<1>1. HandleInv => OutlivesWorker
  BY DEF HandleInv
<1> QED BY <1>1, HandleInvariant, PTL
=============================================================================
