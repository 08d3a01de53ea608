---------------------------- MODULE BoundedQueue ----------------------------
(***************************************************************************)
(* queue_init, queue_put and queue_get of mksquashfs.c (unsquashfs.c has   *)
(* the same code): a ring of Size + 1 slots guarded by one mutex, with one *)
(* condition variable for each end.  A call holds the mutex from entry to  *)
(* return except inside pthread_cond_wait, so a step of this module is one *)
(* stretch of holding the mutex: the call completes, or it goes to sleep.  *)
(*                                                                         *)
(* A sleeping thread is made runnable by pthread_cond_signal, which picks  *)
(* one waiter, or by a spurious wakeup, which POSIX allows.  It evaluates  *)
(* its while condition again only when it next holds the mutex: between    *)
(* the two any other thread may run, and steal what it was woken for.      *)
(***************************************************************************)
EXTENDS Integers, FiniteSets, Sequences

CONSTANTS Producers,  (* threads that call queue_put                       *)
          Consumers,  (* threads that call queue_get                       *)
          Values,     (* buffers; one of them is the NULL of a flush       *)
          Size        (* the argument of queue_init                        *)

ASSUME ThreadsAssumption == /\ IsFiniteSet(Producers)
                            /\ IsFiniteSet(Consumers)
                            /\ Producers \cap Consumers = {}
ASSUME SizeAssumption == Size \in Nat \ {0}

VARIABLES data,    (* the ring                                             *)
          readp, writep,
          thread   (* "run", "asleep" in pthread_cond_wait, or "woken"     *)

vars == <<data, readp, writep, thread>>

Threads == Producers \cup Consumers
RingSize == Size + 1
Slots == 0 .. RingSize - 1
SuccNoWrap(p) == p + 1
Succ(p) == (p + 1) % RingSize

IsFull  == Succ(writep) = readp
IsEmpty == readp = writep

Asleep(S) == {t \in S : thread[t] = "asleep"}
Woken(S)  == {t \in S : thread[t] = "woken"}

(* How many items the ring holds.                                          *)
Count == IF writep >= readp THEN writep - readp ELSE writep - readp + RingSize

-----------------------------------------------------------------------------
Init == /\ data \in [Slots -> Values]      \* malloc: the slots hold anything
        /\ readp = 0
        /\ writep = 0
        /\ thread = [t \in Threads |-> "run"]

(* pthread_cond_wait(&queue->full / empty): t gives up the mutex and sleeps *)
Sleep(t) == /\ thread' = [thread EXCEPT ![t] = "asleep"]
            /\ UNCHANGED <<data, readp, writep>>

(* t's call completes, with a pthread_cond_signal for the threads of S.    *)
SignalDropped(t, S) == thread' = [thread EXCEPT ![t] = "run"]
Signal(t, S) ==
  IF Asleep(S) = {}
  THEN thread' = [thread EXCEPT ![t] = "run"]
  ELSE \E w \in Asleep(S) :
         thread' = [thread EXCEPT ![t] = "run", ![w] = "woken"]

(* queue_put.  The value is fixed here, where the item becomes visible.    *)
PutOverrun(t, v) ==
  /\ thread[t] # "asleep"
  /\ IF IsFull /\ thread[t] = "run"
     THEN Sleep(t)
     ELSE /\ data' = [data EXCEPT ![writep] = v]
          /\ writep' = Succ(writep)
          /\ Signal(t, Consumers)
          /\ UNCHANGED readp
Put(t, v) ==
  /\ thread[t] # "asleep"
  /\ IF IsFull
     THEN Sleep(t)
     ELSE /\ data' = [data EXCEPT ![writep] = v]
          /\ writep' = Succ(writep)
          /\ Signal(t, Consumers)
          /\ UNCHANGED readp

(* queue_get.                                                              *)
GetNoSignal(t) ==
  /\ thread[t] # "asleep"
  /\ IF IsEmpty
     THEN Sleep(t)
     ELSE /\ readp' = Succ(readp)
          /\ thread' = [thread EXCEPT ![t] = "run"]
          /\ UNCHANGED <<data, writep>>
Get(t) ==
  /\ thread[t] # "asleep"
  /\ IF IsEmpty
     THEN Sleep(t)
     ELSE /\ readp' = Succ(readp)
          /\ Signal(t, Producers)
          /\ UNCHANGED <<data, writep>>

SpuriousWakeup(t) == /\ thread[t] = "asleep"
                     /\ thread' = [thread EXCEPT ![t] = "woken"]
                     /\ UNCHANGED <<data, readp, writep>>

Next == \/ \E t \in Producers, v \in Values : Put(t, v)
        \/ \E t \in Consumers : Get(t)
        \/ \E t \in Threads : SpuriousWakeup(t)

(* Every thread that can run eventually runs; a wakeup nobody sent is not  *)
(* promised.                                                               *)
Fairness == /\ \A t \in Producers : WF_vars(\E v \in Values : Put(t, v))
            /\ \A t \in Consumers : WF_vars(Get(t))

Spec == Init /\ [][Next]_vars
FairSpec == Spec /\ Fairness

-----------------------------------------------------------------------------
TypeOK == /\ data \in [Slots -> Values]
          /\ readp \in Slots
          /\ writep \in Slots
          /\ thread \in [Threads -> {"run", "asleep", "woken"}]

(* No wakeup of a consumer is lost: while a consumer sleeps, each item in  *)
(* the ring has a woken consumer on its way to it.  queue_put signals      *)
(* "empty" once per item, and a thief of an item leaves a woken thread     *)
(* behind, so one signal per item is enough however the threads interleave.*)
NoLostItem == Asleep(Consumers) # {} => Count <= Cardinality(Woken(Consumers))

(* The same for the producers: while one sleeps in queue_put, each free    *)
(* slot has a woken producer on its way to it.                             *)
NoLostSlot ==
  Asleep(Producers) # {} => Size - Count <= Cardinality(Woken(Producers))

(* The items in the ring, oldest first.                                    *)
Contents == [i \in 1 .. Count |-> data[(readp + i - 1) % RingSize]]
Abstract == INSTANCE Fifo WITH q <- Contents, Capacity <- Size

(* The ring, its indices and its sleeping threads implement a FIFO of      *)
(* capacity Size: no item lost, overwritten, duplicated or reordered.      *)
ImplementsFifo == Abstract!Spec

(* An item at the head is eventually taken, and a full ring eventually     *)
(* accepts an item again: no wakeup is lost at either end.                 *)
HeadTaken == \A s \in Slots : (readp = s /\ ~IsEmpty) ~> (readp # s)
PutResumes == \A s \in Slots : (writep = s /\ IsFull) ~> (writep # s)
=============================================================================
