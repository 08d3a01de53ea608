------------------------- MODULE BoundedQueueProofs -------------------------
(***************************************************************************)
(* For every set of threads and every size of the ring: type correctness,  *)
(* that no wakeup is lost at either end of the queue, and that the ring is *)
(* a first-in first-out buffer.                                            *)
(***************************************************************************)
EXTENDS BoundedQueue, FiniteSetTheorems, TLAPS

(* The invariant the proofs carry: no part of it is inductive alone, since *)
(* a full ring wakes producers and an empty one consumers.                 *)
IInv == TypeOK /\ NoLostItem /\ NoLostSlot

-----------------------------------------------------------------------------
(* The index arithmetic of the ring, without the modulus.                  *)
LEMMA SuccValue ==
  ASSUME NEW p \in Slots
  PROVE  Succ(p) = IF p = Size THEN 0 ELSE p + 1
<1>1. Size \in Nat /\ Size # 0 /\ p \in 0 .. Size
  BY SizeAssumption DEF Slots, RingSize
<1>2. CASE p = Size
  <2>1. (Size + 1) % (Size + 1) = 0
    BY <1>1
  <2>2. QED BY <1>2, <2>1 DEF Succ, RingSize
<1>3. CASE p # Size
  <2>1. p + 1 \in 0 .. Size
    BY <1>1, <1>3
  <2>2. (p + 1) % (Size + 1) = p + 1
    BY <1>1, <2>1
  <2>3. QED BY <1>3, <2>2 DEF Succ, RingSize
<1>4. QED BY <1>2, <1>3

(* What the two tests of the code say about the number of items.           *)
LEMMA CountValue ==
  ASSUME TypeOK
  PROVE  /\ Count \in 0 .. Size
         /\ IsFull <=> Count = Size
         /\ IsEmpty <=> Count = 0
<1>1. Size \in Nat /\ readp \in 0 .. Size /\ writep \in 0 .. Size
  BY SizeAssumption DEF TypeOK, Slots, RingSize
<1>2. Succ(writep) = IF writep = Size THEN 0 ELSE writep + 1
  BY SuccValue DEF TypeOK
<1>3. QED BY <1>1, <1>2, SizeAssumption DEF Count, IsFull, IsEmpty, RingSize

LEMMA CountAfterPut ==
  ASSUME TypeOK, ~IsFull, writep' = Succ(writep), readp' = readp
  PROVE  Count' = Count + 1 /\ writep' \in Slots
<1>1. Size \in Nat /\ readp \in 0 .. Size /\ writep \in 0 .. Size
  BY SizeAssumption DEF TypeOK, Slots, RingSize
<1>2. writep' = IF writep = Size THEN 0 ELSE writep + 1
  BY SuccValue DEF TypeOK
<1>3. QED BY <1>1, <1>2, SizeAssumption DEF Count, IsFull, RingSize, Slots

LEMMA CountAfterGet ==
  ASSUME TypeOK, ~IsEmpty, readp' = Succ(readp), writep' = writep
  PROVE  Count' = Count - 1 /\ readp' \in Slots
<1>1. Size \in Nat /\ readp \in 0 .. Size /\ writep \in 0 .. Size
  BY SizeAssumption DEF TypeOK, Slots, RingSize
<1>2. readp' = IF readp = Size THEN 0 ELSE readp + 1
  BY SuccValue DEF TypeOK
<1>3. QED BY <1>1, <1>2, SizeAssumption DEF Count, IsEmpty, RingSize, Slots

-----------------------------------------------------------------------------
(* The woken threads of one side are a finite set, so they can be counted. *)
LEMMA WokenFinite ==
  ASSUME NEW S, S = Producers \/ S = Consumers
  PROVE  /\ IsFiniteSet(Woken(S)) /\ Cardinality(Woken(S)) \in Nat
         /\ IsFiniteSet(Woken(S)') /\ Cardinality(Woken(S)') \in Nat
<1>1. IsFiniteSet(S) /\ Woken(S) \subseteq S /\ Woken(S)' \subseteq S
  BY ThreadsAssumption DEF Woken
<1>2. QED BY <1>1, FS_Subset, FS_CardinalityType

(* A thread that returns or goes to sleep costs its side at most one woken *)
(* thread.                                                                 *)
LEMMA OwnSide ==
  ASSUME TypeOK, NEW S, S = Producers \/ S = Consumers, NEW t \in S,
         \A u \in S \ {t} : thread'[u] = thread[u], thread'[t] # "woken"
  PROVE  Cardinality(Woken(S)') >= Cardinality(Woken(S)) - 1
<1>1. Woken(S)' = Woken(S) \ {t}
  BY DEF Woken
<1>2. QED BY <1>1, WokenFinite, FS_RemoveElement

(* A signal to a side that has a sleeper wakes exactly one of its threads. *)
LEMMA OtherSide ==
  ASSUME TypeOK, NEW S, S = Producers \/ S = Consumers,
         NEW t \in Threads \ S, Signal(t, S)
  PROVE  /\ thread' \in [Threads -> {"run", "asleep", "woken"}]
         /\ thread'[t] = "run"
         /\ \A u \in Threads \ (S \cup {t}) : thread'[u] = thread[u]
         /\ Asleep(S)' # {} =>
              Cardinality(Woken(S)') = Cardinality(Woken(S)) + 1
<1>1. S \subseteq Threads
  BY DEF Threads
<1>2. CASE Asleep(S) = {}
  BY <1>1, <1>2 DEF Signal, Asleep, TypeOK
<1>3. CASE Asleep(S) # {}
  <2>1. PICK w \in Asleep(S) :
              thread' = [thread EXCEPT ![t] = "run", ![w] = "woken"]
    BY <1>3 DEF Signal
  <2>2. w \in S /\ thread[w] = "asleep" /\ w # t
    BY <2>1 DEF Asleep
  <2>3. Woken(S)' = Woken(S) \cup {w} /\ w \notin Woken(S)
    BY <1>1, <2>1, <2>2 DEF Woken, TypeOK
  <2>4. Cardinality(Woken(S)') = Cardinality(Woken(S)) + 1
    BY <2>3, WokenFinite, FS_AddElement
  <2>5. QED BY <1>1, <2>1, <2>2, <2>4 DEF TypeOK
<1>4. QED BY <1>2, <1>3

-----------------------------------------------------------------------------
LEMMA InitInv == Init => IInv
<1> SUFFICES ASSUME Init PROVE IInv
  OBVIOUS
<1>1. 0 \in Slots
  BY SizeAssumption DEF Slots, RingSize
<1>2. Asleep(Producers) = {} /\ Asleep(Consumers) = {}
  BY DEF Init, Asleep, Threads
<1>3. QED BY <1>1, <1>2 DEF Init, IInv, TypeOK, NoLostItem, NoLostSlot

LEMMA PutInv ==
  ASSUME IInv, NEW t \in Producers, NEW v \in Values, Put(t, v)
  PROVE  IInv'
<1> USE DEF IInv
<1>1. t \in Threads \ Consumers /\ thread[t] # "asleep" /\ Size \in Nat
  BY ThreadsAssumption, SizeAssumption DEF Threads, Put
<1>2. Count \in 0 .. Size /\ (IsFull <=> Count = Size)
  BY CountValue
<1>3. CASE IsFull
  <2>1. Sleep(t)
    BY <1>3 DEF Put
  <2>2. Count' = Count /\ TypeOK'
    BY <1>1, <2>1 DEF Sleep, TypeOK, Count
  <2>3. Asleep(Consumers)' = Asleep(Consumers) /\ Woken(Consumers)' = Woken(Consumers)
    BY <1>1, <2>1 DEF Sleep, Asleep, Woken, TypeOK, Threads
  <2>4. NoLostItem'
    BY <2>2, <2>3 DEF NoLostItem
  <2>5. NoLostSlot'
    BY <1>1, <1>2, <1>3, <2>2, WokenFinite DEF NoLostSlot
  <2>6. QED BY <2>2, <2>4, <2>5
<1>4. CASE ~IsFull
  <2>1. /\ data' = [data EXCEPT ![writep] = v]
        /\ writep' = Succ(writep) /\ readp' = readp
        /\ Signal(t, Consumers)
    BY <1>4 DEF Put
  <2>2. Count' = Count + 1 /\ writep' \in Slots
    BY <1>4, <2>1, CountAfterPut
  <2>3. /\ thread' \in [Threads -> {"run", "asleep", "woken"}]
        /\ thread'[t] = "run"
        /\ \A u \in Threads \ (Consumers \cup {t}) : thread'[u] = thread[u]
        /\ Asleep(Consumers)' # {} =>
             Cardinality(Woken(Consumers)') = Cardinality(Woken(Consumers)) + 1
    BY <1>1, <2>1, OtherSide
  <2>4. TypeOK'
    BY <2>1, <2>2, <2>3 DEF TypeOK
  <2>5. NoLostItem'
    <3>1. Asleep(Consumers)' # {} => Asleep(Consumers) # {}
      BY <1>1, <2>1 DEF Signal, Asleep, TypeOK, Threads
    <3>2. QED BY <1>2, <2>2, <2>3, <3>1, WokenFinite DEF NoLostItem
  <2>6. NoLostSlot'
    <3>1. \A u \in Producers \ {t} : thread'[u] = thread[u]
      BY <2>3, ThreadsAssumption DEF Threads
    <3>2. Cardinality(Woken(Producers)') >= Cardinality(Woken(Producers)) - 1
      BY <2>3, <3>1, OwnSide
    <3>3. Asleep(Producers)' # {} => Asleep(Producers) # {}
      BY <2>3, <3>1 DEF Asleep
    <3>4. QED BY <1>1, <1>2, <2>2, <3>2, <3>3, WokenFinite DEF NoLostSlot
  <2>7. QED BY <2>4, <2>5, <2>6
<1>5. QED BY <1>3, <1>4

LEMMA GetInv ==
  ASSUME IInv, NEW t \in Consumers, Get(t)
  PROVE  IInv'
<1> USE DEF IInv
<1>1. t \in Threads \ Producers /\ thread[t] # "asleep" /\ Size \in Nat
  BY ThreadsAssumption, SizeAssumption DEF Threads, Get
<1>2. Count \in 0 .. Size /\ (IsEmpty <=> Count = 0)
  BY CountValue
<1>3. CASE IsEmpty
  <2>1. Sleep(t)
    BY <1>3 DEF Get
  <2>2. Count' = Count /\ TypeOK'
    BY <1>1, <2>1 DEF Sleep, TypeOK, Count
  <2>3. Asleep(Producers)' = Asleep(Producers) /\ Woken(Producers)' = Woken(Producers)
    BY <1>1, <2>1 DEF Sleep, Asleep, Woken, TypeOK, Threads
  <2>4. NoLostSlot'
    BY <2>2, <2>3 DEF NoLostSlot
  <2>5. NoLostItem'
    BY <1>1, <1>2, <1>3, <2>2, WokenFinite DEF NoLostItem
  <2>6. QED BY <2>2, <2>4, <2>5
<1>4. CASE ~IsEmpty
  <2>1. /\ readp' = Succ(readp) /\ data' = data /\ writep' = writep
        /\ Signal(t, Producers)
    BY <1>4 DEF Get
  <2>2. Count' = Count - 1 /\ readp' \in Slots
    BY <1>4, <2>1, CountAfterGet
  <2>3. /\ thread' \in [Threads -> {"run", "asleep", "woken"}]
        /\ thread'[t] = "run"
        /\ \A u \in Threads \ (Producers \cup {t}) : thread'[u] = thread[u]
        /\ Asleep(Producers)' # {} =>
             Cardinality(Woken(Producers)') = Cardinality(Woken(Producers)) + 1
    BY <1>1, <2>1, OtherSide
  <2>4. TypeOK'
    BY <2>1, <2>2, <2>3 DEF TypeOK
  <2>5. NoLostSlot'
    <3>1. Asleep(Producers)' # {} => Asleep(Producers) # {}
      BY <1>1, <2>1 DEF Signal, Asleep, TypeOK, Threads
    <3>2. QED BY <1>1, <1>2, <2>2, <2>3, <3>1, WokenFinite DEF NoLostSlot
  <2>6. NoLostItem'
    <3>1. \A u \in Consumers \ {t} : thread'[u] = thread[u]
      BY <2>3, ThreadsAssumption DEF Threads
    <3>2. Cardinality(Woken(Consumers)') >= Cardinality(Woken(Consumers)) - 1
      BY <2>3, <3>1, OwnSide
    <3>3. Asleep(Consumers)' # {} => Asleep(Consumers) # {}
      BY <2>3, <3>1 DEF Asleep
    <3>4. QED BY <1>1, <1>2, <2>2, <3>2, <3>3, WokenFinite DEF NoLostItem
  <2>7. QED BY <2>4, <2>5, <2>6
<1>5. QED BY <1>3, <1>4

(* A wakeup nobody sent: fewer sleepers, and more woken threads.           *)
LEMMA SpuriousInv ==
  ASSUME IInv, NEW t \in Threads, SpuriousWakeup(t)
  PROVE  IInv'
<1> USE DEF IInv
<1>1. TypeOK' /\ Count' = Count /\ Count \in 0 .. Size /\ Size \in Nat
  BY CountValue, SizeAssumption DEF SpuriousWakeup, TypeOK, Count
<1>2. ASSUME NEW S, S = Producers \/ S = Consumers
      PROVE  /\ Asleep(S)' # {} => Asleep(S) # {}
             /\ Cardinality(Woken(S)) <= Cardinality(Woken(S)')
  <2>1. Asleep(S)' \subseteq Asleep(S) /\ Woken(S) \subseteq Woken(S)'
    BY <1>2 DEF SpuriousWakeup, Asleep, Woken, TypeOK, Threads
  <2>2. QED BY <1>2, <2>1, WokenFinite, FS_Subset
<1>3. NoLostItem'
  BY <1>1, <1>2, WokenFinite DEF NoLostItem
<1>4. NoLostSlot'
  BY <1>1, <1>2, WokenFinite DEF NoLostSlot
<1>5. QED BY <1>1, <1>3, <1>4

LEMMA StepInv == IInv /\ [Next]_vars => IInv'
<1> SUFFICES ASSUME IInv, [Next]_vars PROVE IInv'
  OBVIOUS
<1>1. ASSUME NEW t \in Producers, NEW v \in Values, Put(t, v) PROVE IInv'
  BY <1>1, PutInv
<1>2. ASSUME NEW t \in Consumers, Get(t) PROVE IInv'
  BY <1>2, GetInv
<1>3. ASSUME NEW t \in Threads, SpuriousWakeup(t) PROVE IInv'
  BY <1>3, SpuriousInv
<1>4. CASE UNCHANGED vars
  BY <1>4 DEF vars, IInv, TypeOK, NoLostItem, NoLostSlot, Asleep, Woken, Count
<1>5. QED BY <1>1, <1>2, <1>3, <1>4 DEF Next

(* The ring's indices stay in range and every slot holds a value.          *)
THEOREM TypeCorrect == Spec => []TypeOK
<1>1. IInv => TypeOK
  BY DEF IInv
<1>2. QED BY InitInv, StepInv, <1>1, PTL DEF Spec

(* queue_put's signal on "empty" and queue_get's on "full" are enough: an  *)
(* item never waits in the ring with every consumer asleep, and a free     *)
(* slot never waits with every producer asleep, whatever the numbers of    *)
(* threads, the size and the interleaving, spurious wakeups included.      *)
THEOREM NoWakeupLost == Spec => [](NoLostItem /\ NoLostSlot)
<1>1. IInv => NoLostItem /\ NoLostSlot
  BY DEF IInv
<1>2. QED BY InitInv, StepInv, <1>1, PTL DEF Spec

-----------------------------------------------------------------------------
(* The refinement.  Where an index beyond the end of the ring really is.   *)
LEMMA Wrapped ==
  ASSUME NEW x \in 0 .. 2 * RingSize - 1
  PROVE  x % RingSize = IF x < RingSize THEN x ELSE x - RingSize
<1>1. RingSize \in Nat /\ RingSize > 0
  BY SizeAssumption DEF RingSize
<1>2. CASE x < RingSize
  BY <1>1, <1>2
<1>3. CASE x >= RingSize
  <2>1. x - RingSize \in 0 .. RingSize - 1 /\ x = RingSize * 1 + (x - RingSize)
    BY <1>1, <1>3
  <2>2. x % RingSize = x - RingSize
    BY <1>1, <2>1
  <2>3. QED BY <1>1, <1>3, <2>2
<1>4. QED BY <1>1, <1>2, <1>3

(* The slot of the item that is i-th from the oldest.                      *)
Slot(i) == (readp + i - 1) % RingSize

SlotsWrap ==
  \A i \in 1 .. RingSize :
    /\ Slot(i) \in Slots
    /\ Slot(i) = IF readp + i - 1 <= Size THEN readp + i - 1
                                          ELSE readp + i - 1 - RingSize

LEMMA SlotValue == TypeOK => SlotsWrap
<1> SUFFICES ASSUME TypeOK, NEW i \in 1 .. RingSize
             PROVE  /\ Slot(i) \in Slots
                    /\ Slot(i) = IF readp + i - 1 <= Size THEN readp + i - 1
                                                          ELSE readp + i - 1 - RingSize
  BY DEF SlotsWrap
<1>1. Size \in Nat /\ readp \in 0 .. Size /\ i \in 1 .. Size + 1 /\ RingSize = Size + 1
  BY SizeAssumption DEF TypeOK, Slots, RingSize
<1>2. readp + i - 1 \in 0 .. 2 * RingSize - 1
  BY <1>1
<1>3. QED BY <1>1, <1>2, Wrapped DEF Slot, Slots

ContentsListed ==
  /\ Contents \in Seq(Values) /\ Len(Contents) = Count
  /\ \A i \in 1 .. Count : Contents[i] = data[Slot(i)]

LEMMA ContentsTyped == TypeOK => ContentsListed
<1> SUFFICES ASSUME TypeOK PROVE ContentsListed
  OBVIOUS
<1>1. Count \in 0 .. Size /\ Size \in Nat /\ RingSize = Size + 1
  BY CountValue, SizeAssumption DEF RingSize
<1>2. \A i \in 1 .. Count : data[Slot(i)] \in Values
  BY <1>1, SlotValue DEF TypeOK, SlotsWrap
<1>3. Contents = [i \in 1 .. Count |-> data[Slot(i)]]
  BY DEF Contents, Slot
<1>4. QED BY <1>1, <1>2, <1>3 DEF ContentsListed

(* queue_put writes the slot behind the newest item, and no other.         *)
LEMMA PutAppends ==
  ASSUME TypeOK, TypeOK', ~IsFull, NEW v \in Values,
         data' = [data EXCEPT ![writep] = v],
         writep' = Succ(writep), readp' = readp
  PROVE  Contents' = Append(Contents, v)
<1>1. /\ Size \in Nat /\ Count \in 0 .. Size - 1 /\ RingSize = Size + 1
      /\ readp \in 0 .. Size /\ writep \in 0 .. Size
  BY CountValue, SizeAssumption DEF RingSize, TypeOK, Slots
<1>2. Count' = Count + 1
  BY CountAfterPut
<1>3. Contents' \in Seq(Values) /\ Len(Contents') = Count + 1
      /\ \A i \in 1 .. Count + 1 : Contents'[i] = data'[Slot(i)]
  <2>1. ContentsListed'
    BY ContentsTyped, PTL
  <2>2. \A i : Slot(i)' = Slot(i)
    BY DEF Slot
  <2>3. QED BY <1>2, <2>1, <2>2 DEF ContentsListed
<1>4. \A i \in 1 .. Count : Slot(i) # writep /\ Slot(i) \in Slots
  BY <1>1, SlotValue DEF Count, SlotsWrap
<1>5. Slot(Count + 1) = writep
  BY <1>1, SlotValue DEF Count, SlotsWrap
<1>6. \A i \in 1 .. Count : Contents'[i] = Contents[i]
  BY <1>1, <1>3, <1>4, ContentsTyped DEF TypeOK, ContentsListed
<1>7. Contents'[Count + 1] = v
  BY <1>1, <1>3, <1>5 DEF TypeOK
<1>8. QED BY <1>1, <1>3, <1>6, <1>7, ContentsTyped DEF ContentsListed

(* queue_get takes the oldest item, and leaves the others where they are.  *)
LEMMA GetTakesHead ==
  ASSUME TypeOK, TypeOK', ~IsEmpty,
         readp' = Succ(readp), writep' = writep, data' = data
  PROVE  Contents # <<>> /\ Contents' = Tail(Contents)
<1>1. /\ Size \in Nat /\ Count \in 1 .. Size /\ RingSize = Size + 1
      /\ readp \in 0 .. Size
  BY CountValue, SizeAssumption DEF RingSize, TypeOK, Slots
<1>2. Count' = Count - 1 /\ readp' = IF readp = Size THEN 0 ELSE readp + 1
  BY CountAfterGet, SuccValue DEF TypeOK
<1>3. \A i \in 1 .. Count - 1 : Slot(i)' = Slot(i + 1)
  <2>1. ASSUME NEW i \in 1 .. Count - 1 PROVE Slot(i)' = Slot(i + 1)
    <3>1. i \in 1 .. RingSize /\ i + 1 \in 1 .. RingSize
      BY <1>1
    <3>2. SlotsWrap /\ SlotsWrap'
      BY SlotValue, PTL
    <3>3. Slot(i + 1) = IF readp + i <= Size THEN readp + i ELSE readp + i - RingSize
      BY <1>1, <3>1, <3>2 DEF SlotsWrap
    <3>4. Slot(i)' = IF readp' + i - 1 <= Size THEN readp' + i - 1
                                               ELSE readp' + i - 1 - RingSize
      BY <3>1, <3>2 DEF SlotsWrap, RingSize
    <3>5. QED BY <1>1, <1>2, <3>3, <3>4
  <2>2. QED BY <2>1
<1>4. /\ Contents' \in Seq(Values) /\ Len(Contents') = Count - 1
      /\ \A i \in 1 .. Count - 1 : Contents'[i] = data[Slot(i + 1)]
  <2>1. ContentsListed'
    BY ContentsTyped, PTL
  <2>2. QED BY <1>2, <1>3, <2>1 DEF ContentsListed
<1>5. /\ Contents \in Seq(Values) /\ Len(Contents) = Count
      /\ \A i \in 1 .. Count - 1 : Contents[i + 1] = data[Slot(i + 1)]
  BY <1>1, ContentsTyped DEF ContentsListed
<1>6. QED BY <1>1, <1>4, <1>5

LEMMA FifoStep ==
  ASSUME TypeOK, TypeOK', [Next]_vars
  PROVE  [Abstract!Next]_Contents
<1>1. ASSUME NEW t \in Producers, NEW v \in Values, Put(t, v)
      PROVE  [Abstract!Next]_Contents
  <2>1. CASE IsFull
    BY <1>1, <2>1 DEF Put, Sleep, Contents, Count
  <2>2. CASE ~IsFull
    <3>1. Contents' = Append(Contents, v)
      BY <1>1, <2>2, PutAppends DEF Put
    <3>2. Contents \in Seq(Values) /\ Len(Contents) < Size
      BY <2>2, ContentsTyped, CountValue, SizeAssumption DEF ContentsListed
    <3>3. v \in {w \in Abstract!Range(Contents') : w \in Values}
      BY <3>1, <3>2 DEF Abstract!Range
    <3>4. Abstract!Put(v)
      BY <3>1, <3>2 DEF Abstract!Put
    <3>5. QED BY <3>3, <3>4 DEF Abstract!Next
  <2>3. QED BY <2>1, <2>2
<1>2. ASSUME NEW t \in Consumers, Get(t)
      PROVE  [Abstract!Next]_Contents
  <2>1. CASE IsEmpty
    BY <1>2, <2>1 DEF Get, Sleep, Contents, Count
  <2>2. CASE ~IsEmpty
    BY <1>2, <2>2, GetTakesHead DEF Get, Abstract!Get, Abstract!Next
  <2>3. QED BY <2>1, <2>2
<1>3. ASSUME NEW t \in Threads, SpuriousWakeup(t)
      PROVE  [Abstract!Next]_Contents
  BY <1>3 DEF SpuriousWakeup, Contents, Count
<1>4. CASE UNCHANGED vars
  BY <1>4 DEF vars, Contents, Count
<1>5. QED BY <1>1, <1>2, <1>3, <1>4 DEF Next

(* The ring, its indices and its sleeping threads implement a FIFO of      *)
(* capacity Size, for every size and every set of threads: queue_put never *)
(* overwrites an item and queue_get takes the oldest, each exactly once.   *)
THEOREM QueueIsFifo == Spec => ImplementsFifo
<1>1. Init => Abstract!Init
  BY DEF Init, Abstract!Init, Contents, Count
<1>2. TypeOK /\ TypeOK' /\ [Next]_vars => [Abstract!Next]_Contents
  BY FifoStep
<1>3. QED BY <1>1, <1>2, TypeCorrect, PTL DEF Spec, ImplementsFifo, Abstract!Spec
=============================================================================
