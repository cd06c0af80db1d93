--------------------------- MODULE LogQueueProofs ---------------------------
(* Proofs about the log, for every size of its buffer and any number of    *)
(* messages: the ring holds what it should, and the log implements         *)
(* LogStream.                                                              *)
EXTENDS LogQueue, TLAPS

(* The number of messages that the worker has in its hands.                *)
InHand == IF worker = "printing" THEN 1 ELSE 0

(* While the log is on: the messages that are not printed are in the       *)
(* worker's hands or in the ring, the oldest first.                        *)
RingHolds ==
  state = "on" =>
    /\ worker # "ended"
    /\ Len(printed) + InHand + Pending = accepted
    /\ \A i \in 0 .. Pending - 1 : entries[Slot(i)] = accepted - Pending + 1 + i

(* While it is being paused the ring ends with the entry that ends the     *)
(* worker.  Nothing is known of a ring that looks empty because that entry *)
(* has filled it up, and nothing is taken from it either.                  *)
RingEnds ==
  state = "joining" /\ worker # "ended" /\ head # tail =>
    /\ Len(printed) + InHand + Pending - 1 = accepted
    /\ entries[Slot(Pending - 1)] = End
    /\ \A i \in 0 .. Pending - 2 : entries[Slot(i)] = accepted - Pending + 2 + i

(* When the worker has ended nothing is left.                              *)
AllPrinted ==
  /\ state = "paused" => worker = "ended"
  /\ worker = "ended" => head = tail /\ Len(printed) = accepted

(* What the worker has in its hands is the next message to print.          *)
HandIsNext == worker = "printing" => cur = Len(printed) + 1 /\ Len(printed) < accepted

LogInv ==
  /\ TypeOK /\ RingHolds /\ RingEnds /\ AllPrinted /\ HandIsNext
  /\ running = (state = "on")

LEMMA InitHolds == Init => LogInv
BY LogAssumption DEF Init, LogInv, TypeOK, RingHolds, RingEnds, AllPrinted, HandIsNext, InHand, Pending, Entry, Unused

(* The size of what is pending, and the places of its entries.             *)
LEMMA PendingFacts ==
  ASSUME TypeOK
  PROVE  /\ Pending \in 0 .. size - 1
         /\ Pending = 0 <=> head = tail
         /\ Succ(tail) = head <=> Pending = size - 1
         /\ Slot(Pending) = tail
         /\ \A i \in 0 .. size - 1 : Slot(i) \in 0 .. size - 1
         /\ \A i, j \in 0 .. size - 1 : Slot(i) = Slot(j) => i = j
         /\ Slot(0) = head
BY DEF TypeOK, Pending, Succ, Slot

(* Taking an entry moves the others one place to the front.                *)
LEMMA TakeFacts ==
  ASSUME TypeOK, head # tail, head' = Succ(head), UNCHANGED <<entries, size, tail>>
  PROVE  /\ Pending' = Pending - 1 /\ head' \in 0 .. size - 1
         /\ \A i \in 0 .. Pending - 2 : Slot(i)' = Slot(i + 1)
         /\ Pending # 1 => Slot(Pending - 1)' = Slot(Pending - 1)
<1>1. /\ Pending' = Pending - 1 /\ head' \in 0 .. size - 1
      /\ \A i \in 0 .. Pending - 2 : Slot(i)' = Slot(i + 1)
  BY DEF TypeOK, Pending, Succ, Slot
<1>2. Pending # 1 => Slot(Pending - 1)' = Slot(Pending - 1)
  BY DEF TypeOK, Pending, Succ, Slot
<1> QED  BY <1>1, <1>2

(* A message that is written at the tail of a ring with room.              *)
LEMMA AppendFacts ==
  ASSUME TypeOK, NEW e \in Entry, Succ(tail) # head,
         entries' = [entries EXCEPT ![tail] = e], tail' = Succ(tail), UNCHANGED <<size, head>>
  PROVE  /\ Pending' = Pending + 1 /\ tail' \in 0 .. size - 1
         /\ entries' \in [0 .. size - 1 -> Entry]
         /\ \A i \in 0 .. Pending :
              entries'[Slot(i)'] = IF i = Pending THEN e ELSE entries[Slot(i)]
<1>1. Pending' = Pending + 1 /\ tail' \in 0 .. size - 1
  BY DEF TypeOK, Pending, Succ
<1>2. entries' \in [0 .. size - 1 -> Entry] /\ entries'[tail] = e
      /\ \A j \in 0 .. size - 1 : j # tail => entries'[j] = entries[j]
  BY DEF TypeOK
<1>3. \A i \in 0 .. size - 1 : Slot(i)' = Slot(i)
  BY DEF Slot
<1>4. Pending \in 0 .. size - 1 /\ Slot(Pending) = tail /\ size \in Nat
  BY PendingFacts DEF TypeOK
<1>5. ASSUME NEW i \in 0 .. Pending
      PROVE  entries'[Slot(i)'] = IF i = Pending THEN e ELSE entries[Slot(i)]
  <2>1. i \in 0 .. size - 1 /\ Slot(i)' = Slot(i)
    BY <1>3, <1>4
  <2>2. CASE i = Pending
    BY <1>2, <1>4, <2>1, <2>2
  <2>3. CASE i # Pending
    <3>1. Slot(i) \in 0 .. size - 1 /\ Slot(i) # tail
      BY <1>4, <2>1, <2>3, PendingFacts
    <3> QED  BY <1>2, <2>1, <2>3, <3>1
  <2> QED  BY <2>2, <2>3
<1> QED  BY <1>1, <1>2, <1>5

(* A message that is written at the tail of a full ring, which grows.      *)
LEMMA GrowFacts ==
  ASSUME TypeOK, NEW e \in Entry, Succ(tail) = head,
         size' = 2 * size, head' = 0, tail' = size,
         entries' = [i \in 0 .. 2 * size - 1 |->
                      IF i < size THEN [entries EXCEPT ![tail] = e][Slot(i)] ELSE Unused]
  PROVE  /\ Pending = size - 1 /\ Pending' = size
         /\ size' \in Nat \ {0} /\ head' \in 0 .. size' - 1 /\ tail' \in 0 .. size' - 1
         /\ entries' \in [0 .. size' - 1 -> Entry]
         /\ \A i \in 0 .. Pending :
              entries'[Slot(i)'] = IF i = Pending THEN e ELSE entries[Slot(i)]
<1> DEFINE written == [entries EXCEPT ![tail] = e]
<1>1. size \in Nat \ {0} /\ 2 * size \in Nat /\ 2 * size - 1 >= size /\ Unused \in Entry
  BY DEF TypeOK, Entry
<1>2. Pending = size - 1 /\ Pending' = size
  BY <1>1, PendingFacts DEF Pending
<1>3. written \in [0 .. size - 1 -> Entry] /\ written[tail] = e
      /\ \A j \in 0 .. size - 1 : j # tail => written[j] = entries[j]
  BY DEF TypeOK
<1>4. \A i \in 0 .. size - 1 : Slot(i) \in 0 .. size - 1 /\ Slot(i)' = i
  <2>1. ASSUME NEW i \in 0 .. size - 1  PROVE Slot(i)' = i
    BY <1>1, <2>1 DEF Slot
  <2> QED  BY <2>1, PendingFacts
<1> HIDE DEF written
<1>5. entries' = [i \in 0 .. 2 * size - 1 |-> IF i < size THEN written[Slot(i)] ELSE Unused]
  BY DEF written
<1>6. entries' \in [0 .. size' - 1 -> Entry]
  <2>1. ASSUME NEW i \in 0 .. 2 * size - 1
        PROVE  (IF i < size THEN written[Slot(i)] ELSE Unused) \in Entry
    <3>1. CASE i < size
      BY <1>1, <1>3, <1>4, <3>1
    <3>2. CASE ~(i < size)
      BY <1>1, <3>2
    <3> QED  BY <3>1, <3>2
  <2> QED  BY <1>5, <2>1
<1>7. \A i \in 0 .. size - 1 : entries'[Slot(i)'] = written[Slot(i)]
  BY <1>1, <1>4, <1>5
<1>8. ASSUME NEW i \in 0 .. Pending
      PROVE  entries'[Slot(i)'] = IF i = Pending THEN e ELSE entries[Slot(i)]
  <2>1. i \in 0 .. size - 1 /\ Pending \in 0 .. size - 1 /\ Slot(Pending) = tail
    BY <1>1, <1>2, PendingFacts
  <2>2. CASE i = Pending
    BY <1>3, <1>7, <2>1, <2>2
  <2>3. CASE i # Pending
    <3>1. Slot(i) \in 0 .. size - 1 /\ Slot(i) # tail
      BY <2>1, <2>3, PendingFacts
    <3> QED  BY <1>3, <1>7, <2>1, <2>3, <3>1
  <2> QED  BY <2>2, <2>3
<1>9. size' \in Nat \ {0} /\ head' \in 0 .. size' - 1 /\ tail' \in 0 .. size' - 1
  BY <1>1
<1> QED  BY <1>2, <1>6, <1>8, <1>9

LEMMA AddHolds ==
  ASSUME LogInv, Add  PROVE LogInv'
<1> DEFINE e == accepted + 1
<1>1. TypeOK /\ state = "on" /\ RingHolds /\ HandIsNext /\ AllPrinted /\ running
  BY DEF LogInv, Add
<1>2. /\ e \in Entry /\ accepted' = e /\ accepted \in Nat
      /\ UNCHANGED <<running, worker, cur, state, printed>>
  BY <1>1 DEF Add, TypeOK, Entry
<1>3. /\ Pending' = Pending + 1 /\ Pending \in Nat
      /\ size' \in Nat \ {0} /\ head' \in 0 .. size' - 1 /\ tail' \in 0 .. size' - 1
      /\ entries' \in [0 .. size' - 1 -> Entry]
      /\ \A i \in 0 .. Pending : entries'[Slot(i)'] = IF i = Pending THEN e ELSE entries[Slot(i)]
  <2>0. Pending \in Nat
    BY <1>1, PendingFacts DEF TypeOK
  <2>1. CASE Succ(tail) = head
    <3>1. /\ size' = 2 * size /\ head' = 0 /\ tail' = size
          /\ entries' = [i \in 0 .. 2 * size - 1 |->
                          IF i < size THEN [entries EXCEPT ![tail] = e][Slot(i)] ELSE Unused]
      BY <2>1 DEF Add
    <3>2. Pending' = Pending + 1
      BY <1>1, <1>2, <2>1, <3>1, GrowFacts DEF TypeOK
    <3> QED  BY <1>1, <1>2, <2>0, <2>1, <3>1, <3>2, GrowFacts
  <2>2. CASE Succ(tail) # head
    <3>1. /\ entries' = [entries EXCEPT ![tail] = e] /\ tail' = Succ(tail)
          /\ UNCHANGED <<size, head>>
      BY <2>2 DEF Add
    <3> QED  BY <1>1, <1>2, <2>0, <2>2, <3>1, AppendFacts DEF TypeOK
  <2> QED  BY <2>1, <2>2
<1> HIDE DEF e
<1>4. TypeOK'
  <2>1. /\ running' \in BOOLEAN /\ worker' \in {"waiting", "printing", "ended"} /\ cur' \in Entry
        /\ state' \in {"on", "joining", "paused"} /\ printed' \in Seq(Nat)
    BY <1>1, <1>2 DEF TypeOK
  <2>2. accepted' \in Nat
    BY <1>2 DEF e
  <2> QED  BY <1>3, <2>1, <2>2 DEF TypeOK
<1>5. RingHolds'
  <2>1. worker # "ended" /\ Len(printed) + InHand + Pending = accepted
        /\ \A i \in 0 .. Pending - 1 : entries[Slot(i)] = accepted - Pending + 1 + i
    BY <1>1 DEF RingHolds
  <2>2. InHand' = InHand /\ InHand \in Nat /\ Len(printed) \in Nat /\ Len(printed') = Len(printed)
    BY <1>1, <1>2 DEF InHand, TypeOK
  <2>3. ASSUME NEW i \in 0 .. Pending' - 1
        PROVE  entries'[Slot(i)'] = accepted' - Pending' + 1 + i
    <3>1. CASE i = Pending
      BY <1>2, <1>3, <3>1 DEF e
    <3>2. CASE i # Pending
      BY <1>2, <1>3, <2>1, <3>2 DEF e
    <3> QED  BY <3>1, <3>2
  <2> QED  BY <1>2, <1>3, <2>1, <2>2, <2>3 DEF RingHolds, e
<1>6. RingEnds' /\ AllPrinted' /\ HandIsNext'
  <2>1. worker # "ended" /\ Len(printed) \in Nat
    BY <1>1 DEF RingHolds, TypeOK
  <2> QED  BY <1>1, <1>2, <2>1 DEF RingEnds, AllPrinted, HandIsNext, e
<1>7. running' = (state' = "on")
  BY <1>1, <1>2 DEF LogInv
<1> QED  BY <1>4, <1>5, <1>6, <1>7 DEF LogInv

LEMMA TakeHolds ==
  ASSUME LogInv, Take  PROVE LogInv'
<1>1. /\ TypeOK /\ worker = "waiting" /\ head # tail /\ cur' = entries[head] /\ head' = Succ(head)
      /\ worker' = IF entries[head] = End THEN "ended" ELSE "printing"
      /\ UNCHANGED <<entries, size, tail, running, state, accepted, printed>>
  BY DEF LogInv, Take
<1>2. /\ Pending' = Pending - 1 /\ Pending \in 1 .. size - 1 /\ head' \in 0 .. size - 1
      /\ Slot(0) = head /\ size \in Nat
      /\ \A i \in 0 .. Pending - 2 : Slot(i)' = Slot(i + 1)
      /\ Pending # 1 => Slot(Pending - 1)' = Slot(Pending - 1)
  <2>1. Pending \in 0 .. size - 1 /\ Pending # 0 /\ Slot(0) = head /\ size \in Nat
    BY <1>1, PendingFacts DEF TypeOK
  <2> QED  BY <1>1, <2>1, TakeFacts
<1>3. TypeOK'
  BY <1>1, <1>2 DEF TypeOK
<1>4. accepted \in Nat /\ Len(printed) \in Nat /\ InHand = 0
  BY <1>1 DEF TypeOK, InHand
<1>5. state # "paused" /\ running' = (state' = "on")
  <2>1. running = (state = "on") /\ AllPrinted
    BY DEF LogInv
  <2>2. state # "paused"
    BY <1>1, <2>1 DEF AllPrinted
  <2> QED  BY <1>1, <2>1, <2>2
<1>6. CASE state = "on"
  <2>1. /\ Len(printed) + Pending = accepted
        /\ \A i \in 0 .. Pending - 1 : entries[Slot(i)] = accepted - Pending + 1 + i
    BY <1>4, <1>6, <1>2 DEF LogInv, RingHolds
  <2>2. entries[head] = Len(printed) + 1 /\ entries[head] # End
    <3>1. Pending \in Nat /\ 0 \in 0 .. Pending - 1
      BY <1>2
    <3>2. entries[Slot(0)] = accepted - Pending + 1 + 0
      BY <2>1, <3>1
    <3>3. entries[head] = accepted - Pending + 1
      BY <1>2, <1>4, <3>1, <3>2
    <3>4. accepted - Pending + 1 = Len(printed) + 1
      BY <1>4, <2>1, <3>1
    <3> QED  BY <1>4, <3>3, <3>4 DEF End
  <2>3. worker' = "printing" /\ InHand' = 1
    BY <1>1, <2>2 DEF InHand
  <2>4. ASSUME NEW i \in 0 .. Pending' - 1
        PROVE  entries'[Slot(i)'] = accepted' - Pending' + 1 + i
    BY <1>1, <1>2, <1>4, <2>1
  <2>5. RingHolds'
    <3>1. Len(printed') + InHand' + Pending' = accepted'
      <4>1. Pending \in Int /\ Pending' = Pending - 1
        BY <1>2
      <4>2. Len(printed') = Len(printed) /\ accepted' = accepted
        BY <1>1
      <4> QED  BY <1>4, <2>1, <2>3, <4>1, <4>2
    <3> QED  BY <2>3, <2>4, <3>1 DEF RingHolds
  <2>6. HandIsNext' /\ AllPrinted' /\ RingEnds'
    BY <1>1, <1>2, <1>4, <1>6, <2>1, <2>2, <2>3 DEF HandIsNext, AllPrinted, RingEnds
  <2> QED  BY <1>3, <1>5, <2>5, <2>6 DEF LogInv
<1>7. CASE state = "joining"
  <2>1. /\ Len(printed) + Pending - 1 = accepted /\ entries[Slot(Pending - 1)] = End
        /\ \A i \in 0 .. Pending - 2 : entries[Slot(i)] = accepted - Pending + 2 + i
    BY <1>1, <1>4, <1>7, <1>2 DEF LogInv, RingEnds
  <2>2. CASE Pending = 1
    <3>1. worker' = "ended" /\ head' = tail'
      <4>1. entries[head] = End
        BY <1>2, <2>1, <2>2
      <4>2. Pending' = 0
        BY <1>2, <2>2
      <4> QED  BY <1>1, <1>3, <4>1, <4>2 DEF TypeOK, Pending
    <3> QED  BY <1>1, <1>3, <1>4, <1>5, <1>7, <2>1, <2>2, <3>1
             DEF LogInv, RingHolds, RingEnds, AllPrinted, HandIsNext
  <2>3. CASE Pending # 1
    <3>1. entries[head] = Len(printed) + 1 /\ entries[head] # End
      <4>1. Pending \in Nat /\ 0 \in 0 .. Pending - 2
        BY <1>2, <2>3
      <4>2. entries[Slot(0)] = accepted - Pending + 2 + 0
        BY <2>1, <4>1
      <4>3. entries[head] = accepted - Pending + 2
        BY <1>2, <1>4, <4>1, <4>2
      <4>4. accepted - Pending + 2 = Len(printed) + 1
        BY <1>4, <2>1, <4>1
      <4> QED  BY <1>4, <4>3, <4>4 DEF End
    <3>2. worker' = "printing" /\ InHand' = 1
      BY <1>1, <3>1 DEF InHand
    <3>4. \A i \in 0 .. Pending' - 2 : entries'[Slot(i)'] = accepted' - Pending' + 2 + i
      BY <1>1, <1>2, <1>4, <2>1
    <3>7. RingEnds'
      <4>1. entries'[Slot(Pending - 1)'] = End
        BY <1>1, <1>2, <2>1, <2>3
      <4> QED  BY <1>1, <1>2, <1>4, <2>1, <3>2, <3>4, <4>1 DEF RingEnds
    <3>8. HandIsNext' /\ AllPrinted' /\ RingHolds'
      BY <1>1, <1>2, <1>4, <1>7, <2>1, <2>3, <3>1, <3>2 DEF HandIsNext, AllPrinted, RingHolds
    <3> QED  BY <1>3, <1>5, <3>7, <3>8 DEF LogInv
  <2> QED  BY <2>2, <2>3
<1> QED  BY <1>1, <1>5, <1>6, <1>7 DEF TypeOK

LEMMA PrintHolds ==
  ASSUME LogInv, PrintNext  PROVE LogInv'
<1>1. /\ TypeOK /\ worker = "printing" /\ worker' = "waiting"
      /\ printed' = Append(printed, cur)
      /\ UNCHANGED <<entries, size, head, tail, running, cur, state, accepted>>
  BY DEF LogInv, PrintNext
<1>2. cur = Len(printed) + 1 /\ Len(printed) < accepted /\ state # "paused"
      /\ Len(printed) \in Nat /\ accepted \in Nat
  BY <1>1 DEF LogInv, HandIsNext, AllPrinted, TypeOK
<1>3. printed' \in Seq(Nat) /\ Len(printed') = Len(printed) + 1
  <2>1. printed \in Seq(Nat) /\ cur \in Nat
    BY <1>1, <1>2 DEF TypeOK
  <2> QED  BY <1>1, <2>1
<1>4. /\ InHand = 1 /\ InHand' = 0 /\ Pending' = Pending /\ Pending \in Nat
      /\ \A i \in Int : Slot(i)' = Slot(i)
      /\ Slot(Pending - 1)' = Slot(Pending - 1)
  <2>1. Pending \in Nat
    BY <1>1, PendingFacts DEF TypeOK
  <2>2. InHand = 1 /\ InHand' = 0
    BY <1>1 DEF InHand
  <2> QED  BY <1>1, <2>1, <2>2 DEF Pending, Slot
<1>5. TypeOK'
  BY <1>1, <1>3 DEF TypeOK
<1>6. RingHolds'
  <2>1. state = "on" => Len(printed) + 1 + Pending = accepted
                        /\ \A i \in 0 .. Pending - 1 : entries[Slot(i)] = accepted - Pending + 1 + i
    BY <1>4 DEF LogInv, RingHolds
  <2> QED  BY <1>1, <1>2, <1>3, <1>4, <2>1 DEF RingHolds
<1>7. RingEnds'
  <2>1. state = "joining" /\ head # tail =>
          /\ Len(printed) + 1 + Pending - 1 = accepted /\ entries[Slot(Pending - 1)] = End
          /\ \A i \in 0 .. Pending - 2 : entries[Slot(i)] = accepted - Pending + 2 + i
    BY <1>1, <1>4 DEF LogInv, RingEnds
  <2> QED  BY <1>1, <1>2, <1>3, <1>4, <2>1 DEF RingEnds
<1>8. AllPrinted' /\ HandIsNext'
  BY <1>1, <1>2 DEF AllPrinted, HandIsNext
<1>9. running' = (state' = "on")
  BY <1>1 DEF LogInv
<1> QED  BY <1>5, <1>6, <1>7, <1>8, <1>9 DEF LogInv

(* pause(): the entry that ends the worker comes after the messages, or    *)
(* fills the ring, which then looks empty.                                 *)
LEMMA PauseHolds ==
  ASSUME LogInv, Pause  PROVE LogInv'
<1>1. /\ TypeOK /\ state = "on" /\ state' = "joining" /\ running' = FALSE
      /\ entries' = [entries EXCEPT ![tail] = End] /\ tail' = Succ(tail)
      /\ UNCHANGED <<size, head, worker, cur, accepted, printed>>
  BY DEF LogInv, Pause
<1>2. /\ worker # "ended" /\ Len(printed) + InHand + Pending = accepted
      /\ \A i \in 0 .. Pending - 1 : entries[Slot(i)] = accepted - Pending + 1 + i
  BY <1>1 DEF LogInv, RingHolds
<1>3. End \in Entry /\ InHand' = InHand /\ InHand \in Nat /\ Len(printed) \in Nat /\ accepted \in Nat
      /\ Pending \in Nat
  BY <1>1, PendingFacts DEF End, Entry, InHand, TypeOK
<1>4. TypeOK'
  <2>1. entries' \in [0 .. size - 1 -> Entry] /\ tail' \in 0 .. size - 1
    BY <1>1, <1>3 DEF TypeOK, Succ
  <2>2. running' \in BOOLEAN
    BY <1>1
  <2> QED  BY <1>1, <2>1, <2>2 DEF TypeOK
<1>5. RingEnds'
  <2>1. CASE Succ(tail) = head
    BY <1>1, <2>1 DEF RingEnds
  <2>2. CASE Succ(tail) # head
    <3>1. /\ Pending' = Pending + 1
          /\ \A i \in 0 .. Pending :
               entries'[Slot(i)'] = IF i = Pending THEN End ELSE entries[Slot(i)]
      BY <1>1, <1>3, <2>2, AppendFacts
    <3>2. Slot(Pending - 1)' = Slot(Pending)
      BY <1>1, <1>3, <3>1 DEF Slot
    <3>3. entries'[Slot(Pending - 1)'] = End
      <4>1. entries'[tail] = End
        BY <1>1 DEF TypeOK
      <4>2. Slot(Pending) = tail
        BY <1>1, PendingFacts
      <4> QED  BY <3>2, <4>1, <4>2
    <3>4. \A i \in 0 .. Pending' - 2 : entries'[Slot(i)'] = accepted' - Pending' + 2 + i
      BY <1>1, <1>2, <1>3, <3>1
    <3>5. Len(printed') + InHand' + Pending' - 1 = accepted'
      BY <1>1, <1>2, <1>3, <3>1
    <3> QED  BY <3>3, <3>4, <3>5 DEF RingEnds
  <2> QED  BY <2>1, <2>2
<1>6. RingHolds' /\ AllPrinted' /\ HandIsNext' /\ running' = (state' = "on")
  BY <1>1, <1>2 DEF RingHolds, AllPrinted, HandIsNext, LogInv
<1> QED  BY <1>4, <1>5, <1>6 DEF LogInv

(* join() and resume() move nothing.                                       *)
LEMMA JoinHolds ==
  ASSUME LogInv, Joined \/ Resume  PROVE LogInv'
<1>1. /\ UNCHANGED <<entries, size, head, tail, cur, accepted, printed>>
      /\ TypeOK /\ worker = "ended" /\ head = tail /\ Len(printed) = accepted
  BY DEF LogInv, AllPrinted, Joined, Resume
<1>2. Pending = 0 /\ Pending' = 0 /\ accepted \in Nat
  BY <1>1 DEF Pending, TypeOK
<1>3. CASE Joined
  <2>1. state' = "paused" /\ UNCHANGED <<running, worker>> /\ state = "joining"
    BY <1>3 DEF Joined
  <2>2. running = FALSE
    BY <2>1 DEF LogInv
  <2>3. running' = (state' = "on")
    BY <2>1, <2>2
  <2> QED  BY <1>1, <1>2, <2>1, <2>3
           DEF LogInv, TypeOK, RingHolds, RingEnds, AllPrinted, HandIsNext
<1>4. CASE Resume
  <2>1. state' = "on" /\ running' = TRUE /\ worker' = "waiting"
    BY <1>4 DEF Resume
  <2>2. InHand' = 0 /\ running' = (state' = "on")
    BY <2>1 DEF InHand
  <2>3. TypeOK'
    BY <1>1, <2>1 DEF TypeOK
  <2> QED  BY <1>1, <1>2, <2>1, <2>2, <2>3
           DEF LogInv, RingHolds, RingEnds, AllPrinted, HandIsNext
<1> QED  BY <1>3, <1>4

LEMMA LogInvHolds == Spec => []LogInv
<1>1. ASSUME LogInv, UNCHANGED vars  PROVE LogInv'
  BY <1>1 DEF LogInv, vars, TypeOK, RingHolds, RingEnds, AllPrinted, HandIsNext, InHand, Pending, Slot
<1>2. LogInv /\ [Next]_vars => LogInv'
  BY <1>1, AddHolds, TakeHolds, PrintHolds, PauseHolds, JoinHolds DEF Next
<1> QED  BY <1>2, InitHolds, PTL DEF Spec

---------------------------------------------------------------------------

(* Every index stays inside the ring and every entry is a message, the end *)
(* or unused, whatever the size of the ring and however often it grows.    *)
THEOREM TypeCorrect == Spec => []TypeOK
<1>1. LogInv => TypeOK
  BY DEF LogInv
<1> QED  BY <1>1, LogInvHolds, PTL

(* The ring keeps the messages in order across any wrap around and growth. *)
THEOREM RingIsOrdered == Spec => []OldestFirst
<1>1. LogInv => OldestFirst
  BY DEF LogInv, RingHolds, OldestFirst
<1> QED  BY <1>1, LogInvHolds, PTL

(* The log implements LogStream: it prints the messages in order, each one *)
(* once, and all of them before pause() returns.                           *)
THEOREM LogImplementsStream == Spec => PrintsInOrder
<1>1. Init => Stream!Init
  BY DEF Init, Stream!Init
<1>2. LogInv /\ [Next]_vars => [Stream!Next]_(Stream!vars)
  <2> SUFFICES ASSUME LogInv, [Next]_vars  PROVE [Stream!Next]_(Stream!vars)
    OBVIOUS
  <2>1. CASE Add
    BY <2>1 DEF Add, LogInv, Stream!Next, Stream!Accept
  <2>2. CASE Take
    BY <2>2 DEF Take, Stream!vars
  <2>3. CASE PrintNext
    BY <2>3 DEF PrintNext, LogInv, HandIsNext, Stream!Next, Stream!PrintNext
  <2>4. CASE Pause
    BY <2>4 DEF Pause, Stream!Next, Stream!Close
  <2>5. CASE Joined
    BY <2>5 DEF Joined, LogInv, AllPrinted, Stream!Next, Stream!Closed
  <2>6. CASE Resume
    BY <2>6 DEF Resume, Stream!Next, Stream!Open
  <2>7. CASE UNCHANGED vars
    BY <2>7 DEF vars, Stream!vars
  <2> QED  BY <2>1, <2>2, <2>3, <2>4, <2>5, <2>6, <2>7 DEF Next
<1> QED  BY <1>1, <1>2, LogInvHolds, PTL DEF Spec, PrintsInOrder, Stream!Spec
=============================================================================
