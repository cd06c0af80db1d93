------------------------------ MODULE LogQueue ------------------------------
(***************************************************************************)
(* The log of llama.cpp (common/log.cpp): messages go through a ring       *)
(* buffer, which grows when it is full, to a worker thread that prints     *)
(* them; pause() stops the worker and resume() starts another one.  A      *)
(* message is its number.  The server pauses and resumes the log from one  *)
(* thread, around the lines that it writes for its router.                 *)
(***************************************************************************)
EXTENDS Integers, Sequences

CONSTANTS
  Capacity,     \* entries of the buffer at first
  MaxMessages   \* bound: messages that are accepted

ASSUME LogAssumption == Capacity \in Nat \ {0} /\ MaxMessages \in Nat

VARIABLES
  entries,      \* the ring buffer, a function on 0 .. size - 1
  size, head, tail,
  running,
  worker,       \* the worker thread: "waiting", "printing" or "ended"
  cur,          \* the entry that the worker has copied
  state,        \* the thread that pauses: "on", "joining" or "paused"
  accepted, printed

vars == <<entries, size, head, tail, running, worker, cur, state, accepted, printed>>

(* An entry is a message, or End when is_end is set; Unused at first.      *)
End    == 0
Unused == -1
Entry  == Nat \cup {Unused}

Init ==
  /\ size = Capacity /\ entries = [i \in 0 .. Capacity - 1 |-> Unused]
  /\ head = 0 /\ tail = 0
  /\ running = TRUE /\ worker = "waiting" /\ cur = Unused
  /\ state = "on" /\ accepted = 0 /\ printed = <<>>

(* (i + 1) % size                                                          *)
Succ(i) == IF i + 1 = size THEN 0 ELSE i + 1

(* The i-th entry from head on.                                            *)
Slot(i) == IF head + i < size THEN head + i ELSE head + i - size

(* Mutant: a full buffer is enlarged where it is, from its index 0 on.     *)
AddEnlarges ==
  LET written == [entries EXCEPT ![tail] = accepted + 1]
  IN /\ running /\ accepted < MaxMessages
     /\ accepted' = accepted + 1
     /\ IF Succ(tail) = head
        THEN /\ size' = 2 * size
             /\ entries' = [i \in 0 .. 2 * size - 1 |-> IF i < size THEN written[i] ELSE Unused]
             /\ head' = 0 /\ tail' = size
        ELSE /\ entries' = written /\ tail' = Succ(tail)
             /\ UNCHANGED <<size, head>>
     /\ UNCHANGED <<running, worker, cur, state, printed>>

(* Mutant: the buffer does not grow.                                       *)
AddWithoutGrowth ==
  /\ running /\ accepted < MaxMessages
  /\ accepted' = accepted + 1
  /\ entries' = [entries EXCEPT ![tail] = accepted + 1] /\ tail' = Succ(tail)
  /\ UNCHANGED <<size, head, running, worker, cur, state, printed>>

(* add(), which discards the message when the log does not run.  When the  *)
(* buffer is full its entries move to the first half of a new one.         *)
Add ==
  LET written == [entries EXCEPT ![tail] = accepted + 1]
  IN /\ running /\ accepted < MaxMessages
     /\ accepted' = accepted + 1
     /\ IF Succ(tail) = head
        THEN /\ size' = 2 * size
             /\ entries' = [i \in 0 .. 2 * size - 1 |-> IF i < size THEN written[Slot(i)] ELSE Unused]
             /\ head' = 0 /\ tail' = size
        ELSE /\ entries' = written /\ tail' = Succ(tail)
             /\ UNCHANGED <<size, head>>
     /\ UNCHANGED <<running, worker, cur, state, printed>>

(* The worker thread: it takes an entry under the lock ...                 *)
Take ==
  /\ worker = "waiting" /\ head # tail
  /\ cur' = entries[head]
  /\ head' = Succ(head)
  /\ worker' = IF entries[head] = End THEN "ended" ELSE "printing"
  /\ UNCHANGED <<entries, size, tail, running, state, accepted, printed>>

(* ... and prints it without.                                              *)
PrintNext ==
  /\ worker = "printing"
  /\ printed' = Append(printed, cur)
  /\ worker' = "waiting"
  /\ UNCHANGED <<entries, size, head, tail, running, cur, state, accepted>>

(* Mutant: pause() does not push the entry that ends the worker.           *)
PauseUnsignalled ==
  /\ state = "on"
  /\ running' = FALSE /\ state' = "joining"
  /\ UNCHANGED <<entries, size, head, tail, worker, cur, accepted, printed>>

(* pause(): "push an entry to signal the worker thread to stop", whether   *)
(* there is room for it or not, and join the worker.                       *)
Pause ==
  /\ state = "on"
  /\ running' = FALSE /\ state' = "joining"
  /\ entries' = [entries EXCEPT ![tail] = End]
  /\ tail' = Succ(tail)
  /\ UNCHANGED <<size, head, worker, cur, accepted, printed>>

(* Mutant: pause() does not wait for the worker.                           *)
JoinedAtOnce ==
  /\ state = "joining"
  /\ state' = "paused"
  /\ UNCHANGED <<entries, size, head, tail, running, worker, cur, accepted, printed>>

Joined ==
  /\ state = "joining" /\ worker = "ended"
  /\ state' = "paused"
  /\ UNCHANGED <<entries, size, head, tail, running, worker, cur, accepted, printed>>

Resume ==
  /\ state = "paused"
  /\ running' = TRUE /\ worker' = "waiting" /\ state' = "on"
  /\ UNCHANGED <<entries, size, head, tail, cur, accepted, printed>>

Next == Add \/ Take \/ PrintNext \/ Pause \/ Joined \/ Resume

Spec == Init /\ [][Next]_vars

(* The worker runs, and join() returns; messages, pauses and resumes come  *)
(* when they like.                                                         *)
FairSpec == Spec /\ WF_vars(Take \/ PrintNext) /\ WF_vars(Joined)

---------------------------------------------------------------------------
(* Properties.                                                             *)

TypeOK ==
  /\ size \in Nat \ {0} /\ entries \in [0 .. size - 1 -> Entry]
  /\ head \in 0 .. size - 1 /\ tail \in 0 .. size - 1
  /\ running \in BOOLEAN
  /\ worker \in {"waiting", "printing", "ended"} /\ cur \in Entry
  /\ state \in {"on", "joining", "paused"}
  /\ accepted \in Nat /\ printed \in Seq(Nat)

(* Number of entries from head to tail.                                    *)
Pending == IF head <= tail THEN tail - head ELSE tail + size - head

(* The ring holds the messages that were accepted and not taken, in order, *)
(* across any wrap around and growth: what is printed next is the oldest.  *)
OldestFirst ==
  state = "on" => \A i \in 0 .. Pending - 1 : entries[Slot(i)] = accepted - Pending + 1 + i

(* The log prints as LogStream says: in order, nothing twice, and when     *)
(* pause() has returned every message that was accepted is printed.        *)
Stream == INSTANCE LogStream
PrintsInOrder == Stream!Spec

(* Every message is printed, unless the log hangs in pause().              *)
MessagesPrinted ==
  \A n \in 1 .. MaxMessages :
    (accepted = n /\ state = "on") ~> (Len(printed) >= n \/ state = "joining")

(* pause() returns when there is an entry left for the worker, the one     *)
(* that ends it being the last.  add() grows a full buffer and pause()     *)
(* does not: when its entry fills the buffer up, the buffer looks empty,   *)
(* and pause() waits for ever (README, section 5).                         *)
PauseReturns == (state = "joining" /\ head # tail) ~> (state = "paused")
=============================================================================
