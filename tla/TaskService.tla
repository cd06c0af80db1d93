---------------------------- MODULE TaskService ----------------------------
(***************************************************************************)
(* What the server promises to its clients, without its queues, its slots  *)
(* and its threads: a task that was posted is answered once, at most       *)
(* Capacity tasks run at the same time, and a task ends without an answer  *)
(* only when its client is gone or when an error was answered in its       *)
(* place.  ServerQueue implements this specification.                      *)
(***************************************************************************)
EXTENDS Integers, FiniteSets

CONSTANTS
  Clients,   \* the requests
  Jobs,      \* the tasks of all requests
  Owned,     \* Owned[r]: the tasks of request r
  Capacity   \* how many tasks can run at the same time

VARIABLES client, status

serviceVars == <<client, status>>

Waiting == {t \in Jobs : status[t] = "waiting"}
Running == {t \in Jobs : status[t] = "running"}

SetStatus(T, value) ==
  status' = [t \in Jobs |-> IF t \in T THEN value ELSE status[t]]

ServiceInit ==
  /\ client = [r \in Clients |-> "new"]
  /\ status = [t \in Jobs |-> "none"]

(* A client posts all the tasks of its request.                            *)
Submit(r) ==
  /\ client[r] = "new"
  /\ client' = [client EXCEPT ![r] = "open"]
  /\ SetStatus(Owned[r], "waiting")

(* The client has everything it wants, failed, or closed its connection.   *)
Leave(r) ==
  /\ client[r] = "open"
  /\ client' = [client EXCEPT ![r] = "gone"]
  /\ UNCHANGED status

(* Tasks that wait start together, when all of them find room.             *)
Start(T) ==
  /\ T # {} /\ T \subseteq Waiting
  /\ Cardinality(Running \cup T) <= Capacity
  /\ SetStatus(T, "running")
  /\ UNCHANGED client

(* The answer, a result or an error, to one task.                          *)
Answer(t) ==
  /\ t \in Waiting \cup Running
  /\ SetStatus({t}, "answered")
  /\ UNCHANGED client

(* One error, sent for t, refuses the waiting tasks T of one request.      *)
Refuse(t, T) ==
  /\ t \in T /\ T \subseteq Waiting
  /\ \E r \in Clients : T \subseteq Owned[r]
  /\ status' = [u \in Jobs |-> IF u = t THEN "answered"
                               ELSE IF u \in T THEN "dropped" ELSE status[u]]
  /\ UNCHANGED client

(* Tasks of clients that are gone end without an answer.                   *)
Drop(T) ==
  /\ T # {} /\ T \subseteq Waiting \cup Running
  /\ \A t \in T : \E r \in Clients : client[r] = "gone" /\ t \in Owned[r]
  /\ SetStatus(T, "dropped")
  /\ UNCHANGED client

ServiceNext ==
  \/ \E r \in Clients : Submit(r) \/ Leave(r)
  \/ \E t \in Jobs : Answer(t)
  \/ \E T \in SUBSET Jobs : Start(T) \/ Drop(T) \/ \E t \in T : Refuse(t, T)

ServiceSpec == ServiceInit /\ [][ServiceNext]_serviceVars
=============================================================================
