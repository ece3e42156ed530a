--------------------------- MODULE DownloadService ---------------------------
(***************************************************************************)
(* What the download manager promises to the threads which call            *)
(* Manager::download: nothing of queues, slots, processes and messages.    *)
(*                                                                         *)
(* A URI gets one result, for everybody who asks for it.  An entity is     *)
(* answered once; "ok" needs a complete file behind one of its URIs, put   *)
(* there for this entity, or for another one with that URI whose call was  *)
(* content with it; such a file is not taken away any more.  A call ends   *)
(* when all its entities are answered, or is lost.                         *)
(***************************************************************************)
EXTENDS Integers, Sequences

CONSTANTS
  Client, Entity, Uri,
  Owner,       \* Owner[e]: the call which passed entity e
  Uris         \* Uris[e]: the URIs of e, in the order in which they are tried

VARIABLES
  call,        \* client -> where its call is
  files,       \* entities with a complete file at their target path
  result,      \* URI -> its final result
  answer       \* entity -> what the call learnt about it

serviceVars == <<call, files, result, answer>>

Outcome == {"ok", "error"}
Offers(e, u) == \E i \in DOMAIN Uris[e] : Uris[e][i] = u

Init ==
  /\ call = [c \in Client |-> "idle"]
  /\ files = {}
  /\ result = [u \in Uri |-> "none"]
  /\ answer = [e \in Entity |-> "none"]

Begin(c) ==
  /\ call[c] = "idle"
  /\ call' = [call EXCEPT ![c] = "working"]
  /\ UNCHANGED <<files, result, answer>>

Place(e) ==
  /\ answer[e] = "none"
  /\ files' = files \cup {e}
  /\ UNCHANGED <<call, result, answer>>

\* The performer told a size which is not the expected one.
Discard(e) ==
  /\ answer[e] # "ok"
  /\ files' = files \ {e}
  /\ UNCHANGED <<call, result, answer>>

\* Others hear of a success only after the call which downloaded the file, and
\* verified it in its post action, was content with it.
Settle(u, r) ==
  /\ result[u] = "none"
  /\ r = "ok" => \E f \in files : Offers(f, u) /\ answer[f] = "ok"
  /\ result' = [result EXCEPT ![u] = r]
  /\ UNCHANGED <<call, files, answer>>

\* The last URI decides about a failure, any of them about a success.
Answer(e, r) ==
  /\ call[Owner[e]] = "working"
  /\ answer[e] = "none"
  /\ r = "ok" =>
       \E u \in Uri : /\ Offers(e, u)
                      /\ \/ result[u] = "ok"
                         \/ result[u] = "none" /\ e \in files
  /\ r = "error" =>
       \A i \in 1..(Len(Uris[e]) - 1) : result[Uris[e][i]] # "ok"
  /\ answer' = [answer EXCEPT ![e] = r]
  /\ UNCHANGED <<call, files, result>>

Return(c) ==
  /\ call[c] = "working"
  /\ \A e \in Entity : Owner[e] = c => answer[e] # "none"
  /\ call' = [call EXCEPT ![c] = "returned"]
  /\ UNCHANGED <<files, result, answer>>

\* The worker has gone, or the process of the client.
Lose(c) ==
  /\ call[c] = "working"
  /\ call' = [call EXCEPT ![c] = "lost"]
  /\ UNCHANGED <<files, result, answer>>

ServiceNext ==
  \/ \E c \in Client : Begin(c) \/ Return(c) \/ Lose(c)
  \/ \E e \in Entity : Place(e) \/ Discard(e)
  \/ \E u \in Uri, r \in Outcome : Settle(u, r)
  \/ \E e \in Entity, r \in Outcome : Answer(e, r)

ServiceSpec == Init /\ [][ServiceNext]_serviceVars
=============================================================================
